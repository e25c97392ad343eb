---------------------- MODULE DeviceVerificationProofs ----------------------
(***************************************************************************)
(* For any number of verifications in both directions: every state is      *)
(* well-typed, the caller of verify_device is told one outcome, and a      *)
(* comparison is used for its own verification as long as none overlaps    *)
(* another.                                                                *)
(***************************************************************************)
EXTENDS DeviceVerification, FiniteSetTheorems, TLAPS

Phase == {"none", "requested", "ready", "started", "keys", "confirmed"} \cup Over
Requester ==
    {"none", "accepting", "requesting", "subscribing", "watching", "starting", "ended", "failed"}
Event == {"Requested", "Done", "Cancelled"}
Response == [of : Verification, confirmed : BOOLEAN]

(* The part of TypeOK that the theorems need.                              *)
Typed ==
    /\ phase \in [Verification -> Phase]
    /\ outgoing \subseteq Verification
    /\ requester \in [Verification -> Requester]
    /\ sasSeen \in [Verification -> SasState \cup {None}]
    /\ waiter \in [Verification -> {"none", "emitting", "locking", "queued", "ended"}]
    /\ lockQueue \in Seq(Verification)
    /\ shown \in Verification \cup {None}
    /\ responses \in Seq(Response)
    /\ status \in [Verification -> Seq(Event)]

(* A verification begins once, on one side, and is not in the SDK before;  *)
(* only one that verify_device has begun reports, and starts a SAS         *)
(* exchange; and none is in the SDK yet while verify_device asks for it.   *)
BegunOnce ==
    /\ \A v \in Verification : requester[v] = "none" => phase[v] = "none" /\ v \notin outgoing
    /\ \A v \in Verification : requester[v] = "requesting" => phase[v] = "none"
    /\ \A v \in Verification \ outgoing : status[v] = <<>> /\ requester[v] # "starting"

IInv == Typed /\ BegunOnce /\ OutcomeIsReportedOnce

----------------------------------------------------------------------------
(* Types.                                                                  *)

LEMMA BecomesType ==
    ASSUME Typed, NEW v \in Verification, NEW p \in Phase, Becomes(v, p)
    PROVE /\ phase' \in [Verification -> Phase]
          /\ phase'[v] = p
          /\ \A u \in Verification \ {v} : phase'[u] = phase[u]
BY DEF Typed, Becomes

LEMMA ReportType ==
    ASSUME Typed, NEW v \in Verification, NEW e \in Event, Report(v, e)
    PROVE status' \in [Verification -> Seq(Event)]
BY DEF Typed, Report

LEMMA InitIInv == Init => IInv
<1> SUFFICES ASSUME Init PROVE IInv
  OBVIOUS
<1>1. Typed
  BY VerificationAssumption DEF Init, Typed, Phase, Requester
<1>2. BegunOnce /\ OutcomeIsReportedOnce
  BY DEF Init, BegunOnce, OutcomeIsReportedOnce
<1> QED BY <1>1, <1>2 DEF IInv

----------------------------------------------------------------------------
(* What is reported.                                                       *)

Outcomes(s) == {i \in DOMAIN s : IsOutcome(s[i])}

Told(v) == Outcomes(status[v]) = IF requester[v] = "ended" THEN {Len(status[v])} ELSE {}

LEMMA OutcomeIsTold == OutcomeIsReportedOnce <=> \A v \in outgoing : Told(v)
BY DEF OutcomeIsReportedOnce, Told, Outcomes

LEMMA AppendOutcome ==
    ASSUME NEW s \in Seq(Event), NEW e \in Event, Outcomes(s) = {}
    PROVE Outcomes(Append(s, e)) = IF IsOutcome(e) THEN {Len(Append(s, e))} ELSE {}
<1>1. /\ Append(s, e) \in Seq(Event) /\ DOMAIN Append(s, e) = 1 .. Len(s) + 1
      /\ Len(Append(s, e)) = Len(s) + 1 /\ Append(s, e)[Len(s) + 1] = e
      /\ \A i \in DOMAIN s : Append(s, e)[i] = s[i]
  OBVIOUS
<1>2. \A i \in 1 .. Len(s) + 1 : i \in Outcomes(Append(s, e)) <=> i = Len(s) + 1 /\ IsOutcome(e)
  BY <1>1 DEF Outcomes
<1>3. Outcomes(Append(s, e)) \subseteq 1 .. Len(s) + 1
  BY <1>1 DEF Outcomes
<1> QED BY <1>1, <1>2, <1>3

(* Whoever is not begun or not in the SDK after a step was so before it,   *)
(* and the SDK has left it alone.                                          *)
NotBegun(v) == requester[v] \in {"none", "requesting"}
SameBeginning ==
    \A v \in Verification :
        NotBegun(v)' => requester'[v] = requester[v] /\ (phase'[v] = phase[v] \/ phase[v] # "none")

LEMMA NobodyBegins ==
    ASSUME NEW v \in Verification, ~NotBegun(v)',
           \A u \in Verification \ {v} : requester'[u] = requester[u] /\ phase'[u] = phase[u]
    PROVE SameBeginning
BY DEF SameBeginning, NotBegun

(* Steps that begin, report and end nothing.                               *)
LEMMA QuietStep ==
    ASSUME IInv, Typed', outgoing' = outgoing, status' = status, SameBeginning,
           \A v \in outgoing : requester'[v] = "ended" <=> requester[v] = "ended",
           \A v \in Verification \ outgoing : requester[v] # "starting" => requester'[v] # "starting"
    PROVE IInv'
<1>1. BegunOnce'
  BY DEF IInv, BegunOnce, SameBeginning, NotBegun, Typed
<1>2. ASSUME NEW v \in outgoing PROVE Told(v)'
  BY OutcomeIsTold DEF IInv, Told, Outcomes
<1>3. OutcomeIsReportedOnce'
  BY <1>2 DEF OutcomeIsReportedOnce, Told, Outcomes
<1> QED BY <1>1, <1>3 DEF IInv

(* Steps in which the caller of one verification is told something.        *)
LEMMA ReportStep ==
    ASSUME IInv, Typed', outgoing' = outgoing, NEW v \in outgoing, NEW e \in Event, Report(v, e),
           SameBeginning,
           requester[v] # "ended", requester'[v] = "ended" <=> IsOutcome(e),
           \A u \in Verification \ {v} : requester'[u] = requester[u]
    PROVE IInv'
<1>1. v \in Verification /\ status[v] \in Seq(Event)
  BY DEF IInv, Typed
<1>2. status'[v] = Append(status[v], e) /\ \A u \in Verification \ {v} : status'[u] = status[u]
  BY <1>1 DEF Report, IInv, Typed
<1>3. BegunOnce'
  BY <1>2 DEF IInv, BegunOnce, SameBeginning, NotBegun, Typed
<1>4. ASSUME NEW u \in outgoing PROVE Told(u)'
  <2>1. Told(u)
    BY OutcomeIsTold DEF IInv
  <2>2. CASE u = v
    <3>1. Outcomes(status[v]) = {}
      BY <2>1, <2>2 DEF Told
    <3>2. Outcomes(status'[v]) = IF IsOutcome(e) THEN {Len(status'[v])} ELSE {}
      BY <1>1, <1>2, <3>1, AppendOutcome
    <3> QED BY <2>2, <3>2 DEF Told, Outcomes
  <2>3. CASE u # v
    <3>1. status'[u] = status[u] /\ requester'[u] = requester[u]
      BY <1>2, <2>3 DEF IInv, Typed
    <3> QED BY <2>1, <3>1 DEF Told, Outcomes
  <2> QED BY <2>2, <2>3
<1>5. OutcomeIsReportedOnce'
  BY <1>4 DEF OutcomeIsReportedOnce, Told, Outcomes
<1> QED BY <1>3, <1>5 DEF IInv

----------------------------------------------------------------------------

LEMMA OtherDeviceStep ==
    ASSUME IInv, NEW v \in Verification, OtherDevice(v)
    PROVE IInv'
<1> USE DEF requesterVars, handlerVars, waiterVars, userVars
<1>1. PICK p \in {"ready", "started", "keys", "done", "cancelled"} : Becomes(v, p) /\ phase[v] # "none"
  BY DEF OtherDevice, Active
<1>2. p \in Phase /\ p # "none"
  BY DEF Phase, Over
<1>3. Typed'
  BY <1>1, <1>2, BecomesType DEF IInv, OtherDevice, Typed
<1>4. SameBeginning
  BY <1>1, <1>2, BecomesType DEF IInv, OtherDevice, SameBeginning, NotBegun
<1> QED BY <1>3, <1>4, QuietStep DEF OtherDevice

(* A verification begins on either side.                                   *)
LEMMA BeginStep ==
    ASSUME IInv, NEW v \in Verification, IncomingRequest(v) \/ VerifyDevice(v)
    PROVE IInv'
<1> USE DEF sdkVars, requesterVars, handlerVars, waiterVars, userVars, history, Return
<1>1. v \notin outgoing /\ phase[v] = "none" /\ status[v] = <<>> /\ status' = status
  BY DEF IInv, BegunOnce, IncomingRequest, VerifyDevice
<1>2. CASE IncomingRequest(v)
  <2>1. "requested" \in Phase /\ Becomes(v, "requested")
    BY <1>2 DEF Phase, IncomingRequest
  <2>2. Typed'
    BY <1>2, <2>1, BecomesType DEF IInv, IncomingRequest, Typed, Requester
  <2>3. /\ requester'[v] = "accepting"
        /\ \A u \in Verification \ {v} : requester'[u] = requester[u]
    BY <1>2 DEF IncomingRequest, IInv, Typed
  <2>4. SameBeginning
    BY <2>1, <2>3, BecomesType, NobodyBegins DEF IInv, NotBegun
  <2>5. /\ \A u \in outgoing : requester'[u] = requester[u]
        /\ \A u \in Verification : requester'[u] = "starting" => requester[u] = "starting"
    BY <1>1, <2>3 DEF IInv, Typed
  <2>6. outgoing' = outgoing
    BY <1>2 DEF IncomingRequest
  <2> QED BY <1>1, <2>2, <2>4, <2>5, <2>6, QuietStep
<1>3. CASE VerifyDevice(v)
  <2>1. /\ outgoing' = outgoing \cup {v} /\ requester'[v] = "requesting" /\ phase' = phase
        /\ \A u \in Verification \ {v} : requester'[u] = requester[u]
    BY <1>3 DEF VerifyDevice, IInv, Typed
  <2>2. Typed'
    BY <1>3 DEF VerifyDevice, IInv, Typed, Requester
  <2>3. BegunOnce'
    BY <1>1, <2>1 DEF IInv, BegunOnce, Typed
  <2>4. ASSUME NEW u \in outgoing' PROVE Told(u)'
    <3>1. CASE u = v
      BY <1>1, <2>1, <3>1 DEF Told, Outcomes
    <3>2. CASE u # v
      <4>1. u \in outgoing /\ requester'[u] = requester[u]
        BY <2>1, <3>2 DEF IInv, Typed
      <4> QED BY <1>1, <4>1, OutcomeIsTold DEF IInv, Told, Outcomes
    <3> QED BY <3>1, <3>2
  <2>5. OutcomeIsReportedOnce'
    BY <2>4 DEF OutcomeIsReportedOnce, Told, Outcomes
  <2> QED BY <2>2, <2>3, <2>5 DEF IInv
<1> QED BY <1>2, <1>3

----------------------------------------------------------------------------
(* The requester, action by action.                                        *)

(* A request is accepted or made, with or without success.                 *)
LEMMA RequestStep ==
    ASSUME IInv, NEW v \in Verification, AcceptRequest(v) \/ RequestDevice(v)
    PROVE IInv'
<1> USE DEF requesterVars, handlerVars, waiterVars, userVars, history, Return
<1>1. /\ phase' \in [Verification -> Phase]
      /\ \A u \in Verification \ {v} : phase'[u] = phase[u]
  <2>1. "ready" \in Phase /\ "requested" \in Phase
    BY DEF Phase
  <2>2. CASE Becomes(v, "ready") \/ Becomes(v, "requested")
    BY <2>1, <2>2, BecomesType DEF IInv
  <2>3. CASE UNCHANGED phase
    BY <2>3 DEF IInv, Typed
  <2> QED BY <2>2, <2>3 DEF AcceptRequest, RequestDevice
<1>2. PICK how \in {"subscribing", "failed"} : requester' = [requester EXCEPT ![v] = how]
  BY DEF AcceptRequest, RequestDevice
<1>3. /\ requester' \in [Verification -> Requester] /\ requester'[v] = how
      /\ \A u \in Verification \ {v} : requester'[u] = requester[u]
  BY <1>2 DEF IInv, Typed, Requester
<1>4. /\ requester[v] \in {"accepting", "requesting"}
      /\ UNCHANGED <<outgoing, status, handlerVars, waiterVars, userVars>>
  BY DEF AcceptRequest, RequestDevice
<1>5. Typed'
  BY <1>1, <1>3, <1>4 DEF IInv, Typed
<1>6. SameBeginning
  BY <1>1, <1>3, NobodyBegins DEF NotBegun
<1>7. /\ \A u \in outgoing : requester'[u] = "ended" <=> requester[u] = "ended"
      /\ \A u \in Verification : requester'[u] = "starting" => requester[u] = "starting"
  BY <1>3, <1>4 DEF IInv, Typed
<1> QED BY <1>4, <1>5, <1>6, <1>7, QuietStep

LEMMA SubscribeStep ==
    ASSUME IInv, NEW v \in Verification, SubscribeRequest(v)
    PROVE IInv'
<1> USE DEF sdkVars, requesterVars, handlerVars, waiterVars, userVars, history, Return
<1>1. /\ requester[v] = "subscribing" /\ requester'[v] = "watching" /\ phase' = phase
      /\ \A u \in Verification \ {v} : requester'[u] = requester[u]
  BY DEF SubscribeRequest, IInv, Typed
<1>2. Typed'
  BY DEF SubscribeRequest, IInv, Typed, Requester
<1>3. SameBeginning
  BY <1>1, NobodyBegins DEF NotBegun
<1>4. /\ \A u \in outgoing : requester'[u] = "ended" <=> requester[u] = "ended"
      /\ \A u \in Verification : requester'[u] = "starting" => requester[u] = "starting"
  BY <1>1 DEF IInv, Typed
<1> QED BY <1>2, <1>3, <1>4, QuietStep DEF SubscribeRequest

LEMMA IncomingStep ==
    ASSUME IInv, NEW v \in Verification, WatchIncoming(v)
    PROVE IInv'
<1> USE DEF sdkVars, requesterVars, handlerVars, waiterVars, userVars, history, News
<1>1. Typed'
  BY DEF WatchIncoming, IInv, Typed, Requester
<1>2. /\ \A u \in outgoing : requester'[u] = requester[u]
      /\ \A u \in Verification : requester'[u] = "starting" => requester[u] = "starting"
      /\ requester'[v] \in {"watching", "ended"} /\ phase' = phase
      /\ \A u \in Verification \ {v} : requester'[u] = requester[u]
  BY DEF WatchIncoming, IInv, Typed
<1>3. SameBeginning
  BY <1>2, NobodyBegins DEF NotBegun
<1> QED BY <1>1, <1>2, <1>3, QuietStep DEF WatchIncoming

LEMMA WatchStep ==
    ASSUME IInv, NEW v \in Verification,
           WatchProgress(v) \/ WatchReady(v) \/ WatchOutcome(v)
    PROVE IInv'
<1> USE DEF sdkVars, handlerVars, waiterVars, userVars, history, News, Return
<1>1. CASE WatchProgress(v)
  <2>1. Report(v, "Requested") /\ "Requested" \in Event /\ ~IsOutcome("Requested")
    BY <1>1 DEF WatchProgress, Event, IsOutcome
  <2>2. Typed'
    BY <1>1, <2>1, ReportType DEF WatchProgress, IInv, Typed
  <2>3. SameBeginning
    BY <1>1 DEF WatchProgress, SameBeginning
  <2> QED BY <1>1, <2>1, <2>2, <2>3, ReportStep DEF WatchProgress
<1>2. CASE WatchReady(v)
  <2>1. Typed'
    BY <1>2 DEF WatchReady, IInv, Typed, Requester
  <2>2. /\ \A u \in outgoing : requester'[u] = "ended" <=> requester[u] = "ended"
        /\ \A u \in Verification \ outgoing : requester'[u] = requester[u]
        /\ requester'[v] = "starting" /\ phase' = phase
        /\ \A u \in Verification \ {v} : requester'[u] = requester[u]
    BY <1>2 DEF WatchReady, IInv, Typed
  <2>3. SameBeginning
    BY <2>2, NobodyBegins DEF NotBegun
  <2> QED BY <1>2, <2>1, <2>2, <2>3, QuietStep DEF WatchReady
<1>3. CASE WatchOutcome(v)
  <2> DEFINE e == RequestStateOf(v)
  <2>1. Report(v, e) /\ e \in Event /\ IsOutcome(e)
    BY <1>3 DEF WatchOutcome, Event, IsOutcome
  <2>2. Typed'
    BY <1>3, <2>1, ReportType DEF WatchOutcome, IInv, Typed, Requester
  <2>3. requester'[v] = "ended" /\ \A u \in Verification \ {v} : requester'[u] = requester[u]
    BY <1>3 DEF WatchOutcome, IInv, Typed
  <2>4. SameBeginning
    BY <1>3, <2>3, NobodyBegins DEF WatchOutcome, NotBegun
  <2> HIDE DEF e
  <2> QED BY <1>3, <2>1, <2>2, <2>3, <2>4, ReportStep DEF WatchOutcome
<1> QED BY <1>1, <1>2, <1>3

LEMMA CancelStep ==
    ASSUME IInv, NEW v \in outgoing, requester[v] \in {"watching", "starting"}, Cancel(v)
    PROVE IInv'
<1> USE DEF sdkVars, handlerVars, waiterVars, userVars, history, Return
<1>1. v \in Verification
  BY DEF IInv, Typed
<1>2. /\ phase' \in [Verification -> Phase]
      /\ \A u \in Verification \ {v} : phase'[u] = phase[u]
  <2>1. "cancelled" \in Phase
    BY DEF Phase, Over
  <2>2. CASE Becomes(v, "cancelled")
    BY <1>1, <2>1, <2>2, BecomesType DEF IInv, Typed
  <2>3. CASE phase' = phase
    BY <2>3 DEF IInv, Typed
  <2> QED BY <2>2, <2>3 DEF Cancel
<1>3. CASE Report(v, "Cancelled") /\ Return(v, "ended")
  <2>1. "Cancelled" \in Event /\ IsOutcome("Cancelled")
    BY DEF Event, IsOutcome
  <2>2. Typed'
    BY <1>1, <1>2, <1>3, <2>1, ReportType DEF Cancel, IInv, Typed, Requester
  <2>3. requester'[v] = "ended" /\ \A u \in Verification \ {v} : requester'[u] = requester[u]
    BY <1>1, <1>3 DEF IInv, Typed
  <2>4. SameBeginning
    BY <1>1, <1>2, <2>3, NobodyBegins DEF NotBegun
  <2> QED BY <1>3, <2>1, <2>2, <2>3, <2>4, ReportStep DEF Cancel
<1>4. CASE Return(v, "failed") /\ UNCHANGED status
  <2>1. Typed'
    BY <1>1, <1>2, <1>4 DEF Cancel, IInv, Typed, Requester
  <2>2. /\ \A u \in outgoing : requester'[u] = "ended" <=> requester[u] = "ended"
        /\ \A u \in Verification \ outgoing : requester'[u] = requester[u]
        /\ requester'[v] = "failed" /\ \A u \in Verification \ {v} : requester'[u] = requester[u]
    BY <1>1, <1>4 DEF IInv, Typed
  <2>3. SameBeginning
    BY <1>1, <1>2, <2>2, NobodyBegins DEF NotBegun
  <2> QED BY <1>4, <2>1, <2>2, <2>3, QuietStep DEF Cancel
<1> QED BY <1>3, <1>4 DEF Cancel

LEMMA StartStep ==
    ASSUME IInv, NEW v \in Verification,
           StartSas(v) \/ SasUnavailable(v) \/ UserCancels(v)
    PROVE IInv'
<1> USE DEF sdkVars, handlerVars, waiterVars, userVars, history, Return
<1>1. CASE StartSas(v)
  <2>1. "started" \in Phase
    BY DEF Phase
  <2>2. /\ phase' \in [Verification -> Phase]
        /\ \A u \in Verification \ {v} : phase'[u] = phase[u]
    <3>1. CASE Becomes(v, "started")
      BY <2>1, <3>1, BecomesType DEF IInv
    <3>2. CASE UNCHANGED phase
      BY <3>2 DEF IInv, Typed
    <3> QED BY <1>1, <3>1, <3>2 DEF StartSas
  <2>4. requester' \in [Verification -> Requester]
    BY <1>1 DEF StartSas, IInv, Typed, Requester
  <2>5. Typed'
    BY <1>1, <2>2, <2>4 DEF StartSas, IInv, Typed
  <2>3. /\ \A u \in outgoing : requester'[u] = "ended" <=> requester[u] = "ended"
        /\ \A u \in Verification : requester'[u] = "starting" => requester[u] = "starting"
        /\ requester'[v] \in {"watching", "failed"}
        /\ \A u \in Verification \ {v} : requester'[u] = requester[u]
    BY <1>1 DEF StartSas, IInv, Typed
  <2>6. SameBeginning
    BY <2>2, <2>3, NobodyBegins DEF NotBegun
  <2> QED BY <1>1, <2>3, <2>5, <2>6, QuietStep DEF StartSas
<1>2. CASE SasUnavailable(v)
  <2>1. v \in outgoing
    BY <1>2 DEF SasUnavailable, IInv, BegunOnce
  <2> QED BY <1>2, <2>1, CancelStep DEF SasUnavailable
<1>3. CASE UserCancels(v)
  BY <1>3, CancelStep DEF UserCancels
<1> QED BY <1>1, <1>2, <1>3

----------------------------------------------------------------------------
(* The SAS exchange and the comparison.                                    *)

LEMMA UseType ==
    ASSUME Typed, NEW v \in Verification, NEW response \in Response, Use(v, response)
    PROVE /\ phase' \in [Verification -> Phase]
          /\ \A u \in Verification : phase'[u] = phase[u] \/ phase[u] # "none"
BY DEF Typed, Use, Phase, Over

LEMMA ComparisonStep ==
    ASSUME IInv,
           \/ \E v \in Verification : HandlerNext(v) \/ WaiterNext(v)
           \/ \E confirmed \in BOOLEAN : UserResponds(confirmed)
    PROVE IInv'
<1> USE DEF sdkVars, requesterVars, handlerVars, waiterVars, userVars, history
<1>1. ASSUME NEW v \in Verification, HandlerNext(v) PROVE IInv'
  <2>1. CASE AcceptSas(v)
    <3>1. Typed'
      BY <2>1 DEF AcceptSas, IInv, Typed
    <3> QED BY <2>1, <3>1, QuietStep DEF AcceptSas, SameBeginning
  <2>3. CASE FollowSas(v)
    <3>1. SasStateOf(v) \in SasState
      BY DEF SasStateOf, SasState
    <3>2. Typed'
      BY <2>3, <3>1 DEF FollowSas, IInv, Typed
    <3> QED BY <2>3, <3>2, QuietStep DEF FollowSas, SameBeginning
  <2>2. CASE WatchSas(v)
    <3>1. SasStateOf(v) \in SasState
      BY DEF SasStateOf, SasState
    <3>2. Typed'
      BY <2>2, <3>1 DEF WatchSas, IInv, Typed
    <3> QED BY <2>2, <3>2, QuietStep DEF WatchSas, SameBeginning
  <2> QED BY <1>1, <2>1, <2>2, <2>3 DEF HandlerNext
<1>2. ASSUME NEW v \in Verification, EmitStart(v) \/ LockReceiver(v) PROVE IInv'
  <2>1. Append(lockQueue, v) \in Seq(Verification)
    BY DEF IInv, Typed
  <2>2. CASE EmitStart(v)
    <3>1. Typed'
      BY <2>2 DEF EmitStart, IInv, Typed
    <3> QED BY <2>2, <3>1, QuietStep DEF EmitStart, SameBeginning
  <2>3. CASE LockReceiver(v)
    <3>1. Typed'
      BY <2>1, <2>3 DEF LockReceiver, IInv, Typed
    <3> QED BY <2>3, <3>1, QuietStep DEF LockReceiver, SameBeginning
  <2> QED BY <1>2, <2>2, <2>3
<1>3. ASSUME NEW v \in Verification, TakeResponse(v) PROVE IInv'
  <2>1. /\ Head(responses) \in Response /\ Tail(responses) \in Seq(Response)
        /\ Tail(lockQueue) \in Seq(Verification)
    BY <1>3 DEF TakeResponse, IInv, Typed
  <2>2. /\ phase' \in [Verification -> Phase]
        /\ \A u \in Verification : phase'[u] = phase[u] \/ phase[u] # "none"
    BY <1>3, <2>1, UseType DEF TakeResponse, IInv
  <2>3. Typed'
    BY <1>3, <2>1, <2>2 DEF TakeResponse, IInv, Typed
  <2>4. SameBeginning
    BY <1>3, <2>2 DEF TakeResponse, SameBeginning
  <2> QED BY <1>3, <2>3, <2>4, QuietStep DEF TakeResponse
<1>4. ASSUME NEW confirmed \in BOOLEAN, UserResponds(confirmed) PROVE IInv'
  <2>1. [of |-> shown, confirmed |-> confirmed] \in Response
    BY <1>4 DEF UserResponds, Response, IInv, Typed
  <2>2. Typed'
    BY <1>4, <2>1 DEF UserResponds, IInv, Typed
  <2> QED BY <1>4, <2>2, QuietStep DEF UserResponds, SameBeginning
<1> QED BY <1>1, <1>2, <1>3, <1>4 DEF WaiterNext

LEMMA IInvStep == IInv /\ [Next]_vars => IInv'
<1> SUFFICES ASSUME IInv, [Next]_vars PROVE IInv'
  OBVIOUS
<1>1. CASE UNCHANGED vars
  <2> USE <1>1 DEF vars, sdkVars, requesterVars, handlerVars, waiterVars, userVars, history
  <2>1. Typed'
    BY DEF IInv, Typed
  <2> QED BY <2>1, QuietStep DEF SameBeginning
<1> QED BY <1>1, OtherDeviceStep, BeginStep, RequestStep, SubscribeStep, IncomingStep,
           WatchStep, StartStep, ComparisonStep
        DEF Next, RequesterNext

LEMMA IInvHolds == Spec => []IInv
BY InitIInv, IInvStep, PTL DEF Spec

(* verify_device tells its caller one outcome, at last, when it returns    *)
(* without error, and none before or otherwise.                            *)
THEOREM OutcomesAreReportedOnce == Spec => []OutcomeIsReportedOnce
<1>1. IInv => OutcomeIsReportedOnce
  BY DEF IInv
<1> QED BY <1>1, IInvHolds, PTL

----------------------------------------------------------------------------
(* Responses are matched: as long as no comparison overlaps another, the   *)
(* one under way is alone in the queue, on the screen or answered.         *)

Waiting(v) == waiter[v] \in {"locking", "queued"}

OneComparison ==
    /\ \A u, v \in Verification : Comparing(u) /\ Comparing(v) => u = v
    /\ shown # None => Waiting(shown) /\ responses = <<>>
    /\ Len(responses) <= 1
    /\ responses # <<>> => Waiting(Head(responses).of)
    /\ Len(lockQueue) <= 1
    /\ lockQueue # <<>> => waiter[Head(lockQueue)] = "queued"

(* The emojis of a verification are shown once.                            *)
ComparedOnce ==
    \A v \in Verification :
        waiter[v] # "none" =>
            /\ phase[v] \in {"keys", "confirmed"} \cup Over
            /\ phase[v] = "keys" => sasSeen[v] = "KeysExchanged"

(* Who is in the queue has come there.                                     *)
QueuedWait == \A i \in 1 .. Len(lockQueue) : waiter[lockQueue[i]] # "none"

MInv ==
    /\ ComparedOnce
    /\ ~overlapped => OneComparison /\ ~mistaken

(* Steps that leave the comparisons alone.                                 *)
LEMMA NoComparisonStep ==
    ASSUME Typed, MInv, UNCHANGED <<waiter, lockQueue, shown, responses, history>>,
           ComparedOnce'
    PROVE MInv'
BY DEF MInv, OneComparison, Waiting, Comparing, history

LEMMA BecomesKeeps ==
    ASSUME Typed, MInv, NEW v \in Verification, NEW p \in Phase \ {"none"}, Becomes(v, p),
           p \in {"requested", "ready", "started", "keys"} => phase[v] \notin {"keys", "confirmed"} \cup Over,
           UNCHANGED <<waiter, lockQueue, shown, responses, sasSeen>>
    PROVE MInv'
<1>1. phase'[v] = p /\ \A u \in Verification \ {v} : phase'[u] = phase[u]
  BY BecomesType
<1>2. waiter[v] # "none" => p \in {"confirmed"} \cup Over
  BY DEF MInv, ComparedOnce, Phase, Over
<1>3. ComparedOnce'
  BY <1>1, <1>2 DEF MInv, ComparedOnce, Over
<1> QED BY <1>3, NoComparisonStep DEF Becomes

LEMMA QueuedStep == Typed /\ QueuedWait /\ [Next]_vars => QueuedWait'
<1> SUFFICES ASSUME Typed, QueuedWait, [Next]_vars PROVE QueuedWait'
  OBVIOUS
<1> USE DEF sdkVars, requesterVars, handlerVars, waiterVars, userVars
<1>1. CASE UNCHANGED <<waiter, lockQueue>>
  BY <1>1 DEF QueuedWait
<1>2. ASSUME NEW v \in Verification, WatchSas(v) PROVE QueuedWait'
  <2>1. /\ lockQueue' = lockQueue
        /\ \A u \in Verification : waiter[u] # "none" => waiter'[u] # "none"
    BY <1>2 DEF WatchSas, Typed
  <2> QED BY <2>1 DEF QueuedWait, Typed
<1>3. ASSUME NEW v \in Verification, EmitStart(v) PROVE QueuedWait'
  BY <1>3 DEF EmitStart, QueuedWait, Typed
<1>4. ASSUME NEW v \in Verification, LockReceiver(v) PROVE QueuedWait'
  <2>1. Len(lockQueue') = Len(lockQueue) + 1
    BY <1>4 DEF LockReceiver, Typed
  <2>2. ASSUME NEW i \in 1 .. Len(lockQueue')
        PROVE lockQueue'[i] = v \/ (i \in 1 .. Len(lockQueue) /\ lockQueue'[i] = lockQueue[i])
    BY <1>4, <2>1 DEF LockReceiver, Typed
  <2> QED BY <1>4, <2>2 DEF LockReceiver, QueuedWait, Typed
<1>5. ASSUME NEW v \in Verification, TakeResponse(v) PROVE QueuedWait'
  <2>1. /\ lockQueue' = Tail(lockQueue) /\ Len(lockQueue') = Len(lockQueue) - 1
        /\ \A i \in 1 .. Len(lockQueue') : lockQueue'[i] = lockQueue[i + 1]
    BY <1>5 DEF TakeResponse, Typed
  <2>2. \A u \in Verification : waiter[u] # "none" => waiter'[u] # "none"
    BY <1>5 DEF TakeResponse, Typed
  <2>3. \A i \in 1 .. Len(lockQueue) : lockQueue[i] \in Verification
    BY DEF Typed
  <2>4. ASSUME NEW i \in 1 .. Len(lockQueue') PROVE i + 1 \in 1 .. Len(lockQueue)
    BY <2>1 DEF Typed
  <2> QED BY <2>1, <2>2, <2>3, <2>4 DEF QueuedWait
<1>6. ASSUME NEW v \in Verification,
             \/ OtherDevice(v) \/ IncomingRequest(v) \/ VerifyDevice(v) \/ UserCancels(v)
             \/ RequesterNext(v) \/ AcceptSas(v) \/ FollowSas(v)
      PROVE UNCHANGED <<waiter, lockQueue>>
  BY <1>6 DEF OtherDevice, IncomingRequest, VerifyDevice, UserCancels, RequesterNext, Cancel,
       AcceptRequest, RequestDevice, SubscribeRequest, WatchIncoming, WatchProgress, WatchReady,
       StartSas, SasUnavailable, WatchOutcome, AcceptSas, FollowSas
<1>7. CASE UNCHANGED vars \/ \E confirmed \in BOOLEAN : UserResponds(confirmed)
  BY <1>1, <1>7 DEF vars, UserResponds
<1> QED BY <1>1, <1>2, <1>3, <1>4, <1>5, <1>6, <1>7 DEF Next, HandlerNext, WaiterNext

LEMMA InitMInv == Init => MInv
BY DEF Init, MInv, ComparedOnce, OneComparison, Comparing

LEMMA RequesterMatches ==
    ASSUME Typed, BegunOnce, MInv, NEW v \in Verification,
           OtherDevice(v) \/ IncomingRequest(v) \/ VerifyDevice(v) \/ UserCancels(v) \/ RequesterNext(v)
    PROVE MInv'
<1> USE DEF sdkVars, requesterVars, handlerVars, waiterVars, userVars, history
<1>1. UNCHANGED <<waiter, lockQueue, shown, responses, sasSeen>>
  BY DEF OtherDevice, IncomingRequest, VerifyDevice, UserCancels, RequesterNext, Cancel, AcceptRequest,
         RequestDevice, SubscribeRequest, WatchIncoming, WatchProgress, WatchReady, StartSas,
         SasUnavailable, WatchOutcome
<1>2. \/ UNCHANGED <<phase, history>>
      \/ \E p \in {"requested", "ready", "started", "keys", "done", "cancelled"} :
            /\ Becomes(v, p)
            /\ p \notin {"done", "cancelled"} => phase[v] \notin {"keys", "confirmed"} \cup Over
  <2> USE DEF Over
  <2>1. CASE OtherDevice(v)
    BY <2>1 DEF OtherDevice
  <2>2. CASE IncomingRequest(v) \/ VerifyDevice(v) \/ RequestDevice(v)
    BY <2>2 DEF IncomingRequest, VerifyDevice, RequestDevice, BegunOnce
  <2>3. CASE UserCancels(v) \/ SasUnavailable(v)
    BY <2>3 DEF UserCancels, SasUnavailable, Cancel
  <2>4. CASE AcceptRequest(v) \/ StartSas(v)
    BY <2>4 DEF AcceptRequest, StartSas
  <2>5. CASE \/ SubscribeRequest(v) \/ WatchIncoming(v) \/ WatchProgress(v)
             \/ WatchReady(v) \/ WatchOutcome(v)
    BY <2>5 DEF SubscribeRequest, WatchIncoming, WatchProgress, WatchReady, WatchOutcome
  <2> QED BY <2>1, <2>2, <2>3, <2>4, <2>5 DEF RequesterNext
<1>3. CASE UNCHANGED <<phase, history>>
  BY <1>1, <1>3, NoComparisonStep DEF MInv, ComparedOnce
<1>4. ASSUME NEW p \in {"requested", "ready", "started", "keys", "done", "cancelled"}, Becomes(v, p),
             p \notin {"done", "cancelled"} => phase[v] \notin {"keys", "confirmed"} \cup Over
      PROVE MInv'
  BY <1>1, <1>4, BecomesKeeps DEF Phase, Over
<1> QED BY <1>2, <1>3, <1>4

LEMMA WatchMatches ==
    ASSUME Typed, MInv, NEW v \in Verification, HandlerNext(v)
    PROVE MInv'
<1> USE DEF sdkVars, requesterVars, waiterVars, userVars
<1>1. CASE AcceptSas(v)
  BY <1>1, NoComparisonStep DEF AcceptSas, MInv, ComparedOnce
<1>3. CASE FollowSas(v)
  <2>1. /\ phase[v] = "keys" => sasSeen'[v] = "KeysExchanged"
        /\ \A u \in Verification \ {v} : sasSeen'[u] = sasSeen[u]
    BY <1>3 DEF FollowSas, SasStateOf, Typed
  <2>2. ComparedOnce'
    BY <1>3, <2>1 DEF FollowSas, MInv, ComparedOnce
  <2> QED BY <1>3, <2>2, NoComparisonStep DEF FollowSas
<1>2. CASE WatchSas(v)
  <2>1. /\ phase[v] = "keys" <=> SasStateOf(v) = "KeysExchanged"
        /\ sasSeen'[v] = SasStateOf(v)
        /\ \A u \in Verification \ {v} : sasSeen'[u] = sasSeen[u] /\ waiter'[u] = waiter[u]
        /\ waiter'[v] = IF phase[v] = "keys" THEN "emitting" ELSE waiter[v]
    BY <1>2 DEF WatchSas, SasStateOf, Typed
  <2>2. phase[v] = "keys" => waiter[v] = "none"
    BY <1>2, <2>1 DEF WatchSas, MInv, ComparedOnce, Typed
  <2>3. ComparedOnce'
    BY <1>2, <2>1 DEF WatchSas, MInv, ComparedOnce
  <2>4. CASE phase[v] # "keys"
    <3>1. waiter' = waiter
      BY <1>2, <2>4 DEF WatchSas, Typed
    <3> QED BY <1>2, <2>3, <2>4, <3>1 DEF WatchSas, MInv, OneComparison, Waiting, Comparing
  <2>5. CASE phase[v] = "keys"
    <3>1. SUFFICES ASSUME ~overlapped' PROVE OneComparison' /\ ~mistaken'
      BY <2>3 DEF MInv
    <3>2. ~overlapped /\ OneComparison /\ ~mistaken /\ \A u \in Verification \ {v} : ~Comparing(u)
      BY <1>2, <2>5, <3>1 DEF WatchSas, MInv
    <3>3. ~Comparing(v)
      BY <2>2, <2>5 DEF Comparing
    <3>4. \A u \in Verification : ~Waiting(u)
      BY <3>2, <3>3 DEF Waiting, Comparing
    <3>5. shown = None
      BY <3>2, <3>4 DEF OneComparison, Typed
    <3>6. responses = <<>>
      <4>1. responses # <<>> => Head(responses) \in Response
        BY DEF Typed
      <4>2. responses # <<>> => Head(responses).of \in Verification
        BY <4>1 DEF Response
      <4> QED BY <3>2, <3>4, <4>2 DEF OneComparison
    <3>7. lockQueue = <<>>
      <4>1. lockQueue # <<>> => Head(lockQueue) \in Verification
        BY DEF Typed
      <4> QED BY <3>2, <3>4, <4>1 DEF OneComparison, Waiting
    <3>8. \A u \in Verification : Comparing(u)' => u = v
      BY <2>1, <3>2 DEF Comparing
    <3>9. shown' = None /\ responses' = <<>> /\ lockQueue' = <<>> /\ mistaken' = mistaken
      BY <1>2, <3>5, <3>6, <3>7 DEF WatchSas
    <3> QED BY <3>2, <3>8, <3>9 DEF OneComparison
  <2> QED BY <2>4, <2>5
<1> QED BY <1>1, <1>2, <1>3 DEF HandlerNext

(* What is alone: the comparison of v, wherever it is.                     *)
LEMMA Alone ==
    ASSUME Typed, OneComparison, NEW v \in Verification, Comparing(v)
    PROVE /\ \A u \in Verification : Waiting(u) => u = v
          /\ shown # None => shown = v /\ waiter[v] # "emitting"
          /\ responses # <<>> => Head(responses).of = v /\ waiter[v] # "emitting"
          /\ lockQueue # <<>> => Head(lockQueue) = v /\ waiter[v] = "queued"
<1>1. \A u \in Verification : Waiting(u) => u = v
  BY DEF OneComparison, Comparing, Waiting
<1>2. shown # None => shown = v /\ waiter[v] # "emitting"
  BY <1>1 DEF Typed, OneComparison, Waiting
<1>3. responses # <<>> => Head(responses).of = v /\ waiter[v] # "emitting"
  <2>1. responses # <<>> => Head(responses) \in Response
    BY DEF Typed
  <2>2. responses # <<>> => Head(responses).of \in Verification
    BY <2>1 DEF Response
  <2> QED BY <1>1, <2>2 DEF OneComparison, Waiting
<1>4. lockQueue # <<>> => Head(lockQueue) = v /\ waiter[v] = "queued"
  <2>1. lockQueue # <<>> => Head(lockQueue) \in Verification
    BY DEF Typed
  <2> QED BY <1>1, <2>1 DEF OneComparison, Waiting
<1> QED BY <1>1, <1>2, <1>3, <1>4

LEMMA EmitMatches ==
    ASSUME Typed, MInv, NEW v \in Verification, EmitStart(v)
    PROVE MInv'
<1> USE DEF EmitStart, sdkVars, requesterVars, handlerVars, history
<1>1. /\ waiter'[v] = "locking" /\ waiter[v] = "emitting"
      /\ \A u \in Verification \ {v} : waiter'[u] = waiter[u]
  BY DEF Typed
<1>2. ComparedOnce'
  BY <1>1 DEF MInv, ComparedOnce
<1>3. ASSUME ~overlapped PROVE OneComparison' /\ ~mistaken'
  <2>1. OneComparison /\ ~mistaken
    BY <1>3 DEF MInv
  <2>2. responses = <<>> /\ lockQueue = <<>>
    BY <1>1, <2>1, Alone DEF Comparing
  <2>3. Waiting(v)' /\ \A u \in Verification : Comparing(u)' <=> Comparing(u)
    BY <1>1 DEF Waiting, Comparing
  <2>4. responses' = <<>> /\ lockQueue' = <<>> /\ shown' = v /\ mistaken' = mistaken
    BY <2>2
  <2> QED BY <2>1, <2>3, <2>4 DEF OneComparison
<1> QED BY <1>2, <1>3 DEF MInv

LEMMA LockMatches ==
    ASSUME Typed, MInv, NEW v \in Verification, LockReceiver(v)
    PROVE MInv'
<1> USE DEF LockReceiver, sdkVars, requesterVars, handlerVars, userVars, history
<1>1. /\ waiter'[v] = "queued" /\ waiter[v] = "locking"
      /\ \A u \in Verification \ {v} : waiter'[u] = waiter[u]
  BY DEF Typed
<1>2. ComparedOnce'
  BY <1>1 DEF MInv, ComparedOnce
<1>3. ASSUME ~overlapped PROVE OneComparison' /\ ~mistaken'
  <2>1. OneComparison /\ ~mistaken
    BY <1>3 DEF MInv
  <2>2. lockQueue = <<>>
    BY <1>1, <2>1, Alone DEF Comparing
  <2>3. Len(lockQueue') = 1 /\ Head(lockQueue') = v
    BY <2>2
  <2>4. \A u \in Verification : (Waiting(u)' <=> Waiting(u)) /\ (Comparing(u)' <=> Comparing(u))
    BY <1>1 DEF Waiting, Comparing
  <2>5. shown # None => Waiting(shown)'
    BY <2>1, <2>4 DEF OneComparison, Typed
  <2>6. responses # <<>> => Waiting(Head(responses).of)'
    <3>1. responses # <<>> => Head(responses) \in Response
      BY DEF Typed
    <3>2. responses # <<>> => Head(responses).of \in Verification
      BY <3>1 DEF Response
    <3> QED BY <2>1, <2>4, <3>2 DEF OneComparison
  <2>7. shown' = shown /\ responses' = responses /\ mistaken' = mistaken
    OBVIOUS
  <2>8. (shown # None => Waiting(shown))' /\ (responses # <<>> => Waiting(Head(responses).of))'
    BY <2>5, <2>6, <2>7 DEF Waiting
  <2>9. (lockQueue # <<>> => waiter[Head(lockQueue)] = "queued")'
    BY <1>1, <2>3
  <2> QED BY <2>1, <2>3, <2>4, <2>7, <2>8, <2>9 DEF OneComparison
<1> QED BY <1>2, <1>3 DEF MInv

LEMMA TakeMatches ==
    ASSUME Typed, QueuedWait, MInv, NEW v \in Verification, TakeResponse(v)
    PROVE MInv'
<1> USE DEF sdkVars, requesterVars, handlerVars
<1>1. /\ Head(responses) \in Response /\ v \in Verification
      /\ Use(v, Head(responses))
      /\ waiter' = [waiter EXCEPT ![v] = "ended"]
      /\ sasSeen' = sasSeen
  BY DEF TakeResponse, Typed
<1>2. /\ waiter'[v] = "ended"
      /\ \A u \in Verification \ {v} : waiter'[u] = waiter[u] /\ phase'[u] = phase[u]
      /\ phase[v] # "keys" => phase'[v] = phase[v]
      /\ phase[v] = "keys" => phase'[v] \in {"confirmed", "cancelled"}
  BY <1>1 DEF Use, Typed
<1>3. ComparedOnce'
  <2>1. waiter[v] # "none"
    BY DEF TakeResponse, QueuedWait, Typed
  <2>2. \A u \in Verification \ {v} : (waiter'[u] # "none" => waiter[u] # "none") /\ phase'[u] = phase[u]
    BY <1>2
  <2> QED BY <1>1, <1>2, <2>1, <2>2 DEF MInv, ComparedOnce, Over, Typed
<1>4. ASSUME ~overlapped' PROVE OneComparison' /\ ~mistaken'
  <2>1. OneComparison /\ ~mistaken
    BY <1>1, <1>4 DEF MInv, Use
  <2>2. /\ lockQueue # <<>> /\ Head(lockQueue) = v /\ responses # <<>>
        /\ responses' = Tail(responses) /\ lockQueue' = Tail(lockQueue) /\ shown' = shown
    BY DEF TakeResponse
  <2>3. Comparing(v)
    BY <2>1, <2>2 DEF OneComparison, Comparing
  <2>4. Head(responses).of = v
    BY <2>1, <2>2, <2>3, Alone
  <2>5. mistaken' = FALSE
    BY <1>1, <2>1, <2>4 DEF Use
  <2>6. lockQueue' = <<>> /\ responses' = <<>> /\ shown' = None
    BY <2>1, <2>2 DEF OneComparison, Typed
  <2>7. \A u \in Verification : ~Comparing(u)'
    BY <1>2, <2>1, <2>3 DEF OneComparison, Comparing
  <2> QED BY <2>5, <2>6, <2>7 DEF OneComparison
<1> QED BY <1>3, <1>4 DEF MInv

LEMMA ResponseMatches ==
    ASSUME Typed, MInv, NEW confirmed \in BOOLEAN, UserResponds(confirmed)
    PROVE MInv'
<1> USE DEF UserResponds, sdkVars, requesterVars, handlerVars, waiterVars, history
<1> DEFINE response == [of |-> shown, confirmed |-> confirmed]
<1>1. ComparedOnce'
  BY DEF MInv, ComparedOnce
<1>2. ASSUME ~overlapped PROVE OneComparison' /\ ~mistaken'
  <2>1. OneComparison /\ ~mistaken
    BY <1>2 DEF MInv
  <2>2. responses = <<>> /\ Waiting(shown) /\ shown # None
    BY <2>1 DEF OneComparison
  <2>3. responses' = Append(responses, response) /\ response.of = shown
    OBVIOUS
  <2>4. response \in Response
    BY <2>2 DEF Response, Typed
  <2> HIDE DEF response
  <2>5. Len(responses') = 1 /\ Head(responses') = response
    BY <2>2, <2>3, <2>4 DEF Typed
  <2>6. Head(responses').of = shown
    BY <2>3, <2>5
  <2>7. waiter'[shown] = waiter[shown] /\ shown' = None
    OBVIOUS
  <2>8. Waiting(Head(responses).of)'
    BY <2>2, <2>6, <2>7 DEF Waiting
  <2> QED BY <2>1, <2>5, <2>7, <2>8 DEF OneComparison, Comparing, Waiting
<1> QED BY <1>1, <1>2 DEF MInv

LEMMA MInvStep == Typed /\ BegunOnce /\ QueuedWait /\ MInv /\ [Next]_vars => MInv'
<1> SUFFICES ASSUME Typed, BegunOnce, QueuedWait, MInv, [Next]_vars PROVE MInv'
  OBVIOUS
<1>1. CASE UNCHANGED vars
  BY <1>1, NoComparisonStep
     DEF vars, sdkVars, requesterVars, handlerVars, waiterVars, userVars, history, MInv, ComparedOnce
<1>2. CASE \E confirmed \in BOOLEAN : UserResponds(confirmed)
  BY <1>2, ResponseMatches
<1>3. CASE \E v \in Verification : WaiterNext(v)
  BY <1>3, EmitMatches, LockMatches, TakeMatches DEF WaiterNext
<1>4. CASE \E v \in Verification : HandlerNext(v)
  BY <1>4, WatchMatches
<1> QED BY <1>1, <1>2, <1>3, <1>4, RequesterMatches DEF Next

(* A response is taken for the verification whose emojis the user has      *)
(* compared, as long as no comparison begins while another is under way,   *)
(* and no matter how late it comes.                                        *)
THEOREM ResponsesMatch == Spec => []ResponsesAreMatched
<1>1. IInv => Typed /\ BegunOnce
  BY DEF IInv
<1>2. MInv => ResponsesAreMatched
  BY DEF MInv, ResponsesAreMatched
<1>3. Init => QueuedWait
  BY DEF Init, QueuedWait
<1> QED BY <1>1, <1>2, <1>3, IInvHolds, QueuedStep, InitMInv, MInvStep, PTL DEF Spec

----------------------------------------------------------------------------
(* Types in full: who waits for the receiver is in the queue, once.        *)

Queue == 1 .. Len(lockQueue)
QueuedOnce == \A i, j \in Queue : lockQueue[i] = lockQueue[j] => i = j
QueueHasWaiters ==
    \A v \in Verification : waiter[v] = "queued" <=> \E i \in Queue : lockQueue[i] = v

(* The variables that no other theorem needs.                              *)
Remembered ==
    /\ accepted \subseteq Verification
    /\ seen \in [Verification -> RequestState \cup {None}]
    /\ handler \in [Verification ->
            {"none", "accepting", "subscribing", "watching", "ended", "failed"}]
    /\ overlapped \in BOOLEAN /\ mistaken \in BOOLEAN

QInv == Remembered /\ QueuedOnce /\ QueueHasWaiters

LEMMA InitQInv == Init => QInv
<1> SUFFICES ASSUME Init PROVE QInv
  OBVIOUS
<1>1. Remembered
  BY DEF Init, Remembered
<1>2. Queue = {}
  BY DEF Init, Queue
<1>3. QueuedOnce /\ QueueHasWaiters
  BY <1>2 DEF Init, QueuedOnce, QueueHasWaiters
<1> QED BY <1>1, <1>3 DEF QInv

LEMMA RememberedStep == Typed /\ Remembered /\ [Next]_vars => Remembered'
<1> SUFFICES ASSUME Typed, Remembered, [Next]_vars PROVE Remembered'
  OBVIOUS
<1> USE DEF Remembered, sdkVars, requesterVars, handlerVars, waiterVars, userVars, history
<1>1. ASSUME NEW v \in Verification PROVE RequestStateOf(v) \in RequestState
  BY DEF RequestStateOf, RequestState
<1>2. ASSUME NEW v \in Verification,
             \/ OtherDevice(v) \/ IncomingRequest(v) \/ VerifyDevice(v) \/ AcceptRequest(v)
             \/ RequestDevice(v)
      PROVE Remembered'
  BY <1>2 DEF OtherDevice, IncomingRequest, VerifyDevice, AcceptRequest, RequestDevice, Becomes
<1>3. ASSUME NEW v \in Verification, UserCancels(v) \/ SasUnavailable(v) PROVE Remembered'
  BY <1>3 DEF UserCancels, SasUnavailable, Cancel, Becomes
<1>4. ASSUME NEW v \in Verification, SubscribeRequest(v) \/ WatchIncoming(v) PROVE Remembered'
  BY <1>1, <1>4 DEF SubscribeRequest, WatchIncoming, See
<1>5. ASSUME NEW v \in Verification, WatchProgress(v) \/ WatchReady(v) \/ WatchOutcome(v)
      PROVE Remembered'
  BY <1>1, <1>5 DEF WatchProgress, WatchReady, WatchOutcome, See
<1>6. ASSUME NEW v \in Verification, StartSas(v) PROVE Remembered'
  BY <1>6 DEF StartSas, Becomes
<1>7. ASSUME NEW v \in Verification, HandlerNext(v) PROVE Remembered'
  BY <1>7 DEF HandlerNext, AcceptSas, FollowSas, WatchSas
<1>8. ASSUME NEW v \in Verification, WaiterNext(v) PROVE Remembered'
  BY <1>8 DEF WaiterNext, EmitStart, LockReceiver, TakeResponse, Use
<1>9. CASE UNCHANGED vars \/ \E confirmed \in BOOLEAN : UserResponds(confirmed)
  BY <1>9 DEF vars, UserResponds
<1> QED BY <1>2, <1>3, <1>4, <1>5, <1>6, <1>7, <1>8, <1>9 DEF Next, RequesterNext

(* Steps of who neither waits nor ceases to.                               *)
LEMMA SameQueue ==
    ASSUME Typed, QueuedOnce, QueueHasWaiters, lockQueue' = lockQueue,
           \A v \in Verification : waiter'[v] = "queued" <=> waiter[v] = "queued"
    PROVE QueuedOnce' /\ QueueHasWaiters'
BY DEF QueuedOnce, QueueHasWaiters, Queue

LEMMA LockQueues ==
    ASSUME Typed, QueuedOnce, QueueHasWaiters, NEW v \in Verification, LockReceiver(v)
    PROVE QueuedOnce' /\ QueueHasWaiters'
<1> DEFINE n == Len(lockQueue)
<1>1. n \in Nat /\ Queue = 1 .. n
  BY DEF Typed, Queue
<1>2. /\ Queue' = 1 .. n + 1 /\ lockQueue'[n + 1] = v
      /\ \A i \in 1 .. n : lockQueue'[i] = lockQueue[i]
  BY DEF LockReceiver, Queue, Typed
<1>3. /\ waiter'[v] = "queued" /\ waiter[v] # "queued"
      /\ \A u \in Verification \ {v} : waiter'[u] = waiter[u]
  BY DEF LockReceiver, Typed
<1>4. \A i \in 1 .. n : lockQueue[i] # v
  BY <1>1, <1>3 DEF QueueHasWaiters
<1> HIDE DEF n
<1>5. \A i \in 1 .. n + 1 : i = n + 1 \/ i \in 1 .. n
  BY <1>1
<1>6. n + 1 \in 1 .. n + 1 /\ \A i \in 1 .. n : i \in 1 .. n + 1
  BY <1>1
<1>7. QueuedOnce'
  BY <1>1, <1>2, <1>4, <1>5 DEF QueuedOnce
<1>8. \A u \in Verification : waiter'[u] = "queued" <=> \E i \in 1 .. n + 1 : lockQueue'[i] = u
  BY <1>1, <1>2, <1>3, <1>5, <1>6 DEF QueueHasWaiters
<1> QED BY <1>2, <1>7, <1>8 DEF QueueHasWaiters

LEMMA TakeUnqueues ==
    ASSUME Typed, QueuedOnce, QueueHasWaiters, NEW v \in Verification, TakeResponse(v)
    PROVE QueuedOnce' /\ QueueHasWaiters'
<1> DEFINE n == Len(lockQueue)
<1>1. n \in Nat /\ n > 0 /\ Queue = 1 .. n /\ lockQueue[1] = v
  BY DEF TakeResponse, Typed, Queue
<1>2. /\ Queue' = 1 .. (n - 1)
      /\ \A i \in 1 .. (n - 1) : lockQueue'[i] = lockQueue[i + 1]
  BY <1>1 DEF TakeResponse, Queue, Typed
<1>3. waiter'[v] = "ended" /\ \A u \in Verification \ {v} : waiter'[u] = waiter[u]
  BY DEF TakeResponse, Typed
<1> HIDE DEF n
<1>4. \A i \in 1 .. (n - 1) : i + 1 \in 1 .. n /\ i + 1 # 1
  BY <1>1
<1>5. ASSUME NEW i \in 1 .. n, i # 1 PROVE i - 1 \in 1 .. (n - 1) /\ lockQueue'[i - 1] = lockQueue[i]
  <2>1. i - 1 \in 1 .. (n - 1) /\ (i - 1) + 1 = i
    BY <1>1, <1>5
  <2> QED BY <1>2, <2>1
<1>6. 1 \in 1 .. n
  BY <1>1
<1>7. QueuedOnce'
  <2>1. ASSUME NEW i \in 1 .. (n - 1), NEW j \in 1 .. (n - 1), lockQueue'[i] = lockQueue'[j]
        PROVE i = j
    <3>1. i + 1 = j + 1
      BY <1>1, <1>2, <1>4, <2>1 DEF QueuedOnce
    <3> QED BY <3>1
  <2> QED BY <1>2, <2>1 DEF QueuedOnce
<1>8. ASSUME NEW u \in Verification
      PROVE waiter'[u] = "queued" <=> \E i \in 1 .. (n - 1) : lockQueue'[i] = u
  <2>1. CASE u = v
    BY <1>1, <1>2, <1>3, <1>4, <1>6, <2>1 DEF QueuedOnce
  <2>2. CASE u # v
    <3>1. waiter'[u] = "queued" <=> \E i \in 1 .. n : lockQueue[i] = u
      BY <1>1, <1>3, <2>2 DEF QueueHasWaiters
    <3>2. ASSUME NEW i \in 1 .. n, lockQueue[i] = u PROVE \E j \in 1 .. (n - 1) : lockQueue'[j] = u
      BY <1>1, <1>5, <2>2, <3>2
    <3>3. ASSUME NEW i \in 1 .. (n - 1), lockQueue'[i] = u PROVE \E j \in 1 .. n : lockQueue[j] = u
      BY <1>2, <1>4, <3>3
    <3> QED BY <3>1, <3>2, <3>3
  <2> QED BY <2>1, <2>2
<1> QED BY <1>2, <1>7, <1>8 DEF QueueHasWaiters

LEMMA QInvStep == Typed /\ ComparedOnce /\ QInv /\ [Next]_vars => QInv'
<1> SUFFICES ASSUME Typed, ComparedOnce, QInv, [Next]_vars PROVE QueuedOnce' /\ QueueHasWaiters'
  BY RememberedStep DEF QInv
<1> USE DEF sdkVars, requesterVars, handlerVars, waiterVars, userVars
<1>1. QueuedOnce /\ QueueHasWaiters
  BY DEF QInv
<1>2. CASE UNCHANGED <<waiter, lockQueue>>
  BY <1>1, <1>2, SameQueue
<1>3. ASSUME NEW v \in Verification, WatchSas(v) PROVE QueuedOnce' /\ QueueHasWaiters'
  <2>1. phase[v] = "keys" => waiter[v] = "none"
    BY <1>3 DEF WatchSas, SasStateOf, ComparedOnce
  <2>2. \A u \in Verification : waiter'[u] = "queued" <=> waiter[u] = "queued"
    BY <1>3, <2>1 DEF WatchSas, Typed
  <2>3. lockQueue' = lockQueue
    BY <1>3 DEF WatchSas
  <2> QED BY <1>1, <2>2, <2>3, SameQueue
<1>4. ASSUME NEW v \in Verification, EmitStart(v) PROVE QueuedOnce' /\ QueueHasWaiters'
  <2>1. \A u \in Verification : waiter'[u] = "queued" <=> waiter[u] = "queued"
    BY <1>4 DEF EmitStart, Typed
  <2>2. lockQueue' = lockQueue
    BY <1>4 DEF EmitStart
  <2> QED BY <1>1, <2>1, <2>2, SameQueue
<1>5. ASSUME NEW v \in Verification,
             \/ OtherDevice(v) \/ IncomingRequest(v) \/ VerifyDevice(v) \/ UserCancels(v)
             \/ RequesterNext(v) \/ AcceptSas(v) \/ FollowSas(v)
      PROVE UNCHANGED <<waiter, lockQueue>>
  BY <1>5 DEF OtherDevice, IncomingRequest, VerifyDevice, UserCancels, RequesterNext, Cancel,
       AcceptRequest, RequestDevice, SubscribeRequest, WatchIncoming, WatchProgress, WatchReady,
       StartSas, SasUnavailable, WatchOutcome, AcceptSas, FollowSas
<1>6. CASE UNCHANGED vars \/ \E confirmed \in BOOLEAN : UserResponds(confirmed)
  BY <1>2, <1>6 DEF vars, UserResponds
<1> QED BY <1>1, <1>2, <1>3, <1>4, <1>5, <1>6, LockQueues, TakeUnqueues DEF Next, HandlerNext, WaiterNext

(* Each waiter has one place in the queue: as many places as waiters.      *)
LEMMA QueueIsTyped ==
    ASSUME Typed, QueuedOnce, QueueHasWaiters
    PROVE /\ ToSet(lockQueue) = {v \in Verification : waiter[v] = "queued"}
          /\ Len(lockQueue) = Cardinality(ToSet(lockQueue))
<1>1. /\ Len(lockQueue) \in Nat /\ DOMAIN lockQueue = Queue
      /\ \A i \in Queue : lockQueue[i] \in Verification
      /\ lockQueue \in [Queue -> Verification]
  BY DEF Typed, Queue
<1>2. ToSet(lockQueue) = {lockQueue[i] : i \in Queue}
  BY <1>1 DEF ToSet
<1>3. ToSet(lockQueue) = {v \in Verification : waiter[v] = "queued"}
  BY <1>1, <1>2 DEF QueueHasWaiters
<1>4. lockQueue \in Bijection(1 .. Len(lockQueue), ToSet(lockQueue))
  <2>1. lockQueue \in [Queue -> ToSet(lockQueue)]
    BY <1>1, <1>2
  <2>2. lockQueue \in Injection(Queue, ToSet(lockQueue))
    BY <2>1 DEF QueuedOnce, Injection, IsInjective
  <2>3. lockQueue \in Surjection(Queue, ToSet(lockQueue))
    BY <1>2, <2>1 DEF Surjection
  <2> QED BY <2>2, <2>3 DEF Bijection, Queue
<1>5. ExistsBijection(1 .. Len(lockQueue), ToSet(lockQueue))
  BY <1>4 DEF ExistsBijection
<1>6. Len(lockQueue) = Cardinality(ToSet(lockQueue))
  BY <1>1, <1>5, FS_CountingElements
<1> QED BY <1>3, <1>6

(* Every reachable state is well-typed. In particular the waiters at the   *)
(* receiver's lock are those in its queue, and none is in it twice.        *)
THEOREM VerificationTypeCorrect == Spec => []TypeOK
<1>1. IInv => Typed /\ BegunOnce
  BY DEF IInv
<1>2. MInv => ComparedOnce
  BY DEF MInv
<1>3. Init => QueuedWait
  BY DEF Init, QueuedWait
<1>4. Typed /\ QInv => TypeOK
  BY QueueIsTyped DEF QInv, Remembered, Typed, TypeOK, Phase, Requester, Event, Response
<1> QED BY <1>1, <1>2, <1>3, <1>4, IInvHolds, QueuedStep, InitMInv, MInvStep, InitQInv, QInvStep, PTL DEF Spec
=============================================================================
