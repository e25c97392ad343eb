-------------------------- MODULE UiSignalsProofs ---------------------------
(***************************************************************************)
(* For every set of tasks, every capacity of the broadcast channel and     *)
(* every bound: no wake-up is lost, and the rooms list's updates with      *)
(* their signals are a drained queue as far as safety goes.                *)
(***************************************************************************)
EXTENDS UiSignals, TLAPS

LEMMA SignalsTypeStep ==
    ASSUME TypeOK, [Next]_vars
    PROVE TypeOK'
<1> USE SignalsAssumption DEF TypeOK, Queue, Receiver, debounceVars, screenVars, roomVars
<1>1. ASSUME NEW t \in Task, NEW q \in Pushed, Push(t, q) PROVE TypeOK'
  <2>1. q \in Queue
    OBVIOUS
  <2> QED BY <1>1, <2>1 DEF Push, Idle
<1>2. ASSUME NEW t \in Task, Signal(t) PROVE TypeOK'
  <2>1. unread' \in [Receiver -> 0 .. Capacity + 1]
    BY <1>2 DEF Signal, Broadcast, Lags
  <2> QED BY <1>2, <2>1 DEF Signal
<1>3. ASSUME NEW t \in Task, ServeRequest(t) PROVE TypeOK'
  <2>1. requested' \in BOOLEAN
    BY <1>3 DEF ServeRequest
  <2> QED BY <1>3, <2>1 DEF ServeRequest
<1>4. CASE ShowScreen \/ HideScreen \/ SkipRequest
  <2>1. requested' \in BOOLEAN
    BY <1>4 DEF ShowScreen, HideScreen, SkipRequest
  <2> QED BY <1>4, <2>1 DEF ShowScreen, HideScreen, SkipRequest
<1>5. CASE DebounceNext \/ Elapse
  <2> USE DEF AfterRecv, Lags
  <2>1. CASE DebounceRecv
    <3>1. lastItem' \in BOOLEAN /\ elapsed' \in BOOLEAN
      BY <2>1 DEF DebounceRecv
    <3> QED BY <2>1, <3>1 DEF DebounceRecv
  <2>2. CASE DebounceLagged
    <3>1. elapsed' \in BOOLEAN
      BY <2>2 DEF DebounceLagged
    <3> QED BY <2>2, <3>1 DEF DebounceLagged
  <2>3. CASE DebounceFires
    <3>1. lastItem' \in BOOLEAN /\ elapsed' \in BOOLEAN /\ sending' \in BOOLEAN
      BY <2>3 DEF DebounceFires
    <3> QED BY <2>3, <3>1 DEF DebounceFires
  <2>4. CASE DebounceSent
    <3>1. sending' \in BOOLEAN /\ wake' \in BOOLEAN
      BY <2>4 DEF DebounceSent
    <3> QED BY <2>4, <3>1 DEF DebounceSent
  <2>5. CASE Elapse
    <3>1. elapsed' \in BOOLEAN
      BY <2>5 DEF Elapse
    <3> QED BY <2>5, <3>1 DEF Elapse
  <2> QED BY <1>5, <2>1, <2>2, <2>3, <2>4, <2>5 DEF DebounceNext
<1>6. CASE WorkerNext
  <2>1. CASE WorkerWakes
    BY <2>1 DEF WorkerWakes
  <2>2. CASE WorkerTakes
    BY <2>2 DEF WorkerTakes
  <2>3. CASE WorkerGoesOn
    BY <2>3 DEF WorkerGoesOn
  <2> QED BY <1>6, <2>1, <2>2, <2>3 DEF WorkerNext
<1>7. CASE ScreenNext
  BY <1>7 DEF ScreenNext, ScreenRecv, ScreenTakes, ScreenRests, AfterRecv, Lags
<1>8. CASE SendSilently \/ RoomLeaves
  BY <1>8 DEF SendSilently, RoomLeaves
<1>9. CASE UNCHANGED vars
  BY <1>9 DEF vars
<1> QED BY <1>1, <1>2, <1>3, <1>4, <1>5, <1>6, <1>7, <1>8, <1>9 DEF Next

(* Every variable of the signalling keeps to its type; a receiver never    *)
(* has more unread than one beyond the ring.                               *)
THEOREM SignalsTypeCorrect == Spec => []TypeOK
<1>1. ASSUME Init PROVE TypeOK
  <2>1. /\ lastItem \in BOOLEAN /\ elapsed \in BOOLEAN /\ sending \in BOOLEAN
        /\ wake \in BOOLEAN /\ requested \in BOOLEAN /\ roomKnown \in BOOLEAN
        /\ silent \in BOOLEAN
    BY <1>1 DEF Init
  <2> QED BY <1>1, <2>1, SignalsAssumption DEF Init, TypeOK, Queue, Receiver
<1> QED BY <1>1, SignalsTypeStep, PTL DEF Spec

----------------------------------------------------------------------------

(* After a broadcast every subscribed receiver has a message.              *)
LEMMA BroadcastReaches ==
    ASSUME TypeOK, NEW r \in Receiver, Subscribed(r)
    PROVE Broadcast[r] > 0
BY SignalsAssumption DEF TypeOK, Broadcast, Lags

LEMMA WakeupStep ==
    ASSUME TypeOK, NoLostWakeup, [Next]_vars
    PROVE NoLostWakeup'
<1> USE SignalsAssumption DEF TypeOK, Queue, Receiver, NoLostWakeup, WorkerWillWake, Idle,
                              debounceVars, screenVars, roomVars
<1>1. ASSUME NEW t \in Task, NEW q \in Pushed, Push(t, q) PROVE NoLostWakeup'
  <2>1. q \in Queue
    OBVIOUS
  <2>2. CASE q = "profiles"
    BY <1>1, <2>2 DEF Push
  <2>3. CASE q # "profiles"
    <3>1. task'[t] # "none"
      BY <1>1, <2>1, <2>3 DEF Push
    <3> QED BY <3>1
  <2> QED BY <2>2, <2>3
<1>2. ASSUME NEW t \in Task, Signal(t) PROVE NoLostWakeup'
  <2>1. unread'["debounce"] > 0
    BY <1>2, BroadcastReaches DEF Signal, Subscribed
  <2> QED BY <2>1
<1>3. ASSUME NEW t \in Task, ServeRequest(t) PROVE NoLostWakeup'
  <2>1. task'[t] # "none"
    BY <1>3 DEF ServeRequest
  <2> QED BY <2>1
<1>4. CASE ShowScreen \/ HideScreen \/ SkipRequest
  BY <1>4 DEF ShowScreen, HideScreen, SkipRequest
<1>5. CASE DebounceNext \/ Elapse
  BY <1>5 DEF DebounceNext, Elapse, DebounceRecv, DebounceLagged, DebounceFires,
              DebounceSent, AfterRecv, Lags
<1>6. CASE WorkerNext
  <2>1. CASE WorkerWakes
    BY <2>1 DEF WorkerWakes
  <2>2. CASE WorkerTakes
    BY <2>2 DEF WorkerTakes
  <2>3. CASE WorkerGoesOn
    BY <2>3 DEF WorkerGoesOn
  <2> QED BY <1>6, <2>1, <2>2, <2>3 DEF WorkerNext
<1>7. CASE ScreenNext
  BY <1>7 DEF ScreenNext, ScreenRecv, ScreenTakes, ScreenRests, AfterRecv, Lags
<1>8. CASE SendSilently \/ RoomLeaves
  BY <1>8 DEF SendSilently, RoomLeaves
<1>9. CASE UNCHANGED vars
  BY <1>9 DEF vars
<1> QED BY <1>1, <1>2, <1>3, <1>4, <1>5, <1>6, <1>7, <1>8, <1>9 DEF Next

(* Whatever the debounce merges and a lagging receiver loses: while an     *)
(* update or a toast is queued, ui_worker has not yet passed its queue or  *)
(* a signal is on its way.                                                 *)
THEOREM WakeupsAreNotLost == Spec => []NoLostWakeup
<1>1. Init => NoLostWakeup
  BY DEF Init, NoLostWakeup, Queue
<1> QED BY <1>1, WakeupStep, SignalsTypeCorrect, PTL DEF Spec

LEMMA ScreenWokenStep ==
    ASSUME TypeOK, ScreenIsWoken, [Next]_vars
    PROVE ScreenIsWoken'
<1> USE SignalsAssumption DEF TypeOK, Queue, Receiver, ScreenIsWoken, Subscribed, Idle,
                              debounceVars, screenVars, roomVars
<1>1. ASSUME NEW t \in Task, NEW q \in Pushed, Push(t, q) PROVE ScreenIsWoken'
  <2>1. q \in Queue
    OBVIOUS
  <2>2. CASE q = "profiles"
    BY <1>1, <2>2 DEF Push
  <2>3. CASE q # "profiles"
    <3>1. task'[t] # "none"
      BY <1>1, <2>1, <2>3 DEF Push
    <3> QED BY <3>1
  <2> QED BY <2>2, <2>3
<1>2. ASSUME NEW t \in Task, Signal(t) PROVE ScreenIsWoken'
  <2>1. Subscribed("screen") => unread'["screen"] > 0
    BY <1>2, BroadcastReaches DEF Signal
  <2> QED BY <1>2, <2>1 DEF Signal
<1>3. ASSUME NEW t \in Task, ServeRequest(t) PROVE ScreenIsWoken'
  <2>1. task'[t] # "none"
    BY <1>3 DEF ServeRequest
  <2> QED BY <2>1
<1>4. CASE ShowScreen \/ HideScreen \/ SkipRequest
  BY <1>4 DEF ShowScreen, HideScreen, SkipRequest
<1>5. CASE DebounceNext \/ Elapse
  BY <1>5 DEF DebounceNext, Elapse, DebounceRecv, DebounceLagged, DebounceFires,
              DebounceSent, AfterRecv, Lags
<1>6. CASE WorkerNext
  BY <1>6 DEF WorkerNext, WorkerWakes, WorkerTakes, WorkerGoesOn
<1>7. CASE ScreenNext
  <2>1. CASE ScreenRecv
    BY <2>1 DEF ScreenRecv
  <2>2. CASE ScreenTakes
    BY <2>2 DEF ScreenTakes
  <2>3. CASE ScreenRests
    BY <2>3 DEF ScreenRests
  <2> QED BY <1>7, <2>1, <2>2, <2>3 DEF ScreenNext
<1>8. CASE SendSilently \/ RoomLeaves
  BY <1>8 DEF SendSilently, RoomLeaves
<1>9. CASE UNCHANGED vars
  BY <1>9 DEF vars
<1> QED BY <1>1, <1>2, <1>3, <1>4, <1>5, <1>6, <1>7, <1>8, <1>9 DEF Next

(* As long as its room is there, a screen on display hears of every update *)
(* in its channel that some task signals, also when it was restored from   *)
(* its saved state: these are signalled after they are pushed, and the     *)
(* request made by a restored screen is answered by one of them.           *)
THEOREM ScreensAreWoken == Spec => []ScreenIsWoken
<1>1. Init => ScreenIsWoken
  BY DEF Init, ScreenIsWoken, Queue
<1> QED BY <1>1, ScreenWokenStep, SignalsTypeCorrect, PTL DEF Spec

----------------------------------------------------------------------------

LEMMA DrainedStep ==
    ASSUME TypeOK, [Next]_vars
    PROVE [RoomUpdatesQueue!Next]_(RoomUpdatesQueue!vars)
<1> USE SignalsAssumption DEF TypeOK, Queue, RoomUpdatesQueue!Next, RoomUpdatesQueue!vars,
                              debounceVars, screenVars, roomVars
<1>1. ASSUME NEW t \in Task, NEW q \in Pushed, Push(t, q)
      PROVE RoomUpdatesQueue!Push \/ UNCHANGED RoomUpdatesQueue!vars
  <2>1. CASE q = "rooms"
    BY <1>1, <2>1 DEF Push, RoomUpdatesQueue!Push
  <2>2. CASE q # "rooms"
    BY <1>1, <2>2 DEF Push
  <2> QED BY <2>1, <2>2
<1>2. ASSUME NEW t \in Task, Signal(t) \/ ServeRequest(t)
      PROVE UNCHANGED RoomUpdatesQueue!vars
  BY <1>2 DEF Signal, ServeRequest
<1>3. CASE WorkerWakes
  BY <1>3 DEF WorkerWakes, RoomUpdatesQueue!Wake
<1>4. CASE WorkerTakes
  <2>1. CASE worker = "rooms"
    BY <1>4, <2>1 DEF WorkerTakes, RoomUpdatesQueue!Take
  <2>2. CASE worker # "rooms"
    BY <1>4, <2>2 DEF WorkerTakes
  <2> QED BY <2>1, <2>2
<1>5. CASE WorkerGoesOn
  <2>1. CASE worker = "rooms"
    BY <1>5, <2>1 DEF WorkerGoesOn, RoomUpdatesQueue!Rest
  <2>2. CASE worker # "rooms"
    BY <1>5, <2>2 DEF WorkerGoesOn
  <2> QED BY <2>1, <2>2
<1>6. CASE \/ ShowScreen \/ HideScreen \/ SkipRequest \/ SendSilently \/ RoomLeaves
           \/ DebounceNext \/ Elapse \/ ScreenNext \/ UNCHANGED vars
  BY <1>6 DEF ShowScreen, HideScreen, SkipRequest, SendSilently, RoomLeaves, DebounceNext,
              DebounceRecv, DebounceLagged, DebounceFires, DebounceSent, Elapse, ScreenNext,
              ScreenRecv, ScreenTakes, ScreenRests, vars
<1> QED BY <1>1, <1>2, <1>3, <1>4, <1>5, <1>6 DEF Next, WorkerNext

(* The updates of the rooms list, their signals and the first part of each *)
(* round of ui_worker implement the queue of DrainedQueue.                 *)
THEOREM DrainedQueueIsImplemented == Spec => RoomUpdatesQueue!Safety
<1>1. Init => RoomUpdatesQueue!Init
  BY DEF Init, Queue, RoomUpdatesQueue!Init
<1>2. TypeOK /\ [Next]_vars => [RoomUpdatesQueue!Next]_(RoomUpdatesQueue!vars)
  BY DrainedStep
<1> QED BY <1>1, <1>2, SignalsTypeCorrect, PTL DEF Spec, RoomUpdatesQueue!Safety
=============================================================================
