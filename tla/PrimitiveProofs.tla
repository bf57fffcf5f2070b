-------------------------- MODULE PrimitiveProofs --------------------------
(***************************************************************************)
(* What is proved of three small objects of the POSIX backend, each on its *)
(* own: the software timer, the event group, and the thread with its event.*)
(***************************************************************************)
EXTENDS PosixTimer, PosixEventGroup, PosixThread, TLAPS

-----------------------------------------------------------------------------
(* The timer. *)

(* The type invariant in two halves: the flags, and what is counted or compared. *)
Flags ==
    /\ armed \in BOOLEAN /\ reprogram \in BOOLEAN /\ stop \in BOOLEAN /\ created \in BOOLEAN
    /\ one_shot \in BOOLEAN /\ shots \in BOOLEAN /\ quiet \in BOOLEAN

Values ==
    /\ period \in Periods /\ left \in 0..MaxPeriod /\ age \in 0..MaxPeriod
    /\ dispatcher \in Waiting \cup {"none", "top", "woken", "expired", "fire", "callback", "exited"}
    /\ joining \subseteq Clients

(* What makes a firing justified.  From the moment a deadline is programmed, what has
   passed and what is left of it add up to the period, unless something changed; and a
   timer that is armed was asked to run and, if it is a one-shot timer, has not fired. *)
Deadline ==
    /\ dispatcher \in {"timedwait", "woken", "expired"} /\ armed /\ ~stop /\ ~reprogram =>
           age + left >= period
    /\ dispatcher = "expired" => left = 0
    /\ armed => ~quiet /\ (one_shot => ~shots)

TimerInv == Values /\ NoCallbackAfterDeinit /\ SleepsOnCurrentState /\ Deadline

(* Every step of the timer keeps its flags boolean. *)
LEMMA TimerFlags ==
    ASSUME Flags, [TimerNext]_timer_vars
    PROVE  Flags'
<1> USE DEF Flags, timer, ghost
<1>1. CASE Dispatch
    BY <1>1, ZenonT(60) DEF Dispatch, DispatchTop, DispatchWoken, DispatchExpired,
         Top, Fire, CallbackBegins, CallbackReturns
<1>2. CASE TimerDeadlinePasses \/ TimerSpuriousWakeup \/ Tick \/ UNCHANGED timer_vars
    BY <1>2, ZenonT(60) DEF TimerDeadlinePasses, TimerSpuriousWakeup, Tick, timer_vars
<1>3. ASSUME NEW c \in Clients \cup {Dispatcher}, TimerCall(c)
      PROVE  Flags'
    BY <1>3, Zenon DEF TimerCall, ove_timer_init_ns, ove_timer_start, Rearm,
         ove_timer_set_period_ns, ove_timer_stop, ove_timer_deinit
<1>4. ASSUME NEW c \in Clients, Joined(c)
      PROVE  Flags'
    BY <1>4, Zenon DEF Joined
<1> QED
    BY <1>1, <1>2, <1>3, <1>4, Zenon DEF TimerNext

(* The dispatcher's steps, the passing of time and spurious wakeups keep the invariant. *)
LEMMA DispatchKeepsTimerInv ==
    ASSUME TimerAssumption, Flags, TimerInv,
           Dispatch \/ TimerDeadlinePasses \/ TimerSpuriousWakeup \/ Tick
    PROVE  TimerInv'
<1> USE DEF TimerAssumption, Periods, Waiting, timer, ghost,
            TimerInv, Values, NoCallbackAfterDeinit, SleepsOnCurrentState, Deadline
<1>1. CASE DispatchTop
    BY <1>1 DEF DispatchTop, Top
<1>2. CASE DispatchWoken
    BY <1>2 DEF DispatchWoken, Top
<1>3. CASE DispatchExpired
    BY <1>3 DEF DispatchExpired, Top, Fire, Flags
<1>4. CASE CallbackBegins \/ CallbackReturns
    BY <1>4 DEF CallbackBegins, CallbackReturns
<1>5. CASE TimerDeadlinePasses \/ TimerSpuriousWakeup
    BY <1>5 DEF TimerDeadlinePasses, TimerSpuriousWakeup, Resumed
<1>6. CASE Tick
    BY <1>6 DEF Tick
<1> QED
    BY <1>1, <1>2, <1>3, <1>4, <1>5, <1>6, Zenon DEF Dispatch

(* So do the calls of the API, made by the clients or by the callback. *)
LEMMA CallKeepsTimerInv ==
    ASSUME TimerAssumption, TimerInv,
           NEW c \in Clients \cup {Dispatcher},
           TimerCall(c) \/ (c \in Clients /\ Joined(c))
    PROVE  TimerInv'
<1> USE DEF TimerAssumption, Periods, Waiting, timer, ghost,
            TimerInv, Values, NoCallbackAfterDeinit, SleepsOnCurrentState, Deadline
<1>1. ASSUME NEW p \in Periods, NEW o \in BOOLEAN, ove_timer_init_ns(c, p, o)
      PROVE  TimerInv'
    BY <1>1 DEF ove_timer_init_ns
<1>2. CASE ove_timer_start(c)
    BY <1>2 DEF ove_timer_start, Rearm, MayCall, Signal, Resumed
<1>3. ASSUME NEW p \in Periods, ove_timer_set_period_ns(c, p)
      PROVE  TimerInv'
    BY <1>3 DEF ove_timer_set_period_ns, Rearm, MayCall, Signal, Resumed
<1>4. CASE ove_timer_stop(c)
    BY <1>4, Zenon DEF ove_timer_stop, MayCall, Signal, Resumed
<1>5. CASE ove_timer_deinit(c)
    BY <1>5, Zenon DEF ove_timer_deinit, MayCall, Signal, Resumed
<1>6. CASE Joined(c)
    BY <1>6, Zenon DEF Joined
<1> HIDE DEF TimerInv
<1> QED
    BY <1>1, <1>2, <1>3, <1>4, <1>5, <1>6, Zenon DEF TimerCall

(* The invariant of the timer holds always. *)
LEMMA TimerInvariant == TimerSpec => [](Flags /\ TimerInv)
<1>1. TimerInit => Flags
    BY Zenon DEF TimerInit, Flags
<1>2. TimerInit => TimerInv
    BY TimerAssumption DEF TimerInit, TimerInv, Values, Waiting, Periods,
           NoCallbackAfterDeinit, SleepsOnCurrentState, Deadline
<1>3. Flags /\ TimerInv /\ [TimerNext]_timer_vars => TimerInv'
  <2>1. ASSUME TimerInv, UNCHANGED timer_vars
        PROVE  TimerInv'
    BY <2>1, Zenon DEF TimerInv, timer_vars, timer, ghost, Values, Waiting,
                Periods, NoCallbackAfterDeinit, SleepsOnCurrentState, Deadline
  <2> QED
    BY <2>1, TimerAssumption, DispatchKeepsTimerInv, CallKeepsTimerInv, Zenon DEF TimerNext
<1> QED
    BY <1>1, <1>2, <1>3, TimerFlags, PTL DEF TimerSpec

(* The state of the timer stays within its types. *)
THEOREM TimerType == TimerSpec => []TimerTypeOK
<1>1. Flags /\ TimerInv => TimerTypeOK
    BY Zenon DEF Flags, TimerInv, Values, TimerTypeOK
<1> QED
    BY <1>1, TimerInvariant, PTL

(* Once ove_timer_deinit has returned no callback runs or is about to run. *)
THEOREM TimerDeinitFinal == TimerSpec => []NoCallbackAfterDeinit
<1>1. TimerInv => NoCallbackAfterDeinit
    BY Zenon DEF TimerInv
<1> QED
    BY <1>1, TimerInvariant, PTL

(* The dispatcher never sleeps through a start, stop, change of period or teardown. *)
THEOREM TimerNoLostSignal == TimerSpec => []SleepsOnCurrentState
<1>1. TimerInv => SleepsOnCurrentState
    BY Zenon DEF TimerInv
<1> QED
    BY <1>1, TimerInvariant, PTL

(* No callback is early, one too many for a one-shot timer, or decided on after a stop. *)
THEOREM TimerFiringJustified == TimerSpec => FiringJustified
<1>1. ASSUME TimerInv, TimerNext, dispatcher # "fire", dispatcher' = "fire"
      PROVE  age >= period /\ (one_shot => ~shots) /\ ~quiet
  <2>1. DispatchExpired
    BY <1>1, Zenon DEF TimerInv, Values, Waiting, TimerNext, Dispatch, TimerCall,
         DispatchTop, DispatchWoken, Top, CallbackBegins,
         CallbackReturns, TimerDeadlinePasses, TimerSpuriousWakeup, Tick,
         ove_timer_init_ns, ove_timer_start, ove_timer_set_period_ns,
         Rearm, ove_timer_stop, ove_timer_deinit, Signal,
         Resumed, Joined
  <2>2. dispatcher = "expired" /\ armed /\ ~stop /\ ~reprogram
    BY <1>1, <2>1, Zenon DEF DispatchExpired, Top
  <2> QED
    BY <1>1, <2>2 DEF TimerInv, Values, Periods, Deadline
<1>2. TimerInv /\ [TimerNext]_timer_vars =>
          [dispatcher # "fire" /\ dispatcher' = "fire" =>
               age >= period /\ (one_shot => ~shots) /\ ~quiet]_timer_vars
    BY <1>1, Zenon
<1> QED
    BY <1>2, TimerInvariant, PTL DEF TimerSpec, FiringJustified

-----------------------------------------------------------------------------
(* The event group. *)

GroupType ==
    /\ bits \subseteq Bits
    /\ where \in [Callers -> {"idle", "wait", "loop", "timedout", "notify"}]
    /\ req \in [Callers -> Requests \cup {NoRequest}]
    /\ takes \in [Bits -> Nat]

(* A bit that is set has not been taken since. *)
SetUntaken == \A i \in bits : takes[i] = 0

GroupInv == GroupType /\ SleepersUnsatisfied /\ SetUntaken /\ TakenOnce

(* ove_eventgroup_set_bits wakes everybody and makes the bits new. *)
LEMMA SetBitsStep ==
    ASSUME EventGroupAssumption, GroupInv,
           NEW t \in Callers, NEW m \in Masks, ove_eventgroup_set_bits(t, m)
    PROVE  GroupInv'
<1> USE DEF GroupInv, GroupType, ove_eventgroup_set_bits, SetBits
<1>1. GroupType'
    BY Zenon DEF EventGroupAssumption
<1>2. SleepersUnsatisfied'
    BY Zenon DEF SleepersUnsatisfied, Sleepers
<1>3. SetUntaken' /\ TakenOnce'
    BY DEF SetUntaken, TakenOnce
<1> QED
    BY <1>1, <1>2, <1>3, Zenon

(* A step that only takes bits away, and puts to sleep nobody but a waiter with an
   unsatisfied request, leaves no satisfied sleeper. *)
LEMMA SleepersStep ==
    ASSUME GroupType, SleepersUnsatisfied, bits' \subseteq bits,
           \A t \in Callers : where'[t] = "wait" =>
               (where[t] = "wait" /\ req'[t] = req[t]) \/ ~Satisfied(req'[t])
    PROVE  SleepersUnsatisfied'
    BY Zenon DEF SleepersUnsatisfied, Sleepers, Satisfied

(* The test of the bits, on the call and after each wakeup. *)
LEMMA WaitTestStep ==
    ASSUME GroupInv, NEW t \in Callers, NEW r \in Requests \cup {NoRequest},
           WaitTest(t, r)
    PROVE  GroupInv'
<1> USE DEF GroupInv, GroupType, WaitTest
<1>1. CASE Satisfied(r) /\ Match(t, r)
  <2> USE <1>1 DEF Match, Return
  <2>1. GroupType'
    OBVIOUS
  <2>2. SleepersUnsatisfied'
    BY SleepersStep, Zenon
  <2>3. SetUntaken' /\ TakenOnce'
    BY DEF SetUntaken, TakenOnce
  <2> QED
    BY <2>1, <2>2, <2>3, Zenon
<1>2. CASE ~Satisfied(r) /\ Sleep(t, r)
  <2> USE <1>2 DEF Sleep
  <2>1. GroupType'
    BY Zenon
  <2>2. SleepersUnsatisfied'
    BY SleepersStep, Zenon
  <2>3. SetUntaken' /\ TakenOnce'
    BY Zenon DEF SetUntaken, TakenOnce
  <2> QED
    BY <2>1, <2>2, <2>3, Zenon
<1> QED
    BY <1>1, <1>2, Zenon

(* The steps that leave the bits alone, or only clear some. *)
LEMMA OtherGroupStep ==
    ASSUME GroupInv, NEW t \in Callers,
           \/ \E m \in Masks : ove_eventgroup_clear_bits(t, m)
           \/ GroupSpuriousWakeup(t) \/ GroupDeadlinePasses(t)
           \/ TimedOut(t) \/ Notify(t)
    PROVE  GroupInv'
<1> USE DEF GroupInv, GroupType, ove_eventgroup_clear_bits, GroupSpuriousWakeup,
            GroupDeadlinePasses, TimedOut, Return, Notify
<1>1. GroupType'
    BY Zenon
<1>2. SleepersUnsatisfied'
    BY SleepersStep, Zenon
<1>3. SetUntaken' /\ TakenOnce'
    BY Zenon DEF SetUntaken, TakenOnce
<1> QED
    BY <1>1, <1>2, <1>3, Zenon

(* Every step of the event group keeps its invariant. *)
LEMMA GroupInvStep ==
    ASSUME EventGroupAssumption, GroupInv, [GroupNext]_group_vars
    PROVE  GroupInv'
<1>1. CASE ove_eventgroup_deinit \/ ove_eventgroup_init \/ UNCHANGED group_vars
  <2> USE <1>1 DEF GroupInv, GroupType, ove_eventgroup_deinit, ove_eventgroup_init,
                   group_vars
  <2>1. GroupType'
    OBVIOUS
  <2>2. SleepersUnsatisfied'
    BY Zenon DEF SleepersUnsatisfied, Sleepers, Satisfied
  <2>3. SetUntaken' /\ TakenOnce'
    BY DEF SetUntaken, TakenOnce
  <2> QED
    BY <2>1, <2>2, <2>3, Zenon
<1>2. ASSUME NEW t \in Callers,
             GroupCall(t) \/ GroupContinue(t) \/ GroupDeadlinePasses(t) \/ GroupSpuriousWakeup(t)
      PROVE  GroupInv'
  <2>1. ASSUME NEW r \in Requests, ove_eventgroup_wait_bits(t, r)
        PROVE  GroupInv'
    BY <2>1, WaitTestStep, Zenon DEF ove_eventgroup_wait_bits
  <2>2. CASE Woken(t)
    BY <2>2, WaitTestStep, Zenon DEF Woken, GroupInv, GroupType
  <2>3. CASE GroupDeadlinePasses(t) \/ GroupSpuriousWakeup(t) \/ TimedOut(t) \/ Notify(t)
    BY <2>3, OtherGroupStep, Zenon
  <2>4. ASSUME NEW m \in Masks,
               ove_eventgroup_set_bits(t, m) \/ ove_eventgroup_clear_bits(t, m)
        PROVE  GroupInv'
    BY <2>4, SetBitsStep, OtherGroupStep, Zenon
  <2> QED
    BY <1>2, <2>1, <2>2, <2>3, <2>4, Zenon DEF GroupCall, GroupContinue
<1> QED
    BY <1>1, <1>2, Zenon DEF GroupNext

(* The invariant of the event group holds always. *)
LEMMA GroupInvariant == GroupSpec => []GroupInv
<1>1. GroupInit => GroupInv
    BY DEF GroupInit, GroupInv, GroupType, SleepersUnsatisfied, Sleepers,
           SetUntaken, TakenOnce
<1>2. GroupInv /\ [GroupNext]_group_vars => GroupInv'
    BY EventGroupAssumption, GroupInvStep, Zenon
<1> QED
    BY <1>1, <1>2, PTL DEF GroupSpec

(* No waiter sleeps through bits that satisfy it, whatever its mask and flags. *)
THEOREM GroupNoLostWakeup == GroupSpec => []SleepersUnsatisfied
<1>1. GroupInv => SleepersUnsatisfied
    BY Zenon DEF GroupInv
<1> QED
    BY <1>1, GroupInvariant, PTL

(* A bit that was set once is taken by one clearing waiter at most. *)
THEOREM GroupTakenOnce == GroupSpec => []TakenOnce
<1>1. GroupInv => TakenOnce
    BY Zenon DEF GroupInv
<1> QED
    BY <1>1, GroupInvariant, PTL

(* ove_eventgroup_wait_bits returns OVE_OK only on its caller's condition, and with
   OVE_EG_CLEAR_ON_EXIT leaves none of the bits asked for. *)
THEOREM GroupReturnsOnCondition == GroupSpec => ReturnsOnCondition
<1>1. ASSUME GroupInv, GroupNext, NEW t \in Callers,
             where[t] \in {"wait", "loop"}, where'[t] = "idle"
      PROVE  /\ IF req[t].all THEN req[t].mask \subseteq bits ELSE req[t].mask \cap bits # {}
             /\ req[t].clear => req[t].mask \cap bits' = {}
  <2>1. Woken(t)
    <3> USE DEF GroupInv, GroupType
    <3>1. ASSUME NEW u \in Callers, NEW r, WaitTest(u, r), u # t
          PROVE  where'[t] = where[t]
      BY <1>1, <3>1, Zenon DEF WaitTest, Match, Return, Sleep
    <3>2. ASSUME NEW u \in Callers, GroupCall(u)
          PROVE  FALSE
      <4>1. ASSUME NEW m \in Masks, ove_eventgroup_set_bits(u, m)
            PROVE  FALSE
        BY <1>1, <4>1, Zenon DEF ove_eventgroup_set_bits, SetBits
      <4>2. ASSUME NEW m \in Masks, ove_eventgroup_clear_bits(u, m)
            PROVE  FALSE
        BY <1>1, <4>2, Zenon DEF ove_eventgroup_clear_bits
      <4>3. ASSUME NEW r, ove_eventgroup_wait_bits(u, r)
            PROVE  FALSE
        BY <1>1, <3>1, <4>3, Zenon DEF ove_eventgroup_wait_bits
      <4> QED
        BY <3>2, <4>1, <4>2, <4>3, Zenon DEF GroupCall
    <3>3. ASSUME NEW u \in Callers, TimedOut(u) \/ Notify(u)
          PROVE  FALSE
      BY <1>1, <3>3, Zenon DEF TimedOut, Return, Notify
    <3>4. ASSUME NEW u \in Callers, GroupDeadlinePasses(u) \/ GroupSpuriousWakeup(u)
          PROVE  FALSE
      BY <1>1, <3>4, Zenon DEF GroupDeadlinePasses, GroupSpuriousWakeup
    <3>5. ASSUME NEW u \in Callers, Woken(u)
          PROVE  u = t
      BY <1>1, <3>1, <3>5, Zenon DEF Woken
    <3>6. CASE ove_eventgroup_deinit \/ ove_eventgroup_init
      BY <1>1, <3>6, Zenon DEF ove_eventgroup_deinit, ove_eventgroup_init
    <3> HIDE DEF GroupInv, GroupType
    <3> QED
      BY <1>1, <3>2, <3>3, <3>4, <3>5, <3>6, Zenon DEF GroupNext, GroupContinue
  <2>2. Satisfied(req[t]) /\ Match(t, req[t])
    BY <1>1, <2>1, Zenon DEF Woken, WaitTest, Sleep, GroupInv, GroupType
  <2> QED
    BY <2>2, Zenon DEF Satisfied, Match
<1>2. GroupInv /\ [GroupNext]_group_vars =>
          [\A t \in Callers :
              where[t] \in {"wait", "loop"} /\ where'[t] = "idle" =>
                  /\ IF req[t].all THEN req[t].mask \subseteq bits ELSE req[t].mask \cap bits # {}
                  /\ req[t].clear => req[t].mask \cap bits' = {}]_group_vars
    BY <1>1, Zenon
<1> QED
    BY <1>2, GroupInvariant, PTL DEF GroupSpec, ReturnsOnCondition

-----------------------------------------------------------------------------
(* The thread and its event. *)

Places ==
    {"none", "new", "poll", "exit", "leave", "done", "lock", "test", "wait", "woken", "timedout",
     "expired", "idle", "signal", "store", "post", "wake", "wakepost", "join"}

ThreadType == suspend_sem \in Nat /\ at \in [Threads -> Places]

(* SIGUSR1 and its handler have to do with a thread that runs: none is pending for a
   thread that is gone, and the handler does not run in one that has not begun.  A mark
   is the handler's, which has not left its loop. *)
HandlerInv ==
    /\ at[Worker] \in {"none", "new", "done"} => handler = "none"
    /\ at[Worker] \in {"none", "done"} => ~pending
    /\ state = "SUSPENDED" => handler \in {"look", "sleep"}

ThreadInv == ThreadType /\ HandlerInv /\ ResumeReachesHandler /\ SignalSeen

(* Steps of SIGUSR1. *)
LEMMA HandlerStep ==
    ASSUME ThreadAssumption, ThreadInv, Deliver \/ sigusr1_handler
    PROVE  ThreadInv'
<1> USE DEF ThreadInv, ThreadType, HandlerInv, ResumeReachesHandler, SignalSeen,
            thread, event, signal
<1>1. CASE Deliver
    BY <1>1, Zenon DEF Deliver
<1>2. CASE Mark
    BY <1>2, Zenon DEF Mark
<1>3. CASE HandlerLoop
    BY <1>3 DEF HandlerLoop
<1> QED
    BY <1>1, <1>2, <1>3, Zenon DEF sigusr1_handler

(* What ove_event_wait does to the event's waiters. *)
LEMMA EventWaitSignalSeen ==
    ASSUME ThreadAssumption, ThreadType, SignalSeen,
           NEW t \in Threads, ove_event_wait(t) \/ Clock(t)
    PROVE  SignalSeen'
<1> USE DEF ThreadType, Places, SignalSeen, Goto
<1>1. CASE Acquire(t)
    BY <1>1, Zenon DEF Acquire
<1>2. CASE Test(t)
    BY <1>2, Zenon DEF Test, Consume
<1>3. CASE Expired(t)
    BY <1>3, Zenon DEF Expired, Consume
<1>4. CASE Clock(t)
    BY <1>4, Zenon DEF Clock, DeadlinePasses, SpuriousWakeup, event
<1> QED
    BY <1>1, <1>2, <1>3, <1>4, Zenon DEF ove_event_wait

(* What it leaves alone. *)
LEMMA EventWaitFrame ==
    ASSUME ThreadAssumption, ThreadType,
           NEW t \in Threads, ove_event_wait(t) \/ Clock(t)
    PROVE  /\ ThreadType' /\ UNCHANGED <<suspend_sem, pending, handler>>
           /\ \A u \in Threads : u # t => at'[u] = at[u]
           /\ at[t] \in {"lock", "test", "wait", "woken", "timedout", "expired"}
           /\ at'[t] \in {"test", "wait", "woken", "timedout", "expired", "poll", "idle"}
           /\ state' # state => t = Worker /\ state' # "SUSPENDED" /\ ~Clock(t)
<1> USE DEF ThreadType, Places, Goto, SetState, thread, signal
<1>1. CASE Acquire(t)
    BY <1>1, Zenon DEF Acquire, Clock, DeadlinePasses, SpuriousWakeup
<1>2. CASE Test(t)
    BY <1>2, Zenon DEF Test, Consume, Home, Clock,
                DeadlinePasses, SpuriousWakeup
<1>3. CASE Expired(t)
    BY <1>3, Zenon DEF Expired, Consume, Home
<1>4. CASE Clock(t)
    BY <1>4, Zenon DEF Clock, DeadlinePasses, SpuriousWakeup
<1> QED
    BY <1>1, <1>2, <1>3, <1>4, Zenon DEF ove_event_wait

(* A step of ove_event_wait, or of the clock for one who waits, keeps the invariant. *)
LEMMA EventWaitStep ==
    ASSUME ThreadAssumption, ThreadInv,
           NEW t \in Threads,
           \/ ove_event_wait(t) /\ (t = Worker => handler = "none")
           \/ Clock(t)
    PROVE  ThreadInv'
<1>1. /\ ThreadType' /\ UNCHANGED <<suspend_sem, pending, handler>>
      /\ \A u \in Threads : u # t => at'[u] = at[u]
      /\ at[t] \in {"lock", "test", "wait", "woken", "timedout", "expired"}
      /\ at'[t] \in {"test", "wait", "woken", "timedout", "expired", "poll", "idle"}
      /\ state' # state => t = Worker /\ state' # "SUSPENDED" /\ ~Clock(t)
    BY EventWaitFrame, Zenon DEF ThreadInv
<1>2. SignalSeen'
    BY EventWaitSignalSeen, Zenon DEF ThreadInv
<1>3. HandlerInv'
    BY <1>1, Zenon DEF ThreadInv, HandlerInv, Threads
<1>4. ResumeReachesHandler'
    BY <1>1, Zenon DEF ThreadInv, ResumeReachesHandler, Threads
<1> QED
    BY <1>1, <1>2, <1>3, <1>4, Zenon DEF ThreadInv

(* Steps of the thread's own code. *)
LEMMA WorkerStepInv ==
    ASSUME ThreadAssumption, ThreadInv, WorkerStep
    PROVE  ThreadInv'
<1> Worker \in Threads
    BY Zenon DEF Threads
<1>1. CASE ove_event_wait(Worker)
    BY <1>1, EventWaitStep, Zenon DEF WorkerStep
<1>2. CASE thread_wrapper \/ ove_thread_should_stop
  <2> USE <1>2 DEF ThreadInv, ThreadType, Places, WorkerStep, thread_wrapper,
          ove_thread_should_stop, Goto, thread, signal, event
  <2>1. ThreadType'
    BY Zenon
  <2>2. HandlerInv'
    BY Zenon DEF HandlerInv
  <2>3. ResumeReachesHandler'
    BY Zenon DEF ResumeReachesHandler
  <2>4. SignalSeen'
    BY Zenon DEF SignalSeen
  <2> QED
    BY <2>1, <2>2, <2>3, <2>4, Zenon
<1> QED
    BY <1>1, <1>2, Zenon DEF WorkerStep

(* Calls that begin, or go on, on the thread's handle. *)
LEMMA HandleStep ==
    ASSUME ThreadAssumption, ThreadInv, NEW c \in Controllers,
           \/ ove_thread_init(c) \/ ove_thread_suspend(c)
           \/ ove_thread_request_stop(c) \/ ove_thread_resume(c)
           \/ ove_thread_deinit(c)
    PROVE  ThreadInv'
<1> c \in Threads /\ Worker \in Threads /\ c # Worker
    BY Zenon DEF Threads, ThreadAssumption
<1> USE DEF ThreadInv, ThreadType, Places, HandlerInv, ResumeReachesHandler,
            SignalSeen, Goto, thread, signal, event
<1>1. CASE ove_thread_init(c)
    BY <1>1, Zenon DEF ove_thread_init
<1>2. CASE ove_thread_suspend(c)
    BY <1>2, Zenon DEF ove_thread_suspend, Usable
<1>3. CASE ove_thread_request_stop(c)
    BY <1>3, Zenon DEF ove_thread_request_stop
<1>4. CASE ove_thread_resume(c)
    BY <1>4 DEF ove_thread_resume, Resume
<1>5. CASE ove_thread_deinit(c)
  <2>1. CASE Resume(c, "wake", "wakepost", "join")
    BY <2>1 DEF Resume
  <2>2. CASE at[c] = "join"
    BY <1>5, <2>2 DEF ove_thread_deinit, Resume
  <2>3. CASE at[c] = "idle"
    <3>1. /\ ThreadType' /\ UNCHANGED <<state, suspend_sem, pending, handler, signaled>>
          /\ \A t \in Threads : t # c => at'[t] = at[t]
          /\ at'[c] \in {"wake", "join"}
      BY <1>5, <2>3, Zenon DEF ove_thread_deinit, Resume
    <3>2. Controllers \subseteq Threads
      BY Zenon DEF Threads
    <3> QED
      BY <2>3, <3>1, <3>2, ZenonT(60)
  <2> QED
    BY <1>5, <2>1, <2>2, <2>3, Zenon DEF ove_thread_deinit
<1> QED
    BY <1>1, <1>2, <1>3, <1>4, <1>5, Zenon

(* Calls that begin on the event, and ove_event_signal. *)
LEMMA EventSignalStep ==
    ASSUME ThreadAssumption, ThreadInv, NEW c \in Controllers,
           UseEvent(c) \/ ove_event_signal(c)
    PROVE  ThreadInv'
<1> c \in Threads /\ Worker \in Threads /\ c # Worker
    BY Zenon DEF Threads, ThreadAssumption
<1> USE DEF ThreadInv, ThreadType, Places, Goto, thread, signal, event,
            UseEvent, ove_event_signal
<1>1. ThreadType' /\ UNCHANGED <<suspend_sem, state, pending, handler>>
    BY Zenon
<1>2. HandlerInv'
    BY DEF HandlerInv
<1>3. ResumeReachesHandler'
  <2>1. \A d \in Controllers : at[d] \in {"post", "wakepost"} => at'[d] = at[d]
    BY Zenon DEF Threads
  <2> QED
    BY <1>1, <2>1, Zenon DEF ResumeReachesHandler
<1>4. SignalSeen'
    BY Zenon DEF SignalSeen
<1> QED
    BY <1>1, <1>2, <1>3, <1>4, Zenon

(* Every step of the threads keeps their invariant. *)
LEMMA ThreadInvStep ==
    ASSUME ThreadAssumption, ThreadInv, [ThreadNext]_thread_vars
    PROVE  ThreadInv'
<1>1. CASE UNCHANGED thread_vars
    BY <1>1, Zenon DEF ThreadInv, ThreadType, HandlerInv, ResumeReachesHandler, SignalSeen,
                thread_vars, thread, signal, event
<1>2. ASSUME NEW c \in Controllers, ThreadCall(c)
      PROVE  ThreadInv'
  <2>1. c \in Threads /\ c # Worker
    BY Zenon DEF Threads, ThreadAssumption
  <2> QED
    BY <1>2, <2>1, EventWaitStep, HandleStep, EventSignalStep, Zenon DEF ThreadCall
<1> QED
    BY <1>1, <1>2, EventWaitStep, HandlerStep, WorkerStepInv, Zenon DEF ThreadNext

(* The invariant of the threads holds always. *)
LEMMA ThreadInvariant == ThreadSpec => []ThreadInv
<1>1. ThreadInit => ThreadInv
    BY DEF ThreadInit, ThreadInv, ThreadType, Places, HandlerInv, ResumeReachesHandler,
           SignalSeen, Threads
<1>2. ThreadInv /\ [ThreadNext]_thread_vars => ThreadInv'
    BY ThreadAssumption, ThreadInvStep, Zenon
<1> QED
    BY <1>1, <1>2, PTL DEF ThreadSpec

(* No resume is lost on a thread that sleeps in the handler of SIGUSR1. *)
THEOREM ThreadResumeNotLost == ThreadSpec => []ResumeReachesHandler
<1>1. ThreadInv => ResumeReachesHandler
    BY Zenon DEF ThreadInv
<1> QED
    BY <1>1, ThreadInvariant, PTL

(* An event that is signalled has a waiter that will look at it, if it has sleepers. *)
THEOREM EventSignalNotLost == ThreadSpec => []SignalSeen
<1>1. ThreadInv => SignalSeen
    BY Zenon DEF ThreadInv
<1> QED
    BY <1>1, ThreadInvariant, PTL

(* A thread marked SUSPENDED runs none of its own code until a resume changes the mark. *)
THEOREM ThreadStaysSuspended == ThreadSpec => StaysSuspended
<1>1. ThreadInv => (WorkerStep => state # "SUSPENDED")
    BY Zenon DEF ThreadInv, HandlerInv, WorkerStep
<1> QED
    BY <1>1, ThreadInvariant, PTL DEF ThreadSpec, StaysSuspended
=============================================================================
