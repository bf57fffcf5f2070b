----------------------------- MODULE PosixTimer -----------------------------
(***************************************************************************)
(* Software timer of the POSIX backend (backends/posix/posix_timer.c): a   *)
(* dispatcher thread per timer sleeps until the deadline and runs the      *)
(* callback; clients, and the callback itself, start, stop, reprogram and  *)
(* tear the timer down.                                                    *)
(*                                                                         *)
(* A step is one critical section of the timer's mutex.  Time is kept as   *)
(* what is left until the dispatcher's deadline, so that it needs no bound.*)
(***************************************************************************)
EXTENDS Naturals

CONSTANTS Clients,    \* threads that call the API
          Dispatcher, \* the timer's own thread
          MaxPeriod   \* the longest period, in ticks

ASSUME TimerAssumption == MaxPeriod \in Nat \ {0} /\ Dispatcher \notin Clients

VARIABLES armed, reprogram, stop, created,   \* struct ove_timer
          period, one_shot,
          dispatcher,   \* where the dispatcher is
          left,         \* ticks until its deadline
          joining,      \* the clients inside pthread_join
          age,          \* history: ticks since the timer was last (re)started or fired
          shots,        \* history: the timer fired since it was last (re)started
          quiet         \* history: the last thing asked of the timer, and done, was to stop

timer      == <<armed, reprogram, stop, created, period, one_shot>>
ghost      == <<age, shots, quiet>>
timer_vars == <<timer, dispatcher, left, joining, ghost>>

Periods == 0..MaxPeriod
Waiting == {"idle", "timedwait"}

TimerTypeOK ==
    /\ armed \in BOOLEAN /\ reprogram \in BOOLEAN /\ stop \in BOOLEAN /\ created \in BOOLEAN
    /\ period \in Periods /\ one_shot \in BOOLEAN
    /\ dispatcher \in Waiting \cup {"none", "top", "woken", "expired", "fire", "callback", "exited"}
    /\ left \in 0..MaxPeriod
    /\ joining \subseteq Clients
    /\ age \in 0..MaxPeriod /\ shots \in BOOLEAN /\ quiet \in BOOLEAN

TimerInit ==
    /\ armed = FALSE /\ reprogram = FALSE /\ stop = FALSE /\ created = FALSE
    /\ period = 0 /\ one_shot = FALSE
    /\ dispatcher = "none" /\ left = 0 /\ joining = {}
    /\ age = 0 /\ shots = FALSE /\ quiet = TRUE

-----------------------------------------------------------------------------
(* The dispatcher is the only thread that waits on the condition variable. *)

Resumed(p) == IF p = "idle" THEN "top" ELSE IF p = "timedwait" THEN "woken" ELSE p

(* pthread_cond_signal *)
Signal == dispatcher' = Resumed(dispatcher)

TimerSpuriousWakeup ==
    /\ dispatcher \in Waiting
    /\ dispatcher' = Resumed(dispatcher)
    /\ UNCHANGED <<timer, left, joining, ghost>>

(* One tick of CLOCK_MONOTONIC. *)
Tick ==
    /\ left' = IF left > 0 THEN left - 1 ELSE 0
    /\ age' = IF age < MaxPeriod THEN age + 1 ELSE MaxPeriod
    /\ UNCHANGED <<timer, dispatcher, joining, shots, quiet>>

-----------------------------------------------------------------------------
(* timer_dispatch. *)

(* The head of the loop: sleep until armed, leave, or program the next deadline
   from now and sleep until then. *)
Top ==
    \/ /\ ~armed /\ ~stop
       /\ dispatcher' = "idle"
       /\ UNCHANGED <<reprogram, left>>
    \/ /\ stop
       /\ dispatcher' = "exited"
       /\ UNCHANGED <<reprogram, left>>
    \/ /\ armed /\ ~stop
       /\ reprogram' = FALSE
       /\ left' = IF period = 0 THEN 1 ELSE period
       /\ dispatcher' = "timedwait"

DispatchTop ==
    /\ dispatcher = "top"
    /\ Top
    /\ UNCHANGED <<armed, stop, created, period, one_shot, joining, ghost>>

(* pthread_cond_timedwait returned 0: sleep on, unless something changed. *)
DispatchWoken ==
    /\ dispatcher = "woken"
    /\ \/ armed /\ ~stop /\ ~reprogram /\ dispatcher' = "timedwait" /\ UNCHANGED <<reprogram, left>>
       \/ ~(armed /\ ~stop /\ ~reprogram) /\ Top
    /\ UNCHANGED <<armed, stop, created, period, one_shot, joining, ghost>>

TimerDeadlinePasses ==
    /\ dispatcher = "timedwait" /\ left = 0
    /\ dispatcher' = "expired"
    /\ UNCHANGED <<timer, left, joining, ghost>>

(* Decide to run the callback; a one-shot timer is disarmed first. *)
Fire ==
    /\ armed' = (armed /\ ~one_shot)
    /\ dispatcher' = "fire"
    /\ age' = 0 /\ shots' = TRUE
    /\ UNCHANGED <<reprogram, left, quiet>>

DispatchExpiredBlind ==
    /\ dispatcher = "expired"
    /\ \/ (stop \/ ~armed) /\ Top /\ UNCHANGED <<armed, ghost>>
       \/ ~(stop \/ ~armed) /\ Fire
    /\ UNCHANGED <<stop, created, period, one_shot, joining>>

(* It returned ETIMEDOUT, and the mutex is back after any number of other calls. *)
DispatchExpired ==
    /\ dispatcher = "expired"
    /\ \/ (stop \/ reprogram \/ ~armed) /\ Top /\ UNCHANGED <<armed, ghost>>
       \/ ~(stop \/ reprogram \/ ~armed) /\ Fire
    /\ UNCHANGED <<stop, created, period, one_shot, joining>>

(* The callback runs without the mutex; there is a moment before it begins. *)
CallbackBegins ==
    /\ dispatcher = "fire"
    /\ dispatcher' = "callback"
    /\ UNCHANGED <<timer, left, joining, ghost>>

CallbackReturns ==
    /\ dispatcher = "callback"
    /\ dispatcher' = "top"
    /\ UNCHANGED <<timer, left, joining, ghost>>

-----------------------------------------------------------------------------
(* The API.  The handle is used while the timer exists; inside its callback the
   dispatcher is a caller, too, even when the timer is being torn down. *)

MayCall(c) ==
    /\ created /\ c \notin joining
    /\ c \in Clients \/ (c = Dispatcher /\ dispatcher = "callback")

ove_timer_init_ns(c, p, o) ==
    /\ c \in Clients /\ ~created /\ joining = {} /\ dispatcher = "none"
    /\ armed' = FALSE /\ reprogram' = FALSE /\ stop' = FALSE
    /\ created' = TRUE /\ period' = p /\ one_shot' = o
    /\ dispatcher' = "top" /\ left' = 0
    /\ age' = 0 /\ shots' = FALSE /\ quiet' = TRUE
    /\ UNCHANGED joining

RearmSilent ==
    /\ armed' = TRUE /\ reprogram' = TRUE
    /\ age' = 0 /\ shots' = FALSE /\ quiet' = FALSE
    /\ UNCHANGED <<stop, created, one_shot, dispatcher, left, joining>>

Rearm ==
    /\ armed' = TRUE /\ reprogram' = TRUE
    /\ Signal
    /\ age' = 0 /\ shots' = FALSE /\ quiet' = FALSE
    /\ UNCHANGED <<stop, created, one_shot, left, joining>>

(* Also ove_timer_reset. *)
ove_timer_start(c) == MayCall(c) /\ Rearm /\ UNCHANGED period

ove_timer_set_period_ns(c, p) == MayCall(c) /\ Rearm /\ period' = p

ove_timer_stop(c) ==
    /\ MayCall(c)
    /\ armed' = FALSE
    /\ Signal
    /\ quiet' = TRUE
    /\ UNCHANGED <<reprogram, stop, created, period, one_shot, left, joining, age, shots>>

DeinitSilent(c) ==
    /\ MayCall(c) /\ c \in Clients /\ joining = {}
    /\ stop' = TRUE /\ armed' = FALSE
    /\ joining' = {c}
    /\ quiet' = TRUE
    /\ UNCHANGED <<reprogram, created, period, one_shot, dispatcher, left, age, shots>>

(* timer_teardown up to the join ... *)
ove_timer_deinit(c) ==
    /\ MayCall(c) /\ c \in Clients /\ joining = {}
    /\ stop' = TRUE /\ armed' = FALSE
    /\ Signal
    /\ joining' = {c}
    /\ quiet' = TRUE
    /\ UNCHANGED <<reprogram, created, period, one_shot, left, age, shots>>

JoinedAtOnce(c) ==
    /\ c \in joining
    /\ joining' = {} /\ created' = FALSE
    /\ UNCHANGED <<armed, reprogram, stop, period, one_shot, dispatcher, left, ghost>>

(* ... and from there on. *)
Joined(c) ==
    /\ c \in joining /\ dispatcher = "exited"
    /\ joining' = {} /\ created' = FALSE /\ dispatcher' = "none"
    /\ UNCHANGED <<armed, reprogram, stop, period, one_shot, left, ghost>>

-----------------------------------------------------------------------------
Dispatch ==
    DispatchTop \/ DispatchWoken \/ DispatchExpired \/ CallbackBegins \/ CallbackReturns

TimerCall(c) ==
    \/ \E p \in Periods, o \in BOOLEAN : ove_timer_init_ns(c, p, o)
    \/ ove_timer_start(c) \/ ove_timer_stop(c) \/ ove_timer_deinit(c)
    \/ \E p \in Periods : ove_timer_set_period_ns(c, p)

TimerNext ==
    \/ Dispatch \/ TimerDeadlinePasses \/ TimerSpuriousWakeup \/ Tick
    \/ \E c \in Clients \cup {Dispatcher} : TimerCall(c)
    \/ \E c \in Clients : Joined(c)

TimerSpec == TimerInit /\ [][TimerNext]_timer_vars

(* Time goes on, the dispatcher runs and callbacks return. *)
TimerFairness ==
    /\ WF_timer_vars(Dispatch) /\ SF_timer_vars(TimerDeadlinePasses) /\ WF_timer_vars(Tick)
    /\ \A c \in Clients : WF_timer_vars(Joined(c))

TimerFairSpec == TimerSpec /\ TimerFairness

-----------------------------------------------------------------------------
(* Properties. *)

(* Every decision to fire is justified.  It is not early: a start, a reset or a
   change of period counts from the moment it was made, even when it comes between
   the expiry of the old deadline and the dispatcher's getting the mutex back.  A
   one-shot timer fires once for each time it was started.  After ove_timer_stop has
   returned there is none until the timer is restarted, even if the deadline had
   passed (a callback decided on before may still begin). *)
FiringJustified ==
    [][dispatcher # "fire" /\ dispatcher' = "fire" =>
           age >= period /\ (one_shot => ~shots) /\ ~quiet]_timer_vars

(* No callback runs, or is about to run, once ove_timer_deinit has returned: its
   storage may be freed. *)
NoCallbackAfterDeinit == ~created => dispatcher = "none" /\ joining = {}

(* The dispatcher does not sleep through a change it should act on. *)
SleepsOnCurrentState ==
    /\ dispatcher = "idle" => ~armed /\ ~stop
    /\ dispatcher = "timedwait" => armed /\ ~stop /\ ~reprogram

(* A timer that stays armed, and is not reprogrammed over and over, goes on firing. *)
ArmedFires == <>[](armed /\ ~stop) /\ <>[][~Rearm]_timer_vars => []<>(dispatcher = "fire")

(* ove_timer_deinit returns, whatever the dispatcher was doing. *)
DeinitReturns == \A c \in Clients : c \in joining ~> c \notin joining
=============================================================================
