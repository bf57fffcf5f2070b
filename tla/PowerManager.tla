---------------------------- MODULE PowerManager ----------------------------
(***************************************************************************)
(* The power manager (src/ove_pm.c) with the POSIX HAL that drives it      *)
(* (backends/posix/posix_pm.c): an idle thread that polls for activity,    *)
(* asks the policy and puts the system to sleep, and clients that set the  *)
(* state, the policy, wake sources, notifiers and power domains.           *)
(*                                                                         *)
(* The idle thread decides without the mutex and sleeps with it, so its    *)
(* pass is cut at every read and write of shared state that is outside a   *)
(* critical section.  A clock tick is a millisecond.  Transition counters  *)
(* and the budget target, which nothing reads back, are left out.          *)
(***************************************************************************)
EXTENDS Integers, Sequences

CONSTANTS Clients,           \* threads that call the API
          Sources,           \* wake source descriptors
          MaxSources,        \* CONFIG_OVE_PM_MAX_WAKE_SOURCES
          Notifiers,         \* (callback, user data) pairs
          MaxNotifiers,      \* CONFIG_OVE_PM_MAX_NOTIFIERS
          Domains,           \* power domains
          MaxRefs,           \* bound on the references to a domain
          Policies,          \* custom policies, each with user data of its own
          NextTimeouts,      \* what the HAL may answer for the next timeout
          Threshold,         \* struct ove_pm_cfg
          MaxClock,          \* bound on the clock
          None, IdleThread

STATES == 0..3
ACTIVE == 0
IDLE == 1
STANDBY == 2
DEEP_SLEEP == 3

ASSUME PMAssumption ==
    /\ MaxSources \in Nat /\ MaxNotifiers \in Nat /\ MaxRefs \in Nat /\ MaxClock \in Nat
    /\ NextTimeouts \subseteq Nat
    /\ Threshold \in [{IDLE, STANDBY, DEEP_SLEEP} -> Nat]
    /\ None \notin Sources \cup Policies /\ None \notin Clients
    /\ IdleThread \notin Clients /\ IdleThread # None

VARIABLES current_state, activity_flag, last_activity, state_entry,   \* pm_ctx
          time_in_state, wake_table, refcount, notifiers,
          policy_fn, policy_data, initialized,
          mtx,             \* who holds pm_ctx.mtx
          running,         \* pm_thread_running
          pc, now, recommended,  \* the idle thread and its locals
          cpc,             \* where each client is
          clock,
          armed, powered,  \* the hardware: armed wake sources, powered domains
          told,            \* history: the notifiers told of the sleep in progress
          spent,           \* history: time spent in each state
          posted           \* history: when activity was last reported

stats   == <<state_entry, time_in_state, spent>>
tables  == <<wake_table, notifiers, refcount, powered>>
policy  == <<policy_fn, policy_data>>
life    == <<initialized, running>>
idle    == <<pc, now, recommended>>
sleep   == <<armed, told>>
vars    == <<current_state, activity_flag, last_activity, stats, tables, policy, life,
             mtx, idle, cpc, clock, sleep, posted>>

Sleeping == {"presleep", "asleep", "postwake"}
Registered == {wake_table[i] : i \in 1..MaxSources} \ {None}

TypeOK ==
    /\ current_state \in STATES /\ activity_flag \in BOOLEAN
    /\ last_activity \in 0..MaxClock /\ state_entry \in 0..MaxClock
    /\ time_in_state \in [STATES -> 0..MaxClock] /\ spent \in [STATES -> 0..MaxClock]
    /\ wake_table \in [1..MaxSources -> Sources \cup {None}]
    /\ refcount \in [Domains -> 0..MaxRefs] /\ powered \in [Domains -> BOOLEAN]
    /\ notifiers \in Seq(Notifiers) /\ Len(notifiers) <= MaxNotifiers
    /\ told \in Seq(Notifiers)
    /\ policy_fn \in Policies \cup {None} /\ policy_data \in Policies \cup {None}
    /\ initialized \in BOOLEAN /\ running \in BOOLEAN
    /\ mtx \in Clients \cup {IdleThread, None}
    /\ pc \in Sleeping \cup {"none", "poll", "noted", "note", "look", "activate",
                             "measure", "decide", "compare", "lock", "exited"}
    /\ now \in 0..MaxClock /\ recommended \in STATES
    /\ cpc \in [Clients -> {"idle", "policy", "join"}]
    /\ clock \in 0..MaxClock /\ posted \in 0..MaxClock
    /\ armed \subseteq Sources

Init ==
    /\ current_state = ACTIVE /\ activity_flag = FALSE
    /\ last_activity = 0 /\ state_entry = 0
    /\ time_in_state = [s \in STATES |-> 0] /\ spent = [s \in STATES |-> 0]
    /\ wake_table = [i \in 1..MaxSources |-> None]
    /\ refcount = [d \in Domains |-> 0] /\ powered = [d \in Domains |-> FALSE]
    /\ notifiers = << >> /\ told = << >>
    /\ policy_fn = None /\ policy_data = None
    /\ initialized = FALSE /\ running = FALSE
    /\ mtx = None /\ pc = "none" /\ now = 0 /\ recommended = ACTIVE
    /\ cpc = [c \in Clients |-> "idle"]
    /\ clock = 0 /\ posted = 0 /\ armed = {}

-----------------------------------------------------------------------------
(* Time goes by in the current state; the time the PRE_SLEEP notifiers take counts
   as the state that is being entered. *)
Tick ==
    /\ clock < MaxClock
    /\ clock' = clock + 1
    /\ LET s == IF pc = "presleep" THEN recommended ELSE current_state
       IN  spent' = IF initialized THEN [spent EXCEPT ![s] = @ + 1] ELSE spent
    /\ UNCHANGED <<current_state, activity_flag, last_activity, state_entry, time_in_state,
                   tables, policy, life, mtx, idle, cpc, sleep, posted>>

update_stats(old_state) ==
    /\ time_in_state' = [time_in_state EXCEPT ![old_state] = @ + (clock - state_entry)]
    /\ state_entry' = clock
    /\ UNCHANGED spent

(* (uint32_t)((now - last_activity_us) / 1000): when the baseline has moved past now, the
   64-bit difference wraps, and its thousandth truncated to 32 bits is fifteen days. *)
Wrapped == 1271310319   \* (2^64 \div 1000) % 2^32

idle_ms == IF now >= last_activity THEN now - last_activity
                                   ELSE Wrapped - (last_activity - now)

default_policy(idle_time, next_timeout) ==
    IF idle_time < Threshold[IDLE] THEN ACTIVE
    ELSE IF next_timeout < Threshold[STANDBY] THEN IDLE
    ELSE IF idle_time < Threshold[DEEP_SLEEP] THEN STANDBY
    ELSE DEEP_SLEEP

-----------------------------------------------------------------------------
(* pm_idle_thread and ove_pm_idle_process. *)

Goto(from, to) == pc = from /\ pc' = to

(* The end of a pass: its locals are gone. *)
Return == pc' = "poll" /\ now' = 0 /\ recommended' = ACTIVE

PollForever ==
    /\ pc = "poll"
    /\ activity_flag' = FALSE
    /\ pc' = IF activity_flag THEN "noted" ELSE "measure"
    /\ UNCHANGED <<current_state, last_activity, stats, tables, policy, life, mtx, now,
                   recommended, cpc, clock, sleep, posted>>

(* The head of the loop and the atomic exchange of the activity flag. *)
Poll ==
    /\ pc = "poll"
    /\ \/ ~running /\ pc' = "exited" /\ UNCHANGED activity_flag
       \/ /\ running /\ initialized
          /\ activity_flag' = FALSE
          /\ pc' = IF activity_flag THEN "noted" ELSE "measure"
    /\ UNCHANGED <<current_state, last_activity, stats, tables, policy, life, mtx, now,
                   recommended, cpc, clock, sleep, posted>>

(* pm_now_us, on either path. *)
ReadClock ==
    /\ Goto("noted", "note") \/ Goto("measure", "decide")
    /\ now' = clock
    /\ UNCHANGED <<current_state, activity_flag, last_activity, stats, tables, policy,
                   life, mtx, recommended, cpc, clock, sleep, posted>>

NoteActivityClears ==
    /\ Goto("note", "look")
    /\ last_activity' = now /\ activity_flag' = FALSE
    /\ UNCHANGED <<current_state, stats, tables, policy, life, mtx, now, recommended, cpc, clock,
                   sleep, posted>>

NoteActivityOnly ==
    /\ pc = "note" /\ Return
    /\ last_activity' = now
    /\ UNCHANGED <<current_state, activity_flag, stats, tables, policy, life, mtx, cpc, clock,
                   sleep, posted>>

(* There was activity: move the baseline and then look at the state. *)
NoteActivity ==
    /\ Goto("note", "look")
    /\ last_activity' = now
    /\ UNCHANGED <<current_state, activity_flag, stats, tables, policy, life, mtx, now,
                   recommended, cpc, clock, sleep, posted>>

LookAtState ==
    /\ pc = "look"
    /\ \/ current_state = ACTIVE /\ Return
       \/ current_state # ACTIVE /\ pc' = "activate" /\ UNCHANGED <<now, recommended>>
    /\ UNCHANGED <<current_state, activity_flag, last_activity, stats, tables, policy, life, mtx,
                   cpc, clock, sleep, posted>>

ActivateUncharged ==
    /\ pc = "activate" /\ Return
    /\ mtx = None
    /\ current_state' = ACTIVE
    /\ UNCHANGED <<activity_flag, last_activity, stats, tables, policy, life, mtx, cpc, clock,
                   sleep, posted>>

Activate ==
    /\ pc = "activate" /\ Return
    /\ mtx = None
    /\ update_stats(current_state)
    /\ current_state' = ACTIVE
    /\ UNCHANGED <<activity_flag, last_activity, tables, policy, life, mtx, cpc, clock,
                   sleep, posted>>

(* There was none: ask the policy, without the mutex, and compare its answer with the state,
   which may be another one by then. *)
Decide ==
    /\ Goto("decide", "compare")
    /\ recommended' \in STATES
    /\ policy_fn = None => \E t \in NextTimeouts : recommended' = default_policy(idle_ms, t)
    /\ UNCHANGED <<current_state, activity_flag, last_activity, stats, tables, policy,
                   life, mtx, now, cpc, clock, sleep, posted>>

Compare ==
    /\ pc = "compare"
    /\ \/ recommended <= current_state /\ Return
       \/ recommended > current_state /\ pc' = "lock" /\ UNCHANGED <<now, recommended>>
    /\ UNCHANGED <<current_state, activity_flag, last_activity, stats, tables, policy,
                   life, mtx, cpc, clock, sleep, posted>>

(* Take the mutex and fire PRE_SLEEP ... *)
PreSleep ==
    /\ Goto("lock", "presleep")
    /\ mtx = None /\ mtx' = IdleThread
    /\ update_stats(current_state)
    /\ told' = notifiers
    /\ UNCHANGED <<current_state, activity_flag, last_activity, tables, policy, life, now,
                   recommended, cpc, clock, armed, posted>>

(* ... arm the wake sources and enter the state ... *)
EnterState ==
    /\ Goto("presleep", "asleep")
    /\ armed' = armed \cup Registered
    /\ current_state' = recommended
    /\ UNCHANGED <<activity_flag, last_activity, stats, tables, policy, life, mtx, now,
                   recommended, cpc, clock, told, posted>>

(* ... and when the HAL comes back disarm them ... *)
WokeUp ==
    /\ Goto("asleep", "postwake")
    /\ update_stats(recommended)
    /\ current_state' = ACTIVE
    /\ armed' = armed \ Registered
    /\ UNCHANGED <<activity_flag, last_activity, tables, policy, life, mtx, now,
                   recommended, cpc, clock, told, posted>>

(* ... fire POST_WAKE and release the mutex. *)
PostWake ==
    /\ pc = "postwake" /\ Return
    /\ mtx' = None
    /\ told' = << >>
    /\ UNCHANGED <<current_state, activity_flag, last_activity, stats, tables, policy, life,
                   cpc, clock, armed, posted>>

IdleStep ==
    \/ Poll \/ ReadClock \/ NoteActivity \/ LookAtState \/ Activate \/ Decide \/ Compare
    \/ PreSleep \/ EnterState \/ WokeUp \/ PostWake

-----------------------------------------------------------------------------
(* The API.  Nobody calls it while the subsystem is being torn down. *)

MayCall(c) == initialized /\ cpc[c] = "idle" /\ \A d \in Clients : cpc[d] # "join"

(* A call whose body is one critical section. *)
Locked(c) == MayCall(c) /\ mtx = None /\ UNCHANGED <<life, mtx, idle, cpc, clock, sleep, posted>>

ove_pm_set_state(c, s) ==
    /\ Locked(c)
    /\ s # current_state
    /\ update_stats(current_state)
    /\ current_state' = s
    /\ last_activity' = IF s > ACTIVE THEN clock ELSE last_activity
    /\ UNCHANGED <<activity_flag, tables, policy>>

(* An atomic store, from any thread or interrupt handler. *)
ove_pm_activity ==
    /\ initialized
    /\ activity_flag' = TRUE
    /\ posted' = clock
    /\ UNCHANGED <<current_state, last_activity, stats, tables, policy, life, mtx, idle, cpc,
                   clock, sleep>>

FirstSlot(i, src) == wake_table[i] = src /\ \A j \in 1..(i - 1) : wake_table[j] # src

ove_pm_wake_register(c, src) ==
    /\ Locked(c)
    /\ \E i \in 1..MaxSources : FirstSlot(i, None) /\ wake_table' = [wake_table EXCEPT ![i] = src]
    /\ UNCHANGED <<current_state, activity_flag, last_activity, stats, policy, notifiers,
                   refcount, powered>>

WakeUnregisterUnlocked(c, src) ==
    /\ MayCall(c)
    /\ \E i \in 1..MaxSources : FirstSlot(i, src) /\ wake_table' = [wake_table EXCEPT ![i] = None]
    /\ UNCHANGED <<current_state, activity_flag, last_activity, stats, policy, notifiers, refcount,
                   powered, life, mtx, idle, cpc, clock, sleep, posted>>

ove_pm_wake_unregister(c, src) ==
    /\ Locked(c)
    /\ \E i \in 1..MaxSources : FirstSlot(i, src) /\ wake_table' = [wake_table EXCEPT ![i] = None]
    /\ UNCHANGED <<current_state, activity_flag, last_activity, stats, policy, notifiers,
                   refcount, powered>>

DomainRequestUnchecked(c, d, rc) ==
    /\ Locked(c)
    /\ refcount[d] < MaxRefs
    /\ powered' = [powered EXCEPT ![d] = @ \/ (refcount[d] = 0 /\ rc)]
    /\ refcount' = [refcount EXCEPT ![d] = @ + 1]
    /\ UNCHANGED <<current_state, activity_flag, last_activity, stats, policy, wake_table,
                   notifiers>>

(* The first reference powers the domain on, unless the HAL refuses. *)
ove_pm_domain_request(c, d, rc) ==
    /\ Locked(c)
    /\ refcount[d] < MaxRefs
    /\ \/ refcount[d] = 0 /\ rc /\ powered' = [powered EXCEPT ![d] = TRUE]
       \/ refcount[d] > 0 /\ UNCHANGED powered
    /\ refcount' = [refcount EXCEPT ![d] = @ + 1]
    /\ UNCHANGED <<current_state, activity_flag, last_activity, stats, policy, wake_table,
                   notifiers>>

(* The last one powers it off; the reference is gone even when the HAL fails. *)
ove_pm_domain_release(c, d, rc) ==
    /\ Locked(c)
    /\ refcount[d] > 0
    /\ refcount' = [refcount EXCEPT ![d] = @ - 1]
    /\ powered' = [powered EXCEPT ![d] = @ /\ ~(refcount[d] = 1 /\ rc)]
    /\ UNCHANGED <<current_state, activity_flag, last_activity, stats, policy, wake_table,
                   notifiers>>

ove_pm_notify_register(c, n) ==
    /\ Locked(c)
    /\ Len(notifiers) < MaxNotifiers
    /\ notifiers' = Append(notifiers, n)
    /\ UNCHANGED <<current_state, activity_flag, last_activity, stats, policy, wake_table,
                   refcount, powered>>

ove_pm_notify_unregister(c, n) ==
    /\ Locked(c)
    /\ \E i \in 1..Len(notifiers) :
          /\ notifiers[i] = n /\ \A j \in 1..(i - 1) : notifiers[j] # n
          /\ notifiers' = SubSeq(notifiers, 1, i - 1) \o SubSeq(notifiers, i + 1, Len(notifiers))
    /\ UNCHANGED <<current_state, activity_flag, last_activity, stats, policy, wake_table,
                   refcount, powered>>

ove_pm_reset_stats(c) ==
    /\ Locked(c)
    /\ time_in_state' = [s \in STATES |-> 0] /\ spent' = [s \in STATES |-> 0]
    /\ state_entry' = clock
    /\ UNCHANGED <<current_state, activity_flag, last_activity, tables, policy>>

(* The function first ... *)
ove_pm_set_policy(c, p) ==
    /\ MayCall(c) /\ mtx = None
    /\ mtx' = c /\ cpc' = [cpc EXCEPT ![c] = "policy"]
    /\ policy_fn' = p
    /\ UNCHANGED <<current_state, activity_flag, last_activity, stats, tables, policy_data, life,
                   idle, clock, sleep, posted>>

(* ... then its user data. *)
SetPolicyData(c) ==
    /\ cpc[c] = "policy"
    /\ policy_data' = policy_fn
    /\ mtx' = None /\ cpc' = [cpc EXCEPT ![c] = "idle"]
    /\ UNCHANGED <<current_state, activity_flag, last_activity, stats, tables, policy_fn, life,
                   idle, clock, sleep, posted>>

(* When the mutex or the idle thread cannot be had, only initialized stays 0. *)
ove_pm_init(c, rc) ==
    /\ ~initialized /\ pc = "none" /\ \A d \in Clients : cpc[d] = "idle"
    /\ current_state' = ACTIVE /\ activity_flag' = FALSE
    /\ last_activity' = clock /\ state_entry' = clock
    /\ time_in_state' = [s \in STATES |-> 0] /\ spent' = [s \in STATES |-> 0]
    /\ wake_table' = [i \in 1..MaxSources |-> None]
    /\ refcount' = [d \in Domains |-> 0]
    /\ notifiers' = << >>
    /\ policy_fn' = None /\ policy_data' = None
    /\ initialized' = rc /\ running' = rc
    /\ pc' = IF rc THEN "poll" ELSE "none"
    /\ UNCHANGED <<powered, mtx, now, recommended, cpc, clock, sleep, posted>>

(* ove_hal_pm_teardown up to the join ... *)
ove_pm_deinit(c) ==
    /\ MayCall(c) /\ \A d \in Clients : cpc[d] = "idle"
    /\ running' = FALSE
    /\ cpc' = [cpc EXCEPT ![c] = "join"]
    /\ UNCHANGED <<current_state, activity_flag, last_activity, stats, tables, policy,
                   initialized, mtx, idle, clock, sleep, posted>>

(* ... and from there on. *)
Joined(c) ==
    /\ cpc[c] = "join"
    /\ Goto("exited", "none")
    /\ initialized' = FALSE
    /\ cpc' = [cpc EXCEPT ![c] = "idle"]
    /\ UNCHANGED <<current_state, activity_flag, last_activity, stats, tables, policy, running,
                   mtx, now, recommended, clock, sleep, posted>>

-----------------------------------------------------------------------------
Call(c) ==
    \/ \E s \in STATES : ove_pm_set_state(c, s)
    \/ \E src \in Sources : ove_pm_wake_register(c, src) \/ ove_pm_wake_unregister(c, src)
    \/ \E d \in Domains, rc \in BOOLEAN :
          ove_pm_domain_request(c, d, rc) \/ ove_pm_domain_release(c, d, rc)
    \/ \E n \in Notifiers : ove_pm_notify_register(c, n) \/ ove_pm_notify_unregister(c, n)
    \/ ove_pm_reset_stats(c)
    \/ \E p \in Policies \cup {None} : ove_pm_set_policy(c, p)
    \/ \E rc \in BOOLEAN : ove_pm_init(c, rc)
    \/ ove_pm_deinit(c)

Continue(c) == SetPolicyData(c) \/ Joined(c)

Next ==
    \/ IdleStep \/ Tick \/ ove_pm_activity
    \/ \E c \in Clients : Call(c) \/ Continue(c)

Spec == Init /\ [][Next]_vars

(* The idle thread runs and is not starved of the mutex; calls go on. *)
Fairness == SF_vars(IdleStep) /\ \A c \in Clients : WF_vars(Continue(c))

FairSpec == Spec /\ Fairness

-----------------------------------------------------------------------------
(* Properties. *)

(* The statistics charge every millisecond since they were reset to the state the
   system was in, whatever mixture of explicit changes, activity and sleep
   moved it (update_stats is called at each of them). *)
StatsAccount ==
    \A s \in STATES :
        LET running_in == IF pc = "presleep" THEN recommended ELSE current_state
        IN  initialized =>
              spent[s] = time_in_state[s] + (IF s = running_in THEN clock - state_entry ELSE 0)

(* The notifiers told of a sleep are the ones told of the wakeup, and the wake
   sources armed for it are disarmed after it: neither table changes meanwhile. *)
SleepBracketed ==
    /\ pc \in Sleeping => told = notifiers
    /\ pc = "asleep" => armed = Registered
    /\ pc # "asleep" => armed = {}

(* A domain that somebody holds is powered, HAL failures included. *)
HeldDomainsPowered == \A d \in Domains : initialized /\ refcount[d] > 0 => powered[d]

(* No report of activity is lost: once the flag is clear and the pass that took it is
   past the store, the idle baseline is no older than the last report. *)
NoActivityLost ==
    initialized /\ ~activity_flag /\ pc \notin {"noted", "note"} => last_activity >= posted

(* "Manual sleep entry anchors the idle baseline to now": under the default policy the
   idle thread enters no state whose threshold the time since the baseline has not
   reached. *)
ExplicitChoiceKept ==
    [][Goto("lock", "presleep")
          => clock - last_activity >= Threshold[IF recommended = DEEP_SLEEP THEN DEEP_SLEEP
                                                                            ELSE IDLE]]_vars

(* Reported activity wakes the system. *)
ActivityWakes == activity_flag ~> current_state = ACTIVE \/ ~initialized

(* ove_pm_deinit returns. *)
DeinitReturns == \A c \in Clients : cpc[c] = "join" ~> cpc[c] = "idle"
=============================================================================
