---------------------------- MODULE PowerProofs ----------------------------
(***************************************************************************)
(* What is proved of the power manager: its statistics, its table of       *)
(* domains, the bracketing of a sleep and the handling of activity reports *)
(* are right for any number of clients, wake sources, notifiers, domains   *)
(* and policies, and any thresholds.                                       *)
(***************************************************************************)
EXTENDS PowerManager, TLAPS

(* Who has the mutex: the idle thread for as long as it sleeps, and a client between the
   two stores of ove_pm_set_policy.  The idle thread lives while the subsystem does. *)
Mutex ==
    /\ cpc \in [Clients -> {"idle", "policy", "join"}]
    /\ pc \in Sleeping <=> mtx = IdleThread
    /\ \A c \in Clients : cpc[c] = "policy" <=> mtx = c
    /\ initialized <=> pc # "none"

(* The state the time goes to; what is needed to keep account of it. *)
RunningIn == IF pc = "presleep" THEN recommended ELSE current_state

Account ==
    /\ current_state \in STATES /\ recommended \in STATES
    /\ clock \in Nat /\ state_entry \in Nat
    /\ time_in_state \in [STATES -> Int] /\ spent \in [STATES -> Int]
    /\ pc = "asleep" => current_state = recommended
    /\ StatsAccount

(* The baseline that is about to be stored is no older than a report it answers. *)
Baseline ==
    /\ clock \in Nat /\ posted \in Nat /\ now \in Nat /\ last_activity \in Nat
    /\ posted <= clock
    /\ pc = "note" /\ ~activity_flag => now >= posted
    /\ NoActivityLost

(* The idle thread keeps to its mutex. *)
LEMMA IdleMutex ==
    ASSUME PMAssumption, Mutex, IdleStep
    PROVE  Mutex'
<1> USE DEF Mutex, Sleeping, Goto, Return, PMAssumption, stats, tables, policy, life, idle, sleep
<1>1. CASE Poll
    BY <1>1, Zenon DEF Poll
<1>2. CASE ReadClock
    BY <1>2, Zenon DEF ReadClock
<1>3. CASE NoteActivity
    BY <1>3, Zenon DEF NoteActivity
<1>4. CASE Activate
    BY <1>4, Zenon DEF Activate
<1>5. CASE Decide
    BY <1>5, Zenon DEF Decide
<1>l. CASE LookAtState \/ Compare
    BY <1>l, Zenon DEF LookAtState, Compare
<1>6. CASE PreSleep
    BY <1>6, Zenon DEF PreSleep
<1>7. CASE EnterState
    BY <1>7, Zenon DEF EnterState
<1>8. CASE WokeUp
    BY <1>8, Zenon DEF WokeUp
<1>9. CASE PostWake
    BY <1>9, Zenon DEF PostWake
<1> QED
    BY <1>1, <1>2, <1>3, <1>4, <1>5, <1>6, <1>7, <1>8, <1>9, <1>l, Zenon DEF IdleStep

(* A call of the API is one critical section of the mutex, but for three. *)
LEMMA CallCases ==
    ASSUME NEW c \in Clients, Call(c)
    PROVE  \/ Locked(c)
           \/ \E p \in Policies \cup {None} : ove_pm_set_policy(c, p)
           \/ \E rc \in BOOLEAN : ove_pm_init(c, rc)
           \/ ove_pm_deinit(c)
    BY Zenon DEF Call, ove_pm_set_state, ove_pm_wake_register, ove_pm_wake_unregister,
       ove_pm_domain_request, ove_pm_domain_release, ove_pm_notify_register,
       ove_pm_notify_unregister, ove_pm_reset_stats

(* Every step keeps the mutex with the idle thread or the client that took it. *)
LEMMA MutexStep ==
    ASSUME PMAssumption, Mutex, [Next]_vars
    PROVE  Mutex'
<1> USE DEF Mutex, Sleeping, Goto, PMAssumption, stats, tables, policy, life, idle, sleep
<1>1. CASE Tick \/ ove_pm_activity \/ UNCHANGED vars
    BY <1>1 DEF Tick, ove_pm_activity, vars
<1>2. ASSUME NEW c \in Clients, Call(c)
      PROVE  Mutex'
  <2>1. CASE Locked(c)
    BY <2>1, Zenon DEF Locked
  <2>2. ASSUME NEW p \in Policies \cup {None}, ove_pm_set_policy(c, p)
        PROVE  Mutex'
    BY <2>2, Zenon DEF ove_pm_set_policy, MayCall
  <2>3. ASSUME NEW rc \in BOOLEAN, ove_pm_init(c, rc)
        PROVE  Mutex'
    BY <2>3, Zenon DEF ove_pm_init
  <2>4. CASE ove_pm_deinit(c)
    BY <2>4, Zenon DEF ove_pm_deinit, MayCall
  <2> QED
    BY <1>2, <2>1, <2>2, <2>3, <2>4, CallCases, Zenon
<1>3. ASSUME NEW c \in Clients, Continue(c)
      PROVE  Mutex'
    BY <1>3 DEF Continue, SetPolicyData, Joined
<1> HIDE DEF Mutex
<1> QED
    BY <1>1, <1>2, <1>3, IdleMutex, Zenon DEF Next

(* The wake sources and the notifiers. *)
LEMMA BracketStep ==
    ASSUME PMAssumption, Mutex, SleepBracketed, [Next]_vars
    PROVE  SleepBracketed'
<1> USE DEF Mutex, SleepBracketed, Registered, Sleeping, Goto, PMAssumption,
            stats, tables, policy, life, idle, sleep
<1>1. CASE Tick \/ ove_pm_activity \/ UNCHANGED vars
    BY <1>1 DEF Tick, ove_pm_activity, vars
<1>2. CASE IdleStep
    BY <1>2 DEF IdleStep, Return, Poll, ReadClock, NoteActivity, LookAtState, Activate, Decide,
                Compare, PreSleep, EnterState, WokeUp, PostWake
<1>3. ASSUME NEW c \in Clients, Call(c)
      PROVE  SleepBracketed'
  <2>1. CASE Locked(c)
    BY <2>1, Zenon DEF Locked
  <2>2. ASSUME NEW p \in Policies \cup {None}, ove_pm_set_policy(c, p)
        PROVE  SleepBracketed'
    BY <2>2, Zenon DEF ove_pm_set_policy, MayCall
  <2>3. ASSUME NEW rc \in BOOLEAN, ove_pm_init(c, rc)
        PROVE  SleepBracketed'
    BY <2>3, Zenon DEF ove_pm_init
  <2>4. CASE ove_pm_deinit(c)
    BY <2>4 DEF ove_pm_deinit
  <2> QED
    BY <1>3, <2>1, <2>2, <2>3, <2>4, CallCases, Zenon
<1>4. ASSUME NEW c \in Clients, Continue(c)
      PROVE  SleepBracketed'
    BY <1>4, Zenon DEF Continue, SetPolicyData, Joined
<1> HIDE DEF SleepBracketed
<1> QED
    BY <1>1, <1>2, <1>3, <1>4, Zenon DEF Next

(* The domains. *)
DomainTable == refcount \in [Domains -> Nat] /\ powered \in [Domains -> BOOLEAN]

(* Every step keeps the reference counts typed and a held domain powered (ove_pm_domain_request
   and _release change both under the mutex). *)
LEMMA DomainStep ==
    ASSUME PMAssumption, DomainTable, HeldDomainsPowered, Mutex, [Next]_vars
    PROVE  DomainTable' /\ HeldDomainsPowered'
<1> USE DEF DomainTable, HeldDomainsPowered, stats, tables, policy, life, idle, sleep
<1>1. CASE UNCHANGED <<refcount, powered, initialized>>
    BY <1>1, Zenon
<1>2. ASSUME NEW c \in Clients, NEW rc \in BOOLEAN, NEW d \in Domains,
             ove_pm_domain_request(c, d, rc) \/ ove_pm_domain_release(c, d, rc)
      PROVE  DomainTable' /\ HeldDomainsPowered'
  <2>1. CASE ove_pm_domain_request(c, d, rc)
    <3>1. powered' \in [Domains -> BOOLEAN]
      BY <2>1, Zenon DEF ove_pm_domain_request
    <3>2. refcount' \in [Domains -> Nat]
      BY <2>1 DEF ove_pm_domain_request
    <3>3. ASSUME NEW e \in Domains, initialized, refcount'[e] > 0
          PROVE  powered'[e]
      <4>1. CASE e = d /\ refcount[d] = 0
        BY <2>1, <4>1 DEF ove_pm_domain_request
      <4>2. CASE ~(e = d /\ refcount[d] = 0)
        <5>1. refcount[e] > 0
          BY <2>1, <3>3, <4>2, Zenon DEF ove_pm_domain_request
        <5>2. powered[e]
          BY <3>3, <5>1, Zenon
        <5> QED
          BY <2>1, <4>2, <5>2, Zenon DEF ove_pm_domain_request
      <4> QED
        BY <4>1, <4>2, Zenon
    <3> QED
      BY <2>1, <3>1, <3>2, <3>3, Zenon DEF ove_pm_domain_request, Locked
  <2>2. CASE ove_pm_domain_release(c, d, rc)
    <3>1. powered' \in [Domains -> BOOLEAN]
      BY <2>2, Zenon DEF ove_pm_domain_release
    <3>2. refcount' \in [Domains -> Nat]
      BY <2>2 DEF ove_pm_domain_release
    <3>3. ASSUME NEW e \in Domains, initialized, refcount'[e] > 0
          PROVE  powered'[e]
      <4>1. refcount[e] > 0 /\ (e = d => refcount[d] # 1)
        BY <2>2, <3>3 DEF ove_pm_domain_release
      <4>2. powered[e]
        BY <3>3, <4>1, Zenon
      <4> QED
        BY <2>2, <4>1, <4>2, Zenon DEF ove_pm_domain_release
    <3> QED
      BY <2>2, <3>1, <3>2, <3>3, Zenon DEF ove_pm_domain_release, Locked
  <2> QED
    BY <1>2, <2>1, <2>2, Zenon
<1>3. ASSUME NEW c \in Clients, NEW rc \in BOOLEAN, ove_pm_init(c, rc)
      PROVE  DomainTable' /\ HeldDomainsPowered'
    BY <1>3 DEF ove_pm_init
<1>4. ASSUME NEW c \in Clients, Joined(c)
      PROVE  DomainTable' /\ HeldDomainsPowered'
    BY <1>4, Zenon DEF Joined
<1>5. CASE IdleStep \/ Tick \/ ove_pm_activity \/ UNCHANGED vars
  <2>1. UNCHANGED <<refcount, powered, initialized>>
    BY <1>5, Zenon DEF IdleStep, Poll, ReadClock, NoteActivity, LookAtState, Activate, Decide,
                Compare, PreSleep, EnterState, WokeUp, PostWake, Tick, ove_pm_activity, vars
  <2> QED
    BY <1>1, <2>1, Zenon
<1>6. ASSUME NEW c \in Clients, Call(c),
             ~\E d \in Domains, rc \in BOOLEAN :
                 ove_pm_domain_request(c, d, rc) \/ ove_pm_domain_release(c, d, rc),
             ~\E rc \in BOOLEAN : ove_pm_init(c, rc)
      PROVE  UNCHANGED <<refcount, powered, initialized>>
    BY <1>6, Zenon DEF Call, ove_pm_set_state, ove_pm_wake_register, ove_pm_wake_unregister,
         ove_pm_notify_register, ove_pm_notify_unregister, ove_pm_reset_stats,
         ove_pm_set_policy, ove_pm_deinit, Locked
<1>7. ASSUME NEW c \in Clients, SetPolicyData(c)
      PROVE  UNCHANGED <<refcount, powered, initialized>>
    BY <1>7, Zenon DEF SetPolicyData
<1> HIDE DEF DomainTable, HeldDomainsPowered
<1> QED
    BY <1>1, <1>2, <1>3, <1>4, <1>5, <1>6, <1>7, Zenon DEF Next, Continue

(* The statistics. *)

(* update_stats settles the account: nothing is left to be charged. *)
LEMMA UpdateStats ==
    ASSUME Account, initialized, update_stats(RunningIn)
    PROVE  /\ time_in_state' \in [STATES -> Int] /\ spent' = spent /\ state_entry' = clock
           /\ \A s \in STATES : spent[s] = time_in_state'[s]
<1> USE DEF Account, update_stats
<1>1. RunningIn \in STATES
    BY Zenon DEF RunningIn
<1>2. \A s \in STATES : spent[s] = time_in_state[s] + (IF s = RunningIn THEN clock - state_entry ELSE 0)
    BY Zenon DEF StatsAccount, RunningIn
<1>3. time_in_state' \in [STATES -> Int]
    BY <1>1
<1>4. ASSUME NEW s \in STATES
      PROVE  spent[s] = time_in_state'[s]
    BY <1>1, <1>2
<1> QED
    BY <1>3, <1>4, Zenon

(* A settled account is right whatever the state. *)
LEMMA Settled ==
    ASSUME time_in_state' \in [STATES -> Int], state_entry' = clock', clock' \in Nat,
           \A s \in STATES : spent'[s] = time_in_state'[s]
    PROVE  StatsAccount'
    BY DEF StatsAccount

(* The idle thread charges the clock to the state it leaves, once (update_stats). *)
LEMMA IdleAccount ==
    ASSUME Mutex, Account, IdleStep
    PROVE  Account'
<1> USE DEF Goto, stats
<1> initialized /\ initialized'
  BY Zenon DEF Mutex, IdleStep, Poll, ReadClock, NoteActivity, LookAtState, Activate, Decide, Compare,
         PreSleep, EnterState, WokeUp, PostWake, life
<1>a. ACTIVE \in STATES
    BY DEF ACTIVE, STATES
<1>1. CASE \/ Poll \/ ReadClock \/ NoteActivity \/ LookAtState \/ Decide \/ Compare
           \/ PostWake \/ EnterState
  <2>1. CASE Poll \/ ReadClock \/ NoteActivity
    BY <2>1, Zenon DEF Account, StatsAccount, Poll, ReadClock, NoteActivity
  <2>2. CASE LookAtState \/ PostWake
    BY <1>a, <2>2, Zenon DEF Account, StatsAccount, Return, LookAtState, PostWake
  <2>3. CASE Decide \/ Compare
    BY <1>a, <2>3, Zenon DEF Account, StatsAccount, Return, Decide, Compare
  <2>4. CASE EnterState
    BY <2>4, Zenon DEF Account, StatsAccount, EnterState
  <2> QED
    BY <1>1, <2>1, <2>2, <2>3, <2>4, Zenon
<1>2. ASSUME update_stats(RunningIn), clock' = clock,
             current_state' \in STATES, recommended' \in STATES, pc' # "asleep"
      PROVE  Account'
    BY <1>2, UpdateStats, Settled, Zenon DEF Account
<1>3. CASE Activate
    BY <1>a, <1>2, <1>3, Zenon DEF Account, Activate, Return, RunningIn
<1>4. CASE PreSleep
    BY <1>2, <1>4, Zenon DEF Account, PreSleep, RunningIn
<1>5. CASE WokeUp
    BY <1>a, <1>2, <1>5, Zenon DEF Account, WokeUp, RunningIn
<1> QED
    BY <1>1, <1>3, <1>4, <1>5, Zenon DEF IdleStep

(* Every step keeps the account of the time spent in each state. *)
LEMMA AccountStep ==
    ASSUME PMAssumption, Mutex, Account, [Next]_vars
    PROVE  Account'
<1> USE DEF stats, tables, policy, life, idle, sleep
<1>1. ASSUME UNCHANGED <<stats, current_state, recommended, clock, initialized, pc>>
      PROVE  Account'
    BY <1>1, Zenon DEF Account, StatsAccount
<1>2. CASE Tick
    BY <1>2 DEF Tick, Account, StatsAccount
<1>3. CASE ove_pm_activity \/ UNCHANGED vars
    BY <1>1, <1>3, Zenon DEF ove_pm_activity, vars
<1>4. ASSUME NEW c \in Clients, NEW s \in STATES, ove_pm_set_state(c, s)
      PROVE  Account'
  <2>1. pc \notin Sleeping /\ initialized
    BY <1>4, Zenon DEF ove_pm_set_state, Locked, MayCall, Mutex, PMAssumption
  <2>2. update_stats(RunningIn)
    BY <1>4, <2>1, Zenon DEF ove_pm_set_state, RunningIn, Sleeping
  <2> QED
    BY <1>4, <2>1, <2>2, UpdateStats, Settled, Zenon DEF ove_pm_set_state, Locked, Account, Sleeping
<1>5. ASSUME NEW c \in Clients, ove_pm_reset_stats(c)
      PROVE  Account'
  <2>1. pc \notin Sleeping
    BY <1>5, Zenon DEF ove_pm_reset_stats, Locked, Mutex, PMAssumption
  <2> QED
    BY <1>5, <2>1 DEF ove_pm_reset_stats, Locked, Account, StatsAccount, Sleeping
<1>6. ASSUME NEW c \in Clients, NEW rc \in BOOLEAN, ove_pm_init(c, rc)
      PROVE  Account'
    BY <1>6 DEF ove_pm_init, Account, StatsAccount, ACTIVE, STATES
<1>7. ASSUME NEW c \in Clients, Continue(c)
      PROVE  Account'
    BY <1>7 DEF Continue, SetPolicyData, Joined, Account, StatsAccount, Goto
<1>8. ASSUME NEW c \in Clients, Call(c),
             ~\E s \in STATES : ove_pm_set_state(c, s), ~ove_pm_reset_stats(c),
             ~\E rc \in BOOLEAN : ove_pm_init(c, rc)
      PROVE  UNCHANGED <<stats, current_state, recommended, clock, initialized, pc>>
    BY <1>8, Zenon DEF Call, ove_pm_wake_register, ove_pm_wake_unregister, ove_pm_domain_request,
         ove_pm_domain_release, ove_pm_notify_register, ove_pm_notify_unregister,
         ove_pm_set_policy, ove_pm_deinit, Locked
<1> QED
    BY <1>1, <1>2, <1>3, <1>4, <1>5, <1>6, <1>7, <1>8, IdleAccount, Zenon DEF Next

(* Reports of activity. *)
LEMMA BaselineStep ==
    ASSUME Mutex, Baseline, [Next]_vars
    PROVE  Baseline'
<1> USE DEF Baseline, NoActivityLost, stats, tables, policy, life, idle, sleep
<1>1. CASE Poll \/ ReadClock
    BY <1>1, Zenon DEF Poll, ReadClock, Goto, Mutex
<1>2. CASE NoteActivity
    BY <1>2 DEF NoteActivity, Goto, Mutex
<1>3. CASE LookAtState \/ Activate \/ Decide \/ Compare \/ PostWake
    BY <1>3 DEF LookAtState, Activate, Decide, Compare, PostWake, Return, Goto, Mutex
<1>4. CASE PreSleep \/ EnterState \/ WokeUp
    BY <1>4, Zenon DEF PreSleep, EnterState, WokeUp, Goto, Mutex
<1>5. CASE Tick \/ ove_pm_activity
    BY <1>5 DEF Tick, ove_pm_activity
<1>6. ASSUME UNCHANGED <<activity_flag, last_activity, initialized, pc, now, clock, posted>>
      PROVE  Baseline'
    BY <1>6, Zenon
<1>7. ASSUME NEW c \in Clients, NEW s \in STATES, ove_pm_set_state(c, s)
      PROVE  Baseline'
    BY <1>7, Zenon DEF ove_pm_set_state, Locked
<1>8. ASSUME NEW c \in Clients, NEW rc \in BOOLEAN, ove_pm_init(c, rc)
      PROVE  Baseline'
    BY <1>8, Zenon DEF ove_pm_init
<1>9. ASSUME NEW c \in Clients, Continue(c)
      PROVE  Baseline'
    BY <1>9 DEF Continue, SetPolicyData, Joined, Goto
<1>10. ASSUME NEW c \in Clients, Call(c),
              ~\E s \in STATES : ove_pm_set_state(c, s), ~\E rc \in BOOLEAN : ove_pm_init(c, rc)
       PROVE  UNCHANGED <<activity_flag, last_activity, initialized, pc, now, clock, posted>>
    BY <1>10, Zenon DEF Call, ove_pm_wake_register, ove_pm_wake_unregister, ove_pm_domain_request,
         ove_pm_domain_release, ove_pm_notify_register, ove_pm_notify_unregister,
         ove_pm_reset_stats, ove_pm_set_policy, ove_pm_deinit, Locked
<1>11. CASE UNCHANGED vars
    BY <1>6, <1>11, Zenon DEF vars
<1> HIDE DEF Baseline
<1> QED
    BY <1>1, <1>2, <1>3, <1>4, <1>5, <1>6, <1>7, <1>8, <1>9, <1>10, <1>11, Zenon DEF Next, IdleStep

PowerInv ==
    Mutex /\ SleepBracketed /\ DomainTable /\ HeldDomainsPowered /\ Account /\ Baseline

(* The parts together are inductive. *)
LEMMA PowerInvariant == Spec => []PowerInv
<1>1. Init => PowerInv
  <2> SUFFICES ASSUME Init PROVE PowerInv
    BY Zenon
  <2> USE DEF Init, ACTIVE, STATES
  <2>1. Mutex
    BY PMAssumption, Zenon DEF Mutex, Sleeping, PMAssumption
  <2>2. SleepBracketed
    BY Zenon DEF SleepBracketed, Sleeping
  <2>3. DomainTable /\ HeldDomainsPowered
    BY Zenon DEF DomainTable, HeldDomainsPowered
  <2>4. Account
    BY DEF Account, StatsAccount
  <2>5. Baseline
    BY DEF Baseline, NoActivityLost
  <2> QED
    BY <2>1, <2>2, <2>3, <2>4, <2>5, Zenon DEF PowerInv
<1>2. PowerInv /\ [Next]_vars => PowerInv'
    BY PMAssumption, MutexStep, BracketStep, DomainStep, AccountStep, BaselineStep, Zenon
    DEF PowerInv
<1> QED
    BY <1>1, <1>2, PTL DEF Spec

(* Every millisecond is charged to the state the system was in, whatever moved it. *)
THEOREM PowerStatsAccount == Spec => []StatsAccount
<1>1. PowerInv => StatsAccount
    BY Zenon DEF PowerInv, Account
<1> QED
    BY <1>1, PowerInvariant, PTL

(* No report of activity is lost between the flag and the idle baseline. *)
THEOREM PowerNoActivityLost == Spec => []NoActivityLost
<1>1. PowerInv => NoActivityLost
    BY Zenon DEF PowerInv, Baseline
<1> QED
    BY <1>1, PowerInvariant, PTL

(* The notifiers told of a sleep are told of the wakeup, and what was armed is disarmed. *)
THEOREM PowerSleepBracketed == Spec => []SleepBracketed
<1>1. PowerInv => SleepBracketed
    BY Zenon DEF PowerInv
<1> QED
    BY <1>1, PowerInvariant, PTL

(* A domain that somebody holds is powered, also after the HAL has failed. *)
THEOREM PowerHeldDomains == Spec => []HeldDomainsPowered
<1>1. PowerInv => HeldDomainsPowered
    BY Zenon DEF PowerInv
<1> QED
    BY <1>1, PowerInvariant, PTL
=============================================================================
