--------------------------- MODULE PosixEventGroup ---------------------------
(***************************************************************************)
(* Event group of the POSIX backend (backends/posix/posix_eventgroup.c): a *)
(* set of bits under one mutex and one condition variable, on which        *)
(* waiters with different masks and flags sleep.                           *)
(*                                                                         *)
(* A step is one critical section: from taking the mutex, on entry or on   *)
(* the return of pthread_cond_[timed]wait, to sleeping or unlocking.       *)
(***************************************************************************)
EXTENDS Naturals, FiniteSets

CONSTANTS Callers,   \* callers, interrupt handlers included
          Bits,      \* the bits in use
          Masks      \* the masks a caller waits for, sets and clears

ASSUME EventGroupAssumption == Masks \subseteq SUBSET Bits

VARIABLES live,      \* between ove_eventgroup_init and ove_eventgroup_deinit
          bits,      \* the bits that are set
          hook,      \* notify_cb # NULL
          where,     \* where each caller is
          req,       \* the arguments of the wait a caller is in
          takes      \* of each bit: how often waiters took it since it was last set

group_vars == <<live, bits, hook, where, req, takes>>

Requests == [mask : Masks, all : BOOLEAN, clear : BOOLEAN, timed : BOOLEAN]
NoRequest == [mask |-> {}, all |-> FALSE, clear |-> FALSE, timed |-> FALSE]

GroupTypeOK ==
    /\ live \in BOOLEAN /\ hook \in BOOLEAN
    /\ bits \subseteq Bits
    /\ where \in [Callers -> {"idle", "wait", "loop", "timedout", "notify"}]
    /\ req \in [Callers -> Requests \cup {NoRequest}]
    /\ takes \in [Bits -> 0..Cardinality(Callers)]
    /\ \A t \in Callers : where[t] \in {"idle", "notify"} => req[t] = NoRequest

(* ove_eventgroup_init; ove_eventgroup_set_notify is a set-up call, made or not
   made before the group is shared. *)
GroupInit ==
    /\ live = TRUE
    /\ bits = {}
    /\ hook \in BOOLEAN
    /\ where = [t \in Callers |-> "idle"]
    /\ req = [t \in Callers |-> NoRequest]
    /\ takes = [i \in Bits |-> 0]

Sleepers == {t \in Callers : where[t] = "wait"}

-----------------------------------------------------------------------------
(* Mutant of Satisfied: any bit will do. *)
SatisfiedByAny(r) == r.mask \cap bits # {}

Satisfied(r) == IF r.all THEN r.mask \subseteq bits ELSE r.mask \cap bits # {}

(* Mutant of SetBits: wakes one waiter. *)
SetBitsSignals(t, m) ==
    /\ bits' = bits \cup m
    /\ takes' = [i \in Bits |-> IF i \in m THEN 0 ELSE takes[i]]
    /\ LET pcs == [where EXCEPT ![t] = IF hook /\ m # {} THEN "notify" ELSE "idle"]
       IN  \/ Sleepers = {} /\ where' = pcs
           \/ \E u \in Sleepers : where' = [pcs EXCEPT ![u] = "loop"]

(* OR the bits in, broadcast, snapshot the hook. *)
SetBits(t, m) ==
    /\ bits' = bits \cup m
    /\ takes' = [i \in Bits |-> IF i \in m THEN 0 ELSE takes[i]]
    /\ where' = [u \in Callers |-> IF u = t THEN IF hook /\ m # {} THEN "notify" ELSE "idle"
                                   ELSE IF where[u] = "wait" THEN "loop" ELSE where[u]]

ove_eventgroup_set_bits(t, m) ==
    /\ live /\ where[t] = "idle"
    /\ SetBits(t, m)
    /\ UNCHANGED <<live, hook, req>>

ove_eventgroup_clear_bits(t, m) ==
    /\ live /\ where[t] = "idle"
    /\ bits' = bits \ m
    /\ UNCHANGED <<live, hook, where, req, takes>>

(* The call returns; what it kept on its stack is gone. *)
Return(t) ==
    /\ where' = [where EXCEPT ![t] = "idle"]
    /\ req' = [req EXCEPT ![t] = NoRequest]

(* Mutant of Match: clears what it asked for only if it asked for all of it. *)
MatchClearsAll(t, r) ==
    /\ bits' = IF r.clear /\ r.all THEN bits \ r.mask ELSE bits
    /\ takes' = IF r.clear THEN [i \in Bits |-> IF i \in r.mask \cap bits THEN takes[i] + 1 ELSE takes[i]]
                ELSE takes
    /\ Return(t)

(* OVE_OK, with OVE_EG_CLEAR_ON_EXIT under the same lock. *)
Match(t, r) ==
    /\ bits' = IF r.clear THEN bits \ r.mask ELSE bits
    /\ takes' = IF r.clear THEN [i \in Bits |-> IF i \in r.mask \cap bits THEN takes[i] + 1 ELSE takes[i]]
                ELSE takes
    /\ Return(t)

Sleep(t, r) ==
    /\ where' = [where EXCEPT ![t] = "wait"]
    /\ req' = [req EXCEPT ![t] = r]
    /\ UNCHANGED <<bits, takes>>

WaitTest(t, r) ==
    /\ \/ Satisfied(r) /\ Match(t, r)
       \/ ~Satisfied(r) /\ Sleep(t, r)
    /\ UNCHANGED <<live, hook>>

(* A wait with a timeout sleeps once even if its deadline has passed. *)
ove_eventgroup_wait_bits(t, r) == live /\ where[t] = "idle" /\ WaitTest(t, r)

Woken(t) == where[t] = "loop" /\ WaitTest(t, req[t])

GroupSpuriousWakeup(t) ==
    /\ where[t] = "wait"
    /\ where' = [where EXCEPT ![t] = "loop"]
    /\ UNCHANGED <<live, bits, hook, req, takes>>

GroupDeadlinePasses(t) ==
    /\ where[t] = "wait" /\ req[t].timed
    /\ where' = [where EXCEPT ![t] = "timedout"]
    /\ UNCHANGED <<live, bits, hook, req, takes>>

(* ETIMEDOUT: return at once, without another look at the bits. *)
TimedOut(t) ==
    /\ where[t] = "timedout"
    /\ Return(t)
    /\ UNCHANGED <<live, bits, hook, takes>>

(* The notify callback runs after the unlock, in the setter's context. *)
Notify(t) ==
    /\ where[t] = "notify"
    /\ where' = [where EXCEPT ![t] = "idle"]
    /\ UNCHANGED <<live, bits, hook, req, takes>>

(* Destroys the mutex and the condition variable and wakes nobody.  It is called
   while every caller is out of the group or asleep in it. *)
ove_eventgroup_deinit ==
    /\ live /\ \A t \in Callers : where[t] \in {"idle", "wait"}
    /\ live' = FALSE
    /\ UNCHANGED <<bits, hook, where, req, takes>>

(* The storage is used again once nobody is in it. *)
ove_eventgroup_init ==
    /\ ~live /\ \A t \in Callers : where[t] = "idle"
    /\ live' = TRUE
    /\ bits' = {}
    /\ hook' \in BOOLEAN
    /\ takes' = [i \in Bits |-> 0]
    /\ UNCHANGED <<where, req>>

-----------------------------------------------------------------------------
GroupCall(t) ==
    \/ \E m \in Masks : ove_eventgroup_set_bits(t, m) \/ ove_eventgroup_clear_bits(t, m)
    \/ \E r \in Requests : ove_eventgroup_wait_bits(t, r)

GroupContinue(t) == Woken(t) \/ TimedOut(t) \/ Notify(t)

GroupNext ==
    \/ \E t \in Callers :
          GroupCall(t) \/ GroupContinue(t) \/ GroupDeadlinePasses(t) \/ GroupSpuriousWakeup(t)
    \/ ove_eventgroup_deinit
    \/ ove_eventgroup_init

GroupSpec == GroupInit /\ [][GroupNext]_group_vars

-----------------------------------------------------------------------------
(* Properties. *)

(* A waiter that sleeps has nothing to be woken for: set_bits wakes all of them,
   so one whose condition holds is on its way to the test, whatever the masks
   and flags of the others. *)
SleepersUnsatisfied == \A t \in Sleepers : ~Satisfied(req[t])

(* OVE_EG_CLEAR_ON_EXIT "prevents races when multiple tasks share an event
   group": a bit that was set once is taken by one clearing waiter at most, so
   tasks can share out events by their bits. *)
TakenOnce == \A i \in Bits : takes[i] <= 1

(* A waiter returns OVE_OK only on its own condition: a step that ends an
   untimed wait finds the condition true, and with the clear flag leaves none of
   the bits it asked for. *)
ReturnsOnCondition ==
    [][\A t \in Callers :
          where[t] \in {"wait", "loop"} /\ where'[t] = "idle" =>
              /\ IF req[t].all THEN req[t].mask \subseteq bits ELSE req[t].mask \cap bits # {}
              /\ req[t].clear => req[t].mask \cap bits' = {}]_group_vars
=============================================================================
