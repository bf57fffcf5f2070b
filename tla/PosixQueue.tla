----------------------------- MODULE PosixQueue -----------------------------
(***************************************************************************)
(* Message queue of the POSIX backend (backends/posix/posix_queue.c): a    *)
(* ring buffer under one mutex, with one condition variable for senders    *)
(* that found it full and one for receivers that found it empty.           *)
(*                                                                         *)
(* A step is one critical section: from taking the mutex, on entry or on   *)
(* the return of pthread_cond_[timed]wait, to sleeping or unlocking.       *)
(***************************************************************************)
EXTENDS Naturals, Sequences, FiniteSets

CONSTANTS Threads,    \* callers of the queue, interrupt handlers included
          Values,     \* items
          MaxItems,   \* max_items
          NULL

ASSUME QueueAssumption ==
    /\ MaxItems \in Nat \ {0}
    /\ IsFiniteSet(Threads)
    /\ NULL \notin Values

VARIABLES buffer, head, tail, count,   \* struct ove_queue
          hook,                        \* notify_cb # NULL
          pc,                          \* where each caller is
          op,                          \* the call a blocked caller is in
          val,                         \* the item a blocked sender holds
          timed,                       \* its timeout_ns is not OVE_WAIT_FOREVER
          moved                        \* the item copied in or out last

ring == <<buffer, head, tail, count>>
call == <<op, val, timed>>
vars == <<ring, hook, pc, call, moved>>

Slots == 0..(MaxItems - 1)

TypeOK ==
    /\ buffer \in [Slots -> Values \cup {NULL}]
    /\ head \in Slots /\ tail \in Slots /\ count \in 0..MaxItems
    /\ hook \in BOOLEAN
    /\ pc \in [Threads -> {"idle", "wait", "loop", "timedout", "notify"}]
    /\ op \in [Threads -> {"none", "send", "receive"}]
    /\ val \in [Threads -> Values \cup {NULL}]
    /\ timed \in [Threads -> BOOLEAN]
    /\ moved \in Values \cup {NULL}

(* ove_queue_init; ove_queue_set_notify is a set-up call, made or not made
   before the queue is shared. *)
Init ==
    /\ buffer = [i \in Slots |-> NULL]
    /\ head = 0 /\ tail = 0 /\ count = 0
    /\ hook \in BOOLEAN
    /\ pc = [t \in Threads |-> "idle"]
    /\ op = [t \in Threads |-> "none"]
    /\ val = [t \in Threads |-> NULL]
    /\ timed = [t \in Threads |-> FALSE]
    /\ moved = NULL

-----------------------------------------------------------------------------
(* Condition variables.  Those asleep on not_full and not_empty, and those that
   were woken and have yet to test the queue again. *)

Senders(p)   == {t \in Threads : pc[t] = p /\ op[t] = "send"}
Receivers(p) == {t \in Threads : pc[t] = p /\ op[t] = "receive"}

(* pthread_cond_signal: any one of S resumes, if there is one; pcs is pc with
   the caller's own move made. *)
Signal(S, pcs) ==
    \/ S = {} /\ pc' = pcs
    \/ \E u \in S : pc' = [pcs EXCEPT ![u] = "loop"]

SpuriousWakeup(t) ==
    /\ pc[t] = "wait"
    /\ pc' = [pc EXCEPT ![t] = "loop"]
    /\ UNCHANGED <<ring, hook, call, moved>>

(* The deadline passes before a wakeup: the caller is no longer a waiter, and
   returns once it has the mutex back. *)
DeadlinePasses(t) ==
    /\ pc[t] = "wait" /\ timed[t]
    /\ pc' = [pc EXCEPT ![t] = "timedout"]
    /\ UNCHANGED <<ring, hook, call, moved>>

-----------------------------------------------------------------------------
Block(t, o, v, b) ==
    /\ pc' = [pc EXCEPT ![t] = "wait"]
    /\ op' = [op EXCEPT ![t] = o]
    /\ val' = [val EXCEPT ![t] = v]
    /\ timed' = [timed EXCEPT ![t] = b]
    /\ UNCHANGED <<ring, moved>>

(* The call is over; what it kept on its stack is gone. *)
Leave(t) ==
    /\ op' = [op EXCEPT ![t] = "none"]
    /\ val' = [val EXCEPT ![t] = NULL]
    /\ timed' = [timed EXCEPT ![t] = FALSE]

(* Mutant of Put: signals only when the queue was empty. *)
PutSignalsFirst(t, v) ==
    /\ buffer' = [buffer EXCEPT ![head] = v]
    /\ head' = (head + 1) % MaxItems
    /\ count' = count + 1
    /\ Signal(IF count = 0 THEN Receivers("wait") ELSE {},
              [pc EXCEPT ![t] = IF hook THEN "notify" ELSE "idle"])
    /\ Leave(t)
    /\ moved' = v
    /\ UNCHANGED tail

(* memcpy in, advance, signal not_empty, snapshot the hook. *)
Put(t, v) ==
    /\ buffer' = [buffer EXCEPT ![head] = v]
    /\ head' = (head + 1) % MaxItems
    /\ count' = count + 1
    /\ Signal(Receivers("wait"), [pc EXCEPT ![t] = IF hook THEN "notify" ELSE "idle"])
    /\ Leave(t)
    /\ moved' = v
    /\ UNCHANGED tail

(* Mutants of Take: signals only when the queue was full; hands out the newest. *)
TakeSignalsFirst(t) ==
    /\ moved' = buffer[tail]
    /\ tail' = (tail + 1) % MaxItems
    /\ count' = count - 1
    /\ Signal(IF count = MaxItems THEN Senders("wait") ELSE {}, [pc EXCEPT ![t] = "idle"])
    /\ Leave(t)
    /\ UNCHANGED <<buffer, head>>

TakeNewest(t) ==
    /\ head' = (head + MaxItems - 1) % MaxItems
    /\ moved' = buffer[head']
    /\ count' = count - 1
    /\ Signal(Senders("wait"), [pc EXCEPT ![t] = "idle"])
    /\ Leave(t)
    /\ UNCHANGED <<buffer, tail>>

(* memcpy out, advance, signal not_full. *)
Take(t) ==
    /\ moved' = buffer[tail]
    /\ tail' = (tail + 1) % MaxItems
    /\ count' = count - 1
    /\ Signal(Senders("wait"), [pc EXCEPT ![t] = "idle"])
    /\ Leave(t)
    /\ UNCHANGED <<buffer, head>>

SendTest(t, v, b) ==
    /\ \/ count >= MaxItems /\ Block(t, "send", v, b)
       \/ count < MaxItems /\ Put(t, v)
    /\ UNCHANGED hook

ReceiveTest(t, b) ==
    /\ \/ count = 0 /\ Block(t, "receive", NULL, b)
       \/ count # 0 /\ Take(t)
    /\ UNCHANGED hook

(* A call with b waits until a deadline, possibly one that has passed already
   (timeout 0, which ove_queue_send_from_isr uses): such a call, too, goes to
   sleep and lets go of the mutex before it gives up. *)
ove_queue_send(t, v, b) == pc[t] = "idle" /\ SendTest(t, v, b)

ove_queue_receive(t, b) == pc[t] = "idle" /\ ReceiveTest(t, b)

(* Never sleeps; OVE_ERR_QUEUE_EMPTY changes nothing. *)
ove_queue_receive_from_isr(t) == pc[t] = "idle" /\ count # 0 /\ Take(t) /\ UNCHANGED hook

Woken(t) ==
    /\ pc[t] = "loop"
    /\ \/ op[t] = "send" /\ SendTest(t, val[t], timed[t])
       \/ op[t] = "receive" /\ ReceiveTest(t, timed[t])

(* ETIMEDOUT: return at once, without another look at the queue. *)
TimedOut(t) ==
    /\ pc[t] = "timedout"
    /\ pc' = [pc EXCEPT ![t] = "idle"]
    /\ Leave(t)
    /\ UNCHANGED <<ring, hook, moved>>

(* The notify callback runs after the unlock, in the sender's context. *)
Notify(t) ==
    /\ pc[t] = "notify"
    /\ pc' = [pc EXCEPT ![t] = "idle"]
    /\ UNCHANGED <<ring, hook, call, moved>>

-----------------------------------------------------------------------------
Call(t) ==
    \/ \E v \in Values, b \in BOOLEAN : ove_queue_send(t, v, b)
    \/ \E b \in BOOLEAN : ove_queue_receive(t, b)
    \/ ove_queue_receive_from_isr(t)

Continue(t) == Woken(t) \/ TimedOut(t) \/ Notify(t)

Next == \E t \in Threads : Call(t) \/ Continue(t) \/ DeadlinePasses(t) \/ SpuriousWakeup(t)

Spec == Init /\ [][Next]_vars

(* A woken thread runs.  A deadline is absolute: however often a caller wakes and
   goes back to sleep, its deadline passes in the end. *)
Fairness == \A t \in Threads : WF_vars(Continue(t)) /\ SF_vars(DeadlinePasses(t))

FairSpec == Spec /\ Fairness

-----------------------------------------------------------------------------
(* Properties. *)

(* No wakeup is lost: while a receiver sleeps, there are as many receivers awake
   and about to look again as there are items for them (one signal per item). *)
ReceiversAwake == Receivers("wait") # {} => Cardinality(Receivers("loop")) >= count

(* The same for senders and free slots. *)
SendersAwake == Senders("wait") # {} => Cardinality(Senders("loop")) >= MaxItems - count

(* No wakeup is lost in either direction. *)
CallersAwake == ReceiversAwake /\ SendersAwake

(* The ring holds the queue of BoundedQueue: FIFO order, nothing lost, nothing
   received twice. *)
Items == [i \in 1..count |-> buffer[(tail + i - 1) % MaxItems]]

FIFO == INSTANCE BoundedQueue WITH items <- Items

RefinesFIFO == FIFO!Spec

(* Items and sleeping receivers do not stay side by side: a receiver that sleeps
   while the queue holds items is being woken, whatever others do meanwhile.
   Neither do free slots and sleeping senders. *)
NobodyStranded ==
    /\ count > 0 /\ Receivers("wait") # {} ~> count = 0 \/ Receivers("wait") = {}
    /\ count < MaxItems /\ Senders("wait") # {} ~> count = MaxItems \/ Senders("wait") = {}
=============================================================================
