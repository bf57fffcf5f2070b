---------------------------- MODULE QueueProofs ----------------------------
(***************************************************************************)
(* Proofs about PosixQueue, for any number of callers, any set of items    *)
(* and any capacity: types, no lost wakeup, and that the ring buffer       *)
(* implements the FIFO of BoundedQueue.                                    *)
(***************************************************************************)
EXTENDS PosixQueue, SequenceTheorems, FiniteSetTheorems, TLAPS

(* The indices and the count agree. *)
RingConsistent == head = (tail + count) % MaxItems

(* A blocked sender still has the item it was called with. *)
SenderHoldsItem ==
    \A t \in Threads : pc[t] \in {"wait", "loop"} /\ op[t] = "send" => val[t] \in Values

IInv == TypeOK /\ RingConsistent /\ SenderHoldsItem /\ ReceiversAwake /\ SendersAwake

-----------------------------------------------------------------------------
(* One wrap of the ring is a subtraction. *)
LEMMA Wrap ==
    ASSUME NEW n \in Nat \ {0}, NEW a \in 0..(n - 1), NEW b \in 0..n
    PROVE  /\ (a + b) % n = IF a + b < n THEN a + b ELSE a + b - n
           /\ (a + b) % n \in 0..(n - 1)
  OBVIOUS

(* The sets of sleeping and woken callers are finite. *)
LEMMA CallersFinite ==
    \A p : /\ IsFiniteSet(Senders(p)) /\ Cardinality(Senders(p)) \in Nat
           /\ IsFiniteSet(Receivers(p)) /\ Cardinality(Receivers(p)) \in Nat
  <1> SUFFICES ASSUME NEW p
               PROVE  /\ IsFiniteSet(Senders(p)) /\ Cardinality(Senders(p)) \in Nat
                      /\ IsFiniteSet(Receivers(p)) /\ Cardinality(Receivers(p)) \in Nat
    BY Zenon
  <1>1. IsFiniteSet(Threads)
    BY QueueAssumption, Zenon
  <1>2. Senders(p) \in SUBSET Threads /\ Receivers(p) \in SUBSET Threads
    BY Zenon DEF Senders, Receivers
  <1>3. IsFiniteSet(Senders(p)) /\ IsFiniteSet(Receivers(p))
    BY <1>1, <1>2, FS_Subset, Zenon
  <1> QED
    BY <1>3, FS_CardinalityType, Zenon

(* Adding the woken callers: at least as many, one more for a new one. *)
LEMMA OneMore ==
    ASSUME NEW S, NEW u, IsFiniteSet(S), u \notin S
    PROVE  Cardinality(S \cup {u}) = Cardinality(S) + 1
  BY FS_AddElement, Zenon

LEMMA OneLess ==
    ASSUME NEW S, NEW u, IsFiniteSet(S)
    PROVE  Cardinality(S \ {u}) >= Cardinality(S) - 1
  <1>1. Cardinality(S) \in Nat
    BY FS_CardinalityType, Zenon
  <1>2. Cardinality(S \ {u}) = IF u \in S THEN Cardinality(S) - 1 ELSE Cardinality(S)
    BY FS_RemoveElement, Zenon
  <1> QED
    BY <1>1, <1>2

-----------------------------------------------------------------------------
(* The sections of the code that change the queue or the sleepers. *)

(* A send that finds room. *)
LEMMA PutStep ==
    ASSUME IInv, NEW t \in Threads, NEW v \in Values, UNCHANGED hook, Put(t, v),
           count < MaxItems, pc[t] = "idle" \/ (pc[t] = "loop" /\ op[t] = "send")
    PROVE  IInv'
  <1>a. /\ buffer' = [buffer EXCEPT ![head] = v] /\ head' = (head + 1) % MaxItems
        /\ count' = count + 1 /\ tail' = tail /\ moved' = v
        /\ op' = [op EXCEPT ![t] = "none"] /\ val' = [val EXCEPT ![t] = NULL]
        /\ timed' = [timed EXCEPT ![t] = FALSE]
    BY Zenon DEF Put, Leave
  <1>b. PICK p \in {"idle", "notify"} : Signal(Receivers("wait"), [pc EXCEPT ![t] = p])
    BY Zenon DEF Put
  <1>c. PICK W \in SUBSET Receivers("wait") :
           /\ pc' = [x \in Threads |-> IF x = t THEN p ELSE IF x \in W THEN "loop" ELSE pc[x]]
           /\ W = {} <=> Receivers("wait") = {}
           /\ \E u : W \subseteq {u}
    <2>0. t \notin Receivers("wait") /\ pc = [x \in Threads |-> pc[x]]
      BY Zenon DEF Receivers, IInv, TypeOK
    <2>1. CASE Receivers("wait") = {} /\ pc' = [pc EXCEPT ![t] = p]
      BY <2>0, <2>1, Zenon
    <2>2. CASE \E u \in Receivers("wait") : pc' = [[pc EXCEPT ![t] = p] EXCEPT ![u] = "loop"]
      <3>1. PICK u \in Receivers("wait") : pc' = [[pc EXCEPT ![t] = p] EXCEPT ![u] = "loop"]
        BY <2>2, Zenon
      <3>2. u # t /\ u \in Threads
        BY <2>0, Zenon DEF Receivers
      <3>3. pc' = [x \in Threads |-> IF x = t THEN p ELSE IF x \in {u} THEN "loop" ELSE pc[x]]
        BY <2>0, <3>1, <3>2, Zenon
      <3> QED
        BY <3>3, Zenon
    <2> QED
      BY <1>b, <2>1, <2>2, Zenon DEF Signal
  <1>1. TypeOK'
    <2>1. head' \in Slots
      BY <1>a, Wrap, QueueAssumption DEF IInv, TypeOK, Slots
    <2>2. pc' \in [Threads -> {"idle", "wait", "loop", "timedout", "notify"}]
      BY <1>c, Zenon DEF IInv, TypeOK
    <2>3. buffer' \in [Slots -> Values \cup {NULL}]
      BY <1>a, Zenon DEF IInv, TypeOK
    <2>4. count' \in 0..MaxItems
      BY <1>a, QueueAssumption DEF IInv, TypeOK
    <2> QED
      BY <1>a, <2>1, <2>2, <2>3, <2>4, Zenon DEF IInv, TypeOK
  <1>2. RingConsistent'
    <2>0. /\ MaxItems \in Nat \ {0} /\ head \in 0..(MaxItems - 1) /\ tail \in 0..(MaxItems - 1) 
          /\ count \in 0..(MaxItems - 1) /\ count \in 0..MaxItems /\ 1 \in 0..MaxItems
      BY QueueAssumption DEF IInv, TypeOK, Slots
    <2>1. head = IF tail + count < MaxItems THEN tail + count ELSE tail + count - MaxItems
      BY <2>0, Wrap, Zenon DEF IInv, RingConsistent
    <2>2. head' = IF head + 1 < MaxItems THEN head + 1 ELSE head + 1 - MaxItems
      BY <1>a, <2>0, Wrap, Zenon
    <2>3. count' = count + 1 /\ count' \in 0..MaxItems /\ tail' = tail
      BY <1>a, <2>0
    <2>4. (tail' + count') % MaxItems = IF tail' + count' < MaxItems THEN tail' + count'
                                        ELSE tail' + count' - MaxItems
      BY <2>0, <2>3, Wrap, Zenon
    <2> QED
      BY <2>0, <2>1, <2>2, <2>3, <2>4 DEF RingConsistent
  <1>3. SenderHoldsItem'
    BY <1>a, <1>c, Zenon DEF IInv, TypeOK, SenderHoldsItem, Receivers
  <1>4. ReceiversAwake'
    <2>1. Receivers("wait")' = Receivers("wait") \ W
      BY <1>a, <1>c, Zenon DEF Receivers, IInv, TypeOK
    <2>2. Receivers("loop")' = Receivers("loop") \cup W
      BY <1>a, <1>c, Zenon DEF Receivers, IInv, TypeOK
    <2>3. CASE W = {}
      BY <1>c, <2>1, <2>3, Zenon DEF ReceiversAwake
    <2>4. CASE W # {}
      <3>1. PICK u : W = {u} /\ u \in Receivers("wait")
        BY <1>c, <2>4, Zenon
      <3>2. u \notin Receivers("loop")
        BY <3>1, Zenon DEF Receivers
      <3>3. Cardinality(Receivers("loop")') = Cardinality(Receivers("loop")) + 1
        BY <2>2, <3>1, <3>2, CallersFinite, OneMore, Zenon
      <3>4. Cardinality(Receivers("loop")) >= count
        BY <3>1, Zenon DEF IInv, ReceiversAwake
      <3> QED
        BY <1>a, <3>3, <3>4, CallersFinite, QueueAssumption DEF ReceiversAwake, IInv, TypeOK
    <2> QED
      BY <2>3, <2>4, Zenon
  <1>5. SendersAwake'
    <2>1. Senders("wait")' = Senders("wait")
      BY <1>a, <1>c, Zenon DEF Senders, Receivers, IInv, TypeOK
    <2>2. Senders("loop")' = Senders("loop") \ {t}
      BY <1>a, <1>c, Zenon DEF Senders, Receivers, IInv, TypeOK
    <2>3. Cardinality(Senders("loop")') >= Cardinality(Senders("loop")) - 1
      BY <2>2, CallersFinite, OneLess, Zenon
    <2>4. Cardinality(Senders("loop")') \in Nat
      BY <2>2, CallersFinite, FS_RemoveElement, FS_CardinalityType, Zenon
    <2> QED
      BY <1>a, <2>1, <2>3, <2>4, CallersFinite, QueueAssumption, SMTT(30)
         DEF SendersAwake, IInv, TypeOK
  <1> QED
    BY <1>1, <1>2, <1>3, <1>4, <1>5, Zenon DEF IInv

(* A receive that finds an item. *)
LEMMA TakeStep ==
    ASSUME IInv, NEW t \in Threads, UNCHANGED hook, Take(t),
           count # 0, pc[t] = "idle" \/ (pc[t] = "loop" /\ op[t] = "receive")
    PROVE  IInv'
  <1>a. /\ moved' = buffer[tail] /\ tail' = (tail + 1) % MaxItems
        /\ count' = count - 1 /\ head' = head /\ buffer' = buffer
        /\ op' = [op EXCEPT ![t] = "none"] /\ val' = [val EXCEPT ![t] = NULL]
        /\ timed' = [timed EXCEPT ![t] = FALSE]
    BY Zenon DEF Take, Leave
  <1>b. Signal(Senders("wait"), [pc EXCEPT ![t] = "idle"])
    BY Zenon DEF Take
  <1>c. PICK W \in SUBSET Senders("wait") :
           /\ pc' = [x \in Threads |-> IF x = t THEN "idle" ELSE IF x \in W THEN "loop" ELSE pc[x]]
           /\ W = {} <=> Senders("wait") = {}
           /\ \E u : W \subseteq {u}
    <2>0. t \notin Senders("wait") /\ pc = [x \in Threads |-> pc[x]]
      BY Zenon DEF Senders, IInv, TypeOK
    <2>1. CASE Senders("wait") = {} /\ pc' = [pc EXCEPT ![t] = "idle"]
      BY <2>0, <2>1, Zenon
    <2>2. CASE \E u \in Senders("wait") : pc' = [[pc EXCEPT ![t] = "idle"] EXCEPT ![u] = "loop"]
      <3>1. PICK u \in Senders("wait") : pc' = [[pc EXCEPT ![t] = "idle"] EXCEPT ![u] = "loop"]
        BY <2>2, Zenon
      <3>2. u # t /\ u \in Threads
        BY <2>0, Zenon DEF Senders
      <3>3. pc' = [x \in Threads |-> IF x = t THEN "idle" ELSE IF x \in {u} THEN "loop" ELSE pc[x]]
        BY <2>0, <3>1, <3>2, Zenon
      <3> QED
        BY <3>3, Zenon
    <2> QED
      BY <1>b, <2>1, <2>2, Zenon DEF Signal
  <1>1. TypeOK'
    <2>1. tail' \in Slots
      BY <1>a, Wrap, QueueAssumption DEF IInv, TypeOK, Slots
    <2>2. pc' \in [Threads -> {"idle", "wait", "loop", "timedout", "notify"}]
      BY <1>c, Zenon DEF IInv, TypeOK
    <2>3. moved' \in Values \cup {NULL}
      BY <1>a, Zenon DEF IInv, TypeOK
    <2>4. count' \in 0..MaxItems
      BY <1>a, QueueAssumption DEF IInv, TypeOK
    <2> QED
      BY <1>a, <2>1, <2>2, <2>3, <2>4, Zenon DEF IInv, TypeOK
  <1>2. RingConsistent'
    <2>0. /\ MaxItems \in Nat \ {0} /\ head \in 0..(MaxItems - 1) /\ tail \in 0..(MaxItems - 1) 
          /\ count \in 1..MaxItems /\ count \in 0..MaxItems /\ 1 \in 0..MaxItems
      BY QueueAssumption DEF IInv, TypeOK, Slots
    <2>1. head = IF tail + count < MaxItems THEN tail + count ELSE tail + count - MaxItems
      BY <2>0, Wrap, Zenon DEF IInv, RingConsistent
    <2>2. tail' = IF tail + 1 < MaxItems THEN tail + 1 ELSE tail + 1 - MaxItems
      BY <1>a, <2>0, Wrap, Zenon
    <2>3. tail' \in 0..(MaxItems - 1) /\ count' \in 0..MaxItems /\ count' = count - 1
      BY <1>a, <2>0, <2>2
    <2>4. (tail' + count') % MaxItems = IF tail' + count' < MaxItems THEN tail' + count'
                                        ELSE tail' + count' - MaxItems
      BY <2>0, <2>3, Wrap, Zenon
    <2> QED
      BY <1>a, <2>0, <2>1, <2>2, <2>3, <2>4, SMTT(30) DEF RingConsistent
  <1>3. SenderHoldsItem'
    BY <1>a, <1>c, Zenon DEF IInv, TypeOK, SenderHoldsItem, Senders
  <1>4. SendersAwake'
    <2>1. Senders("wait")' = Senders("wait") \ W
      BY <1>a, <1>c, Zenon DEF Senders, IInv, TypeOK
    <2>2. Senders("loop")' = Senders("loop") \cup W
      BY <1>a, <1>c, Zenon DEF Senders, IInv, TypeOK
    <2>3. CASE W = {}
      BY <1>c, <2>1, <2>3, Zenon DEF SendersAwake
    <2>4. CASE W # {}
      <3>1. PICK u : W = {u} /\ u \in Senders("wait")
        BY <1>c, <2>4, Zenon
      <3>2. u \notin Senders("loop")
        BY <3>1, Zenon DEF Senders
      <3>3. Cardinality(Senders("loop")') = Cardinality(Senders("loop")) + 1
        BY <2>2, <3>1, <3>2, CallersFinite, OneMore, Zenon
      <3>4. Cardinality(Senders("loop")) >= MaxItems - count
        BY <3>1, Zenon DEF IInv, SendersAwake
      <3> QED
        BY <1>a, <3>3, <3>4, CallersFinite, QueueAssumption DEF SendersAwake, IInv, TypeOK
    <2> QED
      BY <2>3, <2>4, Zenon
  <1>5. ReceiversAwake'
    <2>1. Receivers("wait")' = Receivers("wait")
      BY <1>a, <1>c, Zenon DEF Senders, Receivers, IInv, TypeOK
    <2>2. Receivers("loop")' = Receivers("loop") \ {t}
      BY <1>a, <1>c, Zenon DEF Senders, Receivers, IInv, TypeOK
    <2>3. Cardinality(Receivers("loop")') >= Cardinality(Receivers("loop")) - 1
      BY <2>2, CallersFinite, OneLess, Zenon
    <2>4. Cardinality(Receivers("loop")') \in Nat
      BY <2>2, CallersFinite, FS_RemoveElement, FS_CardinalityType, Zenon
    <2> QED
      BY <1>a, <2>1, <2>3, <2>4, CallersFinite, QueueAssumption
         DEF ReceiversAwake, IInv, TypeOK
  <1> QED
    BY <1>1, <1>2, <1>3, <1>4, <1>5, Zenon DEF IInv

(* A caller goes to sleep: a sender on a full queue, a receiver on an empty one. *)
LEMMA BlockStep ==
    ASSUME IInv, NEW t \in Threads, NEW o, NEW v, NEW b \in BOOLEAN, UNCHANGED hook,
           Block(t, o, v, b), pc[t] = "idle" \/ (pc[t] = "loop" /\ op[t] = o),
           \/ o = "send" /\ v \in Values /\ count >= MaxItems
           \/ o = "receive" /\ v = NULL /\ count = 0
    PROVE  IInv'
  <1>a. /\ pc' = [pc EXCEPT ![t] = "wait"] /\ op' = [op EXCEPT ![t] = o]
        /\ val' = [val EXCEPT ![t] = v] /\ timed' = [timed EXCEPT ![t] = b]
        /\ UNCHANGED <<buffer, head, tail, count, moved>>
    BY Zenon DEF Block, ring
  <1>1. TypeOK'
    BY <1>a, Zenon DEF IInv, TypeOK
  <1>2. RingConsistent' /\ SenderHoldsItem'
    BY <1>a, Zenon DEF IInv, TypeOK, RingConsistent, SenderHoldsItem
  <1>3. CASE o = "send"
    <2>1. count' = MaxItems
      BY <1>a, <1>3, QueueAssumption DEF IInv, TypeOK
    <2>2. SendersAwake'
      <3>1. IsFiniteSet(Senders("loop")') /\ Cardinality(Senders("loop")') \in Nat
        BY CallersFinite, QueueAssumption, FS_Subset, FS_CardinalityType, Zenon DEF Senders
      <3> QED
        BY <2>1, <3>1, QueueAssumption DEF SendersAwake
    <2>3. Receivers("wait")' = Receivers("wait") /\ Receivers("loop")' = Receivers("loop")
      BY <1>a, <1>3, Zenon DEF IInv, TypeOK, Receivers
    <2> QED
      BY <1>a, <1>1, <1>2, <2>2, <2>3, Zenon DEF IInv, ReceiversAwake
  <1>4. CASE o = "receive"
    <2>1. count' = 0
      BY <1>a, <1>4, Zenon
    <2>2. ReceiversAwake'
      <3>1. IsFiniteSet(Receivers("loop")') /\ Cardinality(Receivers("loop")') \in Nat
        BY CallersFinite, QueueAssumption, FS_Subset, FS_CardinalityType, Zenon DEF Receivers
      <3> QED
        BY <2>1, <3>1 DEF ReceiversAwake
    <2>3. Senders("wait")' = Senders("wait") /\ Senders("loop")' = Senders("loop")
      BY <1>a, <1>4, Zenon DEF IInv, TypeOK, Senders
    <2> QED
      BY <1>a, <1>1, <1>2, <2>2, <2>3, Zenon DEF IInv, SendersAwake
  <1> QED
    BY <1>3, <1>4, Zenon

(* A sleeper's deadline passes, it wakes by itself, or a caller that no longer
   sleeps leaves. *)
LEMMA WaiterStep ==
    ASSUME IInv, NEW t \in Threads,
           DeadlinePasses(t) \/ SpuriousWakeup(t) \/ TimedOut(t) \/ Notify(t)
    PROVE  IInv'
  <1>0. UNCHANGED <<buffer, head, tail, count, hook, moved>>
    BY Zenon DEF DeadlinePasses, SpuriousWakeup, TimedOut, Notify, ring
  <1>1. CASE TimedOut(t) \/ Notify(t)
    <2>1. pc[t] \in {"timedout", "notify"} /\ pc' = [pc EXCEPT ![t] = "idle"]
      BY <1>1, Zenon DEF TimedOut, Notify
    <2>2. \A u \in Threads \ {t} : op'[u] = op[u] /\ val'[u] = val[u]
      BY <1>1, Zenon DEF TimedOut, Notify, Leave, call, IInv, TypeOK
    <2>3. TypeOK'
      BY <1>0, <1>1, <2>1, Zenon DEF TimedOut, Notify, Leave, call, IInv, TypeOK
    <2>4. \A p \in {"wait", "loop"} : Senders(p)' = Senders(p) /\ Receivers(p)' = Receivers(p)
      <3>1. \A u \in Threads : pc'[u] = IF u = t THEN "idle" ELSE pc[u]
        BY <2>1, Zenon DEF IInv, TypeOK
      <3>2. \A p \in {"wait", "loop"} : Senders(p)' = Senders(p)
        BY <2>1, <2>2, <3>1 DEF Senders
      <3>3. \A p \in {"wait", "loop"} : Receivers(p)' = Receivers(p)
        BY <2>1, <2>2, <3>1 DEF Receivers
      <3> QED
        BY <3>2, <3>3, Zenon
    <2>5. SenderHoldsItem'
      BY <2>1, <2>2, Zenon DEF IInv, TypeOK, SenderHoldsItem
    <2> QED
      BY <1>0, <2>3, <2>4, <2>5, Zenon DEF IInv, RingConsistent, ReceiversAwake, SendersAwake
  <1>2. CASE DeadlinePasses(t) \/ SpuriousWakeup(t)
    <2>1. PICK p \in {"timedout", "loop"} : pc[t] = "wait" /\ pc' = [pc EXCEPT ![t] = p]
      BY <1>2, Zenon DEF DeadlinePasses, SpuriousWakeup
    <2>2. UNCHANGED <<op, val, timed>>
      BY <1>2, Zenon DEF DeadlinePasses, SpuriousWakeup, call
    <2>3. TypeOK' /\ SenderHoldsItem' /\ RingConsistent'
      BY <1>0, <2>1, <2>2, Zenon DEF IInv, TypeOK, SenderHoldsItem, RingConsistent
    <2>4. /\ Senders("wait")' \subseteq Senders("wait")
          /\ Receivers("wait")' \subseteq Receivers("wait")
          /\ Senders("loop") \in SUBSET Senders("loop")'
          /\ Receivers("loop") \in SUBSET Receivers("loop")'
          /\ Senders("loop")' \in SUBSET Threads /\ Receivers("loop")' \in SUBSET Threads
      BY <2>1, <2>2, Zenon DEF Senders, Receivers, IInv, TypeOK
    <2>5. IsFiniteSet(Senders("loop")') /\ IsFiniteSet(Receivers("loop")')
      BY <2>4, QueueAssumption, FS_Subset, Zenon
    <2>6. /\ Cardinality(Senders("loop")) <= Cardinality(Senders("loop")')
          /\ Cardinality(Receivers("loop")) <= Cardinality(Receivers("loop")')
          /\ Cardinality(Senders("loop")') \in Nat /\ Cardinality(Receivers("loop")') \in Nat
      BY <2>4, <2>5, FS_Subset, FS_CardinalityType, Zenon
    <2>7. ReceiversAwake'
      BY <1>0, <2>4, <2>6, CallersFinite DEF IInv, TypeOK, ReceiversAwake
    <2>8. SendersAwake'
      BY <1>0, <2>4, <2>6, CallersFinite, QueueAssumption DEF IInv, TypeOK, SendersAwake
    <2> QED
      BY <2>3, <2>7, <2>8, Zenon DEF IInv
  <1> QED
    BY <1>1, <1>2, Zenon

-----------------------------------------------------------------------------
LEMMA InitInv == Init => IInv
  <1> SUFFICES ASSUME Init PROVE IInv
    BY Zenon
  <1>1. TypeOK
    BY QueueAssumption DEF Init, TypeOK, Slots
  <1>2. RingConsistent
    BY QueueAssumption DEF Init, RingConsistent
  <1>3. SenderHoldsItem
    BY Zenon DEF Init, SenderHoldsItem
  <1>4. Receivers("wait") = {} /\ Senders("wait") = {}
    BY Zenon DEF Init, Receivers, Senders
  <1> QED
    BY <1>1, <1>2, <1>3, <1>4, Zenon DEF IInv, ReceiversAwake, SendersAwake

(* The two tests end in one of the sections above. *)
LEMMA SendTestStep ==
    ASSUME IInv, NEW t \in Threads, NEW v \in Values, NEW b \in BOOLEAN, SendTest(t, v, b),
           pc[t] = "idle" \/ (pc[t] = "loop" /\ op[t] = "send")
    PROVE  IInv'
  BY PutStep, BlockStep, Zenon DEF SendTest

LEMMA ReceiveTestStep ==
    ASSUME IInv, NEW t \in Threads, NEW b \in BOOLEAN, ReceiveTest(t, b),
           pc[t] = "idle" \/ (pc[t] = "loop" /\ op[t] = "receive")
    PROVE  IInv'
  BY TakeStep, BlockStep, Zenon DEF ReceiveTest

LEMMA NextInv ==
    ASSUME IInv, [Next]_vars
    PROVE  IInv'
  <1>1. ASSUME NEW t \in Threads, Call(t) PROVE IInv'
    <2>1. CASE \E v \in Values, b \in BOOLEAN : ove_queue_send(t, v, b)
      BY <2>1, SendTestStep, Zenon DEF ove_queue_send
    <2>2. CASE \E b \in BOOLEAN : ove_queue_receive(t, b)
      BY <2>2, ReceiveTestStep, Zenon DEF ove_queue_receive
    <2>3. CASE ove_queue_receive_from_isr(t)
      BY <2>3, TakeStep, Zenon DEF ove_queue_receive_from_isr
    <2> QED
      BY <1>1, <2>1, <2>2, <2>3, Zenon DEF Call
  <1>2. ASSUME NEW t \in Threads, Woken(t) PROVE IInv'
    <2>1. timed[t] \in BOOLEAN
      BY Zenon DEF IInv, TypeOK
    <2>2. CASE op[t] = "send" /\ SendTest(t, val[t], timed[t])
      <3>1. val[t] \in Values
        BY <1>2, <2>2, Zenon DEF Woken, IInv, SenderHoldsItem
      <3> QED
        BY <1>2, <2>1, <2>2, <3>1, SendTestStep, Zenon DEF Woken
    <2>3. CASE op[t] = "receive" /\ ReceiveTest(t, timed[t])
      BY <1>2, <2>1, <2>3, ReceiveTestStep, Zenon DEF Woken
    <2> QED
      BY <1>2, <2>2, <2>3, Zenon DEF Woken
  <1>3. CASE UNCHANGED vars
    BY <1>3, Zenon DEF vars, ring, call, IInv, TypeOK, RingConsistent, SenderHoldsItem, ReceiversAwake,
       SendersAwake, Senders, Receivers
  <1> QED
    BY <1>1, <1>2, <1>3, WaiterStep, Zenon DEF Next, Continue

(* The invariant holds throughout. *)
THEOREM QueueInvariant == Spec => []IInv
  <1>1. IInv /\ [Next]_vars => IInv'
    BY NextInv, Zenon
  <1> QED
    BY InitInv, <1>1, PTL DEF Spec

(* Types, and so indices within the buffer and a count within the capacity. *)
THEOREM QueueType == Spec => []TypeOK
  <1>1. IInv => TypeOK
    BY Zenon DEF IInv
  <1> QED
    BY <1>1, QueueInvariant, PTL

(* No signal is lost: neither receivers nor senders sleep while the queue has more
   to offer than there are callers awake to take it. *)
THEOREM NoLostSignal == Spec => []CallersAwake
  <1>1. IInv => CallersAwake
    BY Zenon DEF IInv, CallersAwake
  <1> QED
    BY <1>1, QueueInvariant, PTL

-----------------------------------------------------------------------------
(* The ring as a sequence. *)
LEMMA ItemsSeq ==
    ASSUME TypeOK
    PROVE  /\ Items \in Seq(Values \cup {NULL}) /\ Len(Items) = count
           /\ \A i \in 1..count : Items[i] = buffer[(tail + i - 1) % MaxItems]
  <1>1. \A i \in 1..count : (tail + i - 1) % MaxItems \in Slots
    BY QueueAssumption DEF TypeOK, Slots
  <1>2. \A i \in 1..count : buffer[(tail + i - 1) % MaxItems] \in Values \cup {NULL}
    BY <1>1, Zenon DEF TypeOK
  <1>3. count \in Nat
    BY QueueAssumption DEF TypeOK
  <1> QED
    BY <1>2, <1>3 DEF Items

(* A send appends its item: the slot at head is none of the occupied ones. *)
LEMMA PutAppends ==
    ASSUME IInv, TypeOK', NEW t \in Threads, NEW v \in Values, Put(t, v), count < MaxItems
    PROVE  FIFO!Send(v)
  <1>0. /\ MaxItems \in Nat \ {0} /\ head \in 0..(MaxItems - 1) /\ tail \in 0..(MaxItems - 1)
        /\ count \in 0..(MaxItems - 1) /\ count \in 0..MaxItems
    BY QueueAssumption DEF IInv, TypeOK, Slots
  <1>a. /\ buffer' = [buffer EXCEPT ![head] = v] /\ count' = count + 1 /\ tail' = tail /\ moved' = v
    BY Zenon DEF Put
  <1>b. head = (tail + count) % MaxItems
    BY Zenon DEF IInv, RingConsistent
  <1>c. buffer \in [Slots -> Values \cup {NULL}]
    BY Zenon DEF IInv, TypeOK
  <1>1. \A i \in 1..count : Items'[i] = Items[i]
    <2> SUFFICES ASSUME NEW i \in 1..count PROVE Items'[i] = Items[i]
      BY Zenon
    <2>0. i \in 1..(count + 1) /\ i - 1 \in 0..MaxItems /\ tail + i - 1 = tail + (i - 1)
      BY <1>0
    <2>1. /\ (tail + (i - 1)) % MaxItems = IF tail + (i - 1) < MaxItems THEN tail + (i - 1)
                                            ELSE tail + (i - 1) - MaxItems
          /\ (tail + (i - 1)) % MaxItems \in 0..(MaxItems - 1)
      BY <1>0, <2>0, Wrap, Zenon
    <2>2. head = IF tail + count < MaxItems THEN tail + count ELSE tail + count - MaxItems
      BY <1>0, <1>b, Wrap, Zenon
    <2>3. (tail + (i - 1)) % MaxItems # head
      BY <1>0, <2>1, <2>2
    <2>4. buffer'[(tail + (i - 1)) % MaxItems] = buffer[(tail + (i - 1)) % MaxItems]
      BY <1>a, <1>c, <2>1, <2>3, Zenon DEF Slots
    <2>5. Items[i] = buffer[(tail + (i - 1)) % MaxItems]
      BY <2>0, ItemsSeq, Zenon DEF IInv
    <2>6. Items'[i] = buffer'[(tail + (i - 1)) % MaxItems]
      BY <1>a, <2>0, Zenon DEF Items
    <2> QED
      BY <2>4, <2>5, <2>6, Zenon
  <1>2. Items'[count + 1] = v
    <2>1. Items'[count + 1] = buffer'[(tail + (count + 1) - 1) % MaxItems]
      BY <1>0, <1>a DEF Items
    <2>2. tail + (count + 1) - 1 = tail + count
      BY <1>0
    <2>3. buffer'[head] = v
      BY <1>0, <1>a, <1>c, Zenon DEF Slots
    <2> QED
      BY <1>b, <2>1, <2>2, <2>3, Zenon
  <1>3. Items \in Seq(Values \cup {NULL}) /\ Len(Items) = count
    BY ItemsSeq, Zenon DEF IInv
  <1>4. Items' = [i \in 1..(count + 1) |-> Items'[i]]
    BY <1>a DEF Items
  <1>5. Items' = Append(Items, v)
    <2>1. Items' \in Seq(Values \cup {NULL}) /\ Len(Items') = count + 1
      <3>1. \A i \in 1..(count + 1) : Items'[i] \in Values \cup {NULL}
        <4>1. \A i \in 1..count : Items[i] \in Values \cup {NULL}
          BY <1>0, <1>3
        <4>2. \A i \in 1..(count + 1) : i \in 1..count \/ i = count + 1
          BY <1>0
        <4> QED
          BY <1>1, <1>2, <4>1, <4>2, Zenon
      <3>2. count + 1 \in Nat
        BY <1>0
      <3> QED
        BY <1>4, <3>1, <3>2, SMTT(30)
    <2>2. /\ Append(Items, v) \in Seq(Values \cup {NULL}) /\ Len(Append(Items, v)) = count + 1
          /\ \A i \in 1..count : Append(Items, v)[i] = Items[i]
          /\ Append(Items, v)[count + 1] = v
      BY <1>3
    <2>3. \A i \in 1..Len(Items') : Items'[i] = Append(Items, v)[i]
      <3>1. \A i \in 1..(count + 1) : i \in 1..count \/ i = count + 1
        BY <1>0
      <3> QED
        BY <1>1, <1>2, <2>1, <2>2, <3>1, Zenon
    <2> QED
      BY <2>1, <2>2, <2>3, SeqEqual, Zenon
  <1> QED
    BY <1>0, <1>3, <1>5, <1>a, Zenon DEF FIFO!Send

(* A receive hands out the oldest item and leaves the others in order. *)
LEMMA TakeRemovesHead ==
    ASSUME IInv, TypeOK', NEW t \in Threads, Take(t), count # 0
    PROVE  FIFO!Receive
  <1>0. /\ MaxItems \in Nat \ {0} /\ tail \in 0..(MaxItems - 1) /\ count \in 1..MaxItems /\ 1 \in 0..MaxItems
    BY QueueAssumption DEF IInv, TypeOK, Slots
  <1>a. buffer' = buffer /\ count' = count - 1 /\ tail' = (tail + 1) % MaxItems /\ moved' = buffer[tail]
    BY Zenon DEF Take
  <1>b. tail' = IF tail + 1 < MaxItems THEN tail + 1 ELSE tail + 1 - MaxItems
    BY <1>0, <1>a, Wrap, Zenon
  <1>c. tail' \in 0..(MaxItems - 1)
    BY <1>0, <1>b
  <1>1. Items \in Seq(Values \cup {NULL}) /\ Len(Items) = count
    BY ItemsSeq, Zenon DEF IInv
  <1>2. Items' \in Seq(Values \cup {NULL}) /\ Len(Items') = count - 1
    <2>1. ASSUME NEW i \in 1..(count - 1) PROVE (tail' + i - 1) % MaxItems \in Slots
      <3>1. i - 1 \in 0..MaxItems /\ tail' + i - 1 = tail' + (i - 1)
        BY <1>0, <1>c
      <3>2. (tail' + (i - 1)) % MaxItems \in 0..(MaxItems - 1)
        BY <1>0, <1>c, <3>1, Wrap, Zenon
      <3> QED
        BY <3>1, <3>2, Zenon DEF Slots
    <2>2. \A i \in 1..(count - 1) : buffer[(tail' + i - 1) % MaxItems] \in Values \cup {NULL}
      BY <2>1, Zenon DEF IInv, TypeOK
    <2>3. Items' = [i \in 1..(count - 1) |-> buffer[(tail' + i - 1) % MaxItems]]
      BY <1>a, Zenon DEF Items
    <2>4. count - 1 \in Nat
      BY <1>0
    <2> QED
      BY <2>2, <2>3, <2>4
  <1>3. \A i \in 1..(count - 1) : Items'[i] = Items[i + 1]
    <2> SUFFICES ASSUME NEW i \in 1..(count - 1) PROVE Items'[i] = Items[i + 1]
      BY Zenon
    <2>0. /\ i + 1 \in 1..count /\ i \in 0..MaxItems /\ i - 1 \in 0..MaxItems
          /\ tail' + i - 1 = tail' + (i - 1) /\ tail + (i + 1) - 1 = tail + i
      BY <1>0, <1>c
    <2>1. (tail + i) % MaxItems = IF tail + i < MaxItems THEN tail + i ELSE tail + i - MaxItems
      BY <1>0, <2>0, Wrap, Zenon
    <2>2. (tail' + (i - 1)) % MaxItems = IF tail' + (i - 1) < MaxItems THEN tail' + (i - 1)
                                         ELSE tail' + (i - 1) - MaxItems
      BY <1>0, <1>c, <2>0, Wrap, Zenon
    <2>3. (tail' + (i - 1)) % MaxItems = (tail + i) % MaxItems
      BY <1>0, <1>b, <2>1, <2>2, SMTT(30)
    <2>4. Items'[i] = buffer[(tail' + (i - 1)) % MaxItems]
      BY <1>a, <2>0, Zenon DEF Items
    <2>5. Items[i + 1] = buffer[(tail + i) % MaxItems]
      BY <2>0, Zenon DEF Items
    <2> QED
      BY <2>3, <2>4, <2>5, Zenon
  <1>4. Head(Items) = buffer[tail]
    <2>1. Items[1] = buffer[(tail + 1 - 1) % MaxItems]
      BY <1>0 DEF Items
    <2>2. (tail + 1 - 1) % MaxItems = tail
      BY <1>0
    <2>3. Head(Items) = Items[1]
      BY <1>0, <1>1
    <2> QED
      BY <2>1, <2>2, <2>3, Zenon
  <1>5. Items' = Tail(Items)
    <2>1. /\ Tail(Items) \in Seq(Values \cup {NULL}) /\ Len(Tail(Items)) = count - 1
          /\ \A i \in 1..(count - 1) : Tail(Items)[i] = Items[i + 1]
      BY <1>0, <1>1
    <2>2. \A i \in 1..Len(Items') : Items'[i] = Tail(Items)[i]
      BY <1>2, <1>3, <2>1, Zenon
    <2> QED
      BY <1>2, <2>1, <2>2, SeqEqual, Zenon
  <1>6. Items # <<>>
    BY <1>0, <1>1
  <1> QED
    BY <1>4, <1>5, <1>6, <1>a, Zenon DEF FIFO!Receive

(* The ring buffer implements the bounded FIFO: every step of the queue sends one
   item, hands out the oldest one, or changes neither. *)
THEOREM RingImplementsFIFO == Spec => RefinesFIFO
  <1>1. Init => FIFO!Init
    <2> SUFFICES ASSUME Init PROVE FIFO!Init
      BY Zenon
    <2>1. count = 0 /\ moved = NULL
      BY Zenon DEF Init
    <2>2. Items = <<>>
      BY <2>1 DEF Items
    <2> QED
      BY <2>1, <2>2, Zenon DEF FIFO!Init
  <1>2. IInv /\ IInv' /\ [Next]_vars => [FIFO!Next]_<<Items, moved>>
    <2> SUFFICES ASSUME IInv, IInv', [Next]_vars
                 PROVE  FIFO!Next \/ UNCHANGED <<Items, moved>>
      BY Zenon
    <2>0. TypeOK'
      BY Zenon DEF IInv
    <2>1. ASSUME UNCHANGED <<ring, moved>> PROVE UNCHANGED <<Items, moved>>
      BY <2>1, Zenon DEF ring, Items
    <2>2. ASSUME NEW t \in Threads, NEW v \in Values, NEW b, SendTest(t, v, b)
          PROVE  FIFO!Next \/ UNCHANGED <<ring, moved>>
      <3>1. CASE count < MaxItems /\ Put(t, v)
        BY <2>0, <3>1, PutAppends, Zenon DEF FIFO!Next
      <3> QED
        BY <2>2, <3>1, Zenon DEF SendTest, Block
    <2>3. ASSUME NEW t \in Threads, count # 0, Take(t) PROVE FIFO!Next
      BY <2>0, <2>3, TakeRemovesHead, Zenon DEF FIFO!Next
    <2>4. ASSUME NEW t \in Threads, NEW b, ReceiveTest(t, b)
          PROVE  FIFO!Next \/ UNCHANGED <<ring, moved>>
      BY <2>3, <2>4, Zenon DEF ReceiveTest, Block
    <2>5. ASSUME NEW t \in Threads, Call(t) PROVE FIFO!Next \/ UNCHANGED <<ring, moved>>
      BY <2>2, <2>3, <2>4, <2>5, Zenon DEF Call, ove_queue_send, ove_queue_receive,
         ove_queue_receive_from_isr
    <2>6. ASSUME NEW t \in Threads, Woken(t) PROVE FIFO!Next \/ UNCHANGED <<ring, moved>>
      <3>1. op[t] = "send" => val[t] \in Values
        BY <2>6, Zenon DEF Woken, IInv, SenderHoldsItem
      <3> QED
        BY <2>2, <2>4, <2>6, <3>1, Zenon DEF Woken
    <2>7. ASSUME NEW t \in Threads, DeadlinePasses(t) \/ SpuriousWakeup(t) \/ TimedOut(t) \/ Notify(t)
          PROVE  UNCHANGED <<ring, moved>>
      BY <2>7, Zenon DEF DeadlinePasses, SpuriousWakeup, TimedOut, Notify
    <2>8. CASE UNCHANGED vars
      BY <2>1, <2>8, Zenon DEF vars
    <2> QED
      BY <2>1, <2>5, <2>6, <2>7, <2>8, Zenon DEF Next, Continue
  <1> QED
    BY <1>1, <1>2, QueueInvariant, PTL DEF Spec, RefinesFIFO, FIFO!Spec

=============================================================================
