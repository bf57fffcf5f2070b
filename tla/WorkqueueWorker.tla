-------------------------- MODULE WorkqueueWorker ---------------------------
(***************************************************************************)
(* The worker's steps, the life of queues and items and the tests at the   *)
(* beginning of a submission preserve the invariant of the work queues,    *)
(* for any number of queues, items and clients and any limit.              *)
(***************************************************************************)
EXTENDS WorkqueueInvariant, TLAPS

(* An item is initialised. *)
LEMMA WorkInitStep ==
    ASSUME IInv, SingleTarget, NEW c \in Clients, NEW w \in Works, ove_work_init_static(c, w)
    PROVE  IInv'
  <1>a. \A x, p : Queued(x, p)' <=> Queued(x, p)
    BY Zenon DEF Queued, ove_work_init_static
  <1>b. /\ ~handler[w] /\ \A d \in Clients : pc[d] # "idle" => item[d] # w
        /\ UNCHANGED <<lock, queue, running, pc, cur, execute, op, item, target, cancelled>>
    BY Zenon DEF ove_work_init_static, Using, workerVars, clientVars
  <1>1. TypeOK'
    BY Zenon DEF IInv, TypeOK, ove_work_init_static, workerVars, clientVars
  <1>c. /\ \A x \in Works \ {w} : /\ handler'[x] = handler[x] /\ wq'[x] = wq[x]
                                  /\ pending'[x] = pending[x] /\ in_progress'[x] = in_progress[x]
        /\ handler'[w] /\ wq'[w] = NULL /\ ~pending'[w] /\ ~in_progress'[w]
    <2>1. /\ handler \in [Works -> BOOLEAN] /\ wq \in [Works -> Queues \cup {NULL}]
          /\ pending \in [Works -> BOOLEAN] /\ in_progress \in [Works -> BOOLEAN]
      BY Zenon DEF IInv, TypeOK
    <2>2. /\ handler' = [handler EXCEPT ![w] = TRUE] /\ wq' = [wq EXCEPT ![w] = NULL]
          /\ pending' = [pending EXCEPT ![w] = FALSE]
          /\ in_progress' = [in_progress EXCEPT ![w] = FALSE]
      BY Zenon DEF ove_work_init_static
    <2> QED
      BY <2>1, <2>2, Zenon
  <1>d. \A p \in Queues : ~Referenced(w, p)
    BY <1>b, Zenon DEF IInv, ReleasedUnreferenced
  <1>e. cancelled \subseteq Works /\ \A p \in Queues : cur[p] \in Works \cup {NULL}
    BY Zenon DEF IInv, TypeOK
  <1>2. Holding' /\ Others' /\ DeinitAlone' /\ WorkerState' /\ WorkerSleepsIdle'
        /\ CancellerWillBeWoken'
    BY <1>b DEF IInv, Holding, Others, DeinitAlone, InCancel, WorkerState, WorkerSleepsIdle,
       CancellerWillBeWoken
  <1>3. Submitting' /\ Cancellers'
    BY <1>b, <1>c DEF IInv, Submitting, Cancellers, InCancel
  <1>4. DeinitDequeued' /\ SlotsDistinct'
    BY <1>a, <1>b, Zenon DEF IInv, DeinitDequeued, SlotsDistinct
  <1>5. InProgress' /\ HomeQueue'
    BY <1>b, <1>c, <1>d, <1>e DEF IInv, InProgress, HomeQueue, Referenced
  <1>6. PendingState'
    <2>1. \A p \in Queues : pc[p] \in {"handler", "finish"} => cur[p] \in Works \ {w}
      BY <1>d, <1>e, Zenon DEF IInv, WorkerState, Referenced
    <2>2. \A x, p : p \in Queues /\ Queued(x, p) => x # w
      BY <1>d, Zenon DEF Referenced
    <2> QED
      BY <1>a, <1>b, <1>c, <1>e, <2>1, <2>2, ZenonT(60) DEF IInv, PendingState
  <1>7. BackpointerExact' /\ ReleasedUnreferenced'
    <2>1. \A x, p : Referenced(x, p)' <=> Referenced(x, p)
      BY <1>a, <1>b, Zenon DEF Referenced
    <2> QED
      BY <1>c, <1>d, <2>1, WorkqueueAssumption DEF IInv, BackpointerExact, ReleasedUnreferenced
  <1>8. CancelledNeverRuns'
    BY <1>b, <1>c, Zenon DEF IInv, CancelledNeverRuns
  <1> QED
    BY <1>1, <1>2, <1>3, <1>4, <1>5, <1>6, <1>7, <1>8, Zenon DEF IInv

(* A submission passes the tests. *)
LEMMA SubmitTestStep ==
    ASSUME IInv, SingleTarget, NEW c \in Clients, NEW q \in Queues, NEW w \in Works,
           NEW d \in BOOLEAN, SubmitTest(c, q, w, d)
    PROVE  IInv'
  <1>a. \A x, p : Queued(x, p)' <=> Queued(x, p)
    BY Zenon DEF Queued, SubmitTest
  <1>b. /\ q \in Targets[w] /\ pc[c] = "idle" /\ lock[q] = NULL
        /\ \A o \in Clients : pc[o] # "idle" /\ item[o] = w => op[o] # "deinit"
    BY Zenon DEF SubmitTest, Free, Using
  <1>c. /\ running[q] /\ Len(queue[q]) < MaxPending /\ handler[w]
        /\ wq[w] = NULL /\ ~pending[w] /\ ~in_progress[w]
    <2>1. ~SubmitBusy(q, w) /\ ~SubmitFull(q) /\ handler[w]
      BY Zenon DEF SubmitTest
    <2>2. running[q] /\ wq[w] = NULL /\ ~pending[w] /\ ~in_progress[w]
      BY <2>1, Zenon DEF SubmitBusy
    <2>3. queue[q] \in Seq(Works)
      BY Zenon DEF IInv, TypeOK
    <2>4. Len(queue[q]) < MaxPending
      BY <2>1, <2>3, WorkqueueAssumption DEF SubmitFull
    <2> QED
      BY <2>1, <2>2, <2>4, Zenon
  <1>d. UNCHANGED <<queue, running, wq, pending, in_progress, delayed, handler, cur, execute,
                    cancelled>>
    BY Zenon DEF SubmitTest, workVars, workerVars
  <1>e. /\ lock'[q] = c /\ \A p \in Queues \ {q} : lock'[p] = lock[p]
        /\ pc'[c] = "submit" /\ \A o \in Clients \ {c} : pc'[o] = pc[o]
        /\ \A p \in Queues : pc'[p] = pc[p]
        /\ op'[c] \in {"submit", "submit_delayed"} /\ item'[c] = w /\ target'[c] = q
        /\ \A o \in Clients \ {c} : op'[o] = op[o] /\ item'[o] = item[o] /\ target'[o] = target[o]
    BY WorkqueueAssumption DEF IInv, TypeOK, Threads, SubmitTest
  <1>f. NULL \notin Clients /\ NULL \notin Works
    BY WorkqueueAssumption, Zenon
  <1>1. TypeOK'
    BY Zenon DEF IInv, TypeOK, Threads, WorkerStates, ClientStates, SubmitTest, workVars,
       workerVars
  <1>2. Holding'
    BY <1>b, <1>e, <1>f DEF IInv, Holding
  <1>3. Submitting'
    BY <1>b, <1>c, <1>d, <1>e DEF IInv, Submitting
  <1>4. Cancellers' /\ Others'
    BY <1>d, <1>e DEF IInv, Cancellers, InCancel, Others
  <1>5. DeinitAlone'
    BY <1>b, <1>e DEF IInv, DeinitAlone, InCancel
  <1>6. DeinitDequeued'
    BY <1>a, <1>e, Zenon DEF IInv, DeinitDequeued
  <1>7. WorkerState' /\ InProgress' /\ HomeQueue'
    BY <1>d, <1>e DEF IInv, WorkerState, InProgress, HomeQueue
  <1>8. SlotsDistinct' /\ PendingState'
    BY <1>a, <1>d, <1>e DEF IInv, SlotsDistinct, PendingState
  <1>9. BackpointerExact' /\ ReleasedUnreferenced' /\ CancelledNeverRuns'
    BY <1>a, <1>d, <1>e
       DEF IInv, BackpointerExact, Referenced, ReleasedUnreferenced, CancelledNeverRuns
  <1>10. WorkerSleepsIdle' /\ CancellerWillBeWoken'
    BY <1>d, <1>e DEF IInv, WorkerSleepsIdle, CancellerWillBeWoken
  <1> QED
    BY <1>1, <1>2, <1>3, <1>4, <1>5, <1>6, <1>7, <1>8, <1>9, <1>10, Zenon DEF IInv

(* ove_work_cancel or ove_work_deinit returns; nobody has the item of a deinit any more. *)
LEMMA ReturnStep ==
    ASSUME IInv, NEW c \in Clients, NEW w \in Works, NEW o, pc[c] # "submit", Return(c, w, o),
           UNCHANGED <<lock, queue, running, wq, pending, in_progress, delayed, cur, execute,
                       cancelled>>,
           o = "deinit" => /\ \A p \in Queues : ~Referenced(w, p)
                           /\ \A d \in Clients \ {c} : pc[d] # "idle" => item[d] # w
    PROVE  IInv'
  <1>a. \A x, p : Queued(x, p)' <=> Queued(x, p)
    BY Zenon DEF Queued
  <1>b. /\ \A d \in Clients \ {c} : /\ pc'[d] = pc[d] /\ op'[d] = op[d]
                                    /\ item'[d] = item[d] /\ target'[d] = target[d]
        /\ \A p \in Queues : pc'[p] = pc[p]
        /\ pc'[c] = "idle" /\ item'[c] = NULL
    <2>1. /\ pc \in [Threads -> WorkerStates \cup ClientStates]
          /\ op \in [Clients -> {"none", "submit", "submit_delayed", "cancel", "deinit"}]
          /\ item \in [Clients -> Works \cup {NULL}] /\ target \in [Clients -> Queues \cup {NULL}]
          /\ c \notin Queues
      BY WorkqueueAssumption, Zenon DEF IInv, TypeOK
    <2> QED
      BY <2>1, Zenon DEF Threads, Return
  <1>c. /\ \A x \in Works : handler'[x] => handler[x]
        /\ \A x \in Works : handler[x] /\ ~handler'[x] => x = w /\ o = "deinit"
    BY Zenon DEF IInv, TypeOK, Return
  <1>d. \A d \in Clients : InCancel(d)' => InCancel(d) /\ d # c /\ item[d] # NULL
    BY <1>b, WorkqueueAssumption, Zenon DEF IInv, Cancellers, InCancel
  <1>1. TypeOK'
    BY WorkqueueAssumption DEF IInv, TypeOK, Threads, ClientStates, Return
  <1>2. Holding' /\ Others'
    BY <1>b DEF IInv, Holding, Others
  <1>3. Submitting'
    BY <1>b, <1>c DEF IInv, Submitting
  <1>4. Cancellers' /\ CancellerWillBeWoken'
    BY <1>b, <1>c DEF IInv, Cancellers, InCancel, CancellerWillBeWoken
  <1>5. DeinitAlone'
    BY <1>b, <1>d DEF IInv, DeinitAlone
  <1>10. DeinitDequeued'
    BY <1>a, <1>b, Zenon DEF IInv, DeinitDequeued
  <1>6. ReleasedUnreferenced' /\ BackpointerExact'
    <2>1. \A x, p : Referenced(x, p)' <=> Referenced(x, p)
      BY <1>a, Zenon DEF Referenced
    <2> QED
      BY <1>c, <2>1, Zenon DEF IInv, ReleasedUnreferenced, BackpointerExact
  <1>7. WorkerState' /\ WorkerSleepsIdle' /\ CancelledNeverRuns'
    BY <1>b, Zenon DEF IInv, WorkerState, WorkerSleepsIdle, CancelledNeverRuns
  <1>8. InProgress' /\ HomeQueue'
    BY Zenon DEF IInv, InProgress, HomeQueue
  <1>9. SlotsDistinct' /\ PendingState'
    BY <1>a, <1>b DEF IInv, SlotsDistinct, PendingState
  <1> QED
    BY <1>1, <1>2, <1>3, <1>4, <1>5, <1>6, <1>7, <1>8, <1>9, <1>10, Zenon DEF IInv

(* Dropping the head, as the worker does, removes that element and no other. *)
LEMMA TailFacts ==
    ASSUME NEW S, NEW s \in Seq(S), s # <<>>, NoRepeats(s)
    PROVE  /\ Head(s) \in S
           /\ Tail(s) \in Seq(S)
           /\ Len(Tail(s)) = Len(s) - 1
           /\ NoRepeats(Tail(s))
           /\ Contains(s, Head(s))
           /\ \A x : Contains(Tail(s), x) <=> Contains(s, x) /\ x # Head(s)
  <1>1. /\ Len(s) \in Nat \ {0}
        /\ Head(s) = s[1] /\ Head(s) \in S
        /\ Tail(s) \in Seq(S)
        /\ Len(Tail(s)) = Len(s) - 1
        /\ \A i \in 1..(Len(s) - 1) : Tail(s)[i] = s[i + 1]
    OBVIOUS
  <1>2. NoRepeats(Tail(s))
    BY <1>1 DEF NoRepeats
  <1>3. ASSUME NEW x PROVE Contains(Tail(s), x) <=> Contains(s, x) /\ x # Head(s)
    <2>1. ASSUME Contains(Tail(s), x) PROVE Contains(s, x) /\ x # Head(s)
      <3>1. PICK i \in 1..(Len(s) - 1) : Tail(s)[i] = x
        BY <1>1, <2>1, Zenon DEF Contains
      <3>2. i + 1 \in 1..Len(s) /\ s[i + 1] = x /\ 1 \in 1..Len(s)
        BY <1>1, <3>1
      <3> QED BY <1>1, <3>2 DEF Contains, NoRepeats
    <2>2. ASSUME Contains(s, x), x # Head(s) PROVE Contains(Tail(s), x)
      <3>1. PICK i \in 1..Len(s) : s[i] = x
        BY <2>2, Zenon DEF Contains
      <3>2. i - 1 \in 1..(Len(s) - 1) /\ Tail(s)[i - 1] = s[i]
        BY <1>1, <2>2, <3>1
      <3> QED BY <1>1, <3>1, <3>2, Zenon DEF Contains
    <2> QED BY <2>1, <2>2, Zenon
  <1>4. Contains(s, Head(s))
    BY <1>1 DEF Contains
  <1> QED BY <1>1, <1>2, <1>3, <1>4, Zenon

(* A step on which threads only move: a worker falls asleep with nothing to do, wakes, ends,
   finishes a delay or a handler; a canceller falls asleep on the item in hand or wakes. *)
LEMMA MoveStep ==
    ASSUME IInv, UNCHANGED <<lock, queue, running, workVars, workerVars, clientVars, cancelled>>,
           pc' \in [Threads -> WorkerStates \cup ClientStates],
           \A p \in Queues : pc'[p] = pc[p] \/ WorkerMoves(p),
           \A d \in Clients : pc'[d] = pc[d] \/ CancellerMoves(d)
    PROVE  IInv'
  <1>a. \A x, p : Queued(x, p)' <=> Queued(x, p)
    BY Zenon DEF Queued
  <1>b. \A d \in Clients : /\ InCancel(d)' <=> InCancel(d)
                           /\ pc'[d] \in {"idle", "join", "submit"} <=> pc[d] \in {"idle", "join", "submit"}
                           /\ pc[d] \in {"idle", "join", "submit"} => pc'[d] = pc[d]
    BY Zenon DEF CancellerMoves, InCancel
  <1>1. TypeOK'
    <2>1. \A p \in Queues : pc'[p] \in WorkerStates
      BY Zenon DEF IInv, TypeOK, WorkerMoves, WorkerStates
    <2>2. \A d \in Clients : pc'[d] \in ClientStates
      BY Zenon DEF IInv, TypeOK, CancellerMoves, ClientStates
    <2> QED
      BY <2>1, <2>2, Zenon DEF IInv, TypeOK, workVars, workerVars, clientVars
  <1>2. Holding' /\ Submitting' /\ Others'
    BY <1>b DEF IInv, Holding, Submitting, Others, workVars, clientVars
  <1>3. Cancellers' /\ DeinitAlone'
    BY <1>b, Zenon DEF IInv, Cancellers, DeinitAlone, workVars, clientVars
  <1>4. DeinitDequeued' /\ CancellerWillBeWoken'
    BY <1>a, Zenon
       DEF IInv, DeinitDequeued, CancellerWillBeWoken, CancellerMoves, workerVars, clientVars
  <1>5. WorkerState' /\ WorkerSleepsIdle'
    BY Zenon DEF IInv, WorkerState, WorkerSleepsIdle, WorkerMoves, workerVars
  <1>6. PendingState' /\ CancelledNeverRuns'
    BY <1>a, Zenon
       DEF IInv, PendingState, CancelledNeverRuns, WorkerMoves, workVars, workerVars
  <1>7. InProgress' /\ HomeQueue' /\ SlotsDistinct'
    BY <1>a, Zenon DEF IInv, InProgress, HomeQueue, SlotsDistinct, workVars, workerVars
  <1>8. BackpointerExact' /\ ReleasedUnreferenced'
    BY <1>a, Zenon
       DEF IInv, BackpointerExact, Referenced, ReleasedUnreferenced, workVars, workerVars
  <1> QED
    BY <1>1, <1>2, <1>3, <1>4, <1>5, <1>6, <1>7, <1>8, Zenon DEF IInv

(* One worker moves and nobody else. *)
LEMMA WorkerMoveStep ==
    ASSUME IInv, UNCHANGED <<lock, queue, running, workVars, workerVars, clientVars, cancelled>>,
           NEW q \in Queues, NEW b \in WorkerStates, pc' = [pc EXCEPT ![q] = b],
           pc'[q] = b => WorkerMoves(q)
    PROVE  IInv'
  <1>1. /\ pc' \in [Threads -> WorkerStates \cup ClientStates]
        /\ \A t \in Threads \ {q} : pc'[t] = pc[t]
        /\ pc'[q] = b
    BY Zenon DEF IInv, TypeOK, Threads
  <1>2. /\ \A p \in Queues : pc'[p] = pc[p] \/ WorkerMoves(p)
        /\ \A d \in Clients : pc'[d] = pc[d]
    BY <1>1, WorkqueueAssumption, Zenon DEF Threads
  <1> QED
    BY <1>1, <1>2, MoveStep, Zenon

(* What holds of the clients is kept by a step that touches none of their locals, takes
   nothing from them and at most wakes them. *)
LEMMA ClientsStay ==
    ASSUME IInv, UNCHANGED <<lock, handler, op, item, target>>,
           \A d \in Clients : pc'[d] = pc[d] \/ (pc[d] = "wait" /\ pc'[d] = "loop"),
           \A p \in Queues : running[p] => running'[p],
           \A p \in Queues : \A x : Queued(x, p)' => Queued(x, p)
    PROVE  Holding' /\ Cancellers' /\ Others' /\ DeinitAlone' /\ DeinitDequeued'
  <1>a. \A d \in Clients : /\ InCancel(d)' => InCancel(d)
                           /\ pc'[d] = "submit" <=> pc[d] = "submit"
                           /\ pc'[d] = "join" => pc[d] = "join"
                           /\ pc'[d] = "idle" => pc[d] = "idle"
                           /\ pc'[d] \in {"wait", "loop"} => pc[d] \in {"wait", "loop"}
    BY Zenon DEF InCancel
  <1>1. Holding'
    BY <1>a DEF IInv, Holding
  <1>2. Cancellers'
    <2>1. \A w \in Works : Targets[w] \subseteq Queues
      BY WorkqueueAssumption, Zenon
    <2> QED
      BY <1>a, <2>1, Zenon DEF IInv, Cancellers
  <1>3. Others'
    BY <1>a, Zenon DEF IInv, Others
  <1>4. DeinitAlone'
    BY <1>a, Zenon DEF IInv, DeinitAlone
  <1>5. DeinitDequeued'
    BY <1>a, Zenon DEF IInv, DeinitDequeued
  <1> QED
    BY <1>1, <1>2, <1>3, <1>4, <1>5, Zenon

(* The worker sleeps, exits or takes the head of the queue. *)
LEMMA LoopStep ==
    ASSUME IInv, SingleTarget, NEW q \in Queues, WorkerLoop(q)
    PROVE  IInv'
  <1>a. /\ pc[q] = "loop" /\ lock[q] = NULL
        /\ UNCHANGED <<lock, running, wq, pending, delayed, handler, op, item, target, cancelled>>
    BY Zenon DEF WorkerLoop, Free, clientVars
  <1>1. CASE WorkerWait(q)
    <2>1. /\ UNCHANGED <<lock, queue, running, workVars, workerVars, clientVars, cancelled>>
          /\ queue[q] = <<>> /\ running[q] /\ pc' = [pc EXCEPT ![q] = "wait"]
      BY <1>a, <1>1, Zenon DEF WorkerWait, workVars, clientVars
    <2> QED
      BY <1>a, <2>1, WorkerMoveStep, Zenon DEF WorkerMoves, WorkerStates
  <1>2. CASE WorkerExit(q)
    <2>1. /\ UNCHANGED <<lock, queue, running, workVars, workerVars, clientVars, cancelled>>
          /\ queue[q] = <<>> /\ ~running[q] /\ pc' = [pc EXCEPT ![q] = "exited"]
      BY <1>a, <1>2, Zenon DEF WorkerExit, workVars, clientVars
    <2> QED
      BY <1>a, <2>1, WorkerMoveStep, Zenon DEF WorkerMoves, WorkerStates
  <1>3. CASE WorkerDequeue(q)
    <2> DEFINE w == Head(queue[q])
               s == queue[q]
    <2>a. /\ s \in Seq(Works) /\ s # <<>> /\ NoRepeats(s)
          /\ queue' = [queue EXCEPT ![q] = Tail(s)]
          /\ in_progress' = [in_progress EXCEPT ![w] = TRUE]
          /\ cur' = [cur EXCEPT ![q] = w]
          /\ execute' = [execute EXCEPT ![q] = running[q]]
          /\ pc' = [pc EXCEPT ![q] = IF running[q] /\ delayed[w] THEN "delay" ELSE "recheck"]
      BY <1>3, Zenon DEF WorkerDequeue, IInv, TypeOK, SlotsDistinct, NoRepeats
    <2>b. /\ w \in Works /\ Tail(s) \in Seq(Works) /\ Len(Tail(s)) = Len(s) - 1 /\ Len(s) \in Nat
          /\ NoRepeats(Tail(s)) /\ Contains(s, w)
          /\ \A x : Contains(Tail(s), x) <=> Contains(s, x) /\ x # w
      BY <2>a, TailFacts
    <2>c. /\ Queued(w, q)
          /\ \A x, p : p \in Queues => (Queued(x, p)' <=> Queued(x, p) /\ ~(p = q /\ x = w))
      <3>1. queue'[q] = Tail(s) /\ \A p \in Queues : p # q => queue'[p] = queue[p]
        BY <2>a, Zenon DEF IInv, TypeOK
      <3>2. Queued(w, q)
        BY <2>b, Zenon DEF Queued, Contains
      <3> HIDE DEF w
      <3>3. \A x : Queued(x, q)' <=> Queued(x, q) /\ x # w
        BY ZenonT(60), <3>1, <2>b DEF Queued, Contains
      <3>4. \A x, p : p \in Queues /\ p # q => (Queued(x, p)' <=> Queued(x, p))
        BY <3>1, Zenon DEF Queued
      <3> QED
        BY <3>2, <3>3, <3>4, Zenon
    <2> HIDE DEF w, s
    <2>d. /\ cur[q] = NULL /\ wq[w] = q /\ pending[w] /\ handler[w]
          /\ pc'[q] \in {"delay", "recheck"}
          /\ \A p \in Queues : cur[p] # w
      <3>1. wq[w] = q
        BY <2>b, <2>c, Zenon DEF IInv, BackpointerExact, Referenced
      <3>2. \A p \in Queues : cur[p] # w
        BY <2>b, <2>c, <3>1 DEF IInv, BackpointerExact, Referenced, SlotsDistinct
      <3>3. cur[q] = NULL
        BY <1>a, Zenon DEF IInv, WorkerState
      <3>4. pending[w] /\ handler[w]
        BY <2>b, <2>c, Zenon DEF IInv, PendingState, ReleasedUnreferenced, Referenced
      <3>5. pc'[q] \in {"delay", "recheck"}
        BY <2>a, Zenon DEF IInv, TypeOK, Threads
      <3> QED
        BY <3>1, <3>2, <3>3, <3>4, <3>5, Zenon
    <2>e. \A p \in Queues : /\ queue'[p] \in Seq(Works) /\ Len(queue'[p]) <= Len(queue[p])
                            /\ NoRepeats(queue'[p])
      <3>1. queue'[q] = Tail(s) /\ s = queue[q] /\ \A p \in Queues \ {q} : queue'[p] = queue[p]
        BY <2>a, Zenon DEF IInv, TypeOK, s
      <3>2. \A p \in Queues : /\ queue[p] \in Seq(Works) /\ Len(queue[p]) <= Len(queue[p])
                              /\ NoRepeats(queue[p])
        BY DEF IInv, TypeOK, SlotsDistinct, NoRepeats
      <3>3. Len(Tail(s)) <= Len(s)
        BY <2>b
      <3> QED
        BY <2>b, <3>1, <3>2, <3>3, Zenon
    <2>f. /\ \A p \in Queues \ {q} : pc'[p] = pc[p] /\ cur'[p] = cur[p] /\ queue'[p] = queue[p]
          /\ cur'[q] = w /\ in_progress'[w]
          /\ \A x \in Works \ {w} : in_progress'[x] = in_progress[x]
          /\ \A d \in Clients : pc'[d] = pc[d]
      <3>1. /\ pc \in [Threads -> WorkerStates \cup ClientStates] /\ DOMAIN queue = Queues
            /\ cur \in [Queues -> Works \cup {NULL}] /\ in_progress \in [Works -> BOOLEAN]
            /\ \A d \in Clients : d \in Threads /\ d # q
            /\ \A p \in Queues : p \in Threads
        BY WorkqueueAssumption DEF IInv, TypeOK, Threads
      <3>2. /\ \A p \in Queues \ {q} : pc'[p] = pc[p] /\ cur'[p] = cur[p]
            /\ cur'[q] = w /\ in_progress'[w]
        BY <2>a, <2>b, <3>1, Zenon
      <3>3. /\ \A p \in Queues \ {q} : queue'[p] = queue[p]
            /\ \A x \in Works \ {w} : in_progress'[x] = in_progress[x]
            /\ \A d \in Clients : pc'[d] = pc[d]
        BY <2>a, <3>1, Zenon
      <3> QED
        BY <3>2, <3>3, Zenon
    <2>g. /\ \A d \in Clients : InCancel(d) \/ pc[d] = "submit" =>
                item[d] \in Works /\ target[d] \in Queues
          /\ \A p \in Queues : cur[p] \in Works \cup {NULL}
      BY WorkqueueAssumption DEF IInv, TypeOK, Cancellers, Submitting
    <2>h. \A p \in Queues : /\ Len(queue[p]) <= MaxPending => Len(queue'[p]) <= MaxPending
                            /\ Len(queue[p]) < MaxPending => Len(queue'[p]) < MaxPending
      <3>1. \A p \in Queues : Len(queue[p]) \in Nat /\ Len(queue'[p]) \in Nat
        BY <2>e DEF IInv, TypeOK
      <3> QED
        BY <2>e, <3>1, WorkqueueAssumption
    <2>1. TypeOK'
      <3>1. /\ pc' \in [Threads -> WorkerStates \cup ClientStates]
            /\ in_progress' \in [Works -> BOOLEAN] /\ execute' \in [Queues -> BOOLEAN]
            /\ cur' \in [Queues -> Works \cup {NULL}]
        BY <2>a, <2>b, Zenon DEF IInv, TypeOK, WorkerStates
      <3>2. queue' \in [Queues -> Seq(Works)]
        BY <2>a, <2>b, Zenon DEF IInv, TypeOK
      <3>3. /\ \A p \in Queues : pc'[p] \in WorkerStates
            /\ \A d \in Clients : pc'[d] \in ClientStates
        BY <2>d, <2>f, Zenon DEF IInv, TypeOK, WorkerStates
      <3> QED
        BY <1>a, <2>h, <3>1, <3>2, <3>3, Zenon DEF IInv, TypeOK
    <2>2. Holding' /\ Cancellers' /\ Others' /\ DeinitAlone' /\ DeinitDequeued'
      BY <1>a, <2>c, <2>f, ClientsStay, Zenon
    <2>3. Submitting'
      <3>1. \A d \in Clients : pc[d] = "submit" => item[d] \in Works \ {w}
        BY <2>d, <2>g, WorkqueueAssumption DEF IInv, Submitting
      <3> QED
        BY <1>a, <2>f, <2>g, <2>h, <3>1 DEF IInv, Submitting
    <2>4. WorkerState' /\ HomeQueue'
      <3>1. running' = running /\ wq' = wq /\ cur'[q] # NULL
        BY <1>a, <2>b, <2>f, WorkqueueAssumption, Zenon
      <3>2. /\ pc'[q] \in {"delay", "recheck"}
            /\ \A p \in Queues \ {q} : pc'[p] = pc[p] /\ cur'[p] = cur[p] /\ queue'[p] = queue[p]
        BY <2>d, <2>f, Zenon
      <3>3. WorkerState'
        BY <3>1, <3>2, Zenon DEF IInv, WorkerState
      <3> QED
        BY <3>1, <3>3, Zenon DEF IInv, HomeQueue
    <2>5. InProgress'
      <3>1. \A x \in Works : in_progress'[x] => \E p \in Queues : cur'[p] = x
        <4>1. \A x \in Works \ {w} : \A p \in Queues : cur[p] = x => cur'[p] = x
          BY <2>d, <2>f, WorkqueueAssumption
        <4> QED
          BY <2>f, <4>1 DEF IInv, InProgress
      <3>2. \A p \in Queues : cur'[p] # NULL => in_progress'[cur'[p]]
        BY <2>d, <2>f, <2>g DEF IInv, InProgress
      <3> QED
        BY <3>1, <3>2, Zenon DEF InProgress
    <2>6. SlotsDistinct'
      <3>1. \A p \in Queues : \A x \in Works : Queued(x, p)' => cur'[p] # x
        BY <2>c, <2>f DEF IInv, SlotsDistinct
      <3> QED
        BY <2>e, <3>1, Zenon DEF SlotsDistinct, NoRepeats
    <2>7. PendingState'
      BY <1>a, <2>c, <2>d, <2>f, ZenonT(60) DEF IInv, PendingState
    <2>8. BackpointerExact' /\ ReleasedUnreferenced'
      <3>1. \A x \in Works : \A p \in Queues : Referenced(x, p)' <=> Referenced(x, p)
        <4>1. /\ cur[q] \notin Works /\ cur'[q] = w
              /\ \A p \in Queues \ {q} : cur'[p] = cur[p]
          BY <2>d, <2>f, WorkqueueAssumption, Zenon
        <4> QED
          BY <2>c, <4>1 DEF Referenced
      <3> QED
        BY <1>a, <3>1, Zenon DEF IInv, BackpointerExact, ReleasedUnreferenced
    <2>9. WorkerSleepsIdle' /\ CancelledNeverRuns'
      BY <1>a, <2>d, <2>f DEF IInv, WorkerSleepsIdle, CancelledNeverRuns
    <2>10. CancellerWillBeWoken'
      <3>1. \A d \in Clients : pc[d] = "wait" => target[d] \in Queues \ {q}
        BY <2>d, <2>g, WorkqueueAssumption, Zenon DEF IInv, CancellerWillBeWoken, InCancel
      <3> QED
        BY <1>a, <2>f, <3>1, Zenon DEF IInv, CancellerWillBeWoken
    <2> QED
      BY <2>1, <2>2, <2>3, <2>4, <2>5, <2>6, <2>7, <2>8, <2>9, <2>10, Zenon DEF IInv
  <1> QED
    BY <1>1, <1>2, <1>3, Zenon DEF WorkerLoop

(* The worker wakes from the delay of an item. *)
LEMMA SleptStep ==
    ASSUME IInv, SingleTarget, NEW q \in Queues, WorkerSlept(q)
    PROVE  IInv'
  <1>1. /\ UNCHANGED <<lock, queue, running, workVars, workerVars, clientVars, cancelled>>
        /\ pc[q] = "delay" /\ pc' = [pc EXCEPT ![q] = "recheck"]
    BY Zenon DEF WorkerSlept
  <1> QED
    BY <1>1, WorkerMoveStep, Zenon DEF WorkerMoves, WorkerStates

(* A handler returns. *)
LEMMA HandlerStep ==
    ASSUME IInv, SingleTarget, NEW q \in Queues, WorkerHandlerReturns(q)
    PROVE  IInv'
  <1>1. /\ UNCHANGED <<lock, queue, running, workVars, workerVars, clientVars, cancelled>>
        /\ pc[q] = "handler" /\ pc' = [pc EXCEPT ![q] = "finish"]
    BY Zenon DEF WorkerHandlerReturns
  <1> QED
    BY <1>1, WorkerMoveStep, Zenon DEF WorkerMoves, WorkerStates

(* The worker reads and clears pending. *)
LEMMA RecheckStep ==
    ASSUME IInv, SingleTarget, NEW q \in Queues, WorkerRecheck(q)
    PROVE  IInv'
  <1>u. UNCHANGED <<lock, queue, running, wq, in_progress, delayed, handler, cur, execute, op,
                    item, target, cancelled>>
    BY Zenon DEF WorkerRecheck, workerVars, clientVars
  <1>a. \A x, p : Queued(x, p)' <=> Queued(x, p)
    BY <1>u, Zenon DEF Queued
  <1>b. /\ pc[q] = "recheck" /\ cur[q] \in Works
        /\ pc'[q] \in {"handler", "finish"} /\ (pc'[q] = "handler" => pending[cur[q]])
        /\ \A p \in Queues \ {q} : pc'[p] = pc[p]
        /\ \A d \in Clients : pc'[d] = pc[d]
    <2>1. pc[q] = "recheck" /\ cur[q] \in Works \cup {NULL} /\ (pc[q] = "recheck" => cur[q] # NULL)
      BY Zenon DEF WorkerRecheck, IInv, TypeOK, WorkerState
    <2>2. pc \in [Threads -> WorkerStates \cup ClientStates] /\ q \notin Clients
      BY WorkqueueAssumption, Zenon DEF IInv, TypeOK
    <2>3. pc' = [pc EXCEPT ![q] = IF execute[q] /\ pending[cur[q]] /\ handler[cur[q]]
                                  THEN "handler" ELSE "finish"]
      BY Zenon DEF WorkerRecheck
    <2> QED
      BY <2>1, <2>2, <2>3, Zenon DEF Threads
  <1>c. ~pending'[cur[q]] /\ \A w \in Works \ {cur[q]} : pending'[w] = pending[w]
    BY <1>b, Zenon DEF WorkerRecheck, IInv, TypeOK
  <1>1. TypeOK'
    BY <1>b, WorkqueueAssumption, Zenon DEF IInv, TypeOK, Threads, WorkerStates, ClientStates,
       WorkerRecheck, workerVars, clientVars
  <1>2. Holding' /\ Cancellers' /\ Others' /\ DeinitAlone' /\ DeinitDequeued'
    BY <1>a, <1>b, <1>u, ClientsStay, Zenon
  <1>3. Submitting'
    <2>1. \A w \in Works : ~pending[w] => ~pending'[w]
      BY <1>c, Zenon
    <2> QED
      BY <1>b, <1>u, <2>1, ZenonT(60) DEF IInv, Submitting
  <1>4. WorkerState'
    BY <1>b, <1>u, Zenon DEF IInv, WorkerState
  <1>5. InProgress' /\ HomeQueue' /\ SlotsDistinct'
    BY <1>a, <1>u, Zenon DEF IInv, InProgress, HomeQueue, SlotsDistinct
  <1>6. PendingState'
    <2>1. \A w \in Works : pending'[w] => pending[w]
      BY <1>b, <1>c, Zenon
    <2>2. \A w \in Works : \A p \in Queues : Queued(w, p) => w # cur[q]
      BY <1>b DEF IInv, SlotsDistinct, BackpointerExact, Referenced
    <2>3. \A p \in Queues : cur[p] \in Works \cup {NULL}
      BY Zenon DEF IInv, TypeOK
    <2>4. \A p \in Queues \ {q} : pc[p] \in {"handler", "finish"} => cur[p] \in Works
      BY <2>3, Zenon DEF IInv, WorkerState
    <2>5. cancelled \subseteq Works
      BY Zenon DEF IInv, TypeOK
    <2> QED
      BY <1>a, <1>b, <1>c, <1>u, <2>1, <2>2, <2>4, <2>5, Zenon DEF IInv, PendingState
  <1>7. BackpointerExact' /\ ReleasedUnreferenced'
    BY <1>a, <1>u, Zenon DEF IInv, BackpointerExact, ReleasedUnreferenced, Referenced
  <1>8. WorkerSleepsIdle' /\ CancellerWillBeWoken'
    BY <1>b, <1>u, Zenon DEF IInv, WorkerSleepsIdle, CancellerWillBeWoken
  <1>9. CancelledNeverRuns'
    BY <1>b, <1>u, Zenon DEF IInv, CancelledNeverRuns, PendingState
  <1> QED
    BY <1>1, <1>2, <1>3, <1>4, <1>5, <1>6, <1>7, <1>8, <1>9, Zenon DEF IInv

(* The worker lets go of an item and wakes every sleeper. *)
LEMMA FinishStep ==
    ASSUME IInv, SingleTarget, NEW q \in Queues, WorkerFinish(q)
    PROVE  IInv'
  <1>u. UNCHANGED <<lock, queue, running, pending, delayed, handler, execute, op, item, target,
                    cancelled>>
    BY Zenon DEF WorkerFinish, clientVars
  <1>a. \A x, p : Queued(x, p)' <=> Queued(x, p)
    BY <1>u, Zenon DEF Queued
  <1>b. /\ pc[q] = "finish" /\ cur[q] \in Works /\ cur'[q] = NULL
        /\ \A p \in Queues \ {q} : cur'[p] = cur[p]
    BY WorkqueueAssumption, Zenon DEF WorkerFinish, IInv, TypeOK, WorkerState
  <1>c. /\ ~in_progress'[cur[q]] /\ wq'[cur[q]] = NULL
        /\ \A w \in Works \ {cur[q]} : in_progress'[w] = in_progress[w] /\ wq'[w] = wq[w]
    BY <1>b, ZenonT(60) DEF WorkerFinish, IInv, TypeOK
  <1>d. /\ pc'[q] = "loop" /\ \A p \in Queues \ {q} : pc'[p] = pc[p]
        /\ \A d \in Clients : \/ pc'[d] = pc[d] /\ (pc[d] = "wait" => target[d] # q)
                              \/ pc[d] = "wait" /\ pc'[d] = "loop"
    <2>1. /\ pc \in [Threads -> WorkerStates \cup ClientStates]
          /\ q \in Threads /\ q \notin Clients /\ pc[q] # "wait"
          /\ \A p \in Queues : p \in Threads /\ p \notin Clients
          /\ \A d \in Clients : d \in Threads /\ d # q
      BY <1>b, WorkqueueAssumption DEF IInv, TypeOK, Threads
    <2>2. pc' = [t \in Threads |-> IF t \in Sleepers(q) THEN "loop" ELSE [pc EXCEPT ![q] = "loop"][t]]
      BY Zenon DEF WorkerFinish, Broadcast
    <2>3. \A t \in Threads : pc'[t] = IF t \in Sleepers(q) \/ t = q THEN "loop" ELSE pc[t]
      BY <2>1, <2>2, Zenon
    <2>4. \A p \in Queues \ {q} : p \notin Sleepers(q)
      BY <2>1, Zenon DEF Sleepers
    <2>5. \A d \in Clients : d \in Sleepers(q) <=> pc[d] = "wait" /\ target[d] = q
      BY <2>1, Zenon DEF Sleepers
    <2> QED
      BY <2>1, <2>3, <2>4, <2>5, Zenon
  <1>e. /\ \A p \in Queues \ {q} : cur[p] # cur[q]
        /\ \A p \in Queues : ~Queued(cur[q], p)
    <2>1. \A p \in Queues : wq[cur[q]] = p <=> Referenced(cur[q], p)
      BY <1>b, Zenon DEF IInv, BackpointerExact
    <2>2. wq[cur[q]] = q
      BY <2>1, Zenon DEF Referenced
    <2>3. ~Queued(cur[q], q)
      BY <1>b, Zenon DEF IInv, SlotsDistinct
    <2> QED
      BY <2>1, <2>2, <2>3, Zenon DEF Referenced
  <1>1. TypeOK'
    BY <1>b, WorkqueueAssumption, Zenon DEF IInv, TypeOK, Threads, WorkerStates, ClientStates,
       WorkerFinish, Broadcast, Sleepers, clientVars
  <1>2. Holding' /\ Cancellers' /\ Others' /\ DeinitAlone' /\ DeinitDequeued'
    BY <1>a, <1>d, <1>u, ClientsStay, Zenon
  <1>3. Submitting'
    <2>1. \A w \in Works : /\ ~in_progress[w] => ~in_progress'[w]
                           /\ wq[w] = NULL => wq'[w] = NULL
      BY <1>c, Zenon
    <2>2. \A d \in Clients : pc'[d] = "submit" => pc[d] = "submit"
      BY <1>d, Zenon
    <2> QED
      BY <1>u, <2>1, <2>2, Zenon DEF IInv, Submitting
  <1>4. WorkerState'
    BY <1>b, <1>d, <1>u, Zenon DEF IInv, WorkerState
  <1>5. InProgress'
    <2>1. \A w \in Works : in_progress'[w] => w # cur[q] /\ in_progress[w]
      BY <1>c, Zenon
    <2>2. \A p \in Queues : cur'[p] # NULL => p # q /\ cur'[p] = cur[p] /\ cur[p] \in Works \ {cur[q]}
      BY <1>b, <1>e, Zenon DEF IInv, TypeOK
    <2> QED
      BY <1>b, <1>c, <2>1, <2>2 DEF IInv, InProgress
  <1>6. HomeQueue' /\ SlotsDistinct'
    <2>1. HomeQueue'
      BY <1>c, Zenon DEF IInv, HomeQueue
    <2>2. \A p \in Queues : \A w \in Works : Queued(w, p)' => cur'[p] # w
      BY <1>a, <1>b, WorkqueueAssumption, Zenon DEF IInv, SlotsDistinct
    <2> QED
      BY <1>u, <2>1, <2>2, Zenon DEF IInv, SlotsDistinct
  <1>7. PendingState'
    <2>1. ~pending[cur[q]]
      BY <1>b, Zenon DEF IInv, PendingState
    <2>2. \A p \in Queues : pc'[p] \in {"handler", "finish"} => pc[p] = pc'[p] /\ cur'[p] = cur[p]
      BY <1>b, <1>d, Zenon
    <2>3. \A w \in Works : pending[w] => w # cur[q]
      BY <2>1, Zenon
    <2> QED
      BY <1>a, <1>c, <1>u, <2>2, <2>3, ZenonT(60) DEF IInv, PendingState
  <1>8. BackpointerExact' /\ ReleasedUnreferenced'
    <2>1. \A w \in Works \ {cur[q]} : \A p \in Queues : Referenced(w, p)' <=> Referenced(w, p)
      BY <1>a, <1>b, WorkqueueAssumption, Zenon DEF Referenced
    <2>2. \A w \in Works : w = cur[q] => \A p \in Queues : ~Referenced(w, p)' /\ wq'[w] # p
      BY <1>a, <1>b, <1>c, <1>e, WorkqueueAssumption DEF Referenced
    <2>3. BackpointerExact'
      BY <1>c, <2>1, <2>2 DEF IInv, BackpointerExact
    <2>4. ReleasedUnreferenced'
      BY <1>u, <2>1, <2>2, Zenon DEF IInv, ReleasedUnreferenced
    <2> QED
      BY <2>3, <2>4, Zenon
  <1>9. WorkerSleepsIdle'
    BY <1>d, <1>u, Zenon DEF IInv, WorkerSleepsIdle
  <1>10. CancellerWillBeWoken'
    <2>1. \A d \in Clients : InCancel(d) => target[d] \in Queues
      BY WorkqueueAssumption, Zenon DEF IInv, Cancellers
    <2>2. \A d \in Clients : pc'[d] = "wait" => pc[d] = "wait" /\ target[d] \in Queues \ {q}
      BY <1>d, <2>1, Zenon DEF InCancel
    <2> QED
      BY <1>b, <1>u, <2>2, Zenon DEF IInv, CancellerWillBeWoken
  <1>11. CancelledNeverRuns'
    BY <1>b, <1>d, <1>u, Zenon DEF IInv, CancelledNeverRuns
  <1> QED
    BY <1>1, <1>2, <1>3, <1>4, <1>5, <1>6, <1>7, <1>8, <1>9, <1>10, <1>11, Zenon DEF IInv

(* The worker of a queue has been joined. *)
LEMMA JoinedStep ==
    ASSUME IInv, SingleTarget, NEW c \in Clients, Joined(c)
    PROVE  IInv'
  <1>u. UNCHANGED <<lock, queue, running, wq, pending, in_progress, delayed, handler, cur,
                    execute, op, item, cancelled>>
    BY Zenon DEF Joined, workVars, workerVars
  <1>a. \A x, p : Queued(x, p)' <=> Queued(x, p)
    BY <1>u, Zenon DEF Queued
  <1>b. /\ pc[c] = "join" /\ target[c] \in Queues /\ pc[target[c]] = "exited"
        /\ pc' = [pc EXCEPT ![c] = "idle", ![target[c]] = "none"]
        /\ target' = [target EXCEPT ![c] = NULL]
    BY Zenon DEF Joined, IInv, Others
  <1>c. /\ pc[c] = "join" /\ pc'[c] = "idle" /\ pc'[target[c]] = "none" /\ item[c] = NULL
        /\ \A p \in Queues : p # target[c] => pc'[p] = pc[p]
        /\ \A d \in Clients \ {c} : pc'[d] = pc[d] /\ target'[d] = target[d]
    <2>1. /\ pc \in [Threads -> WorkerStates \cup ClientStates]
          /\ target \in [Clients -> Queues \cup {NULL}] /\ item[c] = NULL
          /\ \A d \in Clients : d \in Threads /\ d # target[c]
          /\ \A p \in Queues : p \in Threads /\ p # c
      BY <1>b, WorkqueueAssumption DEF IInv, TypeOK, Threads, Others
    <2> QED
      BY <1>b, <2>1
  <1>d. \A d \in Clients : InCancel(d)' => InCancel(d) /\ d # c
    BY <1>c, Zenon DEF InCancel
  <1>1. TypeOK'
    <2>1. /\ pc' \in [Threads -> WorkerStates \cup ClientStates]
          /\ target' \in [Clients -> Queues \cup {NULL}]
      BY <1>b, Zenon DEF IInv, TypeOK, WorkerStates, ClientStates
    <2>2. /\ \A p \in Queues : pc'[p] \in WorkerStates
          /\ \A d \in Clients : pc'[d] \in ClientStates
      BY <1>c, ZenonT(60) DEF IInv, TypeOK, WorkerStates, ClientStates
    <2> QED
      BY <1>u, <2>1, <2>2, Zenon DEF IInv, TypeOK
  <1>2. Holding' /\ Submitting' /\ Others'
    <2>1. Holding'
      BY <1>c, <1>u DEF IInv, Holding
    <2>2. Submitting' /\ Others'
      BY <1>c, <1>u DEF IInv, Submitting, Others
    <2> QED
      BY <2>1, <2>2, Zenon
  <1>3. Cancellers' /\ DeinitAlone'
    BY <1>c, <1>d, <1>u, Zenon DEF IInv, Cancellers, DeinitAlone
  <1>4. DeinitDequeued'
    BY <1>a, <1>c, <1>u, Zenon DEF IInv, DeinitDequeued
  <1>5. WorkerState'
    BY <1>b, <1>c, <1>u, ZenonT(60) DEF IInv, WorkerState
  <1>6. InProgress' /\ HomeQueue' /\ SlotsDistinct'
    BY <1>a, <1>u, Zenon DEF IInv, InProgress, HomeQueue, SlotsDistinct
  <1>7. PendingState'
    BY <1>a, <1>c, <1>u, Zenon DEF IInv, PendingState
  <1>8. BackpointerExact' /\ ReleasedUnreferenced'
    BY <1>a, <1>u, Zenon DEF IInv, BackpointerExact, ReleasedUnreferenced, Referenced
  <1>9. WorkerSleepsIdle' /\ CancellerWillBeWoken' /\ CancelledNeverRuns'
    BY <1>c, <1>u, Zenon DEF IInv, WorkerSleepsIdle, CancellerWillBeWoken, CancelledNeverRuns
  <1> QED
    BY <1>1, <1>2, <1>3, <1>4, <1>5, <1>6, <1>7, <1>8, <1>9, Zenon DEF IInv

(* A queue is initialised. *)
LEMMA QueueInitStep ==
    ASSUME IInv, SingleTarget, NEW c \in Clients, NEW q \in Queues, ove_workqueue_init(c, q)
    PROVE  IInv'
  <1>b. queue' = queue
    BY Zenon DEF ove_workqueue_init, IInv, TypeOK, WorkerState
  <1>u. UNCHANGED <<lock, wq, pending, in_progress, delayed, handler, cur, execute, op, item,
                    target, cancelled>>
    BY Zenon DEF ove_workqueue_init, workVars, workerVars, clientVars
  <1>a. \A x, p : Queued(x, p)' <=> Queued(x, p)
    BY <1>b, Zenon DEF Queued
  <1>c. /\ pc[q] = "none" /\ pc'[q] = "loop" /\ running'[q]
        /\ \A p \in Queues \ {q} : pc'[p] = pc[p] /\ running'[p] = running[p]
        /\ \A d \in Clients : pc'[d] = pc[d]
    <2>1. /\ pc \in [Threads -> WorkerStates \cup ClientStates]
          /\ running \in [Queues -> BOOLEAN]
          /\ \A d \in Clients : d \in Threads /\ d # q
          /\ \A p \in Queues : p \in Threads
      BY WorkqueueAssumption DEF IInv, TypeOK, Threads
    <2> QED
      BY <2>1, Zenon DEF ove_workqueue_init
  <1>1. TypeOK'
    BY <1>b, <1>u, WorkqueueAssumption, ZenonT(60) DEF IInv, TypeOK, Threads, WorkerStates,
       ClientStates, ove_workqueue_init
  <1>2. Holding' /\ Cancellers' /\ Others' /\ DeinitAlone' /\ DeinitDequeued'
    BY <1>a, <1>c, <1>u, ClientsStay, Zenon
  <1>3. Submitting'
    <2>1. \A w \in Works : Targets[w] \subseteq Queues
      BY WorkqueueAssumption, Zenon
    <2> QED
      BY <1>b, <1>c, <1>u, <2>1 DEF IInv, Submitting
  <1>4. WorkerState' /\ WorkerSleepsIdle'
    BY <1>b, <1>c, <1>u, Zenon DEF IInv, WorkerState, WorkerSleepsIdle
  <1>5. InProgress' /\ HomeQueue' /\ SlotsDistinct'
    BY <1>a, <1>b, <1>u, Zenon DEF IInv, InProgress, HomeQueue, SlotsDistinct
  <1>6. PendingState'
    BY <1>a, <1>c, <1>u, Zenon DEF IInv, PendingState
  <1>7. BackpointerExact' /\ ReleasedUnreferenced'
    BY <1>a, <1>u, Zenon DEF IInv, BackpointerExact, ReleasedUnreferenced, Referenced
  <1>8. CancellerWillBeWoken' /\ CancelledNeverRuns'
    BY <1>c, <1>u, Zenon DEF IInv, CancellerWillBeWoken, CancelledNeverRuns
  <1> QED
    BY <1>1, <1>2, <1>3, <1>4, <1>5, <1>6, <1>7, <1>8, Zenon DEF IInv

(* A queue is told to stop; only its worker can be asleep on it. *)
LEMMA QueueDeinitStep ==
    ASSUME IInv, SingleTarget, NEW c \in Clients, NEW q \in Queues, ove_workqueue_deinit(c, q)
    PROVE  IInv'
  <1>a. \A x, p : Queued(x, p)' <=> Queued(x, p)
    BY Zenon DEF Queued, ove_workqueue_deinit
  <1>b. /\ pc[c] = "idle" /\ pc[q] # "none" /\ running[q] /\ lock[q] = NULL
        /\ \A d \in Clients : pc[d] \in {"cancel", "wait", "loop"} => target[d] # q
        /\ running' = [running EXCEPT ![q] = FALSE]
        /\ target' = [target EXCEPT ![c] = q]
    BY Zenon DEF ove_workqueue_deinit, Free, Cancelling
  <1>u. UNCHANGED <<lock, queue, wq, pending, in_progress, delayed, handler, cur, execute, op,
                    item, cancelled>>
    BY Zenon DEF ove_workqueue_deinit, workVars, workerVars
  <1>c. \/ pc[q] # "wait" /\ pc' = [pc EXCEPT ![c] = "join"]
        \/ pc[q] = "wait" /\ pc' = [pc EXCEPT ![c] = "join", ![q] = "loop"]
    BY <1>b, WorkqueueAssumption, Zenon DEF ove_workqueue_deinit, Signal, Sleepers, Threads,
       IInv, TypeOK
  <1>d. /\ pc \in [Threads -> WorkerStates \cup ClientStates]
        /\ target \in [Clients -> Queues \cup {NULL}] /\ running \in [Queues -> BOOLEAN]
        /\ c \notin Queues /\ q \notin Clients
    BY WorkqueueAssumption, Zenon DEF IInv, TypeOK
  <1>e. /\ pc' \in [Threads -> WorkerStates \cup ClientStates] /\ pc'[c] = "join"
        /\ (pc'[q] = pc[q] /\ pc[q] # "wait") \/ (pc[q] = "wait" /\ pc'[q] = "loop")
        /\ \A t \in Threads \ {c, q} : pc'[t] = pc[t]
    BY <1>c, <1>d, Zenon DEF Threads, WorkerStates, ClientStates
  <1>f. /\ \A d \in Clients \ {c} : pc'[d] = pc[d] /\ target'[d] = target[d]
        /\ \A p \in Queues \ {q} : pc'[p] = pc[p] /\ running'[p] = running[p]
        /\ ~running'[q] /\ target'[c] = q
    BY <1>b, <1>d, <1>e, Zenon DEF Threads
  <1>g. \A d \in Clients : pc[d] = "submit" \/ InCancel(d) => target[d] \in Queues \ {q} /\ d # c
    <2>1. \A d \in Clients : pc[d] = "submit" \/ InCancel(d) => target[d] \in Queues /\ d # c
      BY <1>b, WorkqueueAssumption, Zenon DEF IInv, Submitting, Cancellers, InCancel
    <2>2. \A d \in Clients : pc[d] = "submit" => target[d] # q
      BY <1>b, WorkqueueAssumption DEF IInv, Holding
    <2> QED
      BY <1>b, <2>1, <2>2, Zenon DEF InCancel
  <1>h. \A p \in Queues : pc'[p] # "loop" => pc'[p] = pc[p]
    BY <1>e, <1>f, Zenon
  <1>1. TypeOK'
    <2>1. \A p \in Queues : pc[p] \in WorkerStates => pc'[p] \in WorkerStates
      BY <1>h, Zenon DEF WorkerStates
    <2>2. \A d \in Clients : pc[d] \in ClientStates => pc'[d] \in ClientStates
      BY <1>e, <1>f, Zenon DEF ClientStates
    <2>3. running' \in [Queues -> BOOLEAN] /\ target' \in [Clients -> Queues \cup {NULL}]
      BY <1>b, <1>d, Zenon
    <2> QED
      BY <1>u, <1>e, <2>1, <2>2, <2>3, Zenon DEF IInv, TypeOK
  <1>2. Holding' /\ Others'
    <2>1. /\ pc[c] = "idle" /\ pc'[c] = "join" /\ target'[c] \in Queues
          /\ \A d \in Clients \ {c} : pc'[d] = pc[d] /\ target'[d] = target[d]
          /\ lock' = lock /\ item' = item
      BY <1>b, <1>e, <1>f, <1>u, Zenon
    <2>2. Holding'
      BY <2>1 DEF IInv, Holding
    <2>3. Others'
      BY <2>1, Zenon DEF IInv, Others
    <2> QED
      BY <2>2, <2>3, Zenon
  <1>3. Submitting'
    <2>1. \A d \in Clients : pc'[d] = "submit" =>
              /\ pc[d] = "submit" /\ target'[d] = target[d] /\ running'[target[d]] = running[target[d]]
      BY <1>e, <1>f, <1>g, Zenon
    <2> QED
      BY <1>u, <2>1, Zenon DEF IInv, Submitting
  <1>4. Cancellers'
    BY <1>e, <1>f, <1>g, <1>u, Zenon DEF IInv, Cancellers, InCancel
  <1>5. DeinitAlone'
    BY <1>e, <1>f, <1>u, Zenon DEF IInv, DeinitAlone, InCancel
  <1>6. DeinitDequeued'
    BY <1>a, <1>e, <1>f, <1>u, Zenon DEF IInv, DeinitDequeued
  <1>7. ReleasedUnreferenced' /\ BackpointerExact'
    BY <1>a, <1>u, Zenon DEF IInv, ReleasedUnreferenced, Referenced, BackpointerExact
  <1>8. WorkerState' /\ WorkerSleepsIdle'
    <2>1. /\ (pc'[q] = pc[q] /\ pc[q] # "wait") \/ (pc[q] = "wait" /\ pc'[q] = "loop")
          /\ \A p \in Queues \ {q} : pc'[p] = pc[p] /\ running'[p] = running[p]
          /\ running[q] /\ ~running'[q] /\ queue' = queue /\ cur' = cur
      BY <1>b, <1>e, <1>f, <1>u, Zenon
    <2>2. WorkerState'
      BY <2>1, Zenon DEF IInv, WorkerState
    <2>3. WorkerSleepsIdle'
      BY <2>1, Zenon DEF IInv, WorkerSleepsIdle
    <2> QED
      BY <2>2, <2>3, Zenon
  <1>9. InProgress' /\ HomeQueue'
    BY <1>u, Zenon DEF IInv, InProgress, HomeQueue
  <1>10. SlotsDistinct' /\ PendingState'
    BY <1>a, <1>h, <1>u, Zenon DEF IInv, SlotsDistinct, PendingState
  <1>11. CancelledNeverRuns'
    BY <1>h, <1>u, Zenon DEF IInv, CancelledNeverRuns
  <1>12. CancellerWillBeWoken'
    BY <1>e, <1>f, <1>u, Zenon DEF IInv, CancellerWillBeWoken
  <1> QED
    BY <1>1, <1>2, <1>3, <1>4, <1>5, <1>6, <1>7, <1>8, <1>9, <1>10, <1>11, <1>12, Zenon DEF IInv

(* A thread leaves pthread_cond_wait without a signal. *)
LEMMA SpuriousStep ==
    ASSUME IInv, SingleTarget, NEW t \in Threads, SpuriousWakeup(t)
    PROVE  IInv'
  <1>1. /\ UNCHANGED <<lock, queue, running, workVars, workerVars, clientVars, cancelled>>
        /\ pc[t] = "wait" /\ pc' = [pc EXCEPT ![t] = "loop"]
    BY Zenon DEF SpuriousWakeup
  <1>2. /\ pc' \in [Threads -> WorkerStates \cup ClientStates]
        /\ \A u \in Threads : pc'[u] = pc[u] \/ (pc[u] = "wait" /\ pc'[u] = "loop")
    BY <1>1, Zenon DEF IInv, TypeOK, WorkerStates
  <1> QED
    BY <1>1, <1>2, MoveStep, Zenon DEF Threads, WorkerMoves, CancellerMoves

(* A step that changes nothing preserves the invariant. *)
LEMMA StutterStep ==
    ASSUME IInv, UNCHANGED vars
    PROVE  IInv'
  <1>1. /\ UNCHANGED <<lock, queue, running, workVars, workerVars, clientVars, cancelled>>
        /\ pc' = pc
    BY Zenon DEF vars, workVars, workerVars, clientVars
  <1> QED
    BY <1>1, MoveStep, Zenon DEF IInv, TypeOK

(* Appending a new element, as ove_work_submit does, adds it and repeats none. *)
LEMMA AppendFacts ==
    ASSUME NEW S, NEW s \in Seq(S), NEW e \in S, NoRepeats(s), ~Contains(s, e)
    PROVE  /\ Append(s, e) \in Seq(S)
           /\ NoRepeats(Append(s, e))
           /\ \A x : Contains(Append(s, e), x) <=> Contains(s, x) \/ x = e
  <1>1. /\ Append(s, e) \in Seq(S)
        /\ Len(Append(s, e)) = Len(s) + 1
        /\ \A i \in 1..Len(s) : Append(s, e)[i] = s[i]
        /\ Append(s, e)[Len(s) + 1] = e
    OBVIOUS
  <1>2. NoRepeats(Append(s, e))
    BY <1>1 DEF NoRepeats, Contains
  <1>3. \A x : Contains(Append(s, e), x) <=> Contains(s, x) \/ x = e
    BY <1>1 DEF Contains
  <1> QED BY <1>1, <1>2, <1>3, Zenon

(* What appending an item to one queue does to all of them: ove_work_submit adds it there
   and nowhere else. *)
LEMMA SubmittedQueue ==
    ASSUME NEW q \in Queues, NEW w \in Works, queue \in [Queues -> Seq(Works)],
           \A p \in Queues : Len(queue[p]) <= MaxPending /\ NoRepeats(queue[p]),
           Len(queue[q]) < MaxPending, ~Contains(queue[q], w),
           queue' = [queue EXCEPT ![q] = Append(queue[q], w)]
    PROVE  /\ \A x, p : p \in Queues => (Queued(x, p)' <=> Queued(x, p) \/ (p = q /\ x = w))
           /\ \A p \in Queues : /\ queue'[p] \in Seq(Works) /\ Len(queue'[p]) <= MaxPending
                               /\ NoRepeats(queue'[p]) /\ (p # q => queue'[p] = queue[p])
  <1>a. /\ Append(queue[q], w) \in Seq(Works) /\ NoRepeats(Append(queue[q], w))
        /\ Len(Append(queue[q], w)) = Len(queue[q]) + 1 /\ Len(queue[q]) \in Nat
        /\ \A x : Contains(Append(queue[q], w), x) <=> Contains(queue[q], x) \/ x = w
    BY AppendFacts
  <1>b. queue'[q] = Append(queue[q], w) /\ \A p \in Queues \ {q} : queue'[p] = queue[p]
    BY Zenon
  <1>c. Len(queue[q]) + 1 <= MaxPending
    BY <1>a, WorkqueueAssumption
  <1>1. ASSUME NEW x, NEW p \in Queues
        PROVE  Queued(x, p)' <=> Queued(x, p) \/ (p = q /\ x = w)
    <2>1. (Queued(x, p)' <=> Contains(queue'[p], x)) /\ (Queued(x, p) <=> Contains(queue[p], x))
      BY Zenon DEF Queued, Contains
    <2>2. Contains(queue'[p], x) <=> Contains(queue[p], x) \/ (p = q /\ x = w)
      BY <1>a, <1>b, Zenon
    <2> QED
      BY <2>1, <2>2, Zenon
  <1>2. ASSUME NEW p \in Queues
        PROVE  /\ queue'[p] \in Seq(Works) /\ Len(queue'[p]) <= MaxPending
               /\ NoRepeats(queue'[p]) /\ (p # q => queue'[p] = queue[p])
    BY <1>a, <1>b, <1>c, Zenon
  <1> QED
    BY <1>1, <1>2, Zenon

(* Closing slot k, as ove_work_cancel does, removes that element and no other. *)
LEMMA CloseSlotFacts ==
    ASSUME NEW S, NEW s \in Seq(S), NEW k \in 1..Len(s), NoRepeats(s)
    PROVE  LET r == SubSeq(s, 1, k - 1) \o SubSeq(s, k + 1, Len(s)) IN
           /\ r \in Seq(S)
           /\ Len(r) = Len(s) - 1
           /\ NoRepeats(r)
           /\ \A x : Contains(r, x) <=> Contains(s, x) /\ x # s[k]
  <1> DEFINE r == SubSeq(s, 1, k - 1) \o SubSeq(s, k + 1, Len(s))
             a == SubSeq(s, 1, k - 1)
             b == SubSeq(s, k + 1, Len(s))
  <1>1. /\ r \in Seq(S)
        /\ Len(r) = Len(s) - 1
        /\ \A i \in 1..(Len(s) - 1) : r[i] = IF i < k THEN s[i] ELSE s[i + 1]
    <2>1. /\ a \in Seq(S) /\ Len(a) = k - 1
          /\ \A i \in 1..(k - 1) : a[i] = s[i]
      <3>1. \A i \in 1..(k - 1) : s[i] \in S
        OBVIOUS
      <3> QED BY <3>1
    <2>2. /\ b \in Seq(S) /\ Len(b) = Len(s) - k
          /\ \A i \in 1..(Len(s) - k) : b[i] = s[k + i]
      <3>1. \A i \in (k + 1)..Len(s) : s[i] \in S
        OBVIOUS
      <3> QED BY <3>1
    <2>3. r = a \o b
      BY Zenon
    <2> HIDE DEF a, b, r
    <2>4. /\ a \o b \in Seq(S)
          /\ Len(a \o b) = Len(a) + Len(b)
          /\ \A i \in 1..(Len(a) + Len(b)) :
                 (a \o b)[i] = IF i <= Len(a) THEN a[i] ELSE b[i - Len(a)]
      <3>1. a \in Seq(S) /\ b \in Seq(S) /\ Len(a) \in Nat /\ Len(b) \in Nat
        BY <2>1, <2>2
      <3>2. a \o b \in Seq(S) /\ Len(a \o b) = Len(a) + Len(b)
        BY <3>1
      <3>3. ASSUME NEW i \in 1..(Len(a) + Len(b))
            PROVE  (a \o b)[i] = IF i <= Len(a) THEN a[i] ELSE b[i - Len(a)]
        BY <3>1
      <3> QED BY <3>2, <3>3, Zenon
    <2>5. Len(s) \in Nat /\ k \in Int /\ 1 <= k /\ k <= Len(s)
      OBVIOUS
    <2>6. ASSUME NEW i \in 1..(Len(s) - 1)
          PROVE  r[i] = IF i < k THEN s[i] ELSE s[i + 1]
      <3>1. r[i] = IF i <= k - 1 THEN a[i] ELSE b[i - (k - 1)]
        <4>1. Len(a) = k - 1 /\ Len(b) = Len(s) - k
          BY <2>1, <2>2, Zenon
        <4>2. i \in 1..(Len(a) + Len(b))
          BY <4>1, <2>5
        <4>3. (a \o b)[i] = IF i <= Len(a) THEN a[i] ELSE b[i - Len(a)]
          BY <4>2, <2>4, Zenon
        <4> QED BY <4>1, <4>3, <2>3, Zenon
      <3>2. CASE i < k
        BY <3>1, <3>2, <2>1, <2>5
      <3>3. CASE i >= k
        <4>1. i - (k - 1) \in 1..(Len(s) - k) /\ k + (i - (k - 1)) = i + 1
          BY <3>3, <2>5
        <4>2. b[i - (k - 1)] = s[i + 1]
          BY <4>1, <2>2, Zenon
        <4> QED BY <3>1, <3>3, <4>2, <2>5
      <3> QED BY <3>2, <3>3, <2>5
    <2>7. Len(a) + Len(b) = Len(s) - 1
      BY <2>1, <2>2, <2>5
    <2> QED BY <2>3, <2>4, <2>6, <2>7, Zenon
  <1> HIDE DEF r
  <1>2. NoRepeats(r)
    <2> SUFFICES ASSUME NEW i \in 1..(Len(s) - 1), NEW j \in 1..(Len(s) - 1), r[i] = r[j]
                 PROVE  i = j
      BY <1>1, Zenon DEF NoRepeats
    <2> DEFINE u == IF i < k THEN i ELSE i + 1
               v == IF j < k THEN j ELSE j + 1
    <2>1. u \in 1..Len(s) /\ v \in 1..Len(s) /\ (u = v => i = j)
      OBVIOUS
    <2>2. r[i] = s[u] /\ r[j] = s[v]
      BY <1>1, Zenon
    <2> HIDE DEF u, v
    <2> QED
      BY <2>1, <2>2, Zenon DEF NoRepeats
  <1>3. ASSUME NEW x PROVE Contains(r, x) <=> Contains(s, x) /\ x # s[k]
    <2>1. ASSUME Contains(r, x) PROVE Contains(s, x) /\ x # s[k]
      <3>1. PICK i \in 1..(Len(s) - 1) : r[i] = x
        BY <1>1, <2>1, Zenon DEF Contains
      <3>2. x = IF i < k THEN s[i] ELSE s[i + 1]
        BY <1>1, <3>1, Zenon
      <3>3. CASE i < k
        <4>1. i \in 1..Len(s) /\ i # k
          BY <3>3
        <4> QED BY <3>2, <3>3, <4>1, Zenon DEF Contains, NoRepeats
      <3>4. CASE ~(i < k)
        <4>1. i + 1 \in 1..Len(s) /\ i + 1 # k
          BY <3>4
        <4> QED BY <3>2, <3>4, <4>1, Zenon DEF Contains, NoRepeats
      <3> QED BY <3>3, <3>4, Zenon
    <2>2. ASSUME Contains(s, x), x # s[k] PROVE Contains(r, x)
      <3>1. PICK j \in 1..Len(s) : s[j] = x
        BY <2>2, Zenon DEF Contains
      <3>2. j # k
        BY <2>2, <3>1, Zenon
      <3>3. CASE j < k
        <4>1. j \in 1..(Len(s) - 1)
          BY <3>3
        <4>2. r[j] = s[j]
          BY <1>1, <3>3, <4>1, Zenon
        <4> QED BY <1>1, <3>1, <4>1, <4>2, Zenon DEF Contains
      <3>4. CASE j > k
        <4>1. j - 1 \in 1..(Len(s) - 1) /\ r[j - 1] = s[j]
          BY <1>1, <3>4
        <4> QED BY <1>1, <3>1, <4>1, Zenon DEF Contains
      <3> QED BY <3>2, <3>3, <3>4
    <2> QED BY <2>1, <2>2, Zenon
  <1> QED BY ZenonT(60), <1>1, <1>2, <1>3 DEF r

(* Taking an item out of its queue leaves the other items and the other queues alone. *)
LEMMA DequeueFacts ==
    ASSUME IInv, NEW q \in Queues, NEW w \in Works, Dequeue(q, w)
    PROVE  /\ \A x, p : p \in Queues => (Queued(x, p)' <=> Queued(x, p) /\ ~(p = q /\ x = w))
           /\ queue' \in [Queues -> Seq(Works)]
           /\ \A p \in Queues : /\ Len(queue'[p]) <= MaxPending /\ NoRepeats(queue'[p])
                                /\ queue[p] = <<>> => queue'[p] = <<>>
                                /\ p # q => queue'[p] = queue[p]
           /\ wq' = IF Queued(w, q) THEN [wq EXCEPT ![w] = NULL] ELSE wq
  <1>a. /\ queue \in [Queues -> Seq(Works)]
        /\ \A p \in Queues : Len(queue[p]) <= MaxPending /\ NoRepeats(queue[p])
    BY Zenon DEF IInv, TypeOK, SlotsDistinct, NoRepeats
  <1>b. \A x, p : Queued(x, p) <=> Contains(queue[p], x)
    BY Zenon DEF Queued, Contains
  <1>c. \A x, p : Queued(x, p)' <=> Contains(queue'[p], x)
    BY Zenon DEF Queued, Contains
  <1>1. CASE ~Queued(w, q)
    <2>1. queue' = queue /\ wq' = wq
      BY <1>1, Zenon DEF Dequeue, Queued
    <2> QED
      BY <1>a, <1>b, <1>c, <1>1, <2>1, Zenon
  <1>2. CASE Queued(w, q)
    <2>1. PICK i \in 1..Len(queue[q]) :
             /\ queue[q][i] = w
             /\ queue' = [queue EXCEPT ![q] = SubSeq(queue[q], 1, i - 1) \o SubSeq(queue[q], i + 1, Len(queue[q]))]
             /\ wq' = [wq EXCEPT ![w] = NULL]
      BY <1>2, Zenon DEF Dequeue
    <2> DEFINE r == SubSeq(queue[q], 1, i - 1) \o SubSeq(queue[q], i + 1, Len(queue[q]))
    <2>2. queue[q] \in Seq(Works) /\ NoRepeats(queue[q])
      BY <1>a, Zenon
    <2>3. /\ r \in Seq(Works) /\ Len(r) = Len(queue[q]) - 1 /\ NoRepeats(r)
          /\ \A x : Contains(r, x) <=> Contains(queue[q], x) /\ x # queue[q][i]
      BY ZenonT(60), <2>2, CloseSlotFacts
    <2>4. queue' = [queue EXCEPT ![q] = r]
      BY <2>1, Zenon
    <2> HIDE DEF r
    <2>5. queue'[q] = r /\ \A p \in Queues : p # q => queue'[p] = queue[p]
      BY <1>a, <2>4, Zenon
    <2>6. queue' \in [Queues -> Seq(Works)]
      BY <1>a, <2>3, <2>4, Zenon
    <2>7. queue[q] # <<>> /\ Len(r) <= MaxPending
      BY <1>a, <2>1, <2>2, <2>3, WorkqueueAssumption
    <2>8. \A x, p : p \in Queues => (Queued(x, p)' <=> Queued(x, p) /\ ~(p = q /\ x = w))
      BY <1>b, <1>c, <2>1, <2>3, <2>5, Zenon
    <2> QED
      BY <1>a, <1>2, <2>1, <2>3, <2>5, <2>6, <2>7, <2>8, Zenon
  <1> QED
    BY <1>1, <1>2, Zenon
=============================================================================
