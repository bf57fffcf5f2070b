-------------------------- MODULE WorkqueueProofs ---------------------------
(***************************************************************************)
(* Submission and cancellation preserve the invariant of the work queues,  *)
(* and what the invariant says of the code.                                *)
(***************************************************************************)
EXTENDS WorkqueueWorker

(* A submission is stored; the sleeper it wakes is the worker if the worker sleeps. *)
LEMMA SubmitStoreStep ==
    ASSUME IInv, SingleTarget, NEW c \in Clients, SubmitStore(c)
    PROVE  IInv'
  <1> DEFINE w == item[c]
             q == target[c]
  <1>a. /\ pc[c] = "submit" /\ w \in Works /\ q \in Queues /\ q \in Targets[w]
        /\ lock[q] = c /\ running[q] /\ Len(queue[q]) < MaxPending
        /\ handler[w] /\ wq[w] = NULL /\ ~pending[w] /\ ~in_progress[w]
        /\ op[c] # "deinit"
    <2>1. pc[c] = "submit"
      BY Zenon DEF SubmitStore
    <2>2. /\ w \in Works /\ q \in Targets[w] /\ op[c] # "deinit"
          /\ running[q] /\ Len(queue[q]) < MaxPending
          /\ handler[w] /\ wq[w] = NULL /\ ~pending[w] /\ ~in_progress[w]
      BY <2>1, Zenon DEF IInv, Submitting
    <2>3. q \in Queues
      BY <2>2, WorkqueueAssumption, Zenon
    <2>4. lock[q] = c
      BY <2>1, <2>3, Zenon DEF IInv, Holding
    <2> QED
      BY <2>1, <2>2, <2>3, <2>4, Zenon
  <1>b. /\ delayed' = [delayed EXCEPT ![w] = IF op[c] = "submit_delayed" THEN TRUE ELSE FALSE]
        /\ wq' = [wq EXCEPT ![w] = q]
        /\ pending' = [pending EXCEPT ![w] = TRUE]
        /\ queue' = [queue EXCEPT ![q] = Append(queue[q], w)]
        /\ lock' = [lock EXCEPT ![q] = NULL]
        /\ cancelled' = cancelled \ {w}
        /\ op' = [op EXCEPT ![c] = "none"]
        /\ item' = [item EXCEPT ![c] = NULL]
        /\ target' = [target EXCEPT ![c] = NULL]
        /\ UNCHANGED <<running, in_progress, handler, cur, execute>>
    BY Zenon DEF SubmitStore, workerVars
  <1>c. \A p \in Queues : ~Queued(w, p) /\ cur[p] # w
    BY <1>a, WorkqueueAssumption DEF IInv, BackpointerExact, Referenced
  <1>d. /\ \A x, p : p \in Queues => (Queued(x, p)' <=> Queued(x, p) \/ (p = q /\ x = w))
        /\ \A p \in Queues : /\ queue'[p] \in Seq(Works) /\ Len(queue'[p]) <= MaxPending
                            /\ NoRepeats(queue'[p]) /\ (p # q => queue'[p] = queue[p])
    <2>1. ~Contains(queue[q], w)
      BY <1>a, <1>c, Zenon DEF Queued, Contains
    <2>2. /\ queue \in [Queues -> Seq(Works)]
          /\ \A p \in Queues : Len(queue[p]) <= MaxPending /\ NoRepeats(queue[p])
      BY Zenon DEF IInv, TypeOK, SlotsDistinct, NoRepeats
    <2> QED
      BY <1>a, <1>b, <2>1, <2>2, SubmittedQueue, Zenon
  <1>e. \A x, p : p \in Queues => (Queued(x, p)' <=> Queued(x, p) \/ (p = q /\ x = w))
    BY <1>d, Zenon
  <1>f. \A p \in Queues : /\ queue'[p] \in Seq(Works) /\ Len(queue'[p]) <= MaxPending
                          /\ NoRepeats(queue'[p]) /\ (p # q => queue'[p] = queue[p])
    BY <1>d, Zenon
  <1>g. \/ pc[q] # "wait" /\ pc' = [pc EXCEPT ![c] = "idle"]
        \/ pc[q] = "wait" /\ pc' = [pc EXCEPT ![c] = "idle", ![q] = "loop"]
        \/ pc[q] # "wait" /\ \E t \in Clients : pc[t] = "wait" /\ pc' = [pc EXCEPT ![c] = "idle", ![t] = "loop"]
    <2>1. \/ Sleepers(q) = {} /\ pc' = [pc EXCEPT ![c] = "idle"]
          \/ \E t \in Sleepers(q) : pc' = [pc EXCEPT ![c] = "idle", ![t] = "loop"]
      BY Zenon DEF SubmitStore, Signal
    <2>2. ASSUME NEW t \in Clients, t \in Sleepers(q) PROVE pc[q] # "wait"
      <3>1. pc[t] = "wait" /\ target[t] = q
        BY <1>a, <2>2, WorkqueueAssumption, Zenon DEF Sleepers
      <3>2. cur[q] = item[t] /\ item[t] \in Works
        BY <3>1, Zenon DEF IInv, CancellerWillBeWoken, Cancellers, InCancel
      <3> QED
        BY <1>a, <3>2, WorkqueueAssumption, Zenon DEF IInv, WorkerState
    <2> QED
      BY <1>a, <2>1, <2>2, Zenon DEF Sleepers, Threads
  <1>h. \A d \in Clients : pc[d] = "submit" /\ d # c => target[d] # q /\ item[d] # w
    <2> SUFFICES ASSUME NEW d \in Clients, pc[d] = "submit", d # c
                 PROVE  target[d] # q /\ item[d] # w
      BY Zenon
    <2>1. target[d] # q
      BY <1>a DEF IInv, Holding
    <2>2. target[d] \in Targets[item[d]]
      BY Zenon DEF IInv, Submitting
    <2> QED
      BY <1>a, <2>1, <2>2, Zenon DEF SingleTarget
  <1>i. \A d \in Clients : InCancel(d) /\ op[d] = "deinit" => item[d] # w
    BY <1>a, Zenon DEF IInv, DeinitAlone, InCancel
  <1> HIDE DEF w, q
  <1>j. /\ pc' \in [Threads -> WorkerStates \cup ClientStates]
        /\ pc'[c] = "idle" /\ pc'[q] # "wait"
        /\ \A d \in Clients \ {c} : pc'[d] = pc[d] \/ (pc[d] = "wait" /\ pc'[d] = "loop")
        /\ \A p \in Queues : pc'[p] = pc[p] \/ (pc[p] = "wait" /\ pc'[p] = "loop")
    <2>1. /\ pc \in [Threads -> WorkerStates \cup ClientStates]
          /\ Queues \subseteq Threads /\ Clients \subseteq Threads /\ c \notin Queues
          /\ {"idle", "loop"} \subseteq WorkerStates \cup ClientStates
      BY WorkqueueAssumption, Zenon DEF IInv, TypeOK, Threads, WorkerStates, ClientStates
    <2> QED
      BY <1>a, <1>g, <2>1
  <1>k. /\ \A d \in Clients \ {c} : op'[d] = op[d] /\ item'[d] = item[d] /\ target'[d] = target[d]
        /\ op'[c] = "none" /\ item'[c] = NULL /\ target'[c] = NULL
    BY <1>b, Zenon DEF IInv, TypeOK
  <1>o. /\ \A x \in Works \ {w} : wq'[x] = wq[x] /\ pending'[x] = pending[x]
        /\ wq'[w] = q /\ pending'[w] = TRUE
    BY <1>a, <1>b, Zenon DEF IInv, TypeOK
  <1>p. lock'[q] = NULL /\ \A p \in Queues \ {q} : lock'[p] = lock[p]
    BY <1>a, <1>b, Zenon DEF IInv, TypeOK
  <1>l. (\A p \in Queues : pc'[p] \in WorkerStates) /\ \A d \in Clients : pc'[d] \in ClientStates
    <2>1. {"idle", "loop"} \subseteq ClientStates /\ "loop" \in WorkerStates
      BY Zenon DEF WorkerStates, ClientStates
    <2> QED
      BY <1>j, <2>1, Zenon DEF IInv, TypeOK
  <1>8. SlotsDistinct'
    <2>1. \A p \in Queues : NoRepeats(queue'[p]) /\ cur'[p] = cur[p]
      BY <1>b, <1>f, Zenon
    <2>2. \A x \in Works, p \in Queues : Queued(x, p)' => cur[p] # x
      BY <1>c, <1>e, Zenon DEF IInv, SlotsDistinct
    <2> QED
      BY <2>1, <2>2, Zenon DEF SlotsDistinct, NoRepeats
  <1>m. UNCHANGED <<running, in_progress, handler, cur, execute>>
    BY <1>b, Zenon
  <1>n. /\ \A d \in Clients : InCancel(d)' => d # c /\ InCancel(d)
        /\ \A d \in Clients : pc'[d] = "submit" => d # c /\ pc[d] = "submit"
        /\ \A d \in Clients : d # c /\ pc[d] = "submit" => pc'[d] = "submit"
        /\ \A d \in Clients \ {c} : pc'[d] \in {"idle", "join"} => pc'[d] = pc[d]
        /\ \A d \in Clients : pc'[d] \in {"wait", "loop"} => d # c /\ pc[d] \in {"wait", "loop"}
    BY <1>j, Zenon DEF InCancel
  <1>1. TypeOK'
    <2>1. queue' \in [Queues -> Seq(Works)] /\ \A p \in Queues : Len(queue'[p]) <= MaxPending
      BY <1>b, <1>f, Zenon DEF IInv, TypeOK
    <2> QED
      BY <1>a, <1>b, <1>j, <1>l, <2>1, Zenon DEF IInv, TypeOK
  <1>2. Holding'
    <2>1. lock'[q] \notin Clients
      BY <1>p, WorkqueueAssumption, Zenon
    <2>2. \A p \in Queues, d \in Clients : lock'[p] = d <=> p # q /\ lock[p] = d
      BY <1>p, <2>1, Zenon
    <2>3. \A d \in Clients : pc'[d] = "submit" <=> d # c /\ pc[d] = "submit"
      BY <1>n, Zenon
    <2>4. \A p \in Queues \ {q} : lock[p] # c
      BY <1>a DEF IInv, Holding, q
    <2> QED
      BY <1>h, <1>k, <2>2, <2>3, <2>4 DEF IInv, Holding, q, w
  <1>3. Cancellers' /\ Others' /\ DeinitAlone'
    <2>1. Cancellers'
      BY <1>k, <1>m, <1>n DEF IInv, Cancellers
    <2>2. Others'
      BY <1>j, <1>k, <1>n DEF IInv, Others
    <2>3. \A d \in Clients : InCancel(d) => item[d] # NULL
      BY WorkqueueAssumption DEF IInv, Cancellers
    <2>4. DeinitAlone'
      BY <1>k, <1>n, <2>3 DEF IInv, DeinitAlone
    <2> QED
      BY <2>1, <2>2, <2>4, Zenon
  <1>4. Submitting'
    <2>1. \A d \in Clients : pc'[d] = "submit" => item[d] \in Works \ {w} /\ target[d] \in Queues \ {q}
      BY <1>h, <1>n, WorkqueueAssumption, Zenon DEF IInv, Submitting, w, q
    <2> QED
      BY <1>f, <1>k, <1>m, <1>n, <1>o, <2>1 DEF IInv, Submitting
  <1>5. DeinitDequeued'
    <2>1. \A d \in Clients : pc'[d] \in {"wait", "loop"} /\ op'[d] = "deinit" =>
              /\ pc[d] \in {"wait", "loop"} /\ op[d] = "deinit"
              /\ item[d] # w /\ item'[d] = item[d]
      BY <1>i, <1>k, <1>n, ZenonT(60) DEF InCancel
    <2> QED
      BY <1>e, <2>1, Zenon DEF IInv, DeinitDequeued
  <1>6. InProgress' /\ HomeQueue'
    <2>1. InProgress'
      BY <1>m, Zenon DEF IInv, InProgress
    <2>2. HomeQueue'
      BY <1>a, <1>o, Zenon DEF IInv, HomeQueue
    <2> QED
      BY <2>1, <2>2, Zenon
  <1>7. WorkerState'
    <2>1. \A p \in Queues : queue'[p] = queue[p] \/ pc[p] \notin {"none", "exited"}
      BY <1>a, <1>f, Zenon DEF IInv, WorkerState
    <2>2. \A p \in Queues : pc'[p] = pc[p] \/ (pc[p] = "wait" /\ pc'[p] = "loop")
      BY <1>j, Zenon
    <2> QED
      BY <1>m, <2>1, <2>2, Zenon DEF IInv, WorkerState
  <1>9. PendingState'
    <2>1. \A p \in Queues : pc'[p] \in {"handler", "finish"} =>
              pc[p] \in {"handler", "finish"} /\ cur[p] \in Works \ {w}
      BY <1>c, <1>j, ZenonT(60) DEF IInv, TypeOK, WorkerState
    <2>2. cancelled' \subseteq Works \ {w} /\ cancelled' \subseteq cancelled
      BY <1>b, Zenon DEF IInv, TypeOK
    <2>3. q # NULL
      BY <1>a, WorkqueueAssumption, Zenon
    <2> QED
      BY <1>e, <1>m, <1>o, <2>1, <2>2, <2>3 DEF IInv, PendingState
  <1>10. BackpointerExact' /\ ReleasedUnreferenced' /\ CancelledNeverRuns'
    <2>1. \A x \in Works, p \in Queues : Referenced(x, p)' <=> Referenced(x, p) \/ (p = q /\ x = w)
      BY <1>e, <1>m, Zenon DEF Referenced
    <2>2. \A p \in Queues : ~Referenced(w, p)
      BY <1>c, Zenon DEF Referenced
    <2>3. BackpointerExact'
      BY <1>o, <2>1, <2>2 DEF IInv, BackpointerExact
    <2>4. ReleasedUnreferenced'
      BY <1>a, <1>m, <2>1, Zenon DEF IInv, ReleasedUnreferenced
    <2>5. CancelledNeverRuns'
      BY <1>b, <1>j, <1>m, Zenon DEF IInv, CancelledNeverRuns
    <2> QED
      BY <2>3, <2>4, <2>5, Zenon
  <1>11. WorkerSleepsIdle' /\ CancellerWillBeWoken'
    <2>1. WorkerSleepsIdle'
      BY <1>f, <1>j, <1>m, Zenon DEF IInv, WorkerSleepsIdle
    <2>2. CancellerWillBeWoken'
      BY <1>k, <1>m, <1>n, <1>j, Zenon DEF IInv, CancellerWillBeWoken
    <2> QED
      BY <2>1, <2>2, Zenon
  <1> QED
    BY <1>1, <1>2, <1>3, <1>4, <1>5, <1>6, <1>7, <1>8, <1>9, <1>10, <1>11, Zenon DEF IInv

(* A cancel or deinit loads the backpointer: NULL ends the call. *)
LEMMA CancelLoadStep ==
    ASSUME IInv, SingleTarget, NEW c \in Clients, NEW w \in Works, NEW o \in {"cancel",
           "deinit"}, CancelLoad(c, w, o)
    PROVE  IInv'
  <1>a. \A x, p : Queued(x, p)' <=> Queued(x, p)
    BY Zenon DEF Queued, CancelLoad
  <1>b. /\ pc[c] = "idle" /\ handler[w] /\ (wq[w] # NULL => running[wq[w]])
        /\ (o = "deinit" => \A u \in Clients : pc[u] # "idle" => item[u] # w)
        /\ \A u \in Clients : pc[u] # "idle" /\ item[u] = w => op[u] # "deinit"
    BY Zenon DEF CancelLoad, Using
  <1>c. UNCHANGED <<lock, queue, running, wq, pending, in_progress, delayed, cur, execute,
                    cancelled>>
    BY Zenon DEF CancelLoad, workerVars
  <1>d. CASE wq[w] = NULL
    <2>1. Return(c, w, o)
      BY <1>d, Zenon DEF CancelLoad
    <2>2. \A p \in Queues : ~Referenced(w, p)
      BY <1>d, WorkqueueAssumption, Zenon DEF IInv, BackpointerExact
    <2> QED
      BY <1>b, <1>c, <2>1, <2>2, ReturnStep, Zenon
  <1>e. CASE wq[w] # NULL
    <2>a. /\ pc' = [pc EXCEPT ![c] = "cancel"] /\ op' = [op EXCEPT ![c] = o]
          /\ item' = [item EXCEPT ![c] = w] /\ target' = [target EXCEPT ![c] = wq[w]]
          /\ handler' = handler
      BY <1>e, Zenon DEF CancelLoad
    <2>b. /\ \A d \in Clients \ {c} : /\ pc'[d] = pc[d] /\ op'[d] = op[d]
                                      /\ item'[d] = item[d] /\ target'[d] = target[d]
          /\ \A p \in Queues : pc'[p] = pc[p]
          /\ pc'[c] = "cancel" /\ op'[c] = o /\ item'[c] = w /\ target'[c] = wq[w]
      <3>1. /\ pc \in [Threads -> WorkerStates \cup ClientStates]
            /\ op \in [Clients -> {"none", "submit", "submit_delayed", "cancel", "deinit"}]
            /\ item \in [Clients -> Works \cup {NULL}] /\ target \in [Clients -> Queues \cup {NULL}]
            /\ c \notin Queues
        BY WorkqueueAssumption, Zenon DEF IInv, TypeOK
      <3> QED
        BY <2>a, <3>1, Zenon DEF Threads
    <2>c. wq[w] \in Targets[w]
      BY <1>e, Zenon DEF IInv, HomeQueue
    <2>1. TypeOK'
      <3>1. /\ pc' \in [Threads -> WorkerStates \cup ClientStates]
            /\ op' \in [Clients -> {"none", "submit", "submit_delayed", "cancel", "deinit"}]
            /\ item' \in [Clients -> Works \cup {NULL}]
        BY <2>a, Zenon DEF IInv, TypeOK, ClientStates
      <3>2. target' \in [Clients -> Queues \cup {NULL}]
        BY <2>a, Zenon DEF IInv, TypeOK
      <3>3. /\ \A p \in Queues : pc'[p] \in WorkerStates
            /\ \A d \in Clients : pc'[d] \in ClientStates
        BY <2>b, Zenon DEF IInv, TypeOK, ClientStates
      <3> QED
        BY <1>c, <2>a, <3>1, <3>2, <3>3, Zenon DEF IInv, TypeOK
    <2>2. Holding' /\ Others'
      <3>1. Holding'
        BY <1>b, <1>c, <2>b DEF IInv, Holding
      <3>2. Others'
        BY <2>b, Zenon DEF IInv, Others
      <3> QED
        BY <3>1, <3>2, Zenon
    <2>3. Submitting' /\ CancellerWillBeWoken'
      <3>1. handler' = handler /\ \A d \in Clients : pc'[d] \in {"submit", "wait"} => d # c
        BY <2>a, <2>b, Zenon
      <3>2. Submitting'
        BY <1>c, <2>b, <3>1 DEF IInv, Submitting
      <3>3. CancellerWillBeWoken'
        BY <1>c, <2>b, <3>1, Zenon DEF IInv, CancellerWillBeWoken
      <3> QED
        BY <3>2, <3>3, Zenon
    <2>4. Cancellers'
      <3>1. \A d \in Clients \ {c} : InCancel(d)' => InCancel(d)
        BY <2>b, Zenon DEF InCancel
      <3>2. handler' = handler /\ running' = running
        BY <1>c, <2>a, Zenon
      <3> QED
        BY <1>b, <1>e, <2>b, <2>c, <3>1, <3>2 DEF IInv, Cancellers
    <2>5. DeinitAlone'
      <3>1. \A d \in Clients \ {c} : item[d] = w => pc[d] # "idle"
        BY WorkqueueAssumption, Zenon DEF IInv, Others
      <3> QED
        BY <1>b, <2>b, <3>1 DEF IInv, DeinitAlone, InCancel
    <2>6. DeinitDequeued' /\ ReleasedUnreferenced' /\ BackpointerExact'
      <3>1. DeinitDequeued'
        BY <1>a, <2>b, Zenon DEF IInv, DeinitDequeued
      <3>2. \A x, p : Referenced(x, p)' <=> Referenced(x, p)
        BY <1>a, <1>c, Zenon DEF Referenced
      <3>3. ReleasedUnreferenced' /\ BackpointerExact'
        BY <1>c, <2>a, <3>2, Zenon DEF IInv, ReleasedUnreferenced, BackpointerExact
      <3> QED
        BY <3>1, <3>3, Zenon
    <2>7. WorkerState' /\ WorkerSleepsIdle' /\ CancelledNeverRuns'
      BY <1>c, <2>b, ZenonT(60) DEF IInv, WorkerState, WorkerSleepsIdle, CancelledNeverRuns
    <2>8. InProgress' /\ HomeQueue'
      BY <1>c, Zenon DEF IInv, InProgress, HomeQueue
    <2>9. SlotsDistinct'
      BY <1>a, <1>c, Zenon DEF IInv, SlotsDistinct
    <2>10. PendingState'
      BY <1>a, <1>c, <2>b, Zenon DEF IInv, PendingState
    <2> QED
      BY <2>1, <2>2, <2>3, <2>4, <2>5, <2>6, <2>7, <2>8, <2>9, <2>10, Zenon DEF IInv
  <1> QED
    BY <1>d, <1>e, Zenon

(* A canceller tests in_progress again. *)
LEMMA CancelWokenStep ==
    ASSUME IInv, SingleTarget, NEW c \in Clients, CancelWoken(c)
    PROVE  IInv'
  <1>a. \A x, p : Queued(x, p)' <=> Queued(x, p)
    BY ZenonT(60) DEF Queued, CancelWoken
  <1>b. /\ pc[c] = "loop" /\ item[c] \in Works /\ op[c] \in {"cancel", "deinit"}
        /\ target[c] \in Targets[item[c]] /\ target[c] \in Queues
    BY WorkqueueAssumption, Zenon DEF CancelWoken, IInv, Cancellers, InCancel
  <1>1. CASE in_progress[item[c]]
    <2>a. /\ pc' = [pc EXCEPT ![c] = "wait"]
          /\ UNCHANGED <<lock, queue, running, wq, pending, in_progress, delayed, handler, cur,
                         execute, cancelled, op, item, target>>
      BY ZenonT(60), <1>1 DEF CancelWoken, AwaitHandler, workerVars
    <2>b. cur[target[c]] = item[c]
      <3>1. PICK p \in Queues : cur[p] = item[c]
        BY <1>1, <1>b, Zenon DEF IInv, InProgress
      <3>2. wq[item[c]] = p
        BY <1>b, <3>1 DEF IInv, BackpointerExact, Referenced
      <3>3. p \in Targets[item[c]]
        BY <1>b, <3>2, WorkqueueAssumption, Zenon DEF IInv, HomeQueue
      <3> QED
        BY <1>b, <3>1, <3>3, Zenon DEF SingleTarget
    <2>1. /\ UNCHANGED <<lock, queue, running, workVars, workerVars, clientVars, cancelled>>
          /\ pc' \in [Threads -> WorkerStates \cup ClientStates]
          /\ pc'[c] = "wait" /\ \A t \in Threads \ {c} : pc'[t] = pc[t]
      BY <2>a, Zenon DEF IInv, TypeOK, Threads, WorkerStates, workVars, workerVars, clientVars
    <2>2. /\ \A d \in Clients : pc'[d] = pc[d] \/ CancellerMoves(d)
          /\ \A p \in Queues : pc'[p] = pc[p]
      BY <1>b, <2>b, <2>1, WorkqueueAssumption, Zenon DEF Threads, CancellerMoves
    <2> QED
      BY <2>1, <2>2, MoveStep, Zenon
  <1>2. CASE ~in_progress[item[c]]
    <2>1. /\ Return(c, item[c], op[c])
          /\ UNCHANGED <<lock, queue, running, wq, pending, in_progress, delayed, cur, execute,
                         cancelled>>
      BY <1>2, Zenon DEF CancelWoken, AwaitHandler, workerVars
    <2>2. ASSUME op[c] = "deinit"
          PROVE  /\ \A p \in Queues : ~Referenced(item[c], p)
                 /\ \A d \in Clients \ {c} : item[d] # item[c]
      <3>1. \A p \in Queues : ~Queued(item[c], p)
        BY <1>b, <2>2, Zenon DEF IInv, DeinitDequeued
      <3>2. \A p \in Queues : cur[p] # item[c]
        BY <1>b, <1>2, WorkqueueAssumption DEF IInv, InProgress
      <3>3. \A d \in Clients \ {c} : item[d] # item[c]
        BY <1>b, <2>2, Zenon DEF IInv, DeinitAlone, InCancel
      <3> QED
        BY <3>1, <3>2, <3>3, Zenon DEF Referenced
    <2> QED
      BY <1>b, <2>1, <2>2, ReturnStep, Zenon
  <1> QED
    BY <1>1, <1>2, Zenon

(* A canceller under the lock: it sleeps while the worker has the item in hand; otherwise
   the item, if it was queued, is so no longer and the call returns. *)
LEMMA CancelLockedStep ==
    ASSUME IInv, SingleTarget, NEW c \in Clients, CancelLocked(c)
    PROVE  IInv'
  <1>0. PICK w, q : item[c] = w /\ target[c] = q
    BY Zenon
  <1>a. /\ pc[c] = "cancel" /\ lock[q] = NULL /\ w \in Works /\ q \in Targets[w] /\ q \in Queues
        /\ op[c] \in {"cancel", "deinit"} /\ handler[w] /\ running[q]
    <2>1. pc[c] = "cancel" /\ lock[q] = NULL
      BY <1>0, Zenon DEF CancelLocked, Free
    <2>2. w \in Works /\ q \in Targets[w] /\ op[c] \in {"cancel", "deinit"} /\ handler[w]
          /\ running[q]
      BY <1>0, <2>1, Zenon DEF IInv, Cancellers, InCancel
    <2> QED
      BY <2>1, <2>2, WorkqueueAssumption, Zenon
  <1>b. /\ pending' = [pending EXCEPT ![w] = FALSE]
        /\ cancelled' = IF pending[w] THEN cancelled \cup {w} ELSE cancelled
        /\ Dequeue(q, w) /\ AwaitHandler(c)
        /\ UNCHANGED <<lock, running, in_progress, delayed, cur, execute>>
    BY <1>0, Zenon DEF CancelLocked, workerVars
  <1>c. \A p \in Queues : Queued(w, p) \/ cur[p] = w => p = q
    <2> SUFFICES ASSUME NEW p \in Queues, Queued(w, p) \/ cur[p] = w PROVE p = q
      BY Zenon
    <2>1. wq[w] = p
      BY <1>a, Zenon DEF IInv, BackpointerExact, Referenced
    <2>2. p \in Targets[w]
      BY <1>a, <2>1, WorkqueueAssumption, Zenon DEF IInv, HomeQueue
    <2> QED
      BY <1>a, <2>2, Zenon DEF SingleTarget
  <1>d. \A d \in Clients : pc[d] = "submit" => target[d] # q /\ item[d] # w
    <2> SUFFICES ASSUME NEW d \in Clients, pc[d] = "submit"
                 PROVE  target[d] # q /\ item[d] # w
      BY Zenon
    <2>1. target[d] # q
      BY <1>a, WorkqueueAssumption DEF IInv, Holding
    <2>2. target[d] \in Targets[item[d]]
      BY Zenon DEF IInv, Submitting
    <2> QED
      BY <1>a, <2>1, <2>2, Zenon DEF SingleTarget
  <1>e. /\ \A x, p : p \in Queues => (Queued(x, p)' <=> Queued(x, p) /\ ~(p = q /\ x = w))
        /\ queue' \in [Queues -> Seq(Works)]
        /\ \A p \in Queues : /\ Len(queue'[p]) <= MaxPending /\ NoRepeats(queue'[p])
                             /\ queue[p] = <<>> => queue'[p] = <<>>
                             /\ p # q => queue'[p] = queue[p]
        /\ wq' = IF Queued(w, q) THEN [wq EXCEPT ![w] = NULL] ELSE wq
    BY <1>a, <1>b, DequeueFacts, Zenon
  <1>f. ~in_progress[w] <=> \A p \in Queues : cur[p] # w
    BY <1>a, WorkqueueAssumption DEF IInv, InProgress
  <1>1. CASE ~in_progress[w]
    <2>a. /\ pc' = [pc EXCEPT ![c] = "idle"] /\ op' = [op EXCEPT ![c] = "none"]
          /\ item' = [item EXCEPT ![c] = NULL] /\ target' = [target EXCEPT ![c] = NULL]
          /\ handler' = IF op[c] = "deinit" THEN [handler EXCEPT ![w] = FALSE] ELSE handler
      BY <1>0, <1>b, <1>1, Zenon DEF AwaitHandler, Return
    <2>b. /\ wq' = [wq EXCEPT ![w] = NULL]
          /\ \A p \in Queues : cur[p] # w /\ ~Queued(w, p)'
      <3>1. \A p \in Queues : cur[p] # w /\ ~Queued(w, p)'
        BY <1>c, <1>e, <1>f, <1>1, Zenon
      <3>2. ~Queued(w, q) => wq[w] = NULL
        <4>1. ~Queued(w, q) => \A p \in Queues : ~Queued(w, p) /\ cur[p] # w
          BY <1>c, <1>f, <1>1, Zenon
        <4>2. \A p \in Queues : wq[w] = p => Queued(w, p) \/ cur[p] = w
          BY <1>a, Zenon DEF IInv, BackpointerExact, Referenced
        <4>3. wq[w] \in Queues \cup {NULL}
          BY <1>a, Zenon DEF IInv, TypeOK
        <4> QED
          BY <4>1, <4>2, <4>3, Zenon
      <3>3. wq \in [Works -> Queues \cup {NULL}]
        BY Zenon DEF IInv, TypeOK
      <3>4. wq' = [wq EXCEPT ![w] = NULL]
        <4>1. (Queued(w, q) => wq' = [wq EXCEPT ![w] = NULL]) /\ (~Queued(w, q) => wq' = wq)
          BY <1>e, Zenon
        <4>2. wq[w] = NULL => wq = [wq EXCEPT ![w] = NULL]
          BY <1>a, <3>3, Zenon
        <4> QED
          BY <3>2, <4>1, <4>2, Zenon
      <3> QED
        BY <3>1, <3>4, Zenon
    <2>c. /\ UNCHANGED <<lock, running, in_progress, delayed, cur, execute>>
          /\ pending' = [pending EXCEPT ![w] = FALSE]
          /\ cancelled' = IF pending[w] THEN cancelled \cup {w} ELSE cancelled
      BY <1>b, Zenon
    <2>d. \A x, p : p \in Queues => (Queued(x, p)' <=> Queued(x, p) /\ x # w)
      BY <1>c, <1>e, <2>b, Zenon
    <2>e. \A p \in Queues : NoRepeats(queue'[p]) /\ (queue[p] = <<>> => queue'[p] = <<>>)
      BY <1>e, Zenon
    <2>f. /\ \A d \in Clients \ {c} : /\ pc'[d] = pc[d] /\ op'[d] = op[d]
                                      /\ item'[d] = item[d] /\ target'[d] = target[d]
          /\ pc'[c] = "idle" /\ item'[c] = NULL
          /\ \A p \in Queues : pc'[p] = pc[p]
      <3>1. /\ pc \in [Threads -> WorkerStates \cup ClientStates]
            /\ op \in [Clients -> {"none", "submit", "submit_delayed", "cancel", "deinit"}]
            /\ item \in [Clients -> Works \cup {NULL}] /\ target \in [Clients -> Queues \cup {NULL}]
            /\ c \notin Queues
        BY WorkqueueAssumption, Zenon DEF IInv, TypeOK
      <3> QED
        BY <2>a, <3>1, Zenon DEF Threads
    <2>1. TypeOK'
      BY <1>a, <1>e, <2>a, <2>b, <2>c, Zenon DEF IInv, TypeOK, Threads, WorkerStates, ClientStates
    <2>g. /\ \A x \in Works \ {w} : wq'[x] = wq[x] /\ pending'[x] = pending[x] /\ handler'[x] = handler[x]
          /\ wq'[w] = NULL /\ ~pending'[w]
      <3>1. /\ wq \in [Works -> Queues \cup {NULL}] /\ pending \in [Works -> BOOLEAN]
            /\ handler \in [Works -> BOOLEAN]
        BY Zenon DEF IInv, TypeOK
      <3> QED
        BY <1>a, <2>a, <2>b, <2>c, <3>1, Zenon
    <2>2. Holding' /\ Others'
      <3>1. lock' = lock /\ pc[c] = "cancel"
        BY <1>a, <2>c, Zenon
      <3>2. Holding'
        BY <2>f, <3>1 DEF IInv, Holding
      <3>3. Others'
        BY <2>f, Zenon DEF IInv, Others
      <3> QED
        BY <3>2, <3>3, Zenon
    <2>3. Cancellers' /\ DeinitAlone' /\ DeinitDequeued'
      <3>1. \A d \in Clients : InCancel(d)' => InCancel(d) /\ d # c /\ item[d] # NULL
        BY <2>f, WorkqueueAssumption, Zenon DEF IInv, Cancellers, InCancel
      <3>2. DeinitAlone'
        BY <2>f, <3>1 DEF IInv, DeinitAlone
      <3>3. DeinitDequeued'
        BY <2>d, <2>f, Zenon DEF IInv, DeinitDequeued
      <3>4. \A d \in Clients : d # c /\ item[d] = w => op[c] # "deinit"
        BY <1>0, <1>a, Zenon DEF IInv, DeinitAlone, InCancel
      <3>5. \A d \in Clients : d # c /\ item[d] \in Works /\ handler[item[d]] => handler'[item[d]]
        BY <1>a, <2>a, <3>4, Zenon DEF IInv, TypeOK
      <3>6. Cancellers'
        BY <2>c, <2>f, <3>1, <3>5, Zenon DEF IInv, Cancellers
      <3> QED
        BY <3>2, <3>3, <3>6, Zenon
    <2>4. Submitting'
      <3> SUFFICES ASSUME NEW d \in Clients, pc'[d] = "submit"
                   PROVE  /\ item'[d] \in Works /\ target'[d] \in Targets[item'[d]]
                          /\ op'[d] \in {"submit", "submit_delayed"}
                          /\ running'[target'[d]] /\ Len(queue'[target'[d]]) < MaxPending
                          /\ handler'[item'[d]] /\ wq'[item'[d]] = NULL
                          /\ ~pending'[item'[d]] /\ ~in_progress'[item'[d]]
        BY Zenon DEF Submitting
      <3>1. /\ pc[d] = "submit" /\ op'[d] = op[d] /\ item'[d] = item[d] /\ target'[d] = target[d]
            /\ item[d] # w /\ target[d] # q
        BY <1>d, <2>f, Zenon
      <3>2. /\ item[d] \in Works /\ target[d] \in Targets[item[d]]
            /\ op[d] \in {"submit", "submit_delayed"}
            /\ running[target[d]] /\ Len(queue[target[d]]) < MaxPending
            /\ handler[item[d]] /\ wq[item[d]] = NULL
            /\ ~pending[item[d]] /\ ~in_progress[item[d]]
        BY <3>1, Zenon DEF IInv, Submitting
      <3>3. queue'[target[d]] = queue[target[d]]
        BY <1>e, <3>1, <3>2, WorkqueueAssumption, Zenon
      <3>4. /\ wq'[item[d]] = NULL /\ ~pending'[item[d]] /\ handler'[item[d]]
        BY <2>a, <2>b, <2>c, <3>1, <3>2, Zenon DEF IInv, TypeOK
      <3> QED
        BY <2>c, <3>1, <3>2, <3>3, <3>4, Zenon
    <2>5. WorkerState' /\ WorkerSleepsIdle'
      <3>1. running' = running /\ cur' = cur
        BY <2>c, Zenon
      <3> QED
        BY <2>e, <2>f, <3>1, Zenon DEF IInv, WorkerState, WorkerSleepsIdle
    <2>6. InProgress' /\ HomeQueue'
      <3>1. cur' = cur /\ in_progress' = in_progress
        BY <2>c, Zenon
      <3>2. InProgress'
        BY <3>1, Zenon DEF IInv, InProgress
      <3>3. HomeQueue'
        BY <2>g, Zenon DEF IInv, HomeQueue
      <3> QED
        BY <3>2, <3>3, Zenon
    <2>7. SlotsDistinct'
      BY <2>c, <2>d, <2>e, ZenonT(60) DEF IInv, SlotsDistinct, NoRepeats
    <2>8. PendingState'
      <3>1. cur' = cur /\ \A p \in Queues : cur[p] \in Works \cup {NULL}
        BY <2>c, Zenon DEF IInv, TypeOK
      <3>2. cancelled' \subseteq cancelled \cup {w} /\ cancelled \subseteq Works
        BY <2>c, Zenon DEF IInv, TypeOK
      <3>3. \A p \in Queues : pc[p] \in {"handler", "finish"} => cur[p] \in Works \ {w}
        BY <2>b, <3>1, Zenon DEF IInv, WorkerState
      <3> QED
        BY <2>d, <2>f, <2>g, <3>1, <3>2, <3>3 DEF IInv, PendingState
    <2>9. ReleasedUnreferenced' /\ BackpointerExact'
      <3>1. \A x \in Works \ {w} : \A p \in Queues : Referenced(x, p)' <=> Referenced(x, p)
        BY <2>c, <2>d, Zenon DEF Referenced
      <3>2. \A p \in Queues : ~Referenced(w, p)' /\ wq'[w] # p
        BY <2>b, <2>c, <2>g, WorkqueueAssumption, Zenon DEF Referenced
      <3>3. ReleasedUnreferenced'
        BY <2>g, <3>1, <3>2, Zenon DEF IInv, ReleasedUnreferenced
      <3>4. BackpointerExact'
        BY <2>g, <3>1, <3>2, Zenon DEF IInv, BackpointerExact
      <3> QED
        BY <3>3, <3>4, Zenon
    <2>10. CancelledNeverRuns'
      <3>1. cur' = cur /\ cancelled' \subseteq cancelled \cup {w}
        BY <2>c, Zenon
      <3> QED
        BY <2>b, <2>f, <3>1, Zenon DEF IInv, CancelledNeverRuns
    <2>11. CancellerWillBeWoken'
      BY <2>c, <2>f, Zenon DEF IInv, CancellerWillBeWoken
    <2> QED
      BY <2>1, <2>2, <2>3, <2>4, <2>5, <2>6, <2>7, <2>8, <2>9, <2>10, <2>11, Zenon DEF IInv
  <1>2. CASE in_progress[w]
    <2>a. pc' = [pc EXCEPT ![c] = "wait"] /\ UNCHANGED <<op, item, target, handler>>
      BY <1>0, <1>b, <1>2, Zenon DEF AwaitHandler
    <2>b. cur[q] = w
      BY <1>a, <1>c, <1>2, Zenon DEF IInv, InProgress
    <2>c. \A p \in Queues : ~Queued(w, p)
      BY <1>a, <1>c, <2>b, Zenon DEF IInv, SlotsDistinct
    <2>d. UNCHANGED <<queue, wq>>
      BY <1>a, <1>b, <2>c, Zenon DEF Dequeue, Queued
    <2>e. \A x, p : Queued(x, p)' <=> Queued(x, p)
      BY <2>d, Zenon DEF Queued
    <2>f. /\ UNCHANGED <<lock, running, in_progress, delayed, cur, execute>>
          /\ pending' = [pending EXCEPT ![w] = FALSE]
          /\ cancelled' = IF pending[w] THEN cancelled \cup {w} ELSE cancelled
      BY <1>b, Zenon
    <2>1. TypeOK'
      BY <1>a, <2>a, <2>d, <2>f, Zenon DEF IInv, TypeOK, Threads, WorkerStates, ClientStates
    <2>g. /\ pc'[c] = "wait" /\ \A d \in Clients \ {c} : pc'[d] = pc[d]
          /\ \A p \in Queues : pc'[p] = pc[p]
      <3>1. pc \in [Threads -> WorkerStates \cup ClientStates] /\ c \notin Queues
        BY WorkqueueAssumption, Zenon DEF IInv, TypeOK
      <3> QED
        BY <2>a, <3>1, Zenon DEF Threads
    <2>h. ~pending'[w] /\ \A x \in Works \ {w} : pending'[x] = pending[x]
      BY <1>a, <2>f, Zenon DEF IInv, TypeOK
    <2>i. UNCHANGED <<lock, queue, running, wq, in_progress, handler, cur, op, item, target>>
      BY <2>a, <2>d, <2>f, Zenon
    <2>2. Holding' /\ Cancellers' /\ Others' /\ DeinitAlone' /\ DeinitDequeued'
      <3>1. \A d \in Clients : /\ InCancel(d)' => InCancel(d)
                               /\ pc'[d] = "submit" <=> pc[d] = "submit"
                               /\ pc'[d] \in {"idle", "join"} => pc'[d] = pc[d]
                               /\ pc'[d] \in {"wait", "loop"} => d = c \/ pc[d] \in {"wait", "loop"}
        BY <1>a, <2>g, Zenon DEF InCancel
      <3>2. Holding'
        BY <2>i, <3>1 DEF IInv, Holding
      <3>3. Cancellers' /\ DeinitAlone'
        BY <2>i, <3>1, Zenon DEF IInv, Cancellers, DeinitAlone
      <3>4. Others'
        BY <2>i, <3>1, Zenon DEF IInv, Others
      <3>5. DeinitDequeued'
        BY <1>0, <2>c, <2>e, <2>i, <3>1, Zenon DEF IInv, DeinitDequeued
      <3> QED
        BY <3>2, <3>3, <3>4, <3>5, Zenon
    <2>3. Submitting'
      <3>1. \A d \in Clients : pc'[d] = "submit" => d # c /\ pc[d] = "submit" /\ item[d] # w
        BY <1>d, <2>g, Zenon
      <3> QED
        BY <2>h, <2>i, <3>1, Zenon DEF IInv, Submitting
    <2>4. WorkerState' /\ InProgress' /\ HomeQueue' /\ SlotsDistinct'
      BY <2>e, <2>g, <2>i DEF IInv, WorkerState, InProgress, HomeQueue, SlotsDistinct
    <2>5. PendingState'
      <3>1. \A p \in Queues : cur[p] \in Works \cup {NULL}
        BY Zenon DEF IInv, TypeOK
      <3>2. \A p \in Queues : pc[p] \in {"handler", "finish"} => cur[p] \in Works
        BY <3>1, Zenon DEF IInv, WorkerState
      <3>3. cancelled' \subseteq cancelled \cup {w} /\ cancelled \subseteq Works
        BY <2>f, Zenon DEF IInv, TypeOK
      <3>4. \A x \in Works : pending'[x] => pending[x]
        BY <2>h, Zenon
      <3> QED
        BY <2>c, <2>e, <2>g, <2>h, <2>i, <3>2, <3>3, <3>4, Zenon DEF IInv, PendingState
    <2>6. BackpointerExact' /\ ReleasedUnreferenced'
      BY <2>e, <2>i, Zenon DEF IInv, BackpointerExact, Referenced, ReleasedUnreferenced
    <2>7. WorkerSleepsIdle' /\ CancellerWillBeWoken'
      BY <1>0, <2>b, <2>g, <2>i, Zenon DEF IInv, WorkerSleepsIdle, CancellerWillBeWoken
    <2>8. CancelledNeverRuns'
      <3>1. pending[w] => pc[q] # "handler" /\ \A p \in Queues \ {q} : cur[p] # w
        BY <1>a, <1>c, <2>b, Zenon DEF IInv, PendingState
      <3> QED
        BY <2>b, <2>f, <2>g, <2>i, <3>1, Zenon DEF IInv, CancelledNeverRuns
    <2> QED
      BY <2>1, <2>2, <2>3, <2>4, <2>5, <2>6, <2>7, <2>8, Zenon DEF IInv
  <1> QED
    BY <1>1, <1>2, Zenon

(* The invariant holds when nothing has been initialised yet. *)
LEMMA InitInv == Init => IInv
  <1> SUFFICES ASSUME Init PROVE IInv
    BY Zenon
  <1>1. TypeOK
    BY WorkqueueAssumption DEF Init, TypeOK, Threads, WorkerStates, ClientStates
  <1>2. Holding /\ Submitting /\ Cancellers /\ Others /\ DeinitAlone /\ DeinitDequeued
    BY WorkqueueAssumption, Zenon DEF Init, Threads, Holding, Submitting, Cancellers, Others,
       DeinitAlone,
       DeinitDequeued, InCancel
  <1>3. WorkerState /\ InProgress /\ HomeQueue /\ SlotsDistinct /\ PendingState
    BY WorkqueueAssumption DEF Init, Threads, WorkerState, InProgress, HomeQueue, SlotsDistinct,
       PendingState, Queued
  <1>4. BackpointerExact /\ ReleasedUnreferenced /\ WorkerSleepsIdle /\ CancellerWillBeWoken
        /\ CancelledNeverRuns
    BY WorkqueueAssumption DEF Init, Threads, BackpointerExact, ReleasedUnreferenced, Referenced,
       Queued,
       WorkerSleepsIdle, CancellerWillBeWoken, CancelledNeverRuns
  <1> QED
    BY <1>1, <1>2, <1>3, <1>4, Zenon DEF IInv

(* Every step, and stuttering, preserves the invariant. *)
LEMMA NextInv ==
    ASSUME IInv, SingleTarget, [Next]_vars
    PROVE  IInv'
  <1>1. ASSUME NEW q \in Queues, Worker(q) PROVE IInv'
    BY <1>1, LoopStep, SleptStep, RecheckStep, HandlerStep, FinishStep, Zenon DEF Worker
  <1>2. ASSUME NEW c \in Clients, Call(c) PROVE IInv'
    BY <1>2, QueueInitStep, QueueDeinitStep, WorkInitStep, SubmitTestStep, CancelLoadStep, Zenon
       DEF Call
  <1>3. ASSUME NEW c \in Clients, Continue(c) PROVE IInv'
    BY <1>3, SubmitStoreStep, CancelLockedStep, CancelWokenStep, JoinedStep, Zenon DEF Continue
  <1>4. ASSUME NEW t \in Threads, SpuriousWakeup(t) PROVE IInv'
    BY <1>4, SpuriousStep, Zenon
  <1>5. CASE UNCHANGED vars
    BY <1>5, StutterStep, Zenon
  <1> QED
    BY <1>1, <1>2, <1>3, <1>4, <1>5, Zenon DEF Next

(* With one target queue per item the invariant holds throughout. *)
THEOREM WorkqueueInductive == SingleTarget => (Spec => []IInv)
  <1> SUFFICES ASSUME SingleTarget PROVE Spec => []IInv
    BY Zenon
  <1>1. Init => IInv
    BY InitInv, Zenon
  <1>2. IInv /\ [Next]_vars => IInv'
    BY NextInv, Zenon
  <1> QED
    BY <1>1, <1>2, PTL DEF Spec

(* The state stays well typed; in particular no queue exceeds OVE_WQ_MAX_PENDING slots. *)
THEOREM WorkqueueType == SingleTarget => (Spec => []TypeOK)
  <1>1. IInv => TypeOK
    BY Zenon DEF IInv
  <1> QED
    BY <1>1, WorkqueueInductive, PTL

(* An accepted item is in one slot of one queue or in the hands of one worker, never twice
   (the OVE_ERR_BUSY tests of ove_work_submit). *)
THEOREM WorkqueueQueuedOnce == SingleTarget => (Spec => []QueuedOnce)
  <1>1. IInv => QueuedOnce
    <2> SUFFICES ASSUME IInv PROVE QueuedOnce
      BY Zenon
    <2>1. BackpointerExact /\ SlotsDistinct
      BY Zenon DEF IInv
    <2>2. \A w \in Works : \A p, q \in Queues : Referenced(w, p) /\ Referenced(w, q) => p = q
      BY <2>1, Zenon DEF BackpointerExact
    <2>3. \A w \in Works : \A p, q \in Queues : Queued(w, p) => cur[q] # w
      BY <2>1, <2>2, Zenon DEF Referenced, SlotsDistinct
    <2>4. \A q \in Queues : \A i, j \in 1..Len(queue[q]) : queue[q][i] = queue[q][j] => i = j
      BY <2>1, Zenon DEF SlotsDistinct
    <2> QED
      BY ZenonT(60), <2>2, <2>3, <2>4 DEF QueuedOnce
  <1> QED
    BY <1>1, WorkqueueInductive, PTL

(* The backpointer w->wq that ove_work_cancel loads without a lock names exactly the queue
   that refers to the item. *)
THEOREM WorkqueueBackpointerExact == SingleTarget => (Spec => []BackpointerExact)
  <1>1. IInv => BackpointerExact
    BY Zenon DEF IInv
  <1> QED
    BY <1>1, WorkqueueInductive, PTL

(* Once ove_work_deinit has returned, no queue and no worker refers to the item. *)
THEOREM WorkqueueReleasedUnreferenced == SingleTarget => (Spec => []ReleasedUnreferenced)
  <1>1. IInv => ReleasedUnreferenced
    BY Zenon DEF IInv
  <1> QED
    BY <1>1, WorkqueueInductive, PTL

(* The worker sleeps only with nothing to do: no signal of ove_work_submit or
   ove_workqueue_deinit on the shared condition variable goes to a canceller instead. *)
THEOREM WorkqueueWorkerSleepsIdle == SingleTarget => (Spec => []WorkerSleepsIdle)
  <1>1. IInv => WorkerSleepsIdle
    BY Zenon DEF IInv
  <1> QED
    BY <1>1, WorkqueueInductive, PTL

(* A canceller asleep in ove_work_cancel has the broadcast of the worker to come. *)
THEOREM WorkqueueCancellerWillBeWoken == SingleTarget => (Spec => []CancellerWillBeWoken)
  <1>1. IInv => CancellerWillBeWoken
    BY Zenon DEF IInv
  <1> QED
    BY <1>1, WorkqueueInductive, PTL

(* A submission that ove_work_cancel has taken back never runs, though the worker may have
   the item in hand already. *)
THEOREM WorkqueueCancelledNeverRuns == SingleTarget => (Spec => []CancelledNeverRuns)
  <1>1. IInv => CancelledNeverRuns
    BY Zenon DEF IInv
  <1> QED
    BY <1>1, WorkqueueInductive, PTL

(* When ove_workqueue_deinit destroys a queue nothing refers to it. *)
THEOREM WorkqueueDrainedBeforeDestroy == SingleTarget => (Spec => []DrainedBeforeDestroy)
  <1>1. IInv => DrainedBeforeDestroy
    <2> SUFFICES ASSUME IInv PROVE DrainedBeforeDestroy
      BY Zenon
    <2>1. ASSUME NEW q \in Queues, pc[q] \in {"exited", "none"}, NEW w \in Works
          PROVE  ~Referenced(w, q)
      <3>1. queue[q] = <<>> /\ cur[q] = NULL
        BY <2>1, Zenon DEF IInv, WorkerState
      <3> QED
        BY <3>1, WorkqueueAssumption DEF Referenced, Queued
    <2> QED
      BY <2>1, Zenon DEF IInv, BackpointerExact, DrainedBeforeDestroy
  <1> QED
    BY <1>1, WorkqueueInductive, PTL
=============================================================================
