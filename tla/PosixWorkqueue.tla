--------------------------- MODULE PosixWorkqueue ---------------------------
(***************************************************************************)
(* Work queues of the POSIX backend (backends/posix/posix_workqueue.c).    *)
(*                                                                         *)
(* A queue owns one worker thread; clients submit, cancel and deinitialise *)
(* work items.  A step is a critical section of the queue's mutex, or a    *)
(* piece of code between two of them.  The worker of queue q is the thread *)
(* q itself, so that one `pc' and one wait set per condition variable      *)
(* cover workers and clients alike: cancellers sleep on the same condition *)
(* variable as the worker.                                                 *)
(***************************************************************************)
EXTENDS Naturals, Sequences

CONSTANTS Queues,      \* work queues, each also naming its worker thread
          Works,       \* work items
          Clients,     \* application threads calling the API
          Submitters,  \* the clients that submit
          MaxPending,  \* OVE_WQ_MAX_PENDING
          Targets,     \* [Works -> SUBSET Queues]: the queues a client submits an item to
          NULL

ASSUME WorkqueueAssumption ==
    /\ MaxPending \in Nat \ {0}
    /\ Targets \in [Works -> SUBSET Queues]
    /\ Submitters \subseteq Clients
    /\ Queues \cap Clients = {}
    /\ NULL \notin Queues \cup Works \cup Clients

VARIABLES lock,         \* wq->lock: holder kept only while a section spans two steps
          queue,        \* wq->queue[0 .. count-1]
          running,      \* wq->running
          wq,           \* w->wq
          pending,      \* w->pending
          in_progress,  \* w->in_progress
          delayed,      \* w->delay_ms > 0
          handler,      \* w->handler # NULL; FALSE is also "storage given back"
          pc,           \* where each worker and each client is
          cur,          \* the worker's local w
          execute,      \* the worker's local execute
          op,           \* the client's call: cancel or deinit
          item,         \* the client's local w
          target,       \* the client's local wq
          cancelled     \* history: items whose last submission a cancel took back

vars == <<lock, queue, running, wq, pending, in_progress, delayed, handler,
          pc, cur, execute, op, item, target, cancelled>>

workVars   == <<wq, pending, in_progress, delayed, handler>>
clientVars == <<op, item, target>>
workerVars == <<cur, execute>>

Threads == Queues \cup Clients

WorkerStates == {"none", "loop", "wait", "delay", "recheck", "handler", "finish", "exited"}
ClientStates == {"idle", "submit", "cancel", "wait", "loop", "join"}

TypeOK ==
    /\ lock \in [Queues -> Clients \cup {NULL}]
    /\ queue \in [Queues -> Seq(Works)]
    /\ \A q \in Queues : Len(queue[q]) <= MaxPending
    /\ running \in [Queues -> BOOLEAN]
    /\ wq \in [Works -> Queues \cup {NULL}]
    /\ pending \in [Works -> BOOLEAN]
    /\ in_progress \in [Works -> BOOLEAN]
    /\ delayed \in [Works -> BOOLEAN]
    /\ handler \in [Works -> BOOLEAN]
    /\ pc \in [Threads -> WorkerStates \cup ClientStates]
    /\ \A q \in Queues : pc[q] \in WorkerStates
    /\ \A c \in Clients : pc[c] \in ClientStates
    /\ cur \in [Queues -> Works \cup {NULL}]
    /\ execute \in [Queues -> BOOLEAN]
    /\ op \in [Clients -> {"none", "submit", "submit_delayed", "cancel", "deinit"}]
    /\ item \in [Clients -> Works \cup {NULL}]
    /\ target \in [Clients -> Queues \cup {NULL}]
    /\ cancelled \subseteq Works

Init ==
    /\ lock = [q \in Queues |-> NULL]
    /\ queue = [q \in Queues |-> <<>>]
    /\ running = [q \in Queues |-> FALSE]
    /\ wq = [w \in Works |-> NULL]
    /\ pending = [w \in Works |-> FALSE]
    /\ in_progress = [w \in Works |-> FALSE]
    /\ delayed = [w \in Works |-> FALSE]
    /\ handler = [w \in Works |-> FALSE]
    /\ pc = [t \in Threads |-> IF t \in Queues THEN "none" ELSE "idle"]
    /\ cur = [q \in Queues |-> NULL]
    /\ execute = [q \in Queues |-> FALSE]
    /\ op = [c \in Clients |-> "none"]
    /\ item = [c \in Clients |-> NULL]
    /\ target = [c \in Clients |-> NULL]
    /\ cancelled = {}

-----------------------------------------------------------------------------
(* The condition variable wq->cond.  Worker q waits on q, client c on target[c]. *)

Sleepers(q) == {t \in Threads : pc[t] = "wait" /\ (t = q \/ (t \in Clients /\ target[t] = q))}

(* Mutant of Signal: the wakeup is dropped. *)
SignalDropped(q, pcs) == pc' = pcs

(* pthread_cond_signal: one sleeper, any one, resumes; no effect if none sleeps.
   `pcs' is pc with the caller's own move already made. *)
Signal(q, pcs) ==
    \/ Sleepers(q) = {} /\ pc' = pcs
    \/ \E t \in Sleepers(q) : pc' = [pcs EXCEPT ![t] = "loop"]

(* pthread_cond_broadcast: every sleeper resumes. *)
Broadcast(q, pcs) == pc' = [t \in Threads |-> IF t \in Sleepers(q) THEN "loop" ELSE pcs[t]]

(* POSIX lets pthread_cond_wait return although nobody signalled. *)
SpuriousWakeup(t) ==
    /\ pc[t] = "wait"
    /\ pc' = [pc EXCEPT ![t] = "loop"]
    /\ UNCHANGED <<lock, queue, running, workVars, workerVars, clientVars, cancelled>>

Free(q) == lock[q] = NULL

Queued(w, q) == \E i \in 1..Len(queue[q]) : queue[q][i] = w

-----------------------------------------------------------------------------
(* The worker: wq_thread_func. *)

WorkerWait(q) ==
    /\ queue[q] = <<>> /\ running[q]
    /\ pc' = [pc EXCEPT ![q] = "wait"]
    /\ UNCHANGED <<queue, in_progress, workerVars>>

(* Mutant of WorkerExit: leaves without looking at what is still queued. *)
WorkerExitUndrained(q) ==
    /\ ~running[q]
    /\ pc' = [pc EXCEPT ![q] = "exited"]
    /\ UNCHANGED <<queue, in_progress, workerVars>>

WorkerExit(q) ==
    /\ queue[q] = <<>> /\ ~running[q]
    /\ pc' = [pc EXCEPT ![q] = "exited"]
    /\ UNCHANGED <<queue, in_progress, workerVars>>

WorkerDequeue(q) ==
    /\ queue[q] # <<>>
    /\ LET w == Head(queue[q]) IN
        /\ queue' = [queue EXCEPT ![q] = Tail(@)]
        /\ in_progress' = [in_progress EXCEPT ![w] = TRUE]
        /\ cur' = [cur EXCEPT ![q] = w]
        /\ execute' = [execute EXCEPT ![q] = running[q]]
        /\ pc' = [pc EXCEPT ![q] = IF running[q] /\ delayed[w] THEN "delay" ELSE "recheck"]

(* One pass through the loop head, under the lock. *)
WorkerLoop(q) ==
    /\ pc[q] = "loop" /\ Free(q)
    /\ WorkerWait(q) \/ WorkerExit(q) \/ WorkerDequeue(q)
    /\ UNCHANGED <<lock, running, wq, pending, delayed, handler, clientVars, cancelled>>

WorkerSlept(q) ==
    /\ pc[q] = "delay"
    /\ pc' = [pc EXCEPT ![q] = "recheck"]
    /\ UNCHANGED <<lock, queue, running, workVars, workerVars, clientVars, cancelled>>

(* Mutant of WorkerRecheck: pending is not read again after the delay. *)
WorkerRecheckSkipped(q) ==
    /\ pc[q] = "recheck" /\ Free(q)
    /\ pending' = [pending EXCEPT ![cur[q]] = FALSE]
    /\ pc' = [pc EXCEPT ![q] = IF execute[q] /\ handler[cur[q]] THEN "handler" ELSE "finish"]
    /\ UNCHANGED <<lock, queue, running, wq, in_progress, delayed, handler,
                   workerVars, clientVars, cancelled>>

(* still_pending is read and cleared under the lock and used at once after it:
   nothing another thread may do changes the local. *)
WorkerRecheck(q) ==
    /\ pc[q] = "recheck" /\ Free(q)
    /\ LET w == cur[q] IN
        /\ pending' = [pending EXCEPT ![w] = FALSE]
        /\ pc' = [pc EXCEPT ![q] = IF execute[q] /\ pending[w] /\ handler[w]
                                   THEN "handler" ELSE "finish"]
    /\ UNCHANGED <<lock, queue, running, wq, in_progress, delayed, handler,
                   workerVars, clientVars, cancelled>>

WorkerHandlerReturns(q) ==
    /\ pc[q] = "handler"
    /\ pc' = [pc EXCEPT ![q] = "finish"]
    /\ UNCHANGED <<lock, queue, running, workVars, workerVars, clientVars, cancelled>>

(* Mutants of WorkerFinish: one waiter is woken instead of all; the
   backpointer is left behind. *)
WorkerFinishSignals(q) ==
    /\ pc[q] = "finish" /\ Free(q)
    /\ in_progress' = [in_progress EXCEPT ![cur[q]] = FALSE]
    /\ wq' = [wq EXCEPT ![cur[q]] = NULL]
    /\ cur' = [cur EXCEPT ![q] = NULL]
    /\ Signal(q, [pc EXCEPT ![q] = "loop"])
    /\ UNCHANGED <<lock, queue, running, pending, delayed, handler, execute,
                   clientVars, cancelled>>

WorkerFinishKeepsWq(q) ==
    /\ pc[q] = "finish" /\ Free(q)
    /\ in_progress' = [in_progress EXCEPT ![cur[q]] = FALSE]
    /\ cur' = [cur EXCEPT ![q] = NULL]
    /\ Broadcast(q, [pc EXCEPT ![q] = "loop"])
    /\ UNCHANGED <<lock, queue, running, wq, pending, delayed, handler, execute,
                   clientVars, cancelled>>

WorkerFinish(q) ==
    /\ pc[q] = "finish" /\ Free(q)
    /\ in_progress' = [in_progress EXCEPT ![cur[q]] = FALSE]
    /\ wq' = [wq EXCEPT ![cur[q]] = NULL]
    /\ cur' = [cur EXCEPT ![q] = NULL]
    /\ Broadcast(q, [pc EXCEPT ![q] = "loop"])
    /\ UNCHANGED <<lock, queue, running, pending, delayed, handler, execute,
                   clientVars, cancelled>>

-----------------------------------------------------------------------------
(* Life of a queue.  The header asks for a queue that outlives every cancel on
   it, so ove_workqueue_deinit is called when no canceller is using the queue. *)

Cancelling(q) == {c \in Clients : pc[c] \in {"cancel", "wait", "loop"} /\ target[c] = q}

ove_workqueue_init(c, q) ==
    /\ pc[c] = "idle" /\ pc[q] = "none"
    /\ running' = [running EXCEPT ![q] = TRUE]
    /\ queue' = [queue EXCEPT ![q] = <<>>]
    /\ pc' = [pc EXCEPT ![q] = "loop"]
    /\ UNCHANGED <<lock, workVars, workerVars, clientVars, cancelled>>

(* Mutant of ove_workqueue_deinit: running is cleared and the worker not told. *)
DeinitSilent(c, q) ==
    /\ pc[c] = "idle" /\ pc[q] # "none" /\ running[q] /\ Free(q) /\ Cancelling(q) = {}
    /\ running' = [running EXCEPT ![q] = FALSE]
    /\ target' = [target EXCEPT ![c] = q]
    /\ pc' = [pc EXCEPT ![c] = "join"]
    /\ UNCHANGED <<lock, queue, workVars, workerVars, op, item, cancelled>>

ove_workqueue_deinit(c, q) ==
    /\ pc[c] = "idle" /\ pc[q] # "none" /\ running[q] /\ Free(q) /\ Cancelling(q) = {}
    /\ running' = [running EXCEPT ![q] = FALSE]
    /\ target' = [target EXCEPT ![c] = q]
    /\ Signal(q, [pc EXCEPT ![c] = "join"])
    /\ UNCHANGED <<lock, queue, workVars, workerVars, op, item, cancelled>>

(* pthread_join has returned; the mutex and the condition variable are destroyed. *)
Joined(c) ==
    /\ pc[c] = "join" /\ pc[target[c]] = "exited"
    /\ pc' = [pc EXCEPT ![c] = "idle", ![target[c]] = "none"]
    /\ target' = [target EXCEPT ![c] = NULL]
    /\ UNCHANGED <<lock, queue, running, workVars, workerVars, op, item, cancelled>>

-----------------------------------------------------------------------------
(* Work items.  `handler' is set from ove_work_init_static to ove_work_deinit;
   storage is (re)initialised and deinitialised by a client that is alone with
   the item. *)

Using(w) == {c \in Clients : pc[c] # "idle" /\ item[c] = w}

ove_work_init_static(c, w) ==
    /\ pc[c] = "idle" /\ ~handler[w] /\ Using(w) = {}
    /\ handler' = [handler EXCEPT ![w] = TRUE]
    /\ wq' = [wq EXCEPT ![w] = NULL]
    /\ pending' = [pending EXCEPT ![w] = FALSE]
    /\ in_progress' = [in_progress EXCEPT ![w] = FALSE]
    /\ delayed' = [delayed EXCEPT ![w] = FALSE]
    /\ UNCHANGED <<lock, queue, running, pc, workerVars, clientVars, cancelled>>

SubmitBusy(q, w) == ~running[q] \/ wq[w] # NULL \/ pending[w] \/ in_progress[w]
SubmitFull(q)    == Len(queue[q]) >= MaxPending

(* ove_work_submit and ove_work_submit_delayed, first half: the tests under the
   target's lock.  A refusal (OVE_ERR_BUSY, OVE_ERR_NO_MEMORY) changes nothing.
   The fields of the item are not guarded by any lock of the item's own, so the
   tests and the stores are two steps for a client of another queue. *)
SubmitTest(c, q, w, d) ==
    /\ c \in Submitters /\ q \in Targets[w] /\ handler[w]
    /\ pc[c] = "idle" /\ pc[q] \notin {"none", "exited"} /\ Free(q)
    /\ ~SubmitBusy(q, w) /\ ~SubmitFull(q)
    /\ \A o \in Using(w) : op[o] # "deinit"
    /\ lock' = [lock EXCEPT ![q] = c]
    /\ pc' = [pc EXCEPT ![c] = "submit"]
    /\ op' = [op EXCEPT ![c] = IF d THEN "submit_delayed" ELSE "submit"]
    /\ item' = [item EXCEPT ![c] = w]
    /\ target' = [target EXCEPT ![c] = q]
    /\ UNCHANGED <<queue, running, workVars, workerVars, cancelled>>

SubmitStore(c) ==
    /\ pc[c] = "submit"
    /\ LET w == item[c]
           q == target[c] IN
        /\ delayed' = [delayed EXCEPT ![w] = IF op[c] = "submit_delayed" THEN TRUE ELSE FALSE]
        /\ wq' = [wq EXCEPT ![w] = q]
        /\ pending' = [pending EXCEPT ![w] = TRUE]
        /\ queue' = [queue EXCEPT ![q] = Append(@, w)]
        /\ lock' = [lock EXCEPT ![q] = NULL]
        /\ Signal(q, [pc EXCEPT ![c] = "idle"])
        /\ cancelled' = cancelled \ {w}
    /\ op' = [op EXCEPT ![c] = "none"]
    /\ item' = [item EXCEPT ![c] = NULL]
    /\ target' = [target EXCEPT ![c] = NULL]
    /\ UNCHANGED <<running, in_progress, handler, workerVars>>

(* The end of ove_work_cancel and, for a deinit, of ove_work_deinit. *)
Return(c, w, o) ==
    /\ op' = [op EXCEPT ![c] = "none"]
    /\ item' = [item EXCEPT ![c] = NULL]
    /\ target' = [target EXCEPT ![c] = NULL]
    /\ handler' = IF o = "deinit" THEN [handler EXCEPT ![w] = FALSE] ELSE handler
    /\ pc' = [pc EXCEPT ![c] = "idle"]

(* ove_work_cancel / ove_work_deinit up to the unlocked load of w->wq. *)
CancelLoad(c, w, o) ==
    /\ pc[c] = "idle" /\ handler[w]
    /\ wq[w] # NULL => running[wq[w]]
    /\ o = "deinit" => Using(w) = {}
    /\ \A u \in Using(w) : op[u] # "deinit"
    /\ \/ wq[w] = NULL /\ Return(c, w, o)
       \/ /\ wq[w] # NULL
          /\ op' = [op EXCEPT ![c] = o]
          /\ item' = [item EXCEPT ![c] = w]
          /\ target' = [target EXCEPT ![c] = wq[w]]
          /\ pc' = [pc EXCEPT ![c] = "cancel"]
          /\ UNCHANGED handler
    /\ UNCHANGED <<lock, queue, running, wq, pending, in_progress, delayed,
                   workerVars, cancelled>>

(* Mutant of AwaitHandler: returns while the handler runs. *)
AwaitNobody(c) == Return(c, item[c], op[c])

(* while (w->in_progress) pthread_cond_wait(...): sleep, or leave the function. *)
AwaitHandler(c) ==
    \/ /\ in_progress[item[c]]
       /\ pc' = [pc EXCEPT ![c] = "wait"]
       /\ UNCHANGED <<op, item, target, handler>>
    \/ ~in_progress[item[c]] /\ Return(c, item[c], op[c])

(* The search loop: the first slot that holds the item is closed with a memmove. *)
Dequeue(q, w) ==
    \/ /\ ~Queued(w, q)
       /\ UNCHANGED <<queue, wq>>
    \/ \E i \in 1..Len(queue[q]) :
           /\ queue[q][i] = w
           /\ \A j \in 1..(i - 1) : queue[q][j] # w
           /\ queue' = [queue EXCEPT ![q] = SubSeq(@, 1, i - 1) \o SubSeq(@, i + 1, Len(@))]
           /\ wq' = [wq EXCEPT ![w] = NULL]

CancelLocked(c) ==
    /\ pc[c] = "cancel" /\ Free(target[c])
    /\ LET w == item[c] IN
        /\ pending' = [pending EXCEPT ![w] = FALSE]
        /\ cancelled' = IF pending[w] THEN cancelled \cup {w} ELSE cancelled
        /\ Dequeue(target[c], w)
    /\ AwaitHandler(c)
    /\ UNCHANGED <<lock, running, in_progress, delayed, workerVars>>

CancelWoken(c) ==
    /\ pc[c] = "loop" /\ Free(target[c])
    /\ AwaitHandler(c)
    /\ UNCHANGED <<lock, queue, running, wq, pending, in_progress, delayed,
                   workerVars, cancelled>>

-----------------------------------------------------------------------------
Worker(q) ==
    \/ WorkerLoop(q) \/ WorkerSlept(q) \/ WorkerRecheck(q)
    \/ WorkerHandlerReturns(q) \/ WorkerFinish(q)

(* A call that has begun runs on. *)
Continue(c) == SubmitStore(c) \/ CancelLocked(c) \/ CancelWoken(c) \/ Joined(c)

Call(c) ==
    \/ \E q \in Queues : ove_workqueue_init(c, q) \/ ove_workqueue_deinit(c, q)
    \/ \E w \in Works : ove_work_init_static(c, w)
    \/ \E w \in Works, q \in Queues, d \in BOOLEAN : SubmitTest(c, q, w, d)
    \/ \E w \in Works, o \in {"cancel", "deinit"} : CancelLoad(c, w, o)

Next ==
    \/ \E q \in Queues : Worker(q)
    \/ \E c \in Clients : Call(c) \/ Continue(c)
    \/ \E t \in Threads : SpuriousWakeup(t)

Spec == Init /\ [][Next]_vars

(* The scheduler runs every runnable thread, handlers return, and a thread that
   keeps asking for a mutex that keeps being released gets it in the end. *)
Fairness ==
    /\ \A q \in Queues : SF_vars(Worker(q))
    /\ \A c \in Clients : SF_vars(Continue(c))

FairSpec == Spec /\ Fairness

-----------------------------------------------------------------------------
(* Properties. *)

Referenced(w, q) == Queued(w, q) \/ cur[q] = w

(* An accepted item is in one place: one slot of one queue, or in the hands of
   one worker, never both and never twice.  This is what the OVE_ERR_BUSY tests
   of ove_work_submit are for. *)
QueuedOnce ==
    /\ \A q \in Queues : \A i, j \in 1..Len(queue[q]) : queue[q][i] = queue[q][j] => i = j
    /\ \A w \in Works : \A p, q \in Queues : Queued(w, p) => cur[q] # w
    /\ \A w \in Works : \A p, q \in Queues : Referenced(w, p) /\ Referenced(w, q) => p = q

(* The backpointer w->wq, which ove_work_cancel trusts without a lock, names
   exactly the queue that still refers to the item: NULL means that the worker
   has made its last access. *)
BackpointerExact ==
    \A w \in Works, q \in Queues : wq[w] = q <=> Referenced(w, q)

(* Once ove_work_deinit has returned (and until the item is initialised anew)
   no queue and no worker refers to the item's storage. *)
ReleasedUnreferenced ==
    \A w \in Works, q \in Queues : ~handler[w] => ~Referenced(w, q)

(* The worker sleeps on wq->cond only when it has nothing to do, although submit
   and deinit wake a single sleeper and cancellers sleep on the same condition
   variable. *)
WorkerSleepsIdle ==
    \A q \in Queues : pc[q] = "wait" => queue[q] = <<>> /\ running[q]

(* A canceller sleeps only while the worker of the queue whose condition variable
   it sleeps on has its item in hand, and so has the broadcast to come. *)
CancellerWillBeWoken ==
    \A c \in Clients : pc[c] = "wait" => cur[target[c]] = item[c]

(* A submission that ove_work_cancel reported as cancelled (it was pending)
   never has its handler called, even when the worker had already dequeued it. *)
CancelledNeverRuns ==
    \A q \in Queues : pc[q] = "handler" => cur[q] \notin cancelled

(* When ove_workqueue_deinit destroys the mutex and the condition variable no
   item refers to the queue any more, whatever was submitted while it drained. *)
DrainedBeforeDestroy ==
    \A q \in Queues : pc[q] \in {"exited", "none"} => \A w \in Works : wq[w] # q

(* Every accepted item comes back to its owner: run, cancelled or dropped by the
   draining of a deinitialised queue. *)
SubmittedComesBack == \A w \in Works : wq[w] # NULL ~> wq[w] = NULL

(* ove_work_cancel waits for a running handler and then returns, unless another client
   submits the item again in the meantime; ove_workqueue_deinit returns, since the worker
   sees running = 0 and exits. *)
CallsReturn ==
    \A c \in Clients :
        /\ pc[c] \in {"cancel", "wait", "loop"}
              ~> pc[c] = "idle" \/ (item[c] # NULL /\ pending[item[c]])
        /\ pc[c] = "join" ~> pc[c] = "idle"
=============================================================================
