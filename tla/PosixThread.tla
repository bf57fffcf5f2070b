---------------------------- MODULE PosixThread ----------------------------
(***************************************************************************)
(* A thread of the POSIX backend (backends/posix/posix_thread.c) and the   *)
(* event it sleeps on (backends/posix/posix_sync.c).  POSIX cannot suspend *)
(* a thread: ove_thread_suspend sends it SIGUSR1, whose handler marks it   *)
(* SUSPENDED and sleeps on a semaphore until a resume has changed the mark *)
(* and posted.  The handler may start between any two steps of the thread, *)
(* with the event's mutex held too.                                        *)
(*                                                                         *)
(* The managed thread waits for the event until it is asked to stop; the   *)
(* controllers suspend, resume, stop and join it, and use the event.  A    *)
(* step is one access of the shared words, or one critical section of the  *)
(* event between taking its mutex and letting it go.                       *)
(***************************************************************************)
EXTENDS Naturals

CONSTANTS Worker,        \* the managed thread
          Controllers,   \* the threads that hold its handle
          Waiters,       \* those of them that wait for the event as well
          MaxTokens,     \* bound on posts nobody has taken, when a resume begins
          None           \* nobody has the mutex

Threads == Controllers \cup {Worker}

ASSUME ThreadAssumption ==
    /\ Worker \notin Controllers /\ Waiters \subseteq Controllers /\ None \notin Threads
    /\ MaxTokens \in Nat

VARIABLES state, suspend_sem, stop_requested,   \* struct ove_thread
          pending,                              \* SIGUSR1 is pending for it
          handler,                              \* where sigusr1_handler is
          signaled, lock,                       \* struct ove_event
          at                                    \* where each thread is

thread == <<state, suspend_sem, stop_requested>>
signal == <<pending, handler>>
event == <<signaled, lock>>
thread_vars == <<thread, signal, event, at>>

(* Another thread has run before and has installed the handler for the process. *)
ThreadInit ==
    /\ state = "none" /\ suspend_sem = 0 /\ stop_requested = FALSE
    /\ pending = FALSE /\ handler = "none"
    /\ signaled = FALSE /\ lock = None
    /\ at = [t \in Threads |-> IF t = Worker THEN "none" ELSE "idle"]

Goto(t, from, to) == at[t] = from /\ at' = [at EXCEPT ![t] = to]

-----------------------------------------------------------------------------
(* SIGUSR1.  Its handler blocks the signal, so that one more may become pending
   meanwhile; in a thread that has not set tls_current yet it does nothing. *)

Deliver ==
    /\ pending /\ handler = "none"
    /\ pending' = FALSE
    /\ handler' = IF at[Worker] = "new" THEN "none" ELSE "mark"
    /\ UNCHANGED <<thread, event, at>>

Mark ==
    /\ handler = "mark" /\ handler' = "look"
    /\ state' = "SUSPENDED"
    /\ UNCHANGED <<suspend_sem, stop_requested, pending, event, at>>

(* Mutant of HandlerLoop: sleeps once, without looking again. *)
HandlerSleepsOnce ==
    /\ \/ handler = "look" /\ handler' = (IF state = "SUSPENDED" THEN "sleep" ELSE "none")
          /\ UNCHANGED suspend_sem
       \/ handler = "sleep" /\ handler' = "none"
          /\ suspend_sem > 0 /\ suspend_sem' = suspend_sem - 1
    /\ UNCHANGED <<state, stop_requested, pending, event, at>>

(* while (state == SUSPENDED) sem_wait(); *)
HandlerLoop ==
    /\ \/ handler = "look" /\ handler' = (IF state = "SUSPENDED" THEN "sleep" ELSE "none")
          /\ UNCHANGED suspend_sem
       \/ handler = "sleep" /\ handler' = "look"
          /\ suspend_sem > 0 /\ suspend_sem' = suspend_sem - 1
    /\ UNCHANGED <<state, stop_requested, pending, event, at>>

sigusr1_handler == Mark \/ HandlerLoop

-----------------------------------------------------------------------------
(* ove_event_wait, the same for the managed thread and the others; t goes on at Home(t). *)

Home(t) == IF t = Worker THEN "poll" ELSE "idle"

(* The state of a managed thread is kept up to date around its sleep. *)
SetState(t, s) == state' = IF t = Worker THEN s ELSE state

(* pthread_mutex_lock, on entry and on the return of pthread_cond_timedwait. *)
Acquire(t) ==
    /\ lock = None /\ lock' = t
    /\ \/ Goto(t, "lock", "test") /\ UNCHANGED state
       \/ Goto(t, "woken", "test") /\ SetState(t, "RUNNING")
       \/ Goto(t, "timedout", "expired") /\ SetState(t, "RUNNING")
    /\ UNCHANGED <<suspend_sem, stop_requested, signal, signaled>>

Consume(t) ==
    /\ signaled /\ signaled' = FALSE
    /\ lock' = None
    /\ at' = [at EXCEPT ![t] = Home(t)]
    /\ UNCHANGED state

Test(t) ==
    /\ at[t] = "test"
    /\ \/ Consume(t)
       \/ /\ ~signaled /\ Goto(t, "test", "wait")
          /\ SetState(t, "BLOCKED")
          /\ lock' = None /\ UNCHANGED signaled
    /\ UNCHANGED <<suspend_sem, stop_requested, signal>>

(* Mutant of Expired: returns OVE_ERR_TIMEOUT without another look at the event. *)
ExpiredAtOnce(t) ==
    /\ Goto(t, "expired", Home(t)) /\ lock' = None
    /\ UNCHANGED <<thread, signal, signaled>>

(* ETIMEDOUT: the event may have been signalled meanwhile. *)
Expired(t) ==
    /\ at[t] = "expired"
    /\ \/ Consume(t)
       \/ ~signaled /\ Goto(t, "expired", Home(t)) /\ lock' = None /\ UNCHANGED <<state, signaled>>
    /\ UNCHANGED <<suspend_sem, stop_requested, signal>>

ove_event_wait(t) == Acquire(t) \/ Test(t) \/ Expired(t)

(* The deadline passes.  pthread_cond_timedwait may report it although the thread was
   woken: the wakeup is used up then. *)
DeadlinePasses(t) ==
    /\ Goto(t, "wait", "timedout") \/ Goto(t, "woken", "timedout")
    /\ UNCHANGED <<thread, signal, event>>

SpuriousWakeup(t) ==
    /\ Goto(t, "wait", "woken")
    /\ UNCHANGED <<thread, signal, event>>

(* ove_event_signal: one sleeper resumes, if there is one. *)
ove_event_signal(c) ==
    /\ at[c] = "signal" /\ lock = None
    /\ signaled' = TRUE
    /\ LET asleep == {t \in Threads : at[t] = "wait"}
           returned == [at EXCEPT ![c] = "idle"]
       IN  \/ asleep = {} /\ at' = returned
           \/ \E t \in asleep : at' = [returned EXCEPT ![t] = "woken"]
    /\ UNCHANGED <<thread, signal, lock>>

-----------------------------------------------------------------------------
(* thread_wrapper, around an entry function that loops while ~ove_thread_should_stop(). *)

thread_wrapper ==
    /\ \/ Goto(Worker, "new", "poll") /\ state' = "RUNNING" /\ UNCHANGED pending
       \/ Goto(Worker, "exit", "leave") /\ state' = "TERMINATED" /\ UNCHANGED pending
       \/ Goto(Worker, "leave", "done") /\ pending' = FALSE /\ UNCHANGED state
    /\ UNCHANGED <<suspend_sem, stop_requested, handler, event>>

ove_thread_should_stop ==
    /\ Goto(Worker, "poll", IF stop_requested THEN "exit" ELSE "lock")
    /\ UNCHANGED <<thread, signal, event>>

(* A step of the thread's own code: not while the handler runs. *)
WorkerStep ==
    /\ handler = "none"
    /\ thread_wrapper \/ ove_thread_should_stop \/ ove_event_wait(Worker)

-----------------------------------------------------------------------------
(* The controllers.  The handle is good from ove_thread_init until the one that calls
   ove_thread_deinit, after a stop request and with nobody else in a call on it. *)

OnHandle == {"store", "post", "wake", "wakepost", "join"}

Usable == at[Worker] # "none" /\ \A c \in Controllers : at[c] \notin {"wake", "wakepost", "join"}

ove_thread_init(c) ==
    /\ at[c] = "idle" /\ at[Worker] = "none"
    /\ at' = [at EXCEPT ![Worker] = "new"]
    /\ state' = "READY" /\ stop_requested' = FALSE /\ suspend_sem' = 0
    /\ UNCHANGED <<signal, event>>

(* pthread_kill; the millisecond that follows promises nothing. *)
ove_thread_suspend(c) ==
    /\ at[c] = "idle" /\ Usable
    /\ pending' = (at[Worker] # "done")
    /\ UNCHANGED <<thread, handler, event, at>>

(* Mutant of Resume: posts before it changes the mark. *)
ResumePostsFirst(c, from, then, next) ==
    /\ \/ Goto(c, from, then) /\ suspend_sem' = suspend_sem + 1 /\ UNCHANGED state
       \/ Goto(c, then, next) /\ state' = "READY" /\ UNCHANGED suspend_sem
    /\ UNCHANGED <<stop_requested, signal, event>>

(* Mutant of Resume: changes the mark only. *)
ResumeMarks(c, from, then, next) ==
    /\ \/ Goto(c, from, then) /\ state' = "READY"
       \/ Goto(c, then, next) /\ UNCHANGED state
    /\ UNCHANGED <<suspend_sem, stop_requested, signal, event>>

(* What ove_thread_resume and ove_thread_deinit do to a thread they find SUSPENDED. *)
Resume(c, from, then, next) ==
    /\ \/ Goto(c, from, then) /\ state' = "READY" /\ UNCHANGED suspend_sem
       \/ Goto(c, then, next) /\ suspend_sem' = suspend_sem + 1 /\ UNCHANGED state
    /\ UNCHANGED <<stop_requested, signal, event>>

ove_thread_resume(c) ==
    \/ /\ Usable /\ suspend_sem < MaxTokens
       /\ state = "SUSPENDED" /\ Goto(c, "idle", "store")
       /\ UNCHANGED <<thread, signal, event>>
    \/ Resume(c, "store", "post", "idle")

ove_thread_request_stop(c) ==
    /\ at[c] = "idle" /\ Usable
    /\ stop_requested' = TRUE
    /\ UNCHANGED <<state, suspend_sem, signal, event, at>>

ove_thread_deinit(c) ==
    \/ /\ Usable /\ stop_requested /\ \A d \in Controllers : at[d] \notin OnHandle
       /\ Goto(c, "idle", IF state = "SUSPENDED" THEN "wake" ELSE "join")
       /\ UNCHANGED <<thread, signal, event>>
    \/ Resume(c, "wake", "wakepost", "join")
    \/ /\ at[c] = "join" /\ at[Worker] = "done"
       /\ at' = [at EXCEPT ![c] = "idle", ![Worker] = "none"]
       /\ state' = "none" /\ suspend_sem' = 0 /\ stop_requested' = FALSE
       /\ UNCHANGED <<signal, event>>

UseEvent(c) ==
    /\ (c \in Waiters /\ Goto(c, "idle", "lock")) \/ Goto(c, "idle", "signal")
    /\ UNCHANGED <<thread, signal, event>>

ThreadCall(c) ==
    \/ ove_thread_init(c) \/ ove_thread_suspend(c) \/ ove_thread_request_stop(c)
    \/ ove_thread_resume(c) \/ ove_thread_deinit(c)
    \/ UseEvent(c) \/ ove_event_wait(c) \/ ove_event_signal(c)

(* A call goes on. *)
ThreadContinue(c) == at[c] # "idle" /\ ThreadCall(c)

Clock(t) == DeadlinePasses(t) \/ SpuriousWakeup(t)

ThreadNext ==
    \/ Deliver \/ sigusr1_handler \/ WorkerStep
    \/ \E c \in Controllers : ThreadCall(c)
    \/ \E t \in Threads : Clock(t)

ThreadSpec == ThreadInit /\ [][ThreadNext]_thread_vars

(* The threads run, the handler included, even if they are suspended and resumed, or find
   the mutex taken, again and again; a deadline passes in the end. *)
ThreadFairness ==
    /\ WF_thread_vars(Deliver) /\ WF_thread_vars(sigusr1_handler) /\ SF_thread_vars(WorkerStep)
    /\ \A c \in Controllers : SF_thread_vars(ThreadContinue(c))
    /\ \A t \in Threads : SF_thread_vars(DeadlinePasses(t))

ThreadFairSpec == ThreadSpec /\ ThreadFairness

-----------------------------------------------------------------------------
(* Properties. *)

(* No resume is lost on a thread that sleeps in the handler: if its mark has been changed,
   the post that wakes it is there or the one who changed it is about to post. *)
ResumeReachesHandler ==
    handler = "sleep" /\ state # "SUSPENDED" =>
        suspend_sem > 0 \/ \E c \in Controllers : at[c] \in {"post", "wakepost"}

(* "The thread remains suspended until ove_thread_resume() is called": a thread that is
   marked SUSPENDED does not run its own code, though posts of earlier resumes that found
   it awake are left over in the semaphore. *)
StaysSuspended == [][WorkerStep => state # "SUSPENDED"]_thread_vars

(* "A signal is sticky": an event that is signalled has no sleepers unless one of its
   waiters is awake and will look at it, also when the one that pthread_cond_signal chose
   was told that its time is up. *)
SignalSeen ==
    signaled /\ (\E t \in Threads : at[t] = "wait") =>
        \E t \in Threads : at[t] \in {"woken", "timedout", "test", "expired"}

(* A call that does not return waits for a thread that stays suspended: a deinit whose
   thread was suspended by a signal that came after the look at its state, or a use of the
   event whose mutex the suspended thread holds. *)
StuckOnlyBySuspend ==
    \A c \in Controllers : <>[](at[c] # "idle") => <>[](state = "SUSPENDED")
=============================================================================
