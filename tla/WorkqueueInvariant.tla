------------------------- MODULE WorkqueueInvariant -------------------------
(***************************************************************************)
(* The inductive invariant of PosixWorkqueue.  It holds when every item is *)
(* submitted to one queue only (SingleTarget); the run on two queues shows *)
(* that this condition cannot be dropped.                                  *)
(***************************************************************************)
EXTENDS PosixWorkqueue, Integers

SingleTarget == \A w \in Works : \A p, q \in Targets[w] : p = q

-----------------------------------------------------------------------------
(* The inductive invariant, in parts. *)

InCancel(c) == pc[c] \in {"cancel", "wait", "loop"}

Holding ==
    \A q \in Queues, c \in Clients : lock[q] = c <=> pc[c] = "submit" /\ target[c] = q

Submitting ==
    \A c \in Clients : pc[c] = "submit" =>
        /\ item[c] \in Works /\ target[c] \in Targets[item[c]]
        /\ op[c] \in {"submit", "submit_delayed"}
        /\ running[target[c]] /\ Len(queue[target[c]]) < MaxPending
        /\ handler[item[c]] /\ wq[item[c]] = NULL
        /\ ~pending[item[c]] /\ ~in_progress[item[c]]

Cancellers ==
    \A c \in Clients : InCancel(c) =>
        /\ item[c] \in Works /\ target[c] \in Targets[item[c]]
        /\ op[c] \in {"cancel", "deinit"}
        /\ running[target[c]] /\ handler[item[c]]

Others ==
    \A c \in Clients :
        /\ pc[c] = "join" => target[c] \in Queues
        /\ pc[c] \in {"idle", "join"} => item[c] = NULL

(* ove_work_deinit has its item for itself ... *)
DeinitAlone ==
    \A c, d \in Clients :
        InCancel(c) /\ op[c] = "deinit" /\ item[d] = item[c] => d = c

(* ... so nobody queues the item again behind its back. *)
DeinitDequeued ==
    \A c \in Clients : \A q \in Queues :
        pc[c] \in {"wait", "loop"} /\ op[c] = "deinit" => ~Queued(item[c], q)

WorkerState ==
    \A q \in Queues :
        /\ cur[q] # NULL <=> pc[q] \in {"delay", "recheck", "handler", "finish"}
        /\ pc[q] \in {"none", "exited"} => queue[q] = <<>> /\ ~running[q]

InProgress ==
    /\ \A w \in Works : in_progress[w] => \E q \in Queues : cur[q] = w
    /\ \A q \in Queues : cur[q] # NULL => in_progress[cur[q]]

HomeQueue == \A w \in Works : wq[w] # NULL => wq[w] \in Targets[w]

(* Items are distinct within a queue, and not at the same time in the worker's hands. *)
SlotsDistinct ==
    \A q \in Queues :
        /\ \A i, j \in 1..Len(queue[q]) : queue[q][i] = queue[q][j] => i = j
        /\ \A w \in Works : Queued(w, q) => cur[q] # w

PendingState ==
    /\ \A w \in Works : pending[w] => wq[w] # NULL
    /\ \A w \in Works, q \in Queues : Queued(w, q) => pending[w]
    /\ \A q \in Queues : pc[q] \in {"handler", "finish"} => ~pending[cur[q]]
    /\ \A w \in cancelled : ~pending[w]

IInv ==
    /\ TypeOK /\ Holding /\ Submitting /\ Cancellers /\ Others
    /\ DeinitAlone /\ DeinitDequeued
    /\ WorkerState /\ InProgress /\ HomeQueue /\ SlotsDistinct /\ PendingState
    /\ BackpointerExact /\ ReleasedUnreferenced
    /\ WorkerSleepsIdle /\ CancellerWillBeWoken /\ CancelledNeverRuns

-----------------------------------------------------------------------------
(* Steps on which a thread moves and changes nothing else. *)

WorkerMoves(q) ==
    \/ pc[q] = "wait" /\ pc'[q] = "loop"
    \/ pc[q] = "loop" /\ pc'[q] = "wait" /\ queue[q] = <<>> /\ running[q]
    \/ pc[q] = "loop" /\ pc'[q] = "exited" /\ queue[q] = <<>> /\ ~running[q]
    \/ pc[q] = "delay" /\ pc'[q] = "recheck"
    \/ pc[q] = "handler" /\ pc'[q] = "finish"

CancellerMoves(c) ==
    \/ pc[c] = "wait" /\ pc'[c] = "loop"
    \/ pc[c] = "loop" /\ pc'[c] = "wait" /\ cur[target[c]] = item[c]

-----------------------------------------------------------------------------
(* Sequences: what appending, taking the head and closing a slot do. *)

Contains(s, e) == \E i \in 1..Len(s) : s[i] = e

NoRepeats(s) == \A i, j \in 1..Len(s) : s[i] = s[j] => i = j
=============================================================================
