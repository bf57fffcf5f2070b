--------------------------- MODULE StorageAdapter ---------------------------
(***************************************************************************)
(* The storage provider of the Linux personality                           *)
(* (backends/common/lxp_ove_storage_adapter.c) over the card of            *)
(* MediaLease.  The coordinator thread of the personality hands requests   *)
(* to one worker through a queue of one: it waits for a synchronous one,   *)
(* and comes back for an asynchronous one when the worker has called it.   *)
(* The personality may cancel a request at any time, so an asynchronous    *)
(* one can outlive its owner.                                              *)
(*                                                                         *)
(* Owner None stands for the owner 0, for which requests are synchronous;  *)
(* selecting the owner is part of the request.  Requests are told apart by *)
(* what they do to handles, mount, lease and staging buffer: one on a path *)
(* is like an open that makes no handle, a sync like a block write.        *)
(* A transfer fits the staging buffer.                                     *)
(***************************************************************************)
EXTENDS MediaLease, Sequences

CONSTANTS Owners,     \* generation-qualified owners of asynchronous requests
          Slots,      \* g_handles
          None

FsOps == {"mount", "unmount", "open", "close", "read", "write"}
BlockOps == {"block_info", "block_read", "block_write"}
Reads == {"read", "block_read"}
Writes == {"write", "block_write"}

Ops == FsOps \cup BlockOps \cup {"start", "stop", "block_close"}

(* The two threads and their leases; None is not to be mistaken for a request, and an
   owner (a generation-qualified id, never 0) neither for None nor for a synchronous one. *)
ASSUME StorageAssumption ==
    /\ {"coordinator", "worker"} \subseteq Threads
    /\ {"raw", "temporary"} \subseteq Leases /\ IsFiniteSet(Leases)
    /\ None \notin Ops \cup {"sync", "async"}
    /\ Owners \cap {None, "sync"} = {}

request_is_block(op) == op \in BlockOps \cup {"block_close"}

VARIABLES g_handles,                        \* [Slots -> BOOLEAN], whether taken
          g_mounted, g_active, g_run_clients,
          g_block_info_valid,
          gate,                             \* lxp_async_gate_t: state and owner
          request,                          \* the "sync" one and g_async_request
          queue, complete,                  \* g_request_queue and g_complete
          g_io_buffer,                      \* whose bytes the staging buffer holds
          pending,                          \* g_metrics.pending
          co,                               \* the coordinator
          wk, serving,                      \* the worker, and which request it serves
          held,                             \* the handles the personality can name
          overlapped                        \* history: two transfers at a time, see Overlap

store == <<g_handles, g_mounted, held>>
life == <<g_active, g_run_clients, g_block_info_valid>>
calls == <<gate, request, pending>>
vars == <<mvars, store, life, calls, queue, complete, g_io_buffer, co, wk, serving,
          overlapped>>

NoRequest == [op |-> None, owner |-> None, slot |-> None, ok |-> FALSE]
Idle == [state |-> "idle", owner |-> None]

Init ==
    /\ MediaInit
    /\ g_handles = [s \in Slots |-> FALSE] /\ held = {} /\ g_mounted = FALSE
    /\ g_block_info_valid = FALSE
    /\ g_active = FALSE /\ g_run_clients = {}
    /\ gate = Idle /\ request = [k \in {"sync", "async"} |-> NoRequest]
    /\ queue = << >> /\ complete = FALSE /\ g_io_buffer = None /\ pending = 0
    /\ co = "idle"
    /\ wk = "none" /\ serving = None
    /\ overlapped = FALSE

Request(op, o, s) == [op |-> op, owner |-> o, slot |-> s, ok |-> FALSE]

(* What the personality may ask of a slot: to close or use a handle it has. *)
MayName(op, s) == IF op \in {"close", "read", "write"} THEN s \in held ELSE s = None

(* A handle being closed is no longer the personality's. *)
Named(op, s) == IF op = "close" THEN held \ {s} ELSE held

(* The staging buffer after a submission, and after the end of a request: bytes nobody
   waits for any more are forgotten. *)
Staged(op, tag) == g_io_buffer' = IF op \in Writes THEN tag ELSE g_io_buffer
Unstaged(tag) == g_io_buffer' = IF g_io_buffer = tag THEN None ELSE g_io_buffer

-----------------------------------------------------------------------------
(* submit_sync: measure, stage what is to be written, queue the request (waiting while
   the queue is full) and wait for g_complete. *)

Measured(op) == op \notin {"start", "mount", "stop"}

submit_sync(op, s) ==
    /\ co' = "send"
    /\ request' = [request EXCEPT !["sync"] = Request(op, None, s)]
    /\ Staged(op, "sync")
    /\ pending' = IF Measured(op) THEN pending + 1 ELSE pending
    /\ held' = Named(op, s)
    /\ UNCHANGED <<g_handles, g_mounted, queue, complete, wk, serving>>

Send ==
    /\ co = "send" /\ queue = << >>
    /\ queue' = <<"sync">>
    /\ co' = "wait"
    /\ UNCHANGED <<mvars, store, life, calls, complete, g_io_buffer, wk, serving>>

(* The personality learns the handle a successful open has made. *)
Learn(r) == IF r.op = "open" /\ r.ok THEN held \cup {r.slot} ELSE held

(* The end of submit_sync, and of storage_run_begin and block_close with it. *)
Answered ==
    /\ co = "wait" /\ complete
    /\ complete' = FALSE
    /\ pending' = IF Measured(request["sync"].op) THEN pending - 1 ELSE pending
    /\ Unstaged("sync")
    /\ held' = Learn(request["sync"])
    /\ co' = IF request["sync"].op = "stop" THEN "join" ELSE "idle"
    /\ request' = [request EXCEPT !["sync"] = NoRequest]
    /\ UNCHANGED <<mvars, g_handles, g_mounted, life, gate, queue, wk, serving>>

-----------------------------------------------------------------------------
(* submit_async, over the gate (external): its owner collects a complete request by asking
   again, and until it is collected or dropped everybody else is told to come back. *)

SubmitStagesFirst(o, op, s) ==
    /\ Staged(op, o)
    /\ IF gate = Idle
       THEN /\ gate' = [state |-> "active", owner |-> o]
            /\ request' = [request EXCEPT !["async"] = Request(op, o, s)]
            /\ pending' = pending + 1 /\ queue' = <<"async">> /\ held' = Named(op, s)
       ELSE UNCHANGED <<gate, request, pending, queue, held>>
    /\ UNCHANGED <<mvars, g_handles, g_mounted, life, complete, co, wk, serving>>

(* The queue is empty then: whoever fills it holds the gate or keeps the coordinator
   waiting. *)
Submit(o, op, s) ==
    /\ gate = Idle /\ queue = << >>
    /\ gate' = [state |-> "active", owner |-> o]
    /\ Staged(op, o)
    /\ request' = [request EXCEPT !["async"] = Request(op, o, s)]
    /\ pending' = pending + 1
    /\ queue' = <<"async">>
    /\ held' = Named(op, s)
    /\ UNCHANGED <<mvars, g_handles, g_mounted, life, complete, co, wk, serving>>

async_collect(o) ==
    /\ gate = [state |-> "complete", owner |-> o]
    /\ held' = Learn(request["async"])
    /\ pending' = pending - 1
    /\ gate' = Idle /\ Unstaged(o)
    /\ request' = [request EXCEPT !["async"] = NoRequest]
    /\ UNCHANGED <<mvars, g_handles, g_mounted, life, queue, complete, co,
                   wk, serving>>

(* Reclaims the handle of an open nobody will hear of. *)
async_discard(r) ==
    g_handles' = [s \in Slots |-> g_handles[s] /\ ~(r.op = "open" /\ r.ok /\ r.slot = s)]

CancelForgets(o) ==
    /\ co = "idle" /\ gate.owner = o /\ gate.state \in {"active", "complete"}
    /\ pending' = pending - 1
    /\ \/ /\ gate.state = "active" /\ UNCHANGED g_io_buffer
          /\ gate' = [gate EXCEPT !.state = "cancelled"]
       \/ gate.state = "complete" /\ gate' = Idle /\ Unstaged(o)
    /\ UNCHANGED <<mvars, store, life, request, queue, complete, co, wk,
                   serving>>

CancelStillPending(o) ==
    /\ co = "idle" /\ gate.owner = o
    /\ \/ /\ gate.state = "complete"
          /\ async_discard(request["async"])
          /\ gate' = Idle /\ pending' = pending - 1 /\ Unstaged(o)
          /\ request' = [request EXCEPT !["async"] = NoRequest]
       \/ /\ gate.state = "active"
          /\ gate' = [gate EXCEPT !.state = "cancelled"]
          /\ UNCHANGED <<g_handles, request, pending, g_io_buffer>>
    /\ UNCHANGED <<mvars, g_mounted, held, life, queue, complete, co, wk,
                   serving>>

(* A request that is complete is dropped here, one that is active when it completes. *)
fs_request_cancel(o) ==
    /\ co = "idle" /\ gate.owner = o
    /\ pending' = pending - 1
    /\ \/ /\ gate.state = "complete"
          /\ async_discard(request["async"])
          /\ gate' = Idle /\ Unstaged(o)
          /\ request' = [request EXCEPT !["async"] = NoRequest]
       \/ /\ gate.state = "active"
          /\ gate' = [gate EXCEPT !.state = "cancelled"]
          /\ UNCHANGED <<g_handles, request, g_io_buffer>>
    /\ UNCHANGED <<mvars, g_mounted, held, life, queue, complete, co, wk,
                   serving>>

-----------------------------------------------------------------------------
(* submit, for the operations of the two providers: the gate keeps asynchronous requests
   apart from each other, not from a synchronous one. *)

Serves(op) == IF request_is_block(op) THEN "block" ELSE "fs"

submit(o, op, s) ==
    /\ co = "idle" /\ Serves(op) \in g_run_clients /\ MayName(op, s)
    /\ op = "block_write" => lease["raw"].active /\ lease["raw"].write
    /\ \/ o = None /\ submit_sync(op, s) /\ UNCHANGED <<mvars, life, gate>>
       \/ o # None /\ Submit(o, op, s)

Collect(o) == co = "idle" /\ async_collect(o)

(* block_open leases the card from the coordinator's own thread; block_close goes to the
   worker, synchronously whoever is selected. *)
block_open(write) ==
    /\ co = "idle" /\ "block" \in g_run_clients
    /\ ove_block_open("coordinator", "raw", write)
    /\ co' = "opening"
    /\ UNCHANGED <<store, life, calls, queue, complete, g_io_buffer, wk, serving>>

Opened ==
    /\ co = "opening" /\ mpc["coordinator"] = "idle"
    /\ co' = "idle"
    /\ UNCHANGED <<mvars, store, life, calls, queue, complete, g_io_buffer, wk, serving>>

block_close ==
    /\ co = "idle" /\ "block" \in g_run_clients
    /\ submit_sync("block_close", None)
    /\ UNCHANGED <<mvars, life, gate>>

-----------------------------------------------------------------------------
(* storage_run_begin and storage_run_end for the two clients. *)

run_begin(c) ==
    /\ co = "idle" /\ c \notin g_run_clients
    /\ \/ /\ g_active
          /\ g_run_clients' = g_run_clients \cup {c}
          /\ UNCHANGED <<mvars, store, g_active, g_block_info_valid, calls, queue, complete,
                         g_io_buffer, co, wk, serving>>
       \/ /\ ~g_active
          /\ g_block_info_valid' = FALSE
          /\ g_handles' = [s \in Slots |-> FALSE] /\ g_mounted' = FALSE /\ held' = {}
          /\ lease' = [lease EXCEPT !["raw"] = Released]
          /\ gate' = Idle /\ pending' = 0 /\ queue' = << >> /\ complete' = FALSE
          /\ g_io_buffer' = None
          /\ \/ /\ g_active' = TRUE /\ g_run_clients' = {c}
                /\ request' = [k \in {"sync", "async"} |->
                                  IF k = "sync" THEN Request("start", None, None) ELSE NoRequest]
                /\ co' = "send" /\ wk' = "receive"
             \/ /\ request' = [k \in {"sync", "async"} |-> NoRequest]   \* no mutex, event, queue
                /\ UNCHANGED <<g_active, g_run_clients, co, wk>>        \* or thread to be had
          /\ UNCHANGED <<card, noted, media, mcall, serving>>

run_end(c) ==
    /\ co = "idle" /\ c \in g_run_clients
    /\ g_run_clients' = g_run_clients \ {c}
    /\ \/ /\ g_run_clients # {c}
          /\ UNCHANGED <<store, calls, queue, complete, g_io_buffer, co, wk, serving>>
       \/ /\ g_run_clients = {c}
          /\ submit_sync("stop", None)
          /\ UNCHANGED gate
    /\ UNCHANGED <<mvars, g_active, g_block_info_valid>>

(* ove_thread_deinit and what follows it. *)
Joined ==
    /\ co = "join" /\ wk = "exited"
    /\ wk' = "none" /\ co' = "idle"
    /\ g_active' = FALSE
    /\ g_handles' = [s \in Slots |-> FALSE]
    /\ UNCHANGED <<mvars, g_mounted, held, g_run_clients, g_block_info_valid, calls, queue, complete,
                   g_io_buffer, serving>>

-----------------------------------------------------------------------------
(* fs_worker. *)

Receive ==
    /\ wk = "receive" /\ queue # << >>
    /\ serving' = Head(queue) /\ queue' = << >>
    /\ wk' = "execute"
    /\ UNCHANGED <<mvars, store, life, calls, complete, g_io_buffer, co>>

Op == request[serving].op
BytesOf(k) == IF k = "async" THEN request[k].owner ELSE "sync"

(* The end of execute_request: its result, where it matters to anybody here, for an open
   the slot it took, and whether g_block_info still stands. *)
Outcome(ok, s, valid) ==
    /\ request' = [request EXCEPT ![serving] =
                      [@ EXCEPT !.ok = ok /\ Op \in {"open"} \cup Reads, !.slot = s]]
    /\ wk' = "finish"
    /\ g_block_info_valid' = valid
    /\ UNCHANGED <<g_active, g_run_clients, gate, pending, queue, complete, co, serving>>

Result(ok, s) == Outcome(ok, s, g_block_info_valid)
Returns(ok) == Result(ok, request[serving].slot)
BlockFails == Outcome(FALSE, request[serving].slot, FALSE)

handles_open == \E s \in Slots : g_handles[s]

(* ensure_mounted; the native mount may fail, and gives the card back. *)
Mount ==
    /\ ~g_mounted /\ ove_media_fs_acquire(owners)
    /\ owners' = [owners EXCEPT !.fs = TRUE] /\ g_mounted' = TRUE

ensure_mounted == Mount \/ (g_mounted /\ UNCHANGED <<owners, g_mounted>>)

MountFails == ~g_mounted /\ UNCHANGED <<owners, g_mounted>>

Unmount == owners' = [owners EXCEPT !.fs = @ /\ ~g_mounted] /\ g_mounted' = FALSE

(* An explicit mount is refused on a mounted volume; the first request of a run finds
   none. *)
ExecuteMount ==
    /\ wk = "execute" /\ Op \in {"start", "mount"}
    /\ \/ Mount /\ Returns(TRUE)
       \/ MountFails /\ Returns(FALSE)
       \/ g_mounted /\ Returns(FALSE) /\ UNCHANGED <<owners, g_mounted>>
    /\ UNCHANGED <<card, noted, generation, present, lease, mcall, g_handles, held, g_io_buffer>>

UnmountUnderHandles ==
    /\ wk = "execute" /\ Op = "unmount"
    /\ Returns(TRUE) /\ Unmount
    /\ UNCHANGED <<card, noted, generation, present, lease, mcall, g_handles, held, g_io_buffer>>

ExecuteUnmount ==
    /\ wk = "execute" /\ Op = "unmount"
    /\ \/ handles_open /\ Returns(FALSE) /\ UNCHANGED <<owners, g_mounted>>
       \/ ~handles_open /\ Returns(TRUE) /\ Unmount
    /\ UNCHANGED <<card, noted, generation, present, lease, mcall, g_handles, held, g_io_buffer>>

(* close_all_handles, the raw lease and the mount. *)
ExecuteStop ==
    /\ wk = "execute" /\ Op = "stop"
    /\ Returns(TRUE)
    /\ g_handles' = [s \in Slots |-> FALSE] /\ held' = {}
    /\ g_mounted' = FALSE
    /\ owners' = [fs |-> owners.fs /\ ~g_mounted,
                  writer |-> owners.writer /\ ~lease["raw"].write,
                  readers |-> owners.readers -
                      (IF lease["raw"].active /\ ~lease["raw"].write THEN 1 ELSE 0)]
    /\ lease' = [lease EXCEPT !["raw"] = Released]
    /\ UNCHANGED <<card, noted, generation, present, mcall, g_io_buffer>>

ExecuteBlockClose ==
    /\ wk = "execute" /\ Op = "block_close"
    /\ ove_block_close("raw")
    /\ Returns(TRUE)
    /\ UNCHANGED <<store, g_io_buffer>>

(* block_read_bytes and block_write_bytes look at the card unless what they know of it
   stands, and go on when refresh_block_info, which also serves block_info, succeeds. *)
ExecuteBlockInfo ==
    /\ wk = "execute" /\ Op \in BlockOps
    /\ Op # "block_info" => ~g_block_info_valid
    /\ Step("worker", "idle", "info")
    /\ wk' = "info"
    /\ UNCHANGED <<card, noted, media, lease, info, target, store, life, calls, queue, complete,
                   g_io_buffer, co, serving>>

refresh_block_info ==
    /\ wk = "info" /\ mpc["worker"] = "idle" /\ Done("worker")
    /\ \/ BlockFails
       \/ /\ info["worker"] # 0 /\ Op = "block_info"
          /\ Outcome(TRUE, request[serving].slot, TRUE)
       \/ /\ info["worker"] # 0 /\ Op # "block_info"
          /\ wk' = "execute" /\ g_block_info_valid' = TRUE
          /\ UNCHANGED <<g_active, g_run_clients, calls, queue, complete, co, serving>>
    /\ UNCHANGED <<card, noted, media, lease, store, g_io_buffer>>

(* Transfers over a lease the worker has: when the backend fails the worker looks at the
   card again. *)
Transfer(l) ==
    \/ /\ ove_media_raw_valid(l)
       /\ Returns(TRUE)
       /\ g_io_buffer' = IF Op \in Reads THEN BytesOf(serving) ELSE g_io_buffer
       /\ UNCHANGED <<noted, mcall>>
    \/ ~ove_media_raw_valid(l) /\ BlockFails /\ UNCHANGED <<noted, mcall, g_io_buffer>>
    \/ /\ ove_media_raw_valid(l) /\ refresh_presence_after_error("worker")
       /\ wk' = "failed"
       /\ UNCHANGED <<life, calls, queue, complete, g_io_buffer, co, serving>>

(* Nothing is done outside the bounds of the card.  A read without the raw lease takes one
   of its own for the time of the transfer.  A write is submitted with the raw lease, and a
   block_close comes after it. *)
ExecuteBlock ==
    /\ wk = "execute" /\ Op \in {"block_read", "block_write"} /\ g_block_info_valid
    /\ \/ Returns(FALSE) /\ UNCHANGED <<mvars, g_io_buffer>>
       \/ /\ lease["raw"].active
          /\ Transfer("raw") /\ UNCHANGED <<card, media, lease>>
       \/ /\ ~lease["raw"].active /\ Op = "block_read"
          /\ ove_block_open("worker", "temporary", FALSE)
          /\ wk' = "open"
          /\ UNCHANGED <<life, calls, queue, complete, g_io_buffer, co, serving>>
    /\ UNCHANGED store

(* The lease the worker has taken for itself, or not. *)
TemporaryRead ==
    /\ wk = "open" /\ mpc["worker"] = "idle"
    /\ \/ lease["temporary"].active /\ Transfer("temporary")
       \/ ~lease["temporary"].active /\ Returns(FALSE) /\ UNCHANGED <<noted, mcall, g_io_buffer>>
    /\ IF wk' = "finish" THEN ove_media_raw_release("temporary") ELSE UNCHANGED <<owners, lease>>
    /\ UNCHANGED <<card, generation, present, store>>

TransferFailed ==
    /\ wk = "failed" /\ mpc["worker"] = "idle" /\ Done("worker")
    /\ BlockFails
    /\ ove_media_raw_release("temporary")
    /\ UNCHANGED <<card, noted, generation, present, store, g_io_buffer>>

(* A handle that was not closed is the personality's still. *)
StillNamed == held' = IF Op = "close" THEN held \cup {request[serving].slot} ELSE held

(* The filesystem requests: none while a raw writer is active ... *)
ExecuteFs ==
    /\ wk = "execute" /\ Op \in {"open", "close", "read", "write"}
    /\ \/ lease["raw"].active /\ lease["raw"].write /\ Returns(FALSE) /\ StillNamed
       \/ /\ ~(lease["raw"].active /\ lease["raw"].write) /\ wk' = "fs"
          /\ UNCHANGED <<life, calls, queue, complete, co, serving, held>>
    /\ UNCHANGED <<mvars, g_handles, g_mounted, g_io_buffer>>

free_slot(s) == ~g_handles[s]

(* ... and then, on a mounted volume, the request itself or its failure. *)
FsRequest ==
    /\ wk = "fs"
    /\ \/ /\ ensure_mounted
          /\ \/ /\ Op = "open"
                /\ \E s \in Slots : free_slot(s) /\ Result(TRUE, s)
                                    /\ g_handles' = [g_handles EXCEPT ![s] = TRUE]
                /\ UNCHANGED <<held, g_io_buffer>>
             \/ /\ Op = "close" /\ Returns(TRUE)
                /\ g_handles' = [g_handles EXCEPT ![request[serving].slot] = FALSE]
                /\ UNCHANGED <<held, g_io_buffer>>
             \/ /\ Op \in {"read", "write"} /\ Returns(TRUE)
                /\ g_io_buffer' = IF Op = "read" THEN BytesOf(serving) ELSE g_io_buffer
                /\ UNCHANGED <<g_handles, held>>
       \/ /\ ensure_mounted \/ MountFails
          /\ Returns(FALSE) /\ StillNamed
          /\ UNCHANGED <<g_handles, g_io_buffer>>
    /\ UNCHANGED <<card, noted, generation, present, lease, mcall>>

(* Publish the result: to the gate, where a cancelled request is dropped, or to the
   waiting coordinator.  The callback then made for an asynchronous one only tells the
   personality to ask again. *)
Finish ==
    /\ wk = "finish"
    /\ \/ /\ serving = "async" /\ gate.state = "active"
          /\ gate' = [gate EXCEPT !.state = "complete"]
          /\ wk' = "receive" /\ serving' = None
          /\ UNCHANGED <<g_handles, request, complete, g_io_buffer>>
       \/ /\ serving = "async" /\ gate.state = "cancelled"
          /\ async_discard(request["async"])
          /\ gate' = Idle /\ Unstaged(gate.owner)
          /\ request' = [request EXCEPT !["async"] = NoRequest]
          /\ wk' = "receive" /\ serving' = None
          /\ UNCHANGED complete
       \/ /\ serving = "sync"
          /\ complete' = TRUE
          /\ wk' = IF Op = "stop" THEN "exited" ELSE "receive"
          /\ serving' = None
          /\ UNCHANGED <<g_handles, gate, request, g_io_buffer>>
    /\ UNCHANGED <<mvars, g_mounted, held, life, pending, queue, co>>

Worker ==
    \/ Receive \/ ExecuteMount \/ ExecuteUnmount \/ ExecuteStop \/ ExecuteBlockClose
    \/ ExecuteBlockInfo \/ refresh_block_info \/ ExecuteBlock \/ TemporaryRead \/ TransferFailed
    \/ ExecuteFs \/ FsRequest \/ Finish

-----------------------------------------------------------------------------
Media(t) ==
    /\ MediaStep(t)
    /\ UNCHANGED <<store, life, calls, queue, complete, g_io_buffer, co, wk, serving>>

Card ==
    /\ Change
    /\ UNCHANGED <<store, life, calls, queue, complete, g_io_buffer, co, wk, serving>>

Call ==
    \/ \E c \in {"fs", "block"} : run_begin(c) \/ run_end(c)
    \/ \E o \in Owners \cup {None}, op \in FsOps \cup BlockOps, s \in Slots \cup {None} :
          submit(o, op, s)
    \/ \E o \in Owners : Collect(o) \/ fs_request_cancel(o)
    \/ \E write \in BOOLEAN : block_open(write)
    \/ block_close

Continue == Send \/ Answered \/ Opened \/ Joined

(* A synchronous transfer and an asynchronous one have been under way at the same time, and
   one of the two still is. *)
Overlap ==
    overlapped' = /\ \E k \in {"sync", "async"} : request'[k].op # None
                  /\ \/ overlapped
                     \/ \A k \in {"sync", "async"} : request'[k].op \in Reads \cup Writes

Next ==
    /\ \/ Call \/ Continue \/ Worker
       \/ \E t \in Threads : Media(t)
       \/ Card
    /\ Overlap

Spec == Init /\ [][Next]_vars

-----------------------------------------------------------------------------
(* Properties. *)

Taken == {s \in Slots : g_handles[s]}

(* The slots requests in flight answer for: those an open has made and nobody has heard of,
   and those a close has yet to free. *)
InFlight == {request[k].slot : k \in {k \in {"sync", "async"} :
                request[k].op \in {"open", "close"}}} \cap Slots

(* No handle leaks and none dangles: a taken slot is the personality's or belongs to a
   request in flight, and what the personality can name is taken, whichever of
   completion and cancellation of an open comes first ("the provider must reclaim that
   orphan explicitly"). *)
HandlesAccounted == g_active => Taken \subseteq held \cup InFlight /\ held \subseteq Taken

(* A file is open only on a mounted volume, and the mount keeps every raw writer out. *)
FilesKeepWritersOut ==
    /\ Taken # {} /\ g_active => g_mounted
    /\ g_mounted => owners.fs /\ ~owners.writer

(* A request has bytes in the staging buffer: what it is to write, from its submission until
   the worker is done, also when it has been cancelled meanwhile; and what the worker has
   read for it, until its owner has them. *)
Staging(k) ==
    \/ request[k].op \in Writes /\ ~(k = "async" /\ gate.state = "complete")
    \/ request[k].op \in Reads /\ request[k].ok /\ ~(k = "async" /\ gate.state = "cancelled")

(* The one staging buffer keeps these bytes for their request, whoever is turned away at the
   gate, cancels, or asks for something else beside it.  What the code has no guard against
   is a synchronous transfer beside an asynchronous one: submit_sync copies under
   g_submit_lock, submit_async and async_collect without it, into and out of the same
   buffer. *)
StagingIntact == overlapped \/ \A k \in {"sync", "async"} : Staging(k) => g_io_buffer = BytesOf(k)

(* The count of pending requests is that of requests somebody waits for. *)
PendingExact ==
    g_active => pending = (IF gate.state \in {"active", "complete"} THEN 1 ELSE 0)
                          + (IF request["sync"].op # None /\ Measured(request["sync"].op) THEN 1 ELSE 0)
=============================================================================
