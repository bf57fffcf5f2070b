-------------------------- MODULE StorageInvariant --------------------------
(***************************************************************************)
(* The inductive invariant of the storage adapter over the raw block API:  *)
(* RequestInv is about the requests between coordinator and worker and the *)
(* handles they make and free, CardInv about the leases of the card.       *)
(* Steps keep CardInv because RequestInv holds; RequestInv stands alone.   *)
(***************************************************************************)
EXTENDS StorageAdapter, Integers

-----------------------------------------------------------------------------
(* The requests.                                                           *)

Kinds == {"sync", "async"}

Requests == [op : Ops \cup {None}, owner : Owners \cup {None}, slot : Slots \cup {None},
             ok : BOOLEAN]

Gates == [state : {"active", "complete", "cancelled"}, owner : Owners]

AdapterTypes ==
    /\ g_handles \in [Slots -> BOOLEAN] /\ held \subseteq Slots
    /\ g_mounted \in BOOLEAN /\ g_active \in BOOLEAN /\ complete \in BOOLEAN
    /\ gate \in Gates \cup {Idle} /\ pending \in Int
    /\ queue \in {<< >>, <<"sync">>, <<"async">>}
    /\ serving \in {None, "sync", "async"}
    /\ request \in [Kinds -> Requests]

(* A synchronous request is in one place while the coordinator waits for it, and the
   worker is where its request takes it. *)
HandOver ==
    /\ queue = <<"sync">> => co = "wait" /\ ~complete /\ serving # "sync" /\ wk # "exited"
    /\ serving = "sync" => co = "wait" /\ ~complete
    /\ complete => co = "wait" /\ (request["sync"].op = "stop" => wk = "exited")
    /\ wk = "exited" => (co = "wait" /\ complete /\ request["sync"].op = "stop") \/ co = "join"
    /\ (serving = None) = (wk \in {"none", "receive", "exited"})
    /\ request["sync"].op = "stop" => co \in {"send", "wait"} /\ g_run_clients = {}
    /\ request["async"].op # "stop"
    /\ wk \in {"info", "open", "failed"} => Op \in BlockOps
    /\ wk = "fs" => Op \in {"open", "close", "read", "write"}
    /\ co = "join" => g_run_clients = {}
    /\ ~g_active => wk = "none" /\ co = "idle" /\ g_run_clients = {}

(* The gate is taken from the submission of the asynchronous request until it is collected
   or dropped, and the request is with the worker until it is complete. *)
GateInv ==
    /\ gate.state \in {"active", "cancelled"} <=> queue = <<"async">> \/ serving = "async"
    /\ queue = <<"async">> => serving = None
    /\ gate = Idle => request["async"] = NoRequest
    /\ gate # Idle => request["async"].owner = gate.owner /\ request["async"].op # None
    /\ co \in {"send", "wait"} <=> request["sync"].op # None
    /\ co \notin {"send", "wait"} => request["sync"] = NoRequest

(* The worker has yet to execute the request. *)
Undone(k) ==
    \/ k = "sync" /\ co = "send"
    \/ queue = <<k>>
    \/ serving = k /\ wk # "finish"

(* The worker has closed all handles. *)
StopDone == wk = "exited" \/ (wk = "finish" /\ serving = "sync" /\ request["sync"].op = "stop")

(* The request answers for its slot: a close until it is executed, an open from then on. *)
Owns(k) ==
    \/ request[k].op = "close" /\ Undone(k)
    \/ request[k].op = "open" /\ request[k].ok

(* A taken slot has one of three owners: the personality, the synchronous or the
   asynchronous request. *)
OneOwner ==
    /\ \A s \in held : g_handles[s]
    /\ \A k \in Kinds : Owns(k) => /\ request[k].slot \in Slots \ held
                                   /\ g_handles[request[k].slot]
    /\ Owns("sync") /\ Owns("async") => request["sync"].slot # request["async"].slot
    /\ \A s \in Slots \ held : g_handles[s] => \E k \in Kinds : Owns(k) /\ request[k].slot = s

(* Handles have one owner until the stop, which closes them all. *)
HandleInv ==
    /\ \A k \in Kinds : /\ Undone(k) => ~request[k].ok
                        /\ request[k].op = "open" /\ request[k].ok => request[k].slot \in Slots
    /\ g_active /\ ~StopDone => OneOwner
    /\ g_active /\ StopDone => held = {} /\ ~handles_open

RequestInv ==
    /\ AdapterTypes /\ HandOver
    /\ GateInv /\ HandleInv /\ PendingExact

(* Two transfers at a time are an overlap. *)
Transferring == \A k \in Kinds : request[k].op \in Reads \cup Writes
StagingInv == StagingIntact /\ (Transferring => overlapped)

-----------------------------------------------------------------------------
(* The card.                                                               *)

MediaPcs == {"idle", "info", "came", "went", "lost", "answer", "absent", "observe", "observed",
             "acquire", "swap", "confirm"}

MediaTypes ==
    /\ owners \in [fs : BOOLEAN, writer : BOOLEAN, readers : Nat]
    /\ lease \in [Leases -> [active : BOOLEAN, write : BOOLEAN, generation : Nat]]
    /\ noted \in [present : {"unknown", "absent", "present"}, generation : Nat]
    /\ info \in [Threads -> Nat]
    /\ mpc \in [Threads -> MediaPcs]
    /\ target \in [Threads -> [lease : Leases \cup {NoLease}, write : BOOLEAN]]

(* A lease that is not active is blank. *)
Blank == \A l \in Leases : ~lease[l].active => ~lease[l].write

(* An open has its own lease object, which is not active before the swap, and the
   coordinator opens only while nothing else goes on. *)
Opening ==
    /\ mpc["coordinator"] # "idle" => co = "opening"
    /\ \A t \in Threads :
        LET l == target[t].lease
        IN  /\ l = NoLease => target[t] = NoTarget
            /\ mpc[t] = "idle" => l = NoLease
            /\ mpc[t] \in {"acquire", "swap", "confirm"} => l # NoLease
            /\ l # NoLease => \/ t = "coordinator" /\ l = "raw"
                              \/ t = "worker" /\ l = "temporary"
            /\ l # NoLease /\ mpc[t] # "confirm" => ~lease[l].active

(* After the stop request nothing is held, until the next run. *)
Stopped == StopDone \/ ~g_active => ~lease["raw"].active /\ ~g_mounted

(* The filesystem's share is the mount's, and open files have one. *)
Mounted == owners.fs = g_mounted /\ (handles_open => g_mounted)

CardInv ==
    /\ MediaTypes
    /\ Blank /\ OwnersExact /\ WriterAlone
    /\ Opening /\ Stopped /\ Mounted

(* No caller has an answer from ove_block_backend_get_info that is ahead of what the
   backend has counted. *)
AnswersPast == \A t \in Threads : info[t] <= noted.generation
=============================================================================
