-------------------------- MODULE StorageRequests --------------------------
(***************************************************************************)
(* Requests and handles of the storage adapter, for any number of owners   *)
(* and handles: no handle leaks or dangles, staged bytes are kept for      *)
(* their request, and the count of pending requests is exact.              *)
(*                                                                         *)
(* Who answers for a handle changes hands in the order of the requests:    *)
(* the inductive invariant RequestInv of StorageInvariant says which of    *)
(* the personality and the two requests it is, and therefore where each    *)
(* request is.                                                             *)
(***************************************************************************)
EXTENDS StorageInvariant, TLAPS

(* None is no request, no owner and no slot in use. *)
LEMMA NoneApart ==
    /\ None \notin Ops \cup Reads \cup Writes \cup {"open", "close", "stop", "sync", "async"}
    /\ NoRequest \in Requests /\ NoRequest.op = None /\ NoRequest.ok = FALSE
    /\ NoRequest.owner = None /\ Idle.state = "idle"
    /\ \A g \in Gates : g # Idle /\ g.state # "idle" /\ g.owner \notin {None, "sync"}
  BY StorageAssumption DEF Reads, Writes, Ops, FsOps, BlockOps, NoRequest, Requests, Idle, Gates

(* At first there is no request, no handle and no worker. *)
LEMMA RequestInit == Init => RequestInv
  <1> SUFFICES ASSUME Init PROVE RequestInv
    BY Zenon
  <1>1. /\ request["sync"] = NoRequest /\ request["async"] = NoRequest /\ gate = Idle
        /\ queue = << >> /\ serving = None /\ co = "idle" /\ held = {} /\ g_active = FALSE
        /\ pending = 0 /\ wk = "none" /\ g_run_clients = {} /\ complete = FALSE
    BY Zenon DEF Init, Kinds
  <1>2. AdapterTypes
    <2>1. pending \in Int
      BY <1>1
    <2>q. QED
      BY <2>1, NoneApart, Zenon DEF Init, AdapterTypes, Kinds
  <1>3. HandOver /\ GateInv
    BY <1>1, NoneApart, Zenon DEF HandOver, GateInv
  <1>4. HandleInv /\ PendingExact
    BY <1>1, NoneApart, Zenon DEF HandleInv, Kinds, PendingExact
  <1>q. QED
    BY <1>2, <1>3, <1>4, Zenon DEF RequestInv

-----------------------------------------------------------------------------
(* The coordinator.                                                        *)

(* Who answers for a handle changes only with what is held, what is taken, what is asked
   and what is done. *)
LEMMA HandlesStay ==
    ASSUME HandleInv, UNCHANGED <<g_handles, held, g_active, request>>, StopDone' = StopDone,
           \A k \in Kinds : Undone(k)' = Undone(k)
    PROVE  HandleInv'
  <1>1. (\A k \in Kinds : Owns(k)' = Owns(k)) /\ Owns("sync")' = Owns("sync")
        /\ Owns("async")' = Owns("async")
    BY Zenon DEF Owns, Kinds
  <1>2. OneOwner' = OneOwner
    BY <1>1 DEF OneOwner
  <1>q. QED
    BY <1>2, Zenon DEF HandleInv, handles_open

(* A request takes a free slot, frees its own, passes it to the personality, gets one from
   it, or has nothing to do with handles. *)
LEMMA OwnersMove ==
    ASSUME OneOwner, g_handles \in [Slots -> BOOLEAN], NEW k \in Kinds, NEW s,
           Owns(k) => request[k].slot = s, Owns(k)' => request'[k].slot = s,
           \A j \in Kinds \ {k} : Owns(j)' = Owns(j) /\ request'[j] = request[j],
           \/ ~Owns(k) /\ ~Owns(k)' /\ UNCHANGED <<g_handles, held>>
           \/ /\ ~Owns(k) /\ Owns(k)' /\ s \in Slots /\ ~g_handles[s] /\ UNCHANGED held
              /\ g_handles' = [g_handles EXCEPT ![s] = TRUE]
           \/ /\ Owns(k) /\ ~Owns(k)' /\ UNCHANGED held
              /\ g_handles' = [g_handles EXCEPT ![s] = FALSE]
           \/ Owns(k) /\ ~Owns(k)' /\ UNCHANGED g_handles /\ held' = held \cup {s}
    PROVE  OneOwner'
  <1>1. CASE ~Owns(k) /\ ~Owns(k)' /\ UNCHANGED <<g_handles, held>>
    BY <1>1 DEF OneOwner, Kinds
  <1>2. CASE /\ ~Owns(k) /\ Owns(k)' /\ s \in Slots /\ ~g_handles[s] /\ UNCHANGED held
             /\ g_handles' = [g_handles EXCEPT ![s] = TRUE]
    BY <1>2 DEF OneOwner, Kinds
  <1>3. CASE /\ Owns(k) /\ ~Owns(k)' /\ UNCHANGED held
             /\ g_handles' = [g_handles EXCEPT ![s] = FALSE]
    BY <1>3 DEF OneOwner, Kinds
  <1>4. CASE Owns(k) /\ ~Owns(k)' /\ UNCHANGED g_handles /\ held' = held \cup {s}
    BY <1>4 DEF OneOwner, Kinds
  <1>q. QED
    BY <1>1, <1>2, <1>3, <1>4, Zenon

(* The request is handed to the queue. *)
LEMMA SendKeeps ==
    ASSUME RequestInv, Send
    PROVE  RequestInv'
  <1> USE DEF RequestInv
  <1>1. /\ co = "send" /\ co' = "wait" /\ queue = << >> /\ queue' = <<"sync">>
        /\ UNCHANGED <<g_handles, g_mounted, held, g_active, g_run_clients, gate, request, pending,
                       complete, wk, serving>>
        /\ serving # "sync"
    BY Zenon DEF Send, store, life, calls, HandOver
  <1>2. AdapterTypes' /\ HandOver' /\ GateInv'
    BY <1>1 DEF AdapterTypes, HandOver, GateInv, Op
  <1>3. HandleInv'
    <2>1. (\A k \in Kinds : Undone(k)' = Undone(k)) /\ StopDone' = StopDone
      BY <1>1, Zenon DEF Undone, StopDone, Kinds
    <2>q. QED
      BY <1>1, <2>1, HandlesStay, Zenon
  <1>4. PendingExact'
    BY <1>1, Zenon DEF PendingExact
  <1>q. QED
    BY <1>2, <1>3, <1>4, Zenon

(* submit_sync returns. *)
LEMMA AnsweredKeeps ==
    ASSUME RequestInv, Answered
    PROVE  RequestInv'
  <1> USE DEF RequestInv
  <1>1. /\ co = "wait" /\ complete /\ complete' = FALSE
        /\ co' = (IF request["sync"].op = "stop" THEN "join" ELSE "idle")
        /\ request' = [request EXCEPT !["sync"] = NoRequest]
        /\ request'["sync"] = NoRequest /\ request'["async"] = request["async"]
        /\ held' = Learn(request["sync"])
        /\ pending' = IF Measured(request["sync"].op) THEN pending - 1 ELSE pending
        /\ UNCHANGED <<g_handles, g_mounted, g_active, g_run_clients, gate, queue, wk, serving>>
    BY Zenon DEF Answered, life, AdapterTypes, Kinds
  <1>2. /\ queue # <<"sync">> /\ serving # "sync" /\ g_active
        /\ request["sync"].op # "stop" => wk # "exited" /\ ~StopDone
    BY <1>1, Zenon DEF HandOver, StopDone, AdapterTypes
  <1>3. HandleInv' /\ held' \subseteq Slots
    <2>1. /\ ~Undone("sync") /\ ~Undone("sync")' /\ Undone("async")' = Undone("async")
          /\ StopDone' = StopDone
      BY <1>1, <1>2, Zenon DEF Undone, StopDone
    <2>2. /\ ~Owns("sync")' /\ Owns("async")' = Owns("async")
          /\ Owns("sync") <=> request["sync"].op = "open" /\ request["sync"].ok
      BY <1>1, <2>1, NoneApart, Zenon DEF Owns
    <2>3. CASE Owns("sync")
      BY <1>1, <1>2, <2>1, <2>2, <2>3, NoneApart DEF AdapterTypes, HandleInv, OneOwner, Learn,
         Kinds
    <2>4. CASE ~Owns("sync")
      BY <1>1, <2>1, <2>2, <2>4, NoneApart DEF AdapterTypes, HandleInv, OneOwner, Learn, Kinds,
         handles_open
    <2>q. QED
      BY <2>3, <2>4, Zenon
  <1>4. AdapterTypes'
    <2>1. request' \in [Kinds -> Requests] /\ pending' \in Int
      BY <1>1, NoneApart DEF AdapterTypes, Kinds
    <2>q. QED
      BY <1>1, <1>3, <2>1, Zenon DEF AdapterTypes
  <1>5. HandOver' /\ GateInv'
    <2>1. HandOver'
      BY <1>1, NoneApart DEF HandOver, Op
    <2>2. GateInv'
      BY <1>1, NoneApart DEF GateInv, Op
    <2>q. QED
      BY <2>1, <2>2, Zenon
  <1>6. PendingExact'
    BY <1>1, NoneApart DEF PendingExact, GateInv
  <1>q. QED
    BY <1>3, <1>4, <1>5, <1>6, Zenon

(* submit_sync, for a client of the run and for the stop request. *)
LEMMA SyncKeeps ==
    ASSUME RequestInv, NEW op \in Ops, NEW s \in Slots \cup {None},
           co = "idle", g_active, submit_sync(op, s), UNCHANGED <<g_active, gate>>,
           op = "close" => s \in held,
           g_run_clients' \subseteq g_run_clients, op = "stop" => g_run_clients' = {}
    PROVE  RequestInv'
  <1> USE DEF RequestInv
  <1>1. /\ co' = "send" /\ request' = [request EXCEPT !["sync"] = Request(op, None, s)]
        /\ request'["async"] = request["async"]
        /\ request'["sync"].op = op /\ request'["sync"].slot = s /\ request'["sync"].ok = FALSE
        /\ held' = (IF op = "close" THEN held \ {s} ELSE held)
        /\ pending' = (IF Measured(op) THEN pending + 1 ELSE pending)
        /\ UNCHANGED <<g_handles, g_mounted, g_active, gate, queue, complete, wk, serving>>
    BY Zenon DEF submit_sync, Named, AdapterTypes, Kinds, Request
  <1>2. /\ queue # <<"sync">> /\ serving # "sync" /\ wk # "exited" /\ ~complete
        /\ request["sync"] = NoRequest
    BY Zenon DEF HandOver, GateInv
  <1>3. HandleInv'
    <2>1. /\ ~Undone("sync") /\ Undone("sync")' /\ Undone("async")' = Undone("async")
          /\ ~StopDone /\ ~StopDone'
      BY <1>1, <1>2, Zenon DEF Undone, StopDone
    <2>2. ~Owns("sync") /\ Owns("async")' = Owns("async") /\ (Owns("sync")' <=> op = "close")
      BY <1>1, <1>2, <2>1, NoneApart, Zenon DEF Owns
    <2>3. CASE op = "close"
      BY <1>1, <2>1, <2>2 DEF AdapterTypes, HandleInv, OneOwner, Kinds
    <2>4. CASE op # "close"
      BY <1>1, <2>1, <2>2, <2>4 DEF HandleInv, OneOwner, Kinds
    <2>q. QED
      BY <2>3, <2>4, Zenon
  <1>4. AdapterTypes'
    <2>1. Request(op, None, s) \in Requests
      BY Zenon DEF Requests, Request
    <2>2. request' \in [Kinds -> Requests] /\ pending' \in Int /\ held' \subseteq Slots
      BY <1>1, <2>1 DEF AdapterTypes, Kinds
    <2>q. QED
      BY <1>1, <2>2, Zenon DEF AdapterTypes
  <1>5. HandOver' /\ GateInv'
    <2>1. HandOver'
      BY <1>1, NoneApart DEF AdapterTypes, HandOver, Op
    <2>2. GateInv'
      BY <1>1, <1>2, NoneApart DEF GateInv
    <2>q. QED
      BY <2>1, <2>2, Zenon
  <1>6. PendingExact'
    BY <1>1, <1>2, NoneApart DEF PendingExact
  <1>q. QED
    BY <1>3, <1>4, <1>5, <1>6, Zenon

(* submit_async. *)
LEMMA AsyncKeeps ==
    ASSUME RequestInv, NEW o \in Owners, NEW op \in FsOps \cup BlockOps,
           NEW s \in Slots \cup {None}, Submit(o, op, s), co = "idle", g_active,
           op = "close" => s \in held
    PROVE  RequestInv'
  <1> USE DEF RequestInv
  <1>1. /\ gate = Idle /\ gate' = [state |-> "active", owner |-> o]
        /\ queue = << >> /\ queue' = <<"async">>
        /\ request' = [request EXCEPT !["async"] = Request(op, o, s)]
        /\ request'["sync"] = request["sync"]
        /\ request'["async"].op = op /\ request'["async"].slot = s /\ request'["async"].ok = FALSE
        /\ request'["async"].owner = o
        /\ held' = (IF op = "close" THEN held \ {s} ELSE held)
        /\ pending' = pending + 1
        /\ UNCHANGED <<g_handles, g_mounted, g_active, g_run_clients, complete, co, wk, serving>>
    BY Zenon DEF Submit, Named, life, AdapterTypes, Kinds, Request
  <1>2. /\ gate' \in Gates /\ gate'.state = "active" /\ gate'.owner = o /\ gate.state = "idle"
        /\ request["async"] = NoRequest /\ request["sync"] = NoRequest
        /\ op \in Ops /\ op \notin {None, "stop"}
    BY <1>1, NoneApart, Zenon DEF Gates, GateInv, Ops, FsOps, BlockOps
  <1>3. serving = None /\ wk # "exited" /\ wk # "finish"
    BY <1>2, NoneApart, Zenon DEF AdapterTypes, HandOver, GateInv
  <1>4. HandleInv'
    <2>1. /\ ~Undone("async") /\ Undone("async")' /\ Undone("sync")' = Undone("sync")
          /\ ~StopDone /\ ~StopDone'
      BY <1>1, <1>3, NoneApart, Zenon DEF Undone, StopDone
    <2>2. ~Owns("async") /\ Owns("sync")' = Owns("sync") /\ (Owns("async")' <=> op = "close")
      BY <1>1, <1>2, <2>1, NoneApart, Zenon DEF Owns
    <2>3. CASE op = "close"
      BY <1>1, <2>1, <2>2 DEF AdapterTypes, HandleInv, OneOwner, Kinds
    <2>4. CASE op # "close"
      BY <1>1, <2>1, <2>2, <2>4 DEF HandleInv, OneOwner, Kinds
    <2>q. QED
      BY <2>3, <2>4, Zenon
  <1>5. AdapterTypes'
    <2>1. Request(op, o, s) \in Requests
      BY <1>2, Zenon DEF Requests, Request
    <2>2. request' \in [Kinds -> Requests] /\ pending' \in Int /\ held' \subseteq Slots
      BY <1>1, <2>1 DEF AdapterTypes, Kinds
    <2>q. QED
      BY <1>1, <1>2, <2>2, Zenon DEF AdapterTypes
  <1>6. HandOver' /\ GateInv'
    <2>1. HandOver'
      BY <1>1, <1>2, <1>3 DEF HandOver
    <2>2. GateInv'
      BY <1>1, <1>2, <1>3, NoneApart DEF GateInv
    <2>q. QED
      BY <2>1, <2>2, Zenon
  <1>7. PendingExact'
    BY <1>1, <1>2 DEF PendingExact
  <1>q. QED
    BY <1>4, <1>5, <1>6, <1>7, Zenon

(* The asynchronous request is gone: collected, its handle is the personality's; dropped,
   its handle is free again. *)
LEMMA AsyncEnds ==
    ASSUME RequestInv, gate # Idle, gate' = Idle, queue # <<"async">>,
           request' = [request EXCEPT !["async"] = NoRequest],
           \/ held' = Learn(request["async"]) /\ UNCHANGED g_handles
           \/ async_discard(request["async"]) /\ UNCHANGED held,
           UNCHANGED <<g_mounted, g_active, g_run_clients, queue, complete, co>>,
           \/ serving # "async" /\ UNCHANGED <<wk, serving>>
           \/ wk = "finish" /\ wk' = "receive" /\ serving = "async" /\ serving' = None,
           ~StopDone,
           gate.state \in {"active", "complete"} => pending' = pending - 1,
           gate.state = "cancelled" => pending' = pending
    PROVE  RequestInv'
  <1> USE DEF RequestInv
  <1>1. /\ request'["async"] = NoRequest /\ request'["sync"] = request["sync"]
        /\ serving' # "async"
    BY NoneApart, Zenon DEF AdapterTypes, Kinds, GateInv
  <1>2. HandleInv' /\ held' \subseteq Slots
    <2>1. /\ ~Undone("async") /\ ~Undone("async")' /\ Undone("sync")' = Undone("sync")
          /\ ~StopDone'
      BY <1>1, NoneApart, Zenon DEF Undone, StopDone
    <2>2. /\ ~Owns("async")' /\ Owns("sync")' = Owns("sync")
          /\ Owns("async") <=> request["async"].op = "open" /\ request["async"].ok
      BY <1>1, <2>1, NoneApart, Zenon DEF Owns
    <2>3. CASE held' = Learn(request["async"]) /\ UNCHANGED g_handles
      BY <2>1, <2>2, <2>3, NoneApart DEF AdapterTypes, HandleInv, OneOwner, Learn, Kinds
    <2>4. CASE async_discard(request["async"]) /\ UNCHANGED held
      <3>1. \A s \in Slots : g_handles'[s] <=> g_handles[s] /\ ~(Owns("async") /\ request["async"].slot = s)
        BY <2>2, <2>4, Zenon DEF async_discard
      <3>q. QED
        BY <2>1, <2>2, <2>4, <3>1, NoneApart DEF AdapterTypes, HandleInv, OneOwner, Kinds
    <2>q. QED
      BY <2>3, <2>4, Zenon
  <1>3. AdapterTypes'
    <2>1. request' \in [Kinds -> Requests] /\ pending' \in Int
      BY NoneApart DEF AdapterTypes, Gates, Kinds
    <2>2. g_handles' \in [Slots -> BOOLEAN]
      BY Zenon DEF AdapterTypes, async_discard
    <2>q. QED
      BY <1>2, <2>1, <2>2, Zenon DEF AdapterTypes
  <1>4. HandOver' /\ GateInv'
    <2>1. HandOver'
      BY NoneApart DEF HandOver, Op
    <2>2. GateInv'
      BY <1>1, NoneApart, Zenon DEF GateInv
    <2>q. QED
      BY <2>1, <2>2, Zenon
  <1>5. PendingExact'
    BY NoneApart DEF PendingExact, AdapterTypes, Gates
  <1>q. QED
    BY <1>2, <1>3, <1>4, <1>5, Zenon

(* The asynchronous request changes its state: it is complete, or cancelled before. *)
LEMMA GateKeeps ==
    ASSUME RequestInv, gate.state = "active", NEW st, gate' = [gate EXCEPT !.state = st],
           \/ /\ st = "cancelled" /\ pending' = pending - 1
              /\ UNCHANGED <<wk, serving>>
           \/ /\ st = "complete" /\ pending' = pending
              /\ wk = "finish" /\ wk' = "receive" /\ serving = "async" /\ serving' = None,
           UNCHANGED <<g_handles, g_mounted, held, g_active, g_run_clients, request, queue, complete, co>>
    PROVE  RequestInv'
  <1> USE DEF RequestInv
  <1>1. /\ gate \in Gates /\ gate' \in Gates /\ gate'.state = st /\ gate'.owner = gate.owner
        /\ gate # Idle /\ gate' # Idle
    BY NoneApart, Zenon DEF AdapterTypes, Gates
  <1>2. AdapterTypes' /\ HandOver' /\ GateInv'
    <2>1. AdapterTypes'
      BY <1>1 DEF AdapterTypes
    <2>2. HandOver'
      BY NoneApart DEF HandOver, Op
    <2>3. GateInv'
      BY <1>1, NoneApart DEF GateInv
    <2>q. QED
      BY <2>1, <2>2, <2>3, Zenon
  <1>3. HandleInv'
    <2>1. (\A k \in Kinds : Undone(k)' = Undone(k)) /\ StopDone' = StopDone
      BY NoneApart, Zenon DEF Undone, Kinds, StopDone
    <2>q. QED
      BY <2>1, HandlesStay, Zenon
  <1>4. PendingExact'
    BY <1>1 DEF PendingExact, AdapterTypes
  <1>q. QED
    BY <1>2, <1>3, <1>4, Zenon

(* Without a synchronous request the run is not stopped. *)
LEMMA IdleNotStopped ==
    ASSUME RequestInv, co = "idle"
    PROVE  ~StopDone
  BY NoneApart, Zenon DEF RequestInv, HandOver, StopDone

(* Collecting a completed request frees the gate and hands its handle to the personality. *)
LEMMA CollectKeeps ==
    ASSUME RequestInv, NEW o \in Owners, Collect(o)
    PROVE  RequestInv'
  <1>1. /\ gate = [state |-> "complete", owner |-> o] /\ gate' = Idle /\ co = "idle"
        /\ request' = [request EXCEPT !["async"] = NoRequest]
        /\ held' = Learn(request["async"]) /\ UNCHANGED g_handles /\ pending' = pending - 1
        /\ UNCHANGED <<g_mounted, g_active, g_run_clients, queue, complete, co>>
        /\ UNCHANGED <<wk, serving>>
    BY Zenon DEF Collect, async_collect, life
  <1>2. /\ gate.state = "complete" /\ gate.state # "cancelled" /\ gate # Idle
        /\ queue # <<"async">> /\ serving # "async"
    BY <1>1, NoneApart DEF RequestInv, GateInv
  <1>q. QED
    BY <1>1, <1>2, IdleNotStopped, AsyncEnds, Zenon

(* A cancellation drops a completed request or marks one under way. *)
LEMMA CancelKeeps ==
    ASSUME RequestInv, NEW o \in Owners, fs_request_cancel(o)
    PROVE  RequestInv'
  <1>1. /\ co = "idle" /\ pending' = pending - 1 /\ UNCHANGED held
        /\ UNCHANGED <<g_mounted, g_active, g_run_clients, queue, complete, co>>
        /\ UNCHANGED <<wk, serving>>
    BY Zenon DEF fs_request_cancel, life
  <1>2. CASE gate.state = "complete"
    <2>1. /\ gate' = Idle /\ async_discard(request["async"])
          /\ request' = [request EXCEPT !["async"] = NoRequest]
      BY <1>2, Zenon DEF fs_request_cancel
    <2>2. gate.state # "cancelled" /\ gate # Idle /\ queue # <<"async">> /\ serving # "async"
      BY <1>2, NoneApart, Zenon DEF RequestInv, GateInv
    <2>q. QED
      BY <1>1, <2>1, <2>2, IdleNotStopped, AsyncEnds, Zenon
  <1>3. CASE gate.state = "active"
    <2>1. gate' = [gate EXCEPT !.state = "cancelled"] /\ UNCHANGED <<g_handles, request>>
      BY <1>3, Zenon DEF fs_request_cancel
    <2>q. QED
      BY <1>1, <1>3, <2>1, GateKeeps, Zenon
  <1>q. QED
    BY <1>2, <1>3, Zenon DEF fs_request_cancel

(* Steps of the card, of the raw block API and of an open of it. *)
LEMMA ElsewhereKeeps ==
    ASSUME RequestInv, co = co' \/ {co, co'} = {"idle", "opening"}, g_active \/ co = co',
           (co = "idle" /\ g_active) \/ UNCHANGED g_run_clients,
           UNCHANGED <<g_handles, g_mounted, held, g_active, gate, request, pending, queue, complete,
                       wk, serving>>
    PROVE  RequestInv'
  <1> USE DEF RequestInv
  <1>1. co # co' => {co, co'} \cap {"send", "wait", "join"} = {}
    BY Zenon
  <1>2. AdapterTypes' /\ HandOver' /\ GateInv'
    <2>1. AdapterTypes'
      BY Zenon DEF AdapterTypes
    <2>2. HandOver'
      BY DEF HandOver, Op
    <2>3. GateInv'
      BY <1>1 DEF GateInv
    <2>q. QED
      BY <2>1, <2>2, <2>3, Zenon
  <1>3. HandleInv'
    <2>1. (\A k \in Kinds : Undone(k)' = Undone(k)) /\ StopDone' = StopDone
      BY <1>1, Zenon DEF Undone, StopDone
    <2>q. QED
      BY <2>1, HandlesStay, Zenon
  <1>4. PendingExact'
    BY Zenon DEF PendingExact
  <1>q. QED
    BY <1>2, <1>3, <1>4, Zenon

(* storage_run_begin of the first client blanks everything. *)
LEMMA BeginKeeps ==
    ASSUME RequestInv, NEW c \in {"fs", "block"}, run_begin(c)
    PROVE  RequestInv'
  <1>1. CASE g_active
    <2>1. /\ co = "idle" /\ co = co'
          /\ UNCHANGED <<g_handles, g_mounted, held, g_active, gate, request, pending, queue, complete,
                         wk, serving>>
      BY <1>1, Zenon DEF run_begin, store, calls
    <2>q. QED
      BY <1>1, <2>1, ElsewhereKeeps, Zenon
  <1>2. CASE ~g_active
    <2>1. /\ g_handles' = [s \in Slots |-> FALSE] /\ held' = {} /\ gate' = Idle /\ pending' = 0
          /\ queue' = << >> /\ serving' = serving /\ complete' = FALSE /\ g_mounted' = FALSE
          /\ co = "idle"
      BY <1>2, Zenon DEF run_begin
    <2>2. /\ serving = None /\ "start" # None /\ Request("start", None, None) \in Requests
          /\ wk = "none" /\ g_run_clients = {}
      BY <1>2, StorageAssumption, Zenon DEF RequestInv, HandOver, Requests, Request, Ops
    <2>t. ASSUME request' \in [Kinds -> Requests], g_active' \in BOOLEAN
          PROVE  AdapterTypes'
      <3>1. pending' \in Int
        BY <2>1
      <3>q. QED
        BY <2>1, <2>2, <2>t, <3>1, NoneApart, Zenon DEF AdapterTypes
    <2>3. CASE g_active'
      <3>1. /\ co' = "send" /\ wk' = "receive" /\ g_active' = TRUE
            /\ request' = [k \in Kinds |->
                              IF k = "sync" THEN Request("start", None, None) ELSE NoRequest]
            /\ request'["async"] = NoRequest
            /\ request'["sync"].op = "start" /\ request'["sync"].ok = FALSE
        <4>1. /\ co' = "send" /\ wk' = "receive" /\ g_active' = TRUE
              /\ request' = [k \in Kinds |->
                                IF k = "sync" THEN Request("start", None, None) ELSE NoRequest]
          BY <1>2, <2>3, Zenon DEF run_begin, Kinds
        <4>q. QED
          BY <4>1 DEF Kinds, Request
      <3>2. AdapterTypes'
        <4>1. request' \in [Kinds -> Requests]
          BY <2>2, <3>1, NoneApart, Zenon
        <4>q. QED
          BY <2>t, <3>1, <4>1, Zenon
      <3>3. HandOver' /\ GateInv'
        BY <2>1, <2>2, <3>1, NoneApart, Zenon DEF HandOver, GateInv
      <3>4. HandleInv'
        BY <2>1, <2>2, <3>1, NoneApart, Zenon DEF HandleInv, OneOwner, Owns, StopDone, Kinds
      <3>5. PendingExact'
        BY <2>1, <2>2, <3>1, NoneApart DEF PendingExact, Measured
      <3>q. QED
        BY <3>2, <3>3, <3>4, <3>5, Zenon DEF RequestInv
    <2>4. CASE ~g_active'
      <3>1. /\ request' = [k \in Kinds |-> NoRequest]
            /\ request'["sync"] = NoRequest /\ request'["async"] = NoRequest
            /\ UNCHANGED <<g_active, g_run_clients, co, wk>>
        BY <1>2, <2>4, Zenon DEF run_begin, Kinds
      <3>2. AdapterTypes'
        BY <2>t, <3>1, NoneApart, Zenon DEF RequestInv, AdapterTypes
      <3>3. HandOver' /\ GateInv'
        BY <2>1, <2>2, <3>1, NoneApart, Zenon DEF HandOver, GateInv
      <3>4. HandleInv' /\ PendingExact'
        BY <1>2, <3>1, NoneApart, Zenon DEF HandleInv, Kinds, PendingExact
      <3>q. QED
        BY <3>2, <3>3, <3>4, Zenon DEF RequestInv
    <2>q. QED
      BY <2>3, <2>4, Zenon
  <1>q. QED
    BY <1>1, <1>2, Zenon

(* storage_run_end, the last of which submits the stop request. *)
LEMMA EndKeeps ==
    ASSUME RequestInv, NEW c \in {"fs", "block"}, run_end(c)
    PROVE  RequestInv'
  <1>1. co = "idle" /\ g_active /\ UNCHANGED <<g_mounted, g_active, gate>>
    BY Zenon DEF run_end, RequestInv, AdapterTypes, HandOver, store, calls, submit_sync
  <1>2. CASE g_run_clients # {c}
    <2>1. UNCHANGED <<g_handles, g_mounted, held, g_active, gate, request, pending, queue, complete,
                      co, wk, serving>>
      BY <1>2, Zenon DEF run_end, store, calls
    <2>q. QED
      BY <1>1, <2>1, ElsewhereKeeps, Zenon
  <1>3. CASE g_run_clients = {c}
    <2>1. submit_sync("stop", None) /\ g_run_clients' = {}
      BY <1>3, Zenon DEF run_end
    <2>2. "stop" \in Ops \ {"close"}
      BY Zenon DEF Ops
    <2>q. QED
      BY <1>1, <2>1, <2>2, SyncKeeps, Zenon
  <1>q. QED
    BY <1>2, <1>3, Zenon

(* The worker has exited. *)
LEMMA JoinedKeeps ==
    ASSUME RequestInv, Joined
    PROVE  RequestInv'
  <1> USE DEF RequestInv
  <1>1. /\ co = "join" /\ co' = "idle" /\ wk = "exited" /\ wk' = "none" /\ g_active' = FALSE
        /\ g_handles' = [s \in Slots |-> FALSE]
        /\ UNCHANGED <<g_mounted, held, g_run_clients, gate, request, pending, queue, complete,
                       serving>>
    BY Zenon DEF Joined, calls
  <1>2. AdapterTypes'
    BY <1>1, Zenon DEF AdapterTypes
  <1>3. HandOver' /\ GateInv'
    BY <1>1, NoneApart, Zenon DEF HandOver, GateInv
  <1>4. HandleInv' /\ PendingExact'
    BY <1>1, Zenon DEF HandleInv, Undone, Kinds, PendingExact
  <1>q. QED
    BY <1>2, <1>3, <1>4, Zenon

-----------------------------------------------------------------------------
(* The worker.                                                             *)

(* It takes the request. *)
LEMMA ReceiveKeeps ==
    ASSUME RequestInv, Receive
    PROVE  RequestInv'
  <1> USE DEF RequestInv
  <1>1. /\ queue \in {<<"sync">>, <<"async">>} /\ queue = <<serving'>> /\ queue' = << >>
        /\ wk = "receive" /\ wk' = "execute" /\ serving = None /\ serving' \in Kinds
        /\ UNCHANGED <<g_handles, g_mounted, held, g_active, g_run_clients, gate, request, pending,
                       complete, co>>
    BY DEF Receive, store, life, calls, AdapterTypes, HandOver, Kinds
  <1>2. AdapterTypes' /\ HandOver' /\ GateInv'
    <2>1. AdapterTypes'
      BY <1>1, Zenon DEF AdapterTypes
    <2>2. HandOver'
      BY <1>1, NoneApart DEF HandOver
    <2>3. GateInv'
      BY <1>1, NoneApart DEF GateInv, Kinds
    <2>q. QED
      BY <2>1, <2>2, <2>3, Zenon
  <1>3. HandleInv'
    <2>1. (\A k \in Kinds : Undone(k)' = Undone(k)) /\ StopDone' = StopDone
      BY <1>1, NoneApart, Zenon DEF Undone, Kinds, StopDone
    <2>q. QED
      BY <1>1, <2>1, HandlesStay, Zenon
  <1>4. PendingExact'
    BY <1>1, Zenon DEF PendingExact
  <1>q. QED
    BY <1>2, <1>3, <1>4, Zenon

(* It publishes the result. *)
LEMMA FinishKeeps ==
    ASSUME RequestInv, Finish
    PROVE  RequestInv'
  <1>1. /\ wk = "finish" /\ serving' = None /\ UNCHANGED held /\ pending' = pending
        /\ UNCHANGED <<g_mounted, g_active, g_run_clients, queue, co>>
    BY Zenon DEF Finish, life
  <1>2. CASE serving = "async" /\ gate.state = "active"
    <2>1. /\ gate' = [gate EXCEPT !.state = "complete"] /\ wk' = "receive"
          /\ UNCHANGED <<g_handles, request, complete>>
      BY <1>2, Zenon DEF Finish
    <2>q. QED
      BY <1>1, <1>2, <2>1, GateKeeps, Zenon
  <1>3. CASE serving = "async" /\ gate.state = "cancelled"
    <2>1. /\ gate' = Idle /\ async_discard(request["async"]) /\ wk' = "receive"
          /\ request' = [request EXCEPT !["async"] = NoRequest] /\ UNCHANGED complete
      BY <1>3, Zenon DEF Finish
    <2>2. gate # Idle /\ queue # <<"async">> /\ ~StopDone
      BY <1>1, <1>3, NoneApart, Zenon DEF RequestInv, GateInv, StopDone
    <2>q. QED
      BY <1>1, <1>3, <2>1, <2>2, AsyncEnds, Zenon
  <1>4. CASE serving = "sync"
    <2> USE DEF RequestInv
    <2>1. /\ wk' = (IF request["sync"].op = "stop" THEN "exited" ELSE "receive") /\ complete' = TRUE
          /\ UNCHANGED <<g_handles, gate, request>>
          /\ co = "wait" /\ queue # <<"sync">>
      BY <1>4, Zenon DEF Finish, Op, HandOver
    <2>2. AdapterTypes'
      BY <1>1, <2>1, Zenon DEF AdapterTypes
    <2>3. HandOver' /\ GateInv'
      BY <1>1, <1>4, <2>1, NoneApart, Zenon DEF AdapterTypes, HandOver, GateInv
    <2>4. HandleInv'
      <3>1. (\A k \in Kinds : Undone(k)' = Undone(k)) /\ StopDone' = StopDone
        BY <1>1, <1>4, <2>1, NoneApart, Zenon DEF Undone, Kinds, StopDone
      <3>q. QED
        BY <1>1, <2>1, <3>1, HandlesStay, Zenon
    <2>5. PendingExact'
      BY <1>1, <2>1, Zenon DEF PendingExact
    <2>q. QED
      BY <2>2, <2>3, <2>4, <2>5, Zenon
  <1>q. QED
    BY <1>2, <1>3, <1>4, Zenon DEF Finish

(* The worker is at a request. *)
Executing == serving \in Kinds /\ g_active /\ wk \in {"execute", "info", "open", "failed", "fs"}

(* Where the worker is at a request, the run is active. *)
LEMMA AtRequest ==
    ASSUME RequestInv, wk \in {"execute", "info", "open", "failed", "fs"}
    PROVE  Executing
  BY Zenon DEF RequestInv, AdapterTypes, HandOver, Executing, Kinds

(* It has a result: ok, for a request whose slot is s now. *)
Settles(ok, s) ==
    /\ request'[serving].op = Op /\ request'[serving].owner = request[serving].owner
    /\ request'[serving].slot = s
    /\ request'[serving].ok <=> ok /\ Op \in {"open"} \cup Reads
    /\ \A k \in Kinds \ {serving} : request'[k] = request[k]
    /\ request' \in [Kinds -> Requests]
    /\ wk' = "finish"
    /\ UNCHANGED <<g_active, g_run_clients, gate, pending, queue, complete, co, serving>>

(* A result settles the request and what becomes of its handle. *)
LEMMA OutcomeSettles ==
    ASSUME RequestInv, Executing, NEW ok \in BOOLEAN, NEW s \in Slots \cup {None}, NEW valid,
           Outcome(ok, s, valid)
    PROVE  Settles(ok, s)
  <1>1. /\ serving \in Kinds /\ request \in [Kinds -> Requests] /\ request[serving] \in Requests
        /\ (ok /\ Op \in {"open"} \cup Reads) \in BOOLEAN
    BY Zenon DEF RequestInv, AdapterTypes, Executing
  <1>2. request' \in [Kinds -> Requests]
    BY <1>1, Zenon DEF Outcome, Requests
  <1>q. QED
    BY <1>1, <1>2, Zenon DEF Kinds, Requests, Outcome, Settles, Op

(* The worker has only to publish the result of the request it has. *)
LEMMA HandOverStays ==
    ASSUME HandOver, wk \notin {"none", "receive", "exited"}, wk' = "finish", serving # None,
           request'["sync"].op = request["sync"].op, request'["async"].op = request["async"].op,
           UNCHANGED <<g_active, g_run_clients, queue, complete, co, serving>>
    PROVE  HandOver'
  BY DEF HandOver

(* The gate does not see results. *)
LEMMA GateStays ==
    ASSUME GateInv,
           request'["sync"].op = request["sync"].op, request'["async"].op = request["async"].op,
           request'["async"].owner = request["async"].owner,
           gate = Idle => request'["async"] = request["async"],
           co \notin {"send", "wait"} => request'["sync"] = request["sync"],
           UNCHANGED <<gate, queue, co, serving>>
    PROVE  GateInv'
  BY DEF GateInv

(* What a result does to hand-over, gate and count. *)
LEMMA ResultKeeps ==
    ASSUME RequestInv, Executing, NEW ok \in BOOLEAN, NEW s, Settles(ok, s)
    PROVE  HandOver' /\ GateInv' /\ PendingExact'
  <1> USE DEF RequestInv, Executing
  <1>1. /\ request'["sync"].op = request["sync"].op /\ request'["async"].op = request["async"].op
        /\ request'["async"].owner = request["async"].owner
        /\ serving = "sync" => request'["async"] = request["async"] /\ co = "wait"
        /\ serving = "async" => request'["sync"] = request["sync"]
        /\ wk' = "finish"
        /\ UNCHANGED <<g_active, g_run_clients, gate, pending, queue, complete, co, serving>>
    BY Zenon DEF Settles, Kinds, Op, HandOver
  <1>2. HandOver'
    <2>1. wk \notin {"none", "receive", "exited"} /\ serving # None
      BY Zenon DEF HandOver
    <2>q. QED
      BY <1>1, <2>1, HandOverStays, Zenon
  <1>g. GateInv'
    <2>1. /\ gate # Idle \/ serving = "sync"
          /\ co \in {"send", "wait"} \/ serving = "async"
      BY <1>1, NoneApart, Zenon DEF GateInv, Kinds
    <2>2. /\ gate = Idle => request'["async"] = request["async"]
          /\ co \notin {"send", "wait"} => request'["sync"] = request["sync"]
      BY <1>1, <2>1, Zenon
    <2>q. QED
      BY <1>1, <2>2, GateStays, Zenon
  <1>3. PendingExact'
    BY <1>1, Zenon DEF PendingExact
  <1>q. QED
    BY <1>2, <1>3, <1>g, Zenon

(* A result settles who answers for the slot. *)
LEMMA ResultOwners ==
    ASSUME RequestInv, Executing, NEW ok \in BOOLEAN, NEW s, Settles(ok, s)
    PROVE  /\ ~Undone(serving)' /\ ~StopDone /\ (StopDone' <=> Op = "stop")
           /\ Owns(serving) <=> Op = "close"
           /\ Owns(serving)' <=> Op = "open" /\ ok
           /\ \A k \in Kinds \ {serving} : /\ Owns(k)' = Owns(k) /\ Undone(k)' = Undone(k)
                                           /\ request'[k] = request[k]
  <1> USE DEF RequestInv, Executing
  <1>1. /\ request'[serving].op = Op
        /\ request'[serving].ok <=> ok /\ Op \in {"open"} \cup Reads
        /\ \A k \in Kinds \ {serving} : request'[k] = request[k]
        /\ wk' = "finish" /\ UNCHANGED <<g_active, queue, co, serving>>
        /\ Undone(serving) /\ queue # <<serving>> /\ ~(serving = "sync" /\ co = "send")
    <2>1. queue # <<serving>> /\ ~(serving = "sync" /\ co = "send")
      BY DEF GateInv, Kinds, HandOver
    <2>q. QED
      BY <2>1, Zenon DEF Settles, Undone
  <1>2. ~Undone(serving)' /\ ~StopDone /\ (StopDone' <=> Op = "stop")
    BY <1>1, Zenon DEF Undone, StopDone, Op, HandOver, Kinds
  <1>3. \A k \in Kinds \ {serving} : Undone(k)' = Undone(k)
    BY <1>1, Zenon DEF Undone
  <1>4. Owns(serving) <=> Op = "close"
    BY <1>1, Zenon DEF Owns, HandleInv, Op
  <1>5. Owns(serving)' <=> Op = "open" /\ ok
    BY <1>1, <1>2, Zenon DEF Owns, Op
  <1>q. QED
    BY <1>1, <1>2, <1>3, <1>4, <1>5, Zenon DEF Owns

(* HandleInv of the next state, part by part. *)
LEMMA HandleParts ==
    ASSUME \A k \in Kinds :
              /\ Undone(k)' => ~request'[k].ok
              /\ request'[k].op = "open" /\ request'[k].ok => request'[k].slot \in Slots,
           StopDone' \/ OneOwner', StopDone' => held' = {} /\ ~handles_open'
    PROVE  HandleInv'
  BY Zenon DEF HandleInv

(* What a result does to the handles: nothing, or an open takes a free slot, a close frees
   its own or gives it back to the personality, the stop frees all. *)
Moves(ok, s) ==
    \/ /\ ~ok \/ Op # "open"
       /\ Op \notin {"close", "stop"} /\ UNCHANGED <<g_handles, held>>
    \/ /\ Op = "open" /\ ok /\ s \in Slots /\ ~g_handles[s]
       /\ g_handles' = [g_handles EXCEPT ![s] = TRUE] /\ UNCHANGED held
    \/ /\ Op = "close" /\ UNCHANGED held
       /\ g_handles' = [g_handles EXCEPT ![request[serving].slot] = FALSE]
    \/ /\ Op = "close" /\ UNCHANGED g_handles
       /\ held' = held \cup {request[serving].slot}
    \/ Op = "stop" /\ held' = {} /\ g_handles' = [t \in Slots |-> FALSE]

(* Handles keep one owner through a result. *)
LEMMA ResultHandles ==
    ASSUME RequestInv, Executing, NEW ok \in BOOLEAN, NEW s, Settles(ok, s), g_mounted' \in BOOLEAN,
           Moves(ok, s)
    PROVE  AdapterTypes' /\ HandleInv'
  <1>1. /\ request'[serving].op = Op /\ request'[serving].slot = s
        /\ request'[serving].ok <=> ok /\ Op \in {"open"} \cup Reads
        /\ UNCHANGED <<g_active, serving>>
        /\ ~Undone(serving)' /\ ~StopDone /\ (StopDone' <=> Op = "stop")
        /\ Owns(serving) <=> Op = "close"
        /\ Owns(serving)' <=> Op = "open" /\ ok
        /\ \A k \in Kinds \ {serving} : /\ Owns(k)' = Owns(k) /\ Undone(k)' = Undone(k)
                                        /\ request'[k] = request[k]
    BY ResultOwners, Zenon DEF Settles
  <1>2. /\ OneOwner /\ HandleInv /\ AdapterTypes /\ serving \in Kinds /\ held \subseteq Slots
        /\ g_handles \in [Slots -> BOOLEAN]
    BY <1>1, Zenon DEF RequestInv, HandleInv, AdapterTypes, Executing
  <1>3. AdapterTypes'
    <2>1. Op = "close" => request[serving].slot \in Slots
      BY <1>1, <1>2, Zenon DEF OneOwner
    <2>2. held' \subseteq Slots
      BY <1>2, <2>1, Zenon DEF Moves
    <2>3. g_handles' \in [Slots -> BOOLEAN]
      BY <1>2, Zenon DEF Moves
    <2>q. QED
      BY <1>2, <2>2, <2>3, Zenon DEF AdapterTypes, Settles
  <1>4. \A k \in Kinds : /\ Undone(k)' => ~request'[k].ok
                         /\ request'[k].op = "open" /\ request'[k].ok => request'[k].slot \in Slots
    <2>1. Op = "open" /\ ok => s \in Slots
      BY Zenon DEF Moves
    <2>q. QED
      BY <1>1, <1>2, <2>1, Zenon DEF HandleInv
  <1>5. CASE Op = "stop"
    <2>1. StopDone' /\ held' = {} /\ ~handles_open'
      BY <1>1, <1>5, Zenon DEF Moves, handles_open
    <2>q. QED
      BY <1>3, <1>4, <2>1, HandleParts, Zenon
  <1>6. CASE Op # "stop"
    <2>1. OneOwner'
      <3> DEFINE t == IF Op = "close" THEN request[serving].slot ELSE s
      <3>1. \A k \in Kinds :
               k = serving => /\ Owns(k) <=> Op = "close"
                              /\ Owns(k)' <=> Op = "open" /\ ok
                              /\ Owns(k) => request[k].slot = t
                              /\ Owns(k)' => request'[k].slot = t
                              /\ \A j \in Kinds \ {k} : Owns(j)' = Owns(j) /\ request'[j] = request[j]
        BY <1>1, Zenon
      <3>2. CASE Op = "close"
        BY <1>2, <3>1, <3>2, OwnersMove, Zenon DEF Moves
      <3>3. CASE Op = "open" /\ ok
        BY <1>2, <3>1, <3>3, OwnersMove, Zenon DEF Moves
      <3>4. CASE Op # "close" /\ ~(Op = "open" /\ ok)
        BY <1>2, <1>6, <3>1, <3>4, OwnersMove, Zenon DEF Moves
      <3>q. QED
        BY <3>2, <3>3, <3>4, Zenon
    <2>2. ~StopDone'
      BY <1>1, <1>6, Zenon
    <2>q. QED
      BY <1>3, <1>4, <2>1, <2>2, HandleParts, Zenon
  <1>q. QED
    BY <1>5, <1>6, Zenon

(* The worker goes on with the request. *)
LEMMA GoesOnKeeps ==
    ASSUME RequestInv, Executing, wk' \in {"execute", "info", "open", "failed", "fs"},
           wk' \in {"info", "open", "failed"} => Op \in BlockOps,
           wk' = "fs" => Op \in {"open", "close", "read", "write"},
           UNCHANGED <<g_handles, g_mounted, held, g_active, g_run_clients, gate, request, pending,
                       queue, complete, co, serving>>
    PROVE  RequestInv'
  <1> USE DEF RequestInv, Executing
  <1>1. AdapterTypes' /\ GateInv'
    <2>1. AdapterTypes'
      BY Zenon DEF AdapterTypes
    <2>2. GateInv'
      BY DEF GateInv
    <2>q. QED
      BY <2>1, <2>2, Zenon
  <1>2. HandOver'
    BY DEF HandOver, Kinds, Op
  <1>3. HandleInv'
    <2>1. /\ \A k \in Kinds : Undone(k)' = Undone(k)
          /\ StopDone' = StopDone
      BY Zenon DEF Undone, StopDone
    <2>q. QED
      BY <2>1, HandlesStay, Zenon
  <1>4. PendingExact'
    BY Zenon DEF PendingExact
  <1>q. QED
    BY <1>1, <1>2, <1>3, <1>4, Zenon

(* A result for a request that has nothing to do with handles. *)
LEMMA PlainKeeps ==
    ASSUME RequestInv, Executing, Op \notin {"open", "close", "stop"},
           NEW ok \in BOOLEAN, NEW valid, Outcome(ok, request[serving].slot, valid),
           UNCHANGED <<g_handles, held>>, g_mounted' \in BOOLEAN
    PROVE  RequestInv'
  <1>1. request[serving].slot \in Slots \cup {None}
    BY Zenon DEF RequestInv, AdapterTypes, Requests, Executing
  <1>2. Settles(ok, request[serving].slot)
    BY <1>1, OutcomeSettles, Zenon
  <1>3. AdapterTypes' /\ HandleInv'
    BY <1>2, ResultHandles, Zenon DEF Moves
  <1>q. QED
    BY <1>2, <1>3, ResultKeeps, Zenon DEF RequestInv

(* A transfer over a lease. *)
LEMMA TransferKeeps ==
    ASSUME RequestInv, Executing, Op \in BlockOps, NEW l, Transfer(l), UNCHANGED store
    PROVE  RequestInv'
  <1>1. /\ Op \notin {"open", "close", "stop"} /\ UNCHANGED <<g_handles, held>>
        /\ g_mounted' = g_mounted /\ g_mounted' \in BOOLEAN
    BY Zenon DEF BlockOps, store, RequestInv, AdapterTypes
  <1>2. CASE Returns(TRUE)
    BY <1>1, <1>2, PlainKeeps, Zenon DEF Returns, Result
  <1>3. CASE BlockFails
    BY <1>1, <1>3, PlainKeeps, Zenon DEF BlockFails
  <1>4. CASE wk' = "failed" /\ UNCHANGED <<life, calls, queue, complete, co, serving>>
    BY <1>1, <1>4, GoesOnKeeps, Zenon DEF life, calls
  <1>q. QED
    BY <1>2, <1>3, <1>4, Zenon DEF Transfer

(* The requests on the mount and the raw lease. *)
LEMMA MountKeeps ==
    ASSUME RequestInv, ExecuteMount \/ ExecuteUnmount \/ ExecuteBlockClose
    PROVE  RequestInv'
  <1>1. wk = "execute" /\ Op \notin {"open", "close", "stop"}
    BY Zenon DEF ExecuteMount, ExecuteUnmount, ExecuteBlockClose
  <1>2. /\ UNCHANGED <<g_handles, held>>
        /\ g_mounted' \in {TRUE, FALSE, g_mounted}
        /\ Returns(TRUE) \/ Returns(FALSE)
    BY Zenon DEF ExecuteMount, ExecuteUnmount, ExecuteBlockClose, Mount, MountFails, Unmount, store
  <1>3. g_mounted' \in BOOLEAN
    BY <1>2, Zenon DEF RequestInv, AdapterTypes
  <1>q. QED
    BY <1>1, <1>2, <1>3, AtRequest, PlainKeeps, Zenon DEF Returns, Result

(* The requests on the block device. *)
LEMMA BlockKeeps ==
    ASSUME RequestInv,
           \/ ExecuteBlockInfo \/ refresh_block_info \/ ExecuteBlock
           \/ TemporaryRead \/ TransferFailed
    PROVE  RequestInv'
  <1>1. /\ wk \in {"execute", "info", "open", "failed"} /\ Op \in BlockOps
        /\ Op \notin {"open", "close", "stop"}
    BY Zenon DEF ExecuteBlockInfo, refresh_block_info, ExecuteBlock, TemporaryRead, TransferFailed,
       RequestInv, HandOver, BlockOps
  <1>2. UNCHANGED store
    BY Zenon DEF ExecuteBlockInfo, refresh_block_info, ExecuteBlock, TemporaryRead, TransferFailed
  <1>3. /\ Executing /\ UNCHANGED <<g_handles, held>>
        /\ g_mounted' = g_mounted /\ g_mounted' \in BOOLEAN
    BY <1>1, <1>2, AtRequest, Zenon DEF store, RequestInv, AdapterTypes
  <1>4. ASSUME BlockFails \/ Returns(FALSE)
        PROVE  RequestInv'
    BY <1>1, <1>3, <1>4, PlainKeeps, Zenon DEF BlockFails, Returns, Result
  <1>5. ASSUME wk' \in {"execute", "info", "open"},
               UNCHANGED <<g_active, g_run_clients, calls, queue, complete, co, serving>>
        PROVE  RequestInv'
    BY <1>1, <1>3, <1>5, GoesOnKeeps, Zenon DEF calls
  <1>6. CASE ExecuteBlockInfo
    BY <1>5, <1>6, Zenon DEF ExecuteBlockInfo, life
  <1>7. CASE refresh_block_info
    <2>1. CASE Outcome(TRUE, request[serving].slot, TRUE)
      BY <1>1, <1>3, <2>1, PlainKeeps, Zenon
    <2>q. QED
      BY <1>4, <1>5, <1>7, <2>1, Zenon DEF refresh_block_info
  <1>8. CASE ExecuteBlock \/ TemporaryRead
    <2>1. ASSUME NEW l, Transfer(l)
          PROVE  RequestInv'
      BY <1>1, <1>2, <1>3, <2>1, TransferKeeps, Zenon
    <2>q. QED
      BY <1>4, <1>5, <1>8, <2>1, Zenon DEF ExecuteBlock, TemporaryRead, life
  <1>9. CASE TransferFailed
    BY <1>4, <1>9, Zenon DEF TransferFailed
  <1>q. QED
    BY <1>6, <1>7, <1>8, <1>9, Zenon

(* The requests on handles, and the stop request. *)
LEMMA FileKeeps ==
    ASSUME RequestInv, ExecuteStop \/ ExecuteFs \/ FsRequest
    PROVE  RequestInv'
  <1>1. /\ Executing /\ Op \in {"stop", "open", "close", "read", "write"}
        /\ request[serving].slot \in Slots \cup {None}
        /\ ExecuteFs \/ FsRequest => Op # "stop"
    BY AtRequest, Zenon DEF ExecuteStop, ExecuteFs, FsRequest, RequestInv, HandOver, AdapterTypes, Requests,
       Executing
  <1>2. g_mounted' \in BOOLEAN
    BY Zenon DEF ExecuteStop, ExecuteFs, FsRequest, ensure_mounted, Mount, MountFails, RequestInv,
       AdapterTypes
  <1>3. ASSUME NEW ok \in BOOLEAN, NEW s \in Slots \cup {None}, Result(ok, s)
        PROVE  Settles(ok, s) /\ HandOver' /\ GateInv' /\ PendingExact'
    <2>1. Settles(ok, s)
      BY <1>1, <1>3, OutcomeSettles, Zenon DEF Result
    <2>q. QED
      BY <1>1, <1>3, <2>1, ResultKeeps, Zenon
  <1>4. CASE ExecuteStop
    <2>1. /\ Op = "stop" /\ Result(TRUE, request[serving].slot) /\ held' = {}
          /\ g_handles' = [t \in Slots |-> FALSE]
      BY <1>4, Zenon DEF ExecuteStop, Returns
    <2>2. AdapterTypes' /\ HandleInv'
      BY <1>1, <1>2, <1>3, <2>1, ResultHandles, Zenon DEF Moves
    <2>q. QED
      BY <1>1, <1>3, <2>1, <2>2, Zenon DEF RequestInv
  <1>5. ASSUME Op # "stop", Returns(FALSE), StillNamed, UNCHANGED g_handles
        PROVE  RequestInv'
    <2>1. /\ Result(FALSE, request[serving].slot)
          /\ \/ Op = "close" /\ held' = held \cup {request[serving].slot}
             \/ Op \notin {"close", "stop"} /\ UNCHANGED held
      BY <1>1, <1>5, Zenon DEF StillNamed, Returns
    <2>2. AdapterTypes' /\ HandleInv'
      BY <1>1, <1>2, <1>3, <1>5, <2>1, ResultHandles, Zenon DEF Moves
    <2>q. QED
      BY <1>1, <1>3, <1>5, <2>1, <2>2, Zenon DEF RequestInv
  <1>6. CASE ExecuteFs
    <2>1. CASE wk' = "fs" /\ UNCHANGED <<life, calls, queue, complete, co, serving, held>>
      <3>1. UNCHANGED <<g_handles, g_mounted>> /\ Op \in {"open", "close", "read", "write"}
        BY <1>6, Zenon DEF ExecuteFs
      <3>q. QED
        BY <1>1, <2>1, <3>1, GoesOnKeeps, Zenon DEF life, calls
    <2>q. QED
      BY <1>1, <1>5, <1>6, <2>1, Zenon DEF ExecuteFs
  <1>7. CASE FsRequest
    <2>1. ASSUME NEW s \in Slots, Op = "open", free_slot(s), Result(TRUE, s),
                 g_handles' = [g_handles EXCEPT ![s] = TRUE], UNCHANGED held
          PROVE  RequestInv'
      <3>1. AdapterTypes' /\ HandleInv'
        BY <1>1, <1>2, <1>3, <2>1, ResultHandles, Zenon DEF free_slot, Moves
      <3>q. QED
        BY <1>3, <2>1, <3>1, Zenon DEF RequestInv
    <2>2. CASE /\ Op = "close" /\ Returns(TRUE) /\ UNCHANGED held
               /\ g_handles' = [g_handles EXCEPT ![request[serving].slot] = FALSE]
      <3>1. AdapterTypes' /\ HandleInv'
        BY <1>1, <1>2, <1>3, <2>2, ResultHandles, Zenon DEF Returns, Moves
      <3>q. QED
        BY <1>1, <1>3, <2>2, <3>1, Zenon DEF RequestInv, Returns
    <2>3. CASE Op \in {"read", "write"} /\ Returns(TRUE) /\ UNCHANGED <<g_handles, held>>
      <3>1. Op \notin {"open", "close", "stop"}
        BY <2>3, Zenon
      <3>q. QED
        BY <1>1, <1>2, <2>3, <3>1, PlainKeeps, Zenon DEF Returns, Result
    <2>q. QED
      BY <1>1, <1>5, <1>7, <2>1, <2>2, <2>3, Zenon DEF FsRequest
  <1>q. QED
    BY <1>4, <1>6, <1>7, Zenon

-----------------------------------------------------------------------------
(* The staging buffer.                                                     *)

(* The buffer holds the bytes of those requests that have some. *)
BytesKept == \A k \in Kinds : Staging(k) => g_io_buffer = BytesOf(k)

(* Nothing is staged, and the requests that have bytes have had them before. *)
LEMMA BytesStay ==
    ASSUME BytesKept, g_io_buffer' = g_io_buffer,
           \A k \in Kinds : Staging(k)' => Staging(k) /\ BytesOf(k)' = BytesOf(k)
    PROVE  BytesKept'
  BY Zenon DEF BytesKept

LEMMA BytesUntouched ==
    ASSUME BytesKept, UNCHANGED <<request, gate, g_io_buffer>>
    PROVE  BytesKept'
  BY Zenon DEF BytesKept, Staging, BytesOf

(* The bytes of a request are staged, and the other one makes no transfer. *)
LEMMA BytesCome ==
    ASSUME NEW k \in Kinds, request'[k].op \in Reads \cup Writes, ~Transferring',
           g_io_buffer' = BytesOf(k)'
    PROVE  BytesKept'
  <1>1. \A j \in Kinds : j # k => request'[j].op \notin Reads \cup Writes
    BY Zenon DEF Transferring, Kinds
  <1>2. \A j \in Kinds : Staging(j)' => j = k
    BY <1>1, Zenon DEF Staging
  <1>q. QED
    BY <1>2, Zenon DEF BytesKept

(* A request ends, and its bytes are forgotten: its own, for an asynchronous request has an
   owner. *)
LEMMA BytesGo ==
    ASSUME RequestInv, BytesKept, NEW k \in Kinds, k = "async" \/ UNCHANGED gate,
           request' = [request EXCEPT ![k] = NoRequest], Unstaged(BytesOf(k))
    PROVE  BytesKept'
  <1>1. request'[k] = NoRequest /\ \A j \in Kinds : j # k => request'[j] = request[j]
    BY Zenon DEF RequestInv, AdapterTypes
  <1>2. ~Staging(k)'
    BY <1>1, NoneApart, Zenon DEF Staging
  <1>3. ASSUME NEW j \in Kinds, j # k, Staging(j)'
        PROVE  Staging(j) /\ BytesOf(j)' = BytesOf(j)
    <2>1. request'[j] = request[j] /\ (j = "async" => gate' = gate)
      BY <1>1, <1>3, Zenon
    <2>2. CASE j = "async"
      <3>1. UNCHANGED gate /\ request'[j] = request[j]
        BY <2>1, <2>2, Zenon
      <3>2. Staging(j)' => Staging(j)
        BY <3>1 DEF Staging
      <3>3. BytesOf(j)' = BytesOf(j)
        BY <3>1 DEF BytesOf
      <3>q. QED
        BY <1>3, <3>2, <3>3
    <2>3. CASE j = "sync"
      BY <1>3, <2>1, <2>3 DEF Staging, BytesOf
    <2>q. QED
      BY <2>2, <2>3, Zenon DEF Kinds
  <1>4. ASSUME NEW j \in Kinds, j # k, Staging(j)
        PROVE  BytesOf(j) # BytesOf(k)
    <2>1. Staging("async") => request["async"].owner # "sync"
      <3>1. Staging("async") => request["async"].op # None
        BY NoneApart, Zenon DEF Staging
      <3>q. QED
        BY <3>1, NoneApart, Zenon DEF RequestInv, AdapterTypes, GateInv
    <2>2. request["async"].owner # "sync"
      BY <2>1, StorageAssumption, NoneApart, Zenon DEF RequestInv, AdapterTypes, Requests, Kinds
    <2>3. BytesOf("async") = request["async"].owner /\ BytesOf("sync") = "sync"
      BY Zenon DEF BytesOf
    <2>4. (j = "sync" /\ k = "async") \/ (j = "async" /\ k = "sync")
      BY <1>4, Zenon DEF Kinds
    <2>q. QED
      BY <2>2, <2>3, <2>4, Zenon
  <1>q. QED
    BY <1>2, <1>3, <1>4, Zenon DEF BytesKept, Unstaged

(* submit_sync and submit_async stage what is to be written. *)
LEMMA SyncBytes ==
    ASSUME RequestInv, BytesKept, ~Transferring', NEW op, NEW s, submit_sync(op, s), UNCHANGED gate
    PROVE  BytesKept'
  <1>1. /\ request'["sync"].op = op /\ request'["sync"].ok = FALSE
        /\ request'["async"] = request["async"]
        /\ g_io_buffer' = IF op \in Writes THEN "sync" ELSE g_io_buffer
    BY Zenon DEF submit_sync, Request, Staged, RequestInv, AdapterTypes, Kinds
  <1>2. CASE op \in Writes
    BY <1>1, <1>2, BytesCome, Zenon DEF BytesOf, Kinds
  <1>3. CASE op \notin Writes
    <2>1. \A k \in Kinds : Staging(k)' => Staging(k) /\ BytesOf(k)' = BytesOf(k)
      BY <1>1, <1>3, Zenon DEF Staging, BytesOf, Kinds
    <2>q. QED
      BY <1>1, <1>3, <2>1, BytesStay, Zenon
  <1>q. QED
    BY <1>2, <1>3, Zenon

LEMMA AsyncBytes ==
    ASSUME RequestInv, BytesKept, ~Transferring', NEW o, NEW op, NEW s, Submit(o, op, s)
    PROVE  BytesKept'
  <1>1. /\ request'["async"].op = op /\ request'["async"].ok = FALSE /\ request'["async"].owner = o
        /\ request'["sync"] = request["sync"]
        /\ g_io_buffer' = IF op \in Writes THEN o ELSE g_io_buffer
    BY Zenon DEF Submit, Request, Staged, RequestInv, AdapterTypes, Kinds
  <1>2. CASE op \in Writes
    BY <1>1, <1>2, BytesCome, Zenon DEF BytesOf, Kinds
  <1>3. CASE op \notin Writes
    <2>1. \A k \in Kinds : Staging(k)' => Staging(k) /\ BytesOf(k)' = BytesOf(k)
      BY <1>1, <1>3, NoneApart, Zenon DEF Staging, BytesOf, Kinds
    <2>q. QED
      BY <1>1, <1>3, <2>1, BytesStay, Zenon
  <1>q. QED
    BY <1>2, <1>3, Zenon

(* The calls of the personality. *)
LEMMA CallBytes ==
    ASSUME RequestInv, BytesKept, ~Transferring', Call
    PROVE  BytesKept'
  <1>1. ASSUME NEW c \in {"fs", "block"}, run_begin(c)
        PROVE  BytesKept'
    <2>1. CASE g_active
      BY <1>1, <2>1, BytesUntouched, Zenon DEF run_begin, calls
    <2>2. CASE ~g_active
      <3>1. \A k \in Kinds : request'[k].op \in {None, "start"}
        <4>1. \/ request' = [k \in Kinds |->
                                IF k = "sync" THEN Request("start", None, None) ELSE NoRequest]
              \/ request' = [k \in Kinds |-> NoRequest]
          BY <1>1, <2>2, Zenon DEF run_begin, Kinds
        <4>q. QED
          BY <4>1 DEF Request, NoRequest
      <3>q. QED
        BY <3>1, NoneApart, Zenon DEF BytesKept, Staging, Reads, Writes
    <2>q. QED
      BY <2>1, <2>2, Zenon
  <1>2. ASSUME NEW c \in {"fs", "block"}, run_end(c)
        PROVE  BytesKept'
    BY <1>2, SyncBytes, BytesUntouched, Zenon DEF run_end, calls
  <1>3. ASSUME NEW o \in Owners \cup {None}, NEW op \in FsOps \cup BlockOps,
               NEW s \in Slots \cup {None}, submit(o, op, s)
        PROVE  BytesKept'
    BY <1>3, SyncBytes, AsyncBytes, Zenon DEF submit
  <1>4. ASSUME NEW o \in Owners, Collect(o) \/ fs_request_cancel(o)
        PROVE  BytesKept'
    <2>1. CASE /\ gate.owner = o /\ gate # Idle /\ Unstaged(o)
               /\ request' = [request EXCEPT !["async"] = NoRequest]
      <3>1. BytesOf("async") = o
        BY <2>1, Zenon DEF BytesOf, RequestInv, GateInv
      <3>q. QED
        BY <2>1, <3>1, BytesGo, Zenon DEF Kinds
    <2>2. CASE /\ gate.state = "active" /\ gate' = [gate EXCEPT !.state = "cancelled"]
               /\ UNCHANGED <<request, g_io_buffer>>
      BY <2>2, BytesStay, Zenon DEF Staging, BytesOf
    <2>3. /\ Collect(o) => gate.owner = o /\ gate.state = "complete"
          /\ gate.state = "complete" => gate # Idle
      BY NoneApart DEF Collect, async_collect
    <2>q. QED
      BY <1>4, <2>1, <2>2, <2>3, Zenon DEF Collect, async_collect, fs_request_cancel
  <1>5. ASSUME NEW write \in BOOLEAN, block_open(write)
        PROVE  BytesKept'
    BY <1>5, BytesUntouched, Zenon DEF block_open, calls
  <1>6. CASE block_close
    BY <1>6, SyncBytes, Zenon DEF block_close
  <1>q. QED
    BY <1>1, <1>2, <1>3, <1>4, <1>5, <1>6, Zenon DEF Call

(* The worker stages what it has read. *)
LEMMA ResultBytes ==
    ASSUME RequestInv, BytesKept, ~Transferring', Executing, NEW ok \in BOOLEAN, NEW valid,
           NEW s \in Slots \cup {None}, Outcome(ok, s, valid),
           \/ g_io_buffer' = g_io_buffer /\ ~(ok /\ Op \in Reads)
           \/ g_io_buffer' = BytesOf(serving) /\ Op \in Reads
    PROVE  BytesKept'
  <1>1. /\ request'[serving].op = Op /\ serving \in Kinds /\ UNCHANGED <<gate, serving>>
        /\ request'[serving].ok <=> ok /\ Op \in {"open"} \cup Reads
        /\ \A k \in Kinds \ {serving} : request'[k] = request[k]
        /\ request'[serving].owner = request[serving].owner
    BY OutcomeSettles, Zenon DEF Settles, Executing
  <1>2. \A k \in Kinds : BytesOf(k)' = BytesOf(k)
    BY <1>1, Zenon DEF BytesOf
  <1>3. CASE g_io_buffer' = g_io_buffer /\ ~(ok /\ Op \in Reads)
    <2>1. \A k \in Kinds : Staging(k)' => Staging(k)
      BY <1>1, <1>3, Zenon DEF Staging, Op, Reads
    <2>q. QED
      BY <1>2, <1>3, <2>1, BytesStay, Zenon
  <1>4. CASE g_io_buffer' = BytesOf(serving) /\ Op \in Reads
    BY <1>1, <1>2, <1>4, BytesCome, Zenon
  <1>q. QED
    BY <1>3, <1>4, Zenon

(* The worker's requests. *)
LEMMA WorkerBytes ==
    ASSUME RequestInv, BytesKept, ~Transferring', Worker
    PROVE  BytesKept'
  <1>1. CASE Finish
    <2>1. CASE serving = "async" /\ gate.state = "active"
      <3>1. /\ gate' = [gate EXCEPT !.state = "complete"] /\ UNCHANGED <<request, g_io_buffer>>
            /\ gate'.state = "complete"
        BY <1>1, <2>1, NoneApart, Zenon DEF Finish, RequestInv, AdapterTypes, Gates
      <3>q. QED
        BY <2>1, <3>1, BytesStay, Zenon DEF Staging, BytesOf
    <2>2. CASE serving = "async" /\ gate.state = "cancelled"
      <3>1. BytesOf("async") = gate.owner
        BY <2>2, NoneApart, Zenon DEF BytesOf, RequestInv, GateInv
      <3>q. QED
        BY <1>1, <2>2, <3>1, BytesGo, Zenon DEF Finish, Kinds
    <2>3. CASE serving = "sync"
      BY <1>1, <2>3, BytesUntouched, Zenon DEF Finish
    <2>q. QED
      BY <1>1, <2>1, <2>2, <2>3, Zenon DEF Finish
  <1>2. CASE Receive
    BY <1>2, BytesUntouched, Zenon DEF Receive, calls
  <1>3. CASE wk \in {"execute", "info", "open", "failed", "fs"}
    <2>1. Executing /\ request[serving].slot \in Slots \cup {None}
      BY <1>3, AtRequest, Zenon DEF Executing, RequestInv, AdapterTypes, Requests
    <2>2. ASSUME NEW ok \in BOOLEAN, NEW s \in Slots \cup {None}, NEW valid, Outcome(ok, s, valid),
                 \/ g_io_buffer' = g_io_buffer /\ ~(ok /\ Op \in Reads)
                 \/ g_io_buffer' = BytesOf(serving) /\ Op \in Reads
          PROVE  BytesKept'
      BY <2>1, <2>2, ResultBytes, Zenon
    <2>3. ASSUME Returns(FALSE) \/ BlockFails, g_io_buffer' = g_io_buffer
          PROVE  BytesKept'
      BY <2>1, <2>2, <2>3, Zenon DEF Returns, Result, BlockFails
    <2>4. ASSUME Returns(TRUE) \/ Outcome(TRUE, request[serving].slot, TRUE),
                 g_io_buffer' = g_io_buffer, Op \notin Reads
          PROVE  BytesKept'
      BY <2>1, <2>2, <2>4, Zenon DEF Returns, Result
    <2>5. ASSUME Returns(TRUE), g_io_buffer' = IF Op \in Reads THEN BytesOf(serving) ELSE g_io_buffer
          PROVE  BytesKept'
      BY <2>1, <2>2, <2>5, Zenon DEF Returns, Result
    <2>6. ASSUME UNCHANGED <<calls, g_io_buffer>>
          PROVE  BytesKept'
      BY <2>6, BytesUntouched, Zenon DEF calls
    <2>7. CASE ExecuteMount \/ ExecuteUnmount \/ ExecuteStop \/ ExecuteBlockClose
      <3>1. Op \notin Reads /\ g_io_buffer' = g_io_buffer /\ (Returns(TRUE) \/ Returns(FALSE))
        BY <2>7, Zenon DEF ExecuteMount, ExecuteUnmount, ExecuteStop, ExecuteBlockClose, Reads
      <3>q. QED
        BY <2>3, <2>4, <3>1, Zenon
    <2>8. CASE ExecuteBlockInfo \/ refresh_block_info \/ TransferFailed
      <3>1. Op = "block_info" => Op \notin Reads
        BY Zenon DEF Reads
      <3>q. QED
        BY <2>3, <2>4, <2>6, <2>8, <3>1, Zenon DEF ExecuteBlockInfo, refresh_block_info, TransferFailed
    <2>9. CASE ExecuteBlock \/ TemporaryRead
      <3>1. ASSUME NEW l, Transfer(l)
            PROVE  BytesKept'
        BY <2>3, <2>5, <2>6, <3>1, Zenon DEF Transfer
      <3>q. QED
        BY <2>3, <2>6, <2>9, <3>1, Zenon DEF ExecuteBlock, TemporaryRead
    <2>10. CASE ExecuteFs
      BY <2>3, <2>6, <2>10, Zenon DEF ExecuteFs
    <2>11. CASE FsRequest
      <3>1. CASE Op = "open" /\ g_io_buffer' = g_io_buffer /\ \E s \in Slots : Result(TRUE, s)
        <4>1. Op \notin Reads
          BY <3>1, Zenon DEF Reads
        <4>q. QED
          BY <2>2, <3>1, <4>1, Zenon DEF Result
      <3>2. CASE Op = "close" /\ Returns(TRUE) /\ g_io_buffer' = g_io_buffer
        BY <2>4, <3>2, Zenon DEF Reads
      <3>3. CASE /\ Op \in {"read", "write"} /\ Returns(TRUE)
                 /\ g_io_buffer' = IF Op = "read" THEN BytesOf(serving) ELSE g_io_buffer
        <4>1. Op \in Reads <=> Op = "read"
          BY <3>3, Zenon DEF Reads
        <4>q. QED
          BY <2>5, <3>3, <4>1, Zenon
      <3>q. QED
        BY <2>3, <2>11, <3>1, <3>2, <3>3, Zenon DEF FsRequest
    <2>q. QED
      BY <1>1, <1>2, <2>7, <2>8, <2>9, <2>10, <2>11, Zenon DEF Worker
  <1>q. QED
    BY <1>1, <1>2, <1>3, Zenon DEF Worker, ExecuteMount, ExecuteUnmount, ExecuteStop, ExecuteBlockClose,
       ExecuteBlockInfo, refresh_block_info, ExecuteBlock, TemporaryRead, TransferFailed, ExecuteFs,
       FsRequest

(* Every step keeps the bytes, or two transfers overlap, and an overlap is over when both
   requests are. *)
LEMMA StagingStep == RequestInv /\ StagingInv /\ [Next]_vars => StagingInv'
  <1> SUFFICES ASSUME RequestInv, StagingInv, [Next]_vars PROVE StagingInv'
    BY Zenon
  <1>1. CASE UNCHANGED vars
    <2>1. UNCHANGED <<request, gate, g_io_buffer, overlapped>>
      BY <1>1, Zenon DEF vars, calls
    <2>q. QED
      BY <2>1, Zenon DEF StagingInv, StagingIntact, Staging, BytesOf, Transferring
  <1>2. CASE Next
    <2>1. Transferring' => overlapped'
      <3>1. Transferring' => request'["sync"].op # None
        BY NoneApart, Zenon DEF Transferring, Kinds
      <3>q. QED
        BY <1>2, <3>1, Zenon DEF Next, Overlap, Transferring, Kinds
    <2>2. ASSUME ~overlapped', ~(\A k \in Kinds : request'[k].op = None)
          PROVE  ~overlapped /\ ~Transferring' /\ BytesKept
      BY <1>2, <2>1, <2>2, Zenon DEF Next, Overlap, Kinds, StagingInv, StagingIntact, BytesKept
    <2>3. ASSUME \A k \in Kinds : request'[k].op = None
          PROVE  BytesKept'
      BY <2>3, NoneApart, Zenon DEF BytesKept, Staging
    <2>4. ASSUME ~overlapped', ~(\A k \in Kinds : request'[k].op = None)
          PROVE  BytesKept'
      <3>1. ~Transferring' /\ BytesKept
        BY <2>2, <2>4, Zenon
      <3>2. CASE Continue
        <4>1. CASE Answered
          BY <3>1, <4>1, BytesGo, Zenon DEF Answered, BytesOf, Kinds
        <4>q. QED
          BY <3>1, <3>2, <4>1, BytesUntouched, Zenon DEF Continue, Send, Opened, Joined, calls
      <3>3. CASE (\E t \in Threads : Media(t)) \/ Card
        BY <3>1, <3>3, BytesUntouched, Zenon DEF Media, Card, calls
      <3>q. QED
        BY <1>2, <3>1, <3>2, <3>3, CallBytes, WorkerBytes, Zenon DEF Next
    <2>q. QED
      BY <2>1, <2>3, <2>4, Zenon DEF StagingInv, StagingIntact, BytesKept, Kinds
  <1>q. QED
    BY <1>1, <1>2, Zenon

-----------------------------------------------------------------------------
(* The theorems.                                                           *)

(* submit: the owner decides which of the two. *)
LEMMA SubmitKeeps ==
    ASSUME RequestInv, NEW o \in Owners \cup {None}, NEW op \in FsOps \cup BlockOps,
           NEW s \in Slots \cup {None}, submit(o, op, s)
    PROVE  RequestInv'
  <1>1. /\ co = "idle" /\ g_active /\ (op = "close" => s \in held)
        /\ op \in Ops /\ op # "stop"
    BY Zenon DEF submit, MayName, RequestInv, AdapterTypes, HandOver, Ops, FsOps, BlockOps
  <1>2. CASE o = None
    <2>1. /\ submit_sync(op, s) /\ UNCHANGED <<g_active, gate>> /\ g_run_clients' \subseteq g_run_clients
      BY <1>2, Zenon DEF submit, life
    <2>q. QED
      BY <1>1, <2>1, SyncKeeps, Zenon
  <1>3. CASE o # None
    <2>1. o \in Owners /\ Submit(o, op, s)
      BY <1>3, Zenon DEF submit
    <2>q. QED
      BY <1>1, <2>1, AsyncKeeps, Zenon
  <1>q. QED
    BY <1>2, <1>3, Zenon

(* Every step keeps the invariant. *)
LEMMA RequestStep == RequestInv /\ [Next]_vars => RequestInv'
  <1> SUFFICES ASSUME RequestInv, [Next]_vars PROVE RequestInv'
    BY Zenon
  <1>1. CASE block_close
    <2>1. /\ co = "idle" /\ g_active /\ submit_sync("block_close", None)
          /\ UNCHANGED <<g_active, gate>> /\ g_run_clients' \subseteq g_run_clients
          /\ "block_close" \in Ops \ {"close", "stop"}
      BY <1>1, Zenon DEF block_close, life, RequestInv, AdapterTypes, HandOver, Ops
    <2>q. QED
      BY <2>1, SyncKeeps, Zenon
  <1>2. CASE \/ \E write \in BOOLEAN : block_open(write)
             \/ Opened \/ (\E t \in Threads : Media(t)) \/ Card \/ UNCHANGED vars
    <2>1. /\ UNCHANGED <<g_handles, g_mounted, held, g_active, g_run_clients, gate, request, pending,
                         queue, complete, wk, serving>>
          /\ co = co' \/ {co, co'} = {"idle", "opening"}
          /\ g_active \/ co = co'
      BY <1>2, Zenon DEF block_open, Opened, Media, Card, vars, store, life, calls, RequestInv,
         AdapterTypes, HandOver
    <2>q. QED
      BY <2>1, ElsewhereKeeps, Zenon
  <1>3. CASE Call
    BY <1>1, <1>2, <1>3, SubmitKeeps, BeginKeeps, EndKeeps, CollectKeeps, CancelKeeps, Zenon DEF Call
  <1>4. CASE Continue
    BY <1>2, <1>4, SendKeeps, AnsweredKeeps, JoinedKeeps, Zenon DEF Continue
  <1>5. CASE Worker
    BY <1>5, ReceiveKeeps, MountKeeps, BlockKeeps, FileKeeps, FinishKeeps, Zenon DEF Worker
  <1>q. QED
    BY <1>2, <1>3, <1>4, <1>5, Zenon DEF Next

(* RequestInv is inductive. *)
LEMMA RequestInvariant == Spec => []RequestInv
  BY RequestInit, RequestStep, PTL DEF Spec

(* No handle leaks and none dangles, whichever of completion and cancellation of an open
   comes first, for any number of handles (async_discard and close_all_handles of
   lxp_ove_storage_adapter.c). *)
THEOREM StorageHandlesAccounted == Spec => []HandlesAccounted
  <1>1. RequestInv => HandlesAccounted
    <2> SUFFICES ASSUME RequestInv, g_active
                 PROVE  Taken \subseteq held \cup InFlight /\ held \subseteq Taken
      BY Zenon DEF HandlesAccounted
    <2> USE DEF RequestInv, HandleInv
    <2>1. CASE StopDone
      BY <2>1, Zenon DEF handles_open, Taken
    <2>2. CASE ~StopDone
      <3>1. \A s \in Taken : s \notin held => s \in InFlight
        <4>1. \A s \in Slots \ held : g_handles[s] => \E k \in Kinds : Owns(k) /\ request[k].slot = s
          BY <2>2, Zenon DEF OneOwner
        <4>q. QED
          BY <4>1 DEF Owns, Taken, InFlight, Kinds
      <3>2. held \subseteq Taken
        BY <2>2, Zenon DEF OneOwner, Taken, AdapterTypes
      <3>q. QED
        BY <3>1, <3>2, Zenon
    <2>q. QED
      BY <2>1, <2>2, Zenon
  <1>q. QED
    BY <1>1, RequestInvariant, PTL

(* The staging buffer keeps what an asynchronous request, or a synchronous one, is to write
   until the worker is done, and what has been read for it until its owner has it, through
   submissions turned away, cancellations and any other request beside it; only while a
   synchronous transfer and an asynchronous one have overlapped nothing is said, for the
   two share the buffer (submit_sync, submit_async and async_collect). *)
THEOREM StorageStagingIntact == Spec => []StagingIntact
  <1>1. Init => StagingInv
    <2> SUFFICES ASSUME Init PROVE StagingInv
      BY Zenon
    <2>1. request["sync"] = NoRequest /\ request["async"] = NoRequest
      BY Zenon DEF Init
    <2>2. \A k \in Kinds : request[k].op \notin Reads \cup Writes
      BY <2>1, NoneApart, Zenon DEF Kinds
    <2>q. QED
      BY <2>2, Zenon DEF StagingInv, StagingIntact, Staging, Transferring, Kinds
  <1>2. StagingInv => StagingIntact
    BY Zenon DEF StagingInv
  <1>q. QED
    BY <1>1, <1>2, StagingStep, RequestInvariant, PTL DEF Spec

(* The count of pending requests is exact, through cancellations and stops (the metrics
   of submit_sync, submit_async, async_collect and fs_request_cancel). *)
THEOREM StoragePendingExact == Spec => []PendingExact
  <1>1. RequestInv => PendingExact
    BY Zenon DEF RequestInv
  <1>q. QED
    BY <1>1, RequestInvariant, PTL
=============================================================================
