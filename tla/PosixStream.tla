---------------------------- MODULE PosixStream ----------------------------
(***************************************************************************)
(* Byte stream of the POSIX backend (backends/posix/posix_stream.c): a     *)
(* ring of bytes under one mutex.  A send goes on until all its bytes are  *)
(* in, sleeping whenever the ring is full; a receive sleeps until trigger  *)
(* bytes are there and takes what it can.                                  *)
(*                                                                         *)
(* A step is one critical section, in which a loop over bytes is one block *)
(* copy.                                                                   *)
(***************************************************************************)
EXTENDS Naturals, Sequences, FiniteSets

CONSTANTS Writers, Readers, Resetters,   \* the threads, by what they call
          Bytes,
          Messages,     \* what a send may be given
          Lengths,      \* how much a receive may ask for
          Size,         \* size of the ring
          Triggers,     \* what ove_stream_init may be given as the trigger level
          Nul           \* initial content of the buffer

Threads == Writers \cup Readers

ASSUME StreamAssumption ==
    /\ Size \in Nat \ {0} /\ Triggers \subseteq Nat
    /\ Messages \subseteq Seq(Bytes) \ {<< >>} /\ Lengths \subseteq Nat \ {0}
    /\ IsFiniteSet(Threads) /\ Writers \cap Readers = {}
    /\ Nul \notin Bytes

VARIABLES buffer, head, tail, count,   \* struct ove_stream
          trigger,                     \* its trigger level
          hook,                        \* notify_cb # NULL
          pc,                          \* where each caller is
          data,                        \* the bytes a blocked sender has left
          some,                        \* it has sent some already
          len,                         \* what a blocked receiver asks for
          timed,                       \* it waits until a deadline
          moved,                       \* the bytes copied in or out last
          stranded                     \* history: a reset found a writer asleep that
                                       \* sleeps still

ring == <<buffer, head, tail, count>>
call == <<data, some, len, timed>>
setup == <<trigger, hook>>
vars == <<ring, setup, pc, call, moved, stranded>>

Slots == 0..(Size - 1)

TypeOK ==
    /\ buffer \in [Slots -> Bytes \cup {Nul}]
    /\ head \in Slots /\ tail \in Slots /\ count \in 0..Size
    /\ trigger \in Nat \ {0} /\ hook \in BOOLEAN
    /\ pc \in [Threads -> {"idle", "wait", "loop", "timedout", "notify"}]
    /\ data \in [Writers -> Seq(Bytes)] /\ some \in [Writers -> BOOLEAN]
    /\ len \in [Readers -> Lengths \cup {0}]
    /\ timed \in [Threads -> BOOLEAN]
    /\ moved \in Seq(Bytes)
    /\ stranded \in BOOLEAN

(* ove_stream_init, which takes a trigger level of 0 for 1 and sets no limit to it;
   ove_stream_set_notify is a set-up call. *)
Init ==
    /\ buffer = [i \in Slots |-> Nul]
    /\ head = 0 /\ tail = 0 /\ count = 0
    /\ trigger \in {IF n > 0 THEN n ELSE 1 : n \in Triggers}
    /\ hook \in BOOLEAN
    /\ pc = [t \in Threads |-> "idle"]
    /\ data = [w \in Writers |-> << >>] /\ some = [w \in Writers |-> FALSE]
    /\ len = [r \in Readers |-> 0]
    /\ timed = [t \in Threads |-> FALSE]
    /\ moved = << >>
    /\ stranded = FALSE

-----------------------------------------------------------------------------
(* Condition variables: the writers sleep on space_avail, the readers on data_avail. *)

At(S, p) == {t \in S : pc[t] = p}
Min2(a, b) == IF a < b THEN a ELSE b

(* n calls of pthread_cond_signal: that many of the sleepers in S resume, or all
   of them; pcs is pc with the caller's own move made. *)
Signals(S, n, pcs) ==
    \E W \in SUBSET S :
        /\ Cardinality(W) = Min2(n, Cardinality(S))
        /\ pc' = [t \in Threads |-> IF t \in W THEN "loop" ELSE pcs[t]]

SpuriousWakeup(t) ==
    /\ pc[t] = "wait"
    /\ pc' = [pc EXCEPT ![t] = "loop"]
    /\ UNCHANGED <<ring, setup, call, moved>>

DeadlinePasses(t) ==
    /\ pc[t] = "wait" /\ timed[t]
    /\ pc' = [pc EXCEPT ![t] = "timedout"]
    /\ UNCHANGED <<ring, setup, call, moved>>

-----------------------------------------------------------------------------
(* ove_stream_send. *)

(* Mutant of Store: the copy does not wrap. *)
StoreUnwrapped(d, k) ==
    /\ buffer' = [i \in Slots |-> IF i >= head /\ i < head + k THEN d[i - head + 1] ELSE buffer[i]]
    /\ head' = (head + k) % Size
    /\ count' = count + k
    /\ moved' = IF k = 0 THEN moved ELSE SubSeq(d, 1, k)

(* The first k bytes of d go in behind head; each that finds the trigger level
   reached signals data_avail. *)
Store(d, k) ==
    /\ buffer' = [i \in Slots |-> LET off == (i + Size - head) % Size
                                  IN  IF off < k THEN d[off + 1] ELSE buffer[i]]
    /\ head' = (head + k) % Size
    /\ count' = count + k
    /\ moved' = IF k = 0 THEN moved ELSE SubSeq(d, 1, k)

(* Mutant of SignalCount: one signal per send. *)
SignalOnce(k) == IF count + k < trigger THEN 0 ELSE Min2(k, 1)

SignalCount(k) == IF count + k < trigger THEN 0 ELSE Min2(k, count + k - trigger + 1)

AfterSend(sent) == IF hook /\ sent THEN "notify" ELSE "idle"

EndSend(w) ==
    /\ data' = [data EXCEPT ![w] = << >>]
    /\ some' = [some EXCEPT ![w] = FALSE]
    /\ timed' = [timed EXCEPT ![w] = FALSE]

(* The loop over the bytes d that are left, mode being the timeout: copy what fits,
   and with more to come sleep, or give up when the timeout is zero. *)
SendLoop(w, d, sent, mode) ==
    LET k == Min2(Len(d), Size - count)
        more == k < Len(d)
        sleeps == more /\ mode # "zero"
    IN  /\ Store(d, k)
        /\ Signals(At(Readers, "wait"), SignalCount(k),
                   [pc EXCEPT ![w] = IF sleeps THEN "wait" ELSE AfterSend(sent \/ k > 0)])
        /\ \/ /\ sleeps
              /\ data' = [data EXCEPT ![w] = SubSeq(d, k + 1, Len(d))]
              /\ some' = [some EXCEPT ![w] = sent \/ k > 0]
              /\ timed' = [timed EXCEPT ![w] = mode = "timed"]
           \/ ~sleeps /\ EndSend(w)
        /\ UNCHANGED <<tail, setup, len>>

Mode(t) == IF timed[t] THEN "timed" ELSE "forever"

(* With mode "zero" also ove_stream_send_from_isr. *)
ove_stream_send(w, d, mode) == pc[w] = "idle" /\ SendLoop(w, d, FALSE, mode)

SendWoken(w) == pc[w] = "loop" /\ SendLoop(w, data[w], some[w], Mode(w))

SendTimedOut(w) ==
    /\ pc[w] = "timedout"
    /\ pc' = [pc EXCEPT ![w] = AfterSend(some[w])]
    /\ EndSend(w)
    /\ UNCHANGED <<ring, setup, len, moved>>

(* The callback runs in the sender's context after the unlock. *)
Notify(w) ==
    /\ pc[w] = "notify"
    /\ pc' = [pc EXCEPT ![w] = "idle"]
    /\ UNCHANGED <<ring, setup, call, moved>>

-----------------------------------------------------------------------------
(* ove_stream_receive. *)

Block(r, n, mode) ==
    /\ pc' = [pc EXCEPT ![r] = "wait"]
    /\ len' = [len EXCEPT ![r] = n]
    /\ timed' = [timed EXCEPT ![r] = mode = "timed"]
    /\ UNCHANGED <<ring, moved>>

EndReceive(r) ==
    /\ len' = [len EXCEPT ![r] = 0]
    /\ timed' = [timed EXCEPT ![r] = FALSE]

(* Mutant of Take: signals only when it has emptied the ring. *)
TakeSilent(r, n) ==
    LET k == Min2(n, count)
    IN  /\ moved' = [i \in 1..k |-> buffer[(tail + i - 1) % Size]]
        /\ tail' = (tail + k) % Size
        /\ count' = count - k
        /\ Signals(At(Writers, "wait"), IF count' = 0 THEN 1 ELSE 0, [pc EXCEPT ![r] = "idle"])
        /\ EndReceive(r)
        /\ UNCHANGED <<buffer, head>>

(* Copy out and signal space_avail, once. *)
Take(r, n) ==
    LET k == Min2(n, count)
    IN  /\ moved' = [i \in 1..k |-> buffer[(tail + i - 1) % Size]]
        /\ tail' = (tail + k) % Size
        /\ count' = count - k
        /\ Signals(At(Writers, "wait"), 1, [pc EXCEPT ![r] = "idle"])
        /\ EndReceive(r)
        /\ UNCHANGED <<buffer, head>>

(* Mutant of ReceiveTest: waits for all it was asked for. *)
ReceiveTestWhole(r, n, mode) ==
    /\ \/ count < n /\ mode # "zero" /\ Block(r, n, mode)
       \/ count >= n /\ Take(r, n)
    /\ UNCHANGED <<setup, data, some>>

ReceiveTest(r, n, mode) ==
    /\ \/ count < trigger /\ mode # "zero" /\ Block(r, n, mode)
       \/ count >= trigger /\ Take(r, n)
    /\ UNCHANGED <<setup, data, some>>

(* With mode "zero" also ove_stream_receive_from_isr; too few bytes then change
   nothing. *)
ove_stream_receive(r, n, mode) == pc[r] = "idle" /\ ReceiveTest(r, n, mode)

ReceiveWoken(r) == pc[r] = "loop" /\ ReceiveTest(r, len[r], Mode(r))

ReceiveTimedOut(r) ==
    /\ pc[r] = "timedout"
    /\ pc' = [pc EXCEPT ![r] = "idle"]
    /\ EndReceive(r)
    /\ UNCHANGED <<ring, setup, data, some, moved>>

-----------------------------------------------------------------------------
(* Discards what is there and wakes nobody. *)
ove_stream_reset ==
    /\ head' = 0 /\ tail' = 0 /\ count' = 0
    /\ UNCHANGED <<buffer, setup, pc, call, moved>>

-----------------------------------------------------------------------------
Call ==
    \/ \E w \in Writers, d \in Messages, mode \in {"zero", "timed", "forever"} :
          ove_stream_send(w, d, mode)
    \/ \E r \in Readers, n \in Lengths, mode \in {"zero", "timed", "forever"} :
          ove_stream_receive(r, n, mode)

Continue(t) ==
    \/ t \in Writers /\ (SendWoken(t) \/ SendTimedOut(t) \/ Notify(t))
    \/ t \in Readers /\ (ReceiveWoken(t) \/ ReceiveTimedOut(t))

Next ==
    \/ /\ Call \/ \E t \in Threads : Continue(t) \/ DeadlinePasses(t) \/ SpuriousWakeup(t)
       /\ stranded' = (stranded /\ At(Writers, "wait")' # {})
    \/ /\ Resetters # {} /\ ove_stream_reset
       /\ stranded' = (At(Writers, "wait") # {})

Spec == Init /\ [][Next]_vars

-----------------------------------------------------------------------------
(* Properties. *)

(* While a reader sleeps, a woken one is on its way for every byte from the trigger
   level up: the bytes a send stores are signalled one by one. *)
ReadersAwake ==
    At(Readers, "wait") # {} => Cardinality(At(Readers, "loop")) + trigger > count

(* A writer sleeps only for lack of space: when there is some, a writer has been woken,
   unless it is a reset that has made the space, which wakes nobody. *)
WritersAwake ==
    At(Writers, "wait") # {} /\ count < Size => At(Writers, "loop") # {} \/ stranded

(* Writers waiting for space and readers waiting for bytes never wait for each other,
   unless a reset has emptied the ring under a sleeping writer, or a full ring is not enough
   for a reader because ove_stream_init was given a trigger level above the size. *)
NoStandoff ==
    At(Threads, "loop") = {} =>
        \/ At(Writers, "wait") = {} \/ At(Readers, "wait") = {}
        \/ stranded \/ trigger > Size

(* The ring is the stream of ByteStream: bytes come out in the order they went in,
   none lost, none twice, none before the trigger level, and none after a reset. *)
Items == [i \in 1..count |-> buffer[(tail + i - 1) % Size]]

Abstract == INSTANCE ByteStream WITH items <- Items

RefinesStream == Abstract!Spec
=============================================================================
