----------------------------- MODULE MediaLease -----------------------------
(***************************************************************************)
(* Ownership of a removable card (src/ove_media.c), the raw block API that *)
(* leases it (src/ove_block.c) and what a backend makes of the card        *)
(* (backends/nuttx/nuttx_block.c).  The filesystem, one raw writer or any  *)
(* number of raw readers own the card through one atomic word, and a lease *)
(* is good only while the generation it was taken for is the one last      *)
(* observed.                                                               *)
(*                                                                         *)
(* There is no lock: a step is one atomic access of the shared words, and  *)
(* a call is a sequence of them.  The loads of one validity test make one  *)
(* step, and a compare-and-swap that is retried until it succeeds is the   *)
(* attempt that does.  A look at the card and the exchange that notes what *)
(* it found are one step.                                                  *)
(***************************************************************************)
EXTENDS Naturals, FiniteSets

CONSTANTS Threads,        \* the tasks that call the API
          Leases,         \* their ove_block_t objects
          MaxChanges,     \* bound on how often it comes or goes
          NoLease

ASSUME MediaAssumption == MaxChanges \in Nat /\ NoLease \notin Leases

VARIABLES card,                                \* how often it has come or gone
          noted,                               \* g_media_* of the backend
          owners, generation, present,         \* g_media_*
          lease,                               \* struct ove_media_lease of each object
          mpc, info, target                    \* where each call is, and its locals

media == <<owners, generation, present>>
mcall == <<mpc, info, target>>
mvars == <<card, noted, media, lease, mcall>>

Released == [active |-> FALSE, write |-> FALSE, generation |-> 0]
NoTarget == [lease |-> NoLease, write |-> FALSE]

MediaInit ==
    /\ card = 0 /\ noted = [present |-> "unknown", generation |-> 1]
    /\ owners = [fs |-> FALSE, writer |-> FALSE, readers |-> 0]
    /\ generation = 0 /\ present = FALSE
    /\ lease = [l \in Leases |-> Released]
    /\ mpc = [t \in Threads |-> "idle"]
    /\ info = [t \in Threads |-> 0]
    /\ target = [t \in Threads |-> NoTarget]

-----------------------------------------------------------------------------
inserted == card % 2 = 0

(* The card comes and goes; what the backend has not noted it does not count. *)
Change ==
    /\ card < MaxChanges
    /\ card' = card + 1
    /\ UNCHANGED <<noted, media, lease, mcall>>

-----------------------------------------------------------------------------
(* The filesystem's share, for ove_fs_mount and ove_fs_unmount. *)

ove_media_fs_acquire(o) == ~o.fs /\ ~o.writer

(* Raw leases: a writer wants the card for itself, a reader no writer. *)

RawGrantBesideFs(o, write) == ~o.writer /\ (write => o.readers = 0)

RawGrant(o, write) == ~o.writer /\ (write => ~o.fs /\ o.readers = 0)

ove_media_raw_valid(l) == lease[l].active /\ present /\ generation = lease[l].generation

ove_media_raw_release(l) ==
    /\ owners' = IF ~lease[l].active THEN owners
                 ELSE IF lease[l].write THEN [owners EXCEPT !.writer = FALSE]
                 ELSE [owners EXCEPT !.readers = @ - 1]
    /\ lease' = [lease EXCEPT ![l] = Released]

-----------------------------------------------------------------------------
Step(t, from, to) == mpc[t] = from /\ mpc' = [mpc EXCEPT ![t] = to]

Done(t) == /\ mpc' = [mpc EXCEPT ![t] = "idle"]
           /\ info' = [info EXCEPT ![t] = 0]
           /\ target' = [target EXCEPT ![t] = NoTarget]

(* The backend notes whether there is a card, and counts a generation when that is news. *)
note_presence(t, p, count, next) ==
    /\ noted' = [noted EXCEPT !.present = p]
    /\ mpc' = [mpc EXCEPT ![t] = IF noted.present \in {"unknown", p} THEN next ELSE count]

Count(t) ==
    /\ \/ Step(t, "came", "answer") \/ Step(t, "went", "absent") \/ Step(t, "lost", "info")
    /\ noted' = [noted EXCEPT !.generation = @ + 1]
    /\ UNCHANGED <<card, media, lease, info, target>>

(* ove_block_backend_get_info answers with the generation, or that there is no card, or
   fails. *)
Look(t) ==
    /\ mpc[t] = "info"
    /\ \/ inserted /\ note_presence(t, "present", "came", "answer") /\ UNCHANGED <<info, target>>
       \/ ~inserted /\ note_presence(t, "absent", "went", "absent") /\ UNCHANGED <<info, target>>
       \/ Done(t) /\ UNCHANGED noted
    /\ UNCHANGED <<card, media, lease>>

Answer(t) ==
    /\ Step(t, "answer", "observe")
    /\ info' = [info EXCEPT ![t] = noted.generation]
    /\ UNCHANGED <<card, noted, media, lease, target>>

(* ove_block_get_info publishes the answer with ove_media_observe or ove_media_removed. *)

(* ove_block_open goes on with the acquire; another caller finds the answer in info. *)
AfterInfo(t) ==
    \/ /\ target[t].lease = NoLease
       /\ mpc' = [mpc EXCEPT ![t] = "idle"] /\ UNCHANGED <<info, target>>
    \/ /\ target[t].lease # NoLease
       /\ mpc' = [mpc EXCEPT ![t] = "acquire"] /\ UNCHANGED <<info, target>>

ove_media_removed(t) ==
    /\ mpc[t] = "absent" /\ Done(t)
    /\ present' = FALSE
    /\ UNCHANGED <<card, noted, owners, generation, lease>>

ObservePresentFirst(t) ==
    /\ \/ /\ Step(t, "observe", "observed") /\ present' = TRUE
          /\ UNCHANGED <<generation, info, target>>
       \/ /\ mpc[t] = "observed" /\ AfterInfo(t) /\ generation' = info[t]
          /\ UNCHANGED present
    /\ UNCHANGED <<card, noted, owners, lease>>

(* The two stores of ove_media_observe. *)
ove_media_observe(t) ==
    /\ \/ /\ Step(t, "observe", "observed") /\ generation' = info[t]
          /\ UNCHANGED <<present, info, target>>
       \/ /\ mpc[t] = "observed" /\ AfterInfo(t) /\ present' = TRUE
          /\ UNCHANGED generation
    /\ UNCHANGED <<card, noted, owners, lease>>

ove_block_get_info(t) == Look(t) \/ Count(t) \/ Answer(t) \/ ove_media_removed(t) \/ ove_media_observe(t)

-----------------------------------------------------------------------------
(* ove_block_open begins with ove_block_get_info ... *)
ove_block_open(t, l, write) ==
    /\ ~lease[l].active
    /\ Step(t, "idle", "info")
    /\ target' = [target EXCEPT ![t] = [lease |-> l, write |-> write]]
    /\ UNCHANGED <<card, noted, media, lease, info>>

(* ... and ends in ove_media_raw_acquire: look whether the generation is current ... *)
RawAcquire(t) ==
    /\ mpc[t] = "acquire"
    /\ \/ present /\ generation = info[t] /\ Step(t, "acquire", "swap") /\ UNCHANGED <<info, target>>
       \/ ~(present /\ generation = info[t]) /\ Done(t)
       \/ target[t].write /\ Done(t)                        \* a read-only card
    /\ UNCHANGED <<card, noted, media, lease>>

(* ... take the owners' word and fill in the lease, or find the card busy ... *)
RawSwap(t) ==
    LET l == target[t].lease
        write == target[t].write
    IN  /\ mpc[t] = "swap"
        /\ \/ /\ RawGrant(owners, write)
              /\ owners' = IF write THEN [owners EXCEPT !.writer = TRUE]
                                    ELSE [owners EXCEPT !.readers = @ + 1]
              /\ lease' = [lease EXCEPT ![l] = [active |-> TRUE, write |-> write,
                                                generation |-> info[t]]]
              /\ Step(t, "swap", "confirm") /\ UNCHANGED <<info, target>>
           \/ ~RawGrant(owners, write) /\ Done(t) /\ UNCHANGED <<owners, lease>>
        /\ UNCHANGED <<card, noted, generation, present>>

RawConfirmKeeps(t) ==
    /\ mpc[t] = "confirm" /\ Done(t)
    /\ lease' = [lease EXCEPT ![target[t].lease] =
                    IF ove_media_raw_valid(target[t].lease) THEN @ ELSE Released]
    /\ UNCHANGED <<card, noted, media>>

(* ... and look again: the card may have gone meanwhile. *)
RawConfirm(t) ==
    /\ mpc[t] = "confirm" /\ Done(t)
    /\ \/ ove_media_raw_valid(target[t].lease) /\ UNCHANGED <<owners, lease>>
       \/ ~ove_media_raw_valid(target[t].lease) /\ ove_media_raw_release(target[t].lease)
    /\ UNCHANGED <<card, noted, generation, present>>

(* A transfer fails in the backend, which notes a card that is gone, and ove_block_read,
   ove_block_write or ove_block_sync looks again. *)
refresh_presence_after_error(t) ==
    /\ mpc[t] = "idle"
    /\ \/ ~inserted /\ note_presence(t, "absent", "lost", "info")
       \/ Step(t, "idle", "info") /\ UNCHANGED noted
    /\ UNCHANGED <<info, target>>

ove_block_close(l) ==
    /\ ove_media_raw_release(l)
    /\ UNCHANGED <<card, noted, generation, present, mcall>>

MediaStep(t) == ove_block_get_info(t) \/ RawAcquire(t) \/ RawSwap(t) \/ RawConfirm(t)

-----------------------------------------------------------------------------
(* Properties. *)

(* The owners' word counts what is held, whatever the compare-and-swap loops of several
   callers interleaved with: an acquire that backs out gives back exactly its share. *)
OwnersExact ==
    LET held(w) == {l \in Leases : lease[l].active /\ lease[l].write = w}
    IN  /\ owners.readers = Cardinality(held(FALSE))
        /\ owners.writer = (held(TRUE) # {})

(* A writer owns the card alone: beside it there is no reader, no second writer and no
   mounted filesystem. *)
WriterAlone ==
    \A l \in Leases : lease[l].active /\ lease[l].write =>
        ~owners.fs /\ \A k \in Leases \ {l} : ~lease[k].active

(* "Handles are tied to the removable medium generation and fail closed after card
   removal/replacement": what ove_media_observe publishes of a new card never makes a lease
   for an earlier one good again, in between its two stores either.  Two callers may defeat
   it (ove_block_get_info asks and publishes without a lock): one publishes an answer that
   the backend has overtaken, or its store falls between the two of the other. *)
FailsClosed ==
    [][\A l \in Leases :
          /\ lease[l].active /\ lease'[l] = lease[l]
          /\ ~ove_media_raw_valid(l) /\ ove_media_raw_valid(l)'
          => \/ lease[l].generation = noted.generation
             \/ \E t \in Threads :
                   \/ mpc[t] \in {"observe", "observed"} /\ info[t] < noted.generation
                   \/ mpc[t] = "observed" /\ generation # info[t]]_mvars
=============================================================================
