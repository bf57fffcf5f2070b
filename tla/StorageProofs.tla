--------------------------- MODULE StorageProofs ---------------------------
(***************************************************************************)
(* The card has one kind of owner at a time, whatever the storage adapter  *)
(* and the raw block API do, and a lease for an earlier card stays         *)
(* invalid: OwnersExact, WriterAlone, FilesKeepWritersOut and FailsClosed  *)
(* for any number of owners, handles and changes of the card.  The steps   *)
(* of the raw block API come first, then those of the adapter.             *)
(***************************************************************************)
EXTENDS StorageRequests, FiniteSetTheorems

-----------------------------------------------------------------------------
(* What grants and releases do to the owners' word.                        *)

Readers == {l \in Leases : lease[l].active /\ lease[l].write = FALSE}
Writers == {l \in Leases : lease[l].active /\ lease[l].write = TRUE}

(* OwnersExact counts finite sets. *)
LEMMA Counted ==
    ASSUME MediaTypes
    PROVE  /\ OwnersExact <=> owners.readers = Cardinality(Readers) /\ owners.writer = (Writers # {})
           /\ IsFiniteSet(Readers) /\ Cardinality(Readers) \in Nat
  <1>1. OwnersExact <=> owners.readers = Cardinality(Readers) /\ owners.writer = (Writers # {})
    BY Zenon DEF OwnersExact, Readers, Writers
  <1>2. IsFiniteSet(Readers)
    BY StorageAssumption, FS_Subset, Zenon DEF Readers
  <1>q. QED
    BY <1>1, <1>2, FS_CardinalityType, Zenon

(* ove_media_raw_acquire: the swap of the owners' word. *)
LEMMA GrantKeeps ==
    ASSUME MediaTypes, MediaTypes', Blank, OwnersExact, WriterAlone,
           NEW l \in Leases, NEW write \in BOOLEAN, NEW g,
           ~lease[l].active, RawGrant(owners, write),
           owners' = IF write THEN [owners EXCEPT !.writer = TRUE]
                              ELSE [owners EXCEPT !.readers = @ + 1],
           lease' = [lease EXCEPT ![l] = [active |-> TRUE, write |-> write, generation |-> g]]
    PROVE  Blank' /\ OwnersExact' /\ WriterAlone'
  <1>0. /\ lease'[l].active /\ lease'[l].write = write
        /\ \A k \in Leases \ {l} : lease'[k] = lease[k]
        /\ owners'.fs = owners.fs
    BY Zenon DEF MediaTypes
  <1>1. Blank'
    BY <1>0, Zenon DEF Blank
  <1>2. CASE write
    <2>1. \A k \in Leases : ~lease[k].active
      <3>1. Readers = {} /\ Writers = {}
        BY <1>2, Counted, FS_EmptySet, Zenon DEF RawGrant, MediaTypes
      <3>q. QED
        BY <3>1 DEF Readers, Writers, MediaTypes
    <2>2. Readers' = {} /\ Writers' = {l}
      BY <1>0, <1>2, <2>1 DEF Readers, Writers
    <2>3. owners'.readers = 0 /\ owners'.writer = TRUE
      <3>1. Readers = {}
        BY <2>1, Zenon DEF Readers
      <3>q. QED
        BY <1>2, <3>1, Counted, FS_EmptySet, Zenon DEF MediaTypes
    <2>4. Cardinality(Readers') = 0
      BY <2>2, FS_EmptySet, Zenon
    <2>5. OwnersExact'
      BY <2>2, <2>3, <2>4, Zenon DEF OwnersExact, Readers, Writers
    <2>6. WriterAlone'
      BY <1>0, <1>2, <2>1 DEF WriterAlone, RawGrant
    <2>q. QED
      BY <1>1, <2>5, <2>6, Zenon
  <1>3. CASE ~write
    <2>1. Writers = {} /\ Writers' = {}
      BY <1>0, <1>3, Counted, Zenon DEF RawGrant, Writers, MediaTypes
    <2>2. Readers' = Readers \cup {l} /\ l \notin Readers
      BY <1>0, <1>3, Zenon DEF Readers
    <2>3. Cardinality(Readers') = Cardinality(Readers) + 1
      BY <2>2, Counted, FS_AddElement, Zenon
    <2>4. owners'.readers = owners.readers + 1 /\ owners'.writer = owners.writer
      BY <1>3, Zenon DEF MediaTypes
    <2>5. OwnersExact'
      BY <2>1, <2>3, <2>4, Counted, Zenon DEF OwnersExact, Readers, Writers
    <2>6. WriterAlone'
      BY <2>1, Zenon DEF WriterAlone, Writers
    <2>q. QED
      BY <1>1, <2>5, <2>6, Zenon
  <1>q. QED
    BY <1>2, <1>3, Zenon

(* A lease that is blanked, and its share given back, whatever becomes of the mount. *)
LEMMA ReleaseKeeps ==
    ASSUME MediaTypes, Blank, OwnersExact, WriterAlone,
           NEW l \in Leases,
           lease' = [lease EXCEPT ![l] = Released],
           owners'.fs => owners.fs,
           owners'.writer = (owners.writer /\ ~lease[l].write),
           owners'.readers = owners.readers - (IF lease[l].active /\ ~lease[l].write THEN 1 ELSE 0)
    PROVE  /\ Blank' /\ OwnersExact' /\ WriterAlone' /\ owners'.readers \in Nat
           /\ lease' \in [Leases -> [active : BOOLEAN, write : BOOLEAN, generation : Nat]]
           /\ \A k \in Leases : lease'[k].active => lease[k].active
  <1>0. /\ ~lease'[l].active /\ ~lease'[l].write
        /\ \A k \in Leases \ {l} : lease'[k] = lease[k]
    BY Zenon DEF MediaTypes, Released
  <1>1. Blank'
    BY <1>0, Zenon DEF Blank
  <1>2. WriterAlone'
    BY <1>0, Zenon DEF WriterAlone
  <1>3. Readers' = Readers \ {l} /\ Writers' = Writers \ {l}
    BY <1>0 DEF Readers, Writers
  <1>4. owners'.writer = (Writers' # {})
    <2>1. CASE lease[l].write
      <3>1. Writers' = {}
        BY <1>3, <2>1, Zenon DEF WriterAlone, Writers, Blank, MediaTypes
      <3>q. QED
        BY <2>1, <3>1, Zenon
    <2>2. CASE ~lease[l].write
      <3>1. Writers' = Writers
        BY <1>3, <2>2, Zenon DEF Writers
      <3>q. QED
        BY <2>2, <3>1, Counted, Zenon DEF MediaTypes
    <2>q. QED
      BY <2>1, <2>2, Zenon
  <1>5. owners'.readers = Cardinality(Readers')
    <2>1. CASE lease[l].active /\ ~lease[l].write
      <3>1. l \in Readers
        BY <2>1, Zenon DEF Readers, MediaTypes
      <3>2. Cardinality(Readers') = Cardinality(Readers) - 1
        BY <1>3, <3>1, Counted, FS_RemoveElement, ZenonT(60)
      <3>q. QED
        BY <2>1, <3>2, Counted, Zenon
    <2>2. CASE ~(lease[l].active /\ ~lease[l].write)
      <3>1. Readers' = Readers
        BY <1>3, <2>2, Zenon DEF Readers, MediaTypes
      <3>q. QED
        BY <2>2, <3>1, Counted DEF MediaTypes
    <2>q. QED
      BY <2>1, <2>2, Zenon
  <1>6. IsFiniteSet(Readers') /\ Cardinality(Readers') \in Nat
    BY <1>3, Counted, FS_Subset, FS_CardinalityType, Zenon
  <1>7. lease' \in [Leases -> [active : BOOLEAN, write : BOOLEAN, generation : Nat]]
    BY Zenon DEF MediaTypes, Released
  <1>8. OwnersExact'
    BY <1>4, <1>5, Zenon DEF OwnersExact, Readers, Writers
  <1>q. QED
    BY <1>0, <1>1, <1>2, <1>5, <1>6, <1>7, <1>8, Zenon

(* ove_media_raw_release is such a release. *)
LEMMA RawReleaseKeeps ==
    ASSUME MediaTypes, Blank, OwnersExact, WriterAlone,
           NEW l \in Leases, ove_media_raw_release(l)
    PROVE  /\ Blank' /\ OwnersExact' /\ WriterAlone'
           /\ owners'.fs = owners.fs
           /\ owners' \in [fs : BOOLEAN, writer : BOOLEAN, readers : Nat]
           /\ lease' \in [Leases -> [active : BOOLEAN, write : BOOLEAN, generation : Nat]]
           /\ \A k \in Leases : lease'[k].active => lease[k].active
           /\ ~lease'[l].active
  <1>1. lease' = [lease EXCEPT ![l] = Released]
    BY Zenon DEF ove_media_raw_release
  <1>2. /\ owners'.fs = owners.fs
        /\ owners'.writer = (owners.writer /\ ~lease[l].write)
        /\ owners'.readers = owners.readers - (IF lease[l].active /\ ~lease[l].write THEN 1 ELSE 0)
    <2>0. owners.readers \in Nat /\ lease[l].write \in BOOLEAN
      BY Zenon DEF MediaTypes
    <2>1. CASE ~lease[l].active
      BY <2>0, <2>1 DEF ove_media_raw_release, MediaTypes, Blank
    <2>2. CASE lease[l].active /\ lease[l].write
      <3>1. owners' = [owners EXCEPT !.writer = FALSE]
        BY <2>2, Zenon DEF ove_media_raw_release
      <3>2. owners'.fs = owners.fs /\ owners'.readers = owners.readers /\ owners'.writer = FALSE
        BY <3>1, Zenon DEF MediaTypes
      <3>3. owners'.readers = owners.readers - (IF lease[l].active /\ ~lease[l].write THEN 1 ELSE 0)
        BY <2>0, <2>2, <3>2
      <3>q. QED
        BY <2>2, <3>2, <3>3, Zenon
    <2>3. CASE lease[l].active /\ ~lease[l].write
      <3>1. owners' = [owners EXCEPT !.readers = @ - 1]
        BY <2>3, Zenon DEF ove_media_raw_release
      <3>q. QED
        BY <2>3, <3>1, Zenon DEF MediaTypes
    <2>q. QED
      BY <2>0, <2>1, <2>2, <2>3, Zenon
  <1>4. /\ Blank' /\ OwnersExact' /\ WriterAlone' /\ owners'.readers \in Nat
        /\ lease' \in [Leases -> [active : BOOLEAN, write : BOOLEAN, generation : Nat]]
        /\ \A k \in Leases : lease'[k].active => lease[k].active
    BY <1>1, <1>2, ReleaseKeeps, Zenon
  <1>5. owners' \in [fs : BOOLEAN, writer : BOOLEAN, readers : Nat]
    BY <1>2, <1>4, Zenon DEF ove_media_raw_release, MediaTypes
  <1>6. ~lease'[l].active
    BY <1>1, Zenon DEF MediaTypes, Released
  <1>q. QED
    BY <1>2, <1>4, <1>5, <1>6, Zenon

-----------------------------------------------------------------------------
(* What most steps have in common.                                         *)

(* A step that leaves the leases alone, though it may mount when there is no writer. *)
LEMMA SameLeases ==
    ASSUME MediaTypes, Blank, OwnersExact, WriterAlone,
           UNCHANGED lease, owners'.writer = owners.writer, owners'.readers = owners.readers,
           owners'.fs => owners.fs \/ ~owners.writer
    PROVE  Blank' /\ OwnersExact' /\ WriterAlone'
  <1>1. Blank' /\ OwnersExact'
    BY Zenon DEF Blank, OwnersExact
  <1>2. WriterAlone'
    BY Zenon DEF WriterAlone, OwnersExact
  <1>q. QED
    BY <1>1, <1>2, Zenon

(* What CardInv says of the card alone. *)
MediaInv == MediaTypes /\ Blank /\ OwnersExact /\ WriterAlone /\ Opening

(* What a thread's step in the raw block API keeps, and what it may do to the adapter: only
   the coordinator takes the raw lease. *)
MediaMoves(t) ==
    /\ MediaInv'
    /\ owners'.fs = owners.fs
    /\ lease'["raw"].active => lease["raw"].active \/ t = "coordinator"

(* A call of the raw block API ends. *)
LEMMA DoneKeeps ==
    ASSUME MediaTypes, Opening, NEW t \in Threads, Done(t), UNCHANGED co,
           \A l \in Leases : lease'[l].active => lease[l].active
    PROVE  /\ info' \in [Threads -> Nat] /\ mpc' \in [Threads -> MediaPcs]
           /\ target' \in [Threads -> [lease : Leases \cup {NoLease}, write : BOOLEAN]]
           /\ \A u \in Threads : mpc'[u] = IF u = t THEN "idle" ELSE mpc[u]
           /\ Opening'
  <1>0. NoTarget \in [lease : Leases \cup {NoLease}, write : BOOLEAN] /\ NoTarget.lease = NoLease
    BY Zenon DEF NoTarget
  <1>1. /\ info' \in [Threads -> Nat] /\ mpc' \in [Threads -> MediaPcs]
        /\ target' \in [Threads -> [lease : Leases \cup {NoLease}, write : BOOLEAN]]
    BY <1>0, Zenon DEF MediaTypes, Done, MediaPcs
  <1>2. \A u \in Threads : /\ mpc'[u] = IF u = t THEN "idle" ELSE mpc[u]
                           /\ target'[u] = IF u = t THEN NoTarget ELSE target[u]
    BY ZenonT(60) DEF MediaTypes, Done
  <1>3. Opening'
    BY <1>0, <1>2, StorageAssumption DEF Opening, MediaTypes
  <1>q. QED
    BY <1>1, <1>2, <1>3, Zenon

(* It goes on from one place to the next. *)
LEMMA GoesOn ==
    ASSUME MediaTypes, Opening, NEW t \in Threads, NEW p \in MediaPcs,
           UNCHANGED co, t = "worker" \/ mpc[t] # "idle",
           mpc' = [mpc EXCEPT ![t] = p], UNCHANGED target,
           p = "idle" => target[t].lease = NoLease,
           p \in {"acquire", "swap", "confirm"} => target[t].lease # NoLease,
           mpc[t] # "confirm",
           \A l \in Leases : lease'[l].active => lease[l].active
    PROVE  /\ mpc' \in [Threads -> MediaPcs]
           /\ target' \in [Threads -> [lease : Leases \cup {NoLease}, write : BOOLEAN]]
           /\ \A u \in Threads : mpc'[u] = IF u = t THEN p ELSE mpc[u]
           /\ Opening'
  <1>1. \A u \in Threads : mpc'[u] = IF u = t THEN p ELSE mpc[u]
    BY ZenonT(60) DEF MediaTypes
  <1>2. Opening'
    BY <1>1 DEF Opening, MediaTypes
  <1>q. QED
    BY <1>1, <1>2, Zenon DEF MediaTypes

(* A step of ove_block_get_info or of the acquire that moves no lease. *)
LEMMA LookMoves ==
    ASSUME MediaInv, NEW t \in Threads, mpc[t] \notin {"idle", "confirm"},
           UNCHANGED co,
           UNCHANGED <<owners, lease>>,
           noted' \in [present : {"unknown", "absent", "present"}, generation : Nat],
           \/ Done(t)
           \/ /\ info' \in [Threads -> Nat] /\ UNCHANGED target
              /\ \E p \in MediaPcs :
                    /\ mpc' = [mpc EXCEPT ![t] = p]
                    /\ p = "idle" => target[t].lease = NoLease
                    /\ p \in {"acquire", "swap", "confirm"} => target[t].lease # NoLease
    PROVE  MediaMoves(t)
  <1>1. /\ info' \in [Threads -> Nat] /\ mpc' \in [Threads -> MediaPcs]
        /\ target' \in [Threads -> [lease : Leases \cup {NoLease}, write : BOOLEAN]]
        /\ \A u \in Threads \ {t} : mpc'[u] = mpc[u]
        /\ Opening'
    <2>1. CASE Done(t)
      BY <2>1, DoneKeeps, Zenon DEF MediaInv
    <2>2. CASE ~Done(t)
      <3>1. info' \in [Threads -> Nat] /\ UNCHANGED target
        BY <2>2, Zenon
      <3>2. PICK p \in MediaPcs :
                    /\ mpc' = [mpc EXCEPT ![t] = p]
                    /\ p = "idle" => target[t].lease = NoLease
                    /\ p \in {"acquire", "swap", "confirm"} => target[t].lease # NoLease
        BY <2>2, Zenon
      <3>q. QED
        BY <3>1, <3>2, GoesOn, Zenon DEF MediaInv
    <2>q. QED
      BY <2>1, <2>2, ZenonT(40)
  <1>2. MediaTypes'
    BY <1>1, Zenon DEF MediaInv, MediaTypes
  <1>3. Blank' /\ OwnersExact' /\ WriterAlone'
    BY SameLeases, Zenon DEF MediaInv
  <1>q. QED
    BY <1>1, <1>2, <1>3, ZenonT(60) DEF MediaInv, MediaMoves

(* ove_block_get_info. *)
LEMMA InfoStep ==
    ASSUME MediaInv, NEW t \in Threads, ove_block_get_info(t),
           UNCHANGED co
    PROVE  MediaMoves(t)
  <1>0. noted \in [present : {"unknown", "absent", "present"}, generation : Nat]
        /\ info \in [Threads -> Nat]
    BY Zenon DEF MediaInv, MediaTypes
  <1>1. CASE Look(t)
    <2>1. /\ mpc[t] = "info" /\ UNCHANGED <<owners, lease>>
          /\ noted' \in [present : {"unknown", "absent", "present"}, generation : Nat]
      BY <1>0, <1>1, Zenon DEF Look, note_presence, media
    <2>2. \/ Done(t)
          \/ /\ UNCHANGED <<info, target>>
             /\ \E p \in {"came", "went", "answer", "absent"} : mpc' = [mpc EXCEPT ![t] = p]
      BY <1>1, Zenon DEF Look, note_presence
    <2>q. QED
      BY <1>0, <2>1, <2>2, LookMoves, Zenon DEF MediaPcs
  <1>2. CASE Count(t)
    <2>1. /\ mpc[t] \in {"came", "went", "lost"} /\ UNCHANGED <<owners, lease, info, target>>
          /\ noted' \in [present : {"unknown", "absent", "present"}, generation : Nat]
      BY <1>0, <1>2 DEF Count, Step, media
    <2>2. \E p \in {"answer", "absent", "info"} : mpc' = [mpc EXCEPT ![t] = p]
      BY <1>2, Zenon DEF Count, Step
    <2>q. QED
      BY <1>0, <2>1, <2>2, LookMoves, Zenon DEF MediaPcs
  <1>3. CASE Answer(t)
    <2>1. /\ mpc[t] = "answer" /\ UNCHANGED <<owners, lease, noted, target>>
          /\ info' = [info EXCEPT ![t] = noted.generation]
          /\ mpc' = [mpc EXCEPT ![t] = "observe"]
      BY <1>3, Zenon DEF Answer, Step, media
    <2>2. info' \in [Threads -> Nat]
      BY <1>0, <2>1, Zenon
    <2>q. QED
      BY <1>0, <2>1, <2>2, LookMoves, Zenon DEF MediaPcs
  <1>4. CASE ove_media_removed(t)
    <2>1. mpc[t] = "absent" /\ Done(t) /\ UNCHANGED <<owners, lease, noted>>
      BY <1>4, ZenonT(40) DEF ove_media_removed
    <2>q. QED
      BY <1>0, <2>1, LookMoves, Zenon
  <1>5. CASE ove_media_observe(t)
    <2>1. mpc[t] \in {"observe", "observed"} /\ UNCHANGED <<owners, lease, noted, info, target>>
      BY <1>5, Zenon DEF ove_media_observe, Step, AfterInfo
    <2>2. \/ mpc' = [mpc EXCEPT ![t] = "observed"]
          \/ target[t].lease = NoLease /\ mpc' = [mpc EXCEPT ![t] = "idle"]
          \/ target[t].lease # NoLease /\ mpc' = [mpc EXCEPT ![t] = "acquire"]
      BY <1>5, Zenon DEF ove_media_observe, Step, AfterInfo
    <2>q. QED
      BY <1>0, <2>1, <2>2, LookMoves, Zenon DEF MediaPcs
  <1>q. QED
    BY <1>1, <1>2, <1>3, <1>4, <1>5, ZenonT(40) DEF ove_block_get_info

(* ove_media_raw_acquire looks whether the generation is current. *)
LEMMA AcquireStep ==
    ASSUME MediaInv, NEW t \in Threads, RawAcquire(t),
           UNCHANGED co
    PROVE  MediaMoves(t)
  <1>0. noted \in [present : {"unknown", "absent", "present"}, generation : Nat]
        /\ info \in [Threads -> Nat]
    BY SMTT(30) DEF MediaInv, MediaTypes
  <1>1. mpc[t] = "acquire" /\ target[t].lease # NoLease /\ UNCHANGED <<owners, lease, noted>>
    BY Zenon DEF RawAcquire, media, MediaInv, Opening
  <1>2. \/ Done(t)
        \/ UNCHANGED <<info, target>> /\ mpc' = [mpc EXCEPT ![t] = "swap"]
    BY Zenon DEF RawAcquire, Step
  <1>q. QED
    BY <1>0, <1>1, <1>2, LookMoves, Zenon DEF MediaPcs

(* It takes the owners' word. *)
LEMMA SwapStep ==
    ASSUME MediaInv, NEW t \in Threads, RawSwap(t),
           UNCHANGED co
    PROVE  MediaMoves(t)
  <1>0. /\ noted \in [present : {"unknown", "absent", "present"}, generation : Nat]
        /\ info \in [Threads -> Nat] /\ UNCHANGED noted
        /\ mpc[t] = "swap" /\ target[t].lease # NoLease /\ target[t].lease \in Leases
        /\ target[t].write \in BOOLEAN /\ ~lease[target[t].lease].active
    BY Zenon DEF MediaInv, MediaTypes, RawSwap, Opening
  <1>1. CASE Done(t) /\ UNCHANGED <<owners, lease>>
    BY <1>0, <1>1, LookMoves, Zenon
  <1>2. CASE /\ RawGrant(owners, target[t].write)
             /\ owners' = IF target[t].write THEN [owners EXCEPT !.writer = TRUE]
                                             ELSE [owners EXCEPT !.readers = @ + 1]
             /\ lease' = [lease EXCEPT ![target[t].lease] =
                             [active |-> TRUE, write |-> target[t].write, generation |-> info[t]]]
             /\ mpc' = [mpc EXCEPT ![t] = "confirm"] /\ UNCHANGED <<info, target>>
    <2>1. MediaTypes'
      <3>1. owners' \in [fs : BOOLEAN, writer : BOOLEAN, readers : Nat] /\ owners'.fs = owners.fs
        <4>0. owners \in [fs : BOOLEAN, writer : BOOLEAN, readers : Nat]
          BY Zenon DEF MediaInv, MediaTypes
        <4>1. CASE target[t].write
          BY <1>2, <4>0, <4>1, Zenon
        <4>2. CASE ~target[t].write
          BY <1>2, <4>0, <4>2
        <4>q. QED
          BY <4>1, <4>2, Zenon
      <3>2. lease' \in [Leases -> [active : BOOLEAN, write : BOOLEAN, generation : Nat]]
        BY <1>0, <1>2, Zenon DEF MediaInv, MediaTypes
      <3>3. mpc' \in [Threads -> MediaPcs]
        BY <1>2, Zenon DEF MediaInv, MediaTypes, MediaPcs
      <3>q. QED
        BY <1>0, <1>2, <3>1, <3>2, <3>3, Zenon DEF MediaInv, MediaTypes
    <2>2. Blank' /\ OwnersExact' /\ WriterAlone'
      BY <1>0, <1>2, <2>1, GrantKeeps, Zenon DEF MediaInv
    <2>3. /\ \A u \in Threads : mpc'[u] = IF u = t THEN "confirm" ELSE mpc[u]
          /\ \A l \in Leases \ {target[t].lease} : lease'[l] = lease[l]
          /\ owners'.fs = owners.fs
      BY <1>2, ZenonT(40) DEF MediaInv, MediaTypes
    <2>4. \A u \in Threads \ {t} : target[u].lease # target[t].lease \/ target[u].lease = NoLease
      BY <1>0, Zenon DEF MediaInv, Opening
    <2>5. Opening'
      <3>1. \A u \in Threads \ {t} : target[u].lease # NoLease =>
                lease'[target[u].lease] = lease[target[u].lease]
        BY <2>3, <2>4, Zenon DEF MediaInv, MediaTypes
      <3>2. UNCHANGED target
        BY <1>2, Zenon
      <3>3. target[t].lease # NoLease /\ mpc'[t] = "confirm"
        BY <1>0, <2>3, Zenon DEF MediaInv, Opening
      <3>4. ASSUME NEW u \in Threads \ {t}
            PROVE  /\ mpc'[u] = mpc[u]
                   /\ target[u].lease # NoLease => lease'[target[u].lease] = lease[target[u].lease]
        BY <2>3, <3>1, <3>4, Zenon
      <3>5. ASSUME NEW u \in Threads
            PROVE  LET l == target'[u].lease
                   IN  /\ l = NoLease => target'[u] = NoTarget
                       /\ mpc'[u] = "idle" => l = NoLease
                       /\ mpc'[u] \in {"acquire", "swap", "confirm"} => l # NoLease
                       /\ l # NoLease => \/ u = "coordinator" /\ l = "raw"
                                         \/ u = "worker" /\ l = "temporary"
                       /\ l # NoLease /\ mpc'[u] # "confirm" => ~lease'[l].active
        <4>1. CASE u = t
          BY <3>2, <3>3, <4>1, Zenon DEF MediaInv, Opening
        <4>2. CASE u # t
          BY <3>2, <3>4, <4>2, Zenon DEF MediaInv, Opening
        <4>q. QED
          BY <4>1, <4>2, ZenonT(40)
      <3>6. mpc'["coordinator"] # "idle" => co' = "opening"
        BY <1>0, <2>3, StorageAssumption, Zenon DEF MediaInv, Opening
      <3>q. QED
        BY <3>5, <3>6, ZenonT(40) DEF Opening
    <2>6. lease'["raw"].active => lease["raw"].active \/ t = "coordinator"
      BY <1>0, <2>3, StorageAssumption, Zenon DEF MediaInv, Opening
    <2>q. QED
      BY <2>1, <2>2, <2>3, <2>5, <2>6, Zenon DEF MediaInv, MediaMoves
  <1>q. QED
    BY <1>1, <1>2, Zenon DEF RawSwap, Step

(* It looks again, and gives back what it took of a card that has gone. *)
LEMMA ConfirmStep ==
    ASSUME MediaInv, NEW t \in Threads, RawConfirm(t),
           UNCHANGED co
    PROVE  MediaMoves(t)
  <1>0. /\ mpc[t] = "confirm" /\ Done(t) /\ UNCHANGED noted /\ target[t].lease \in Leases
    BY Zenon DEF MediaInv, MediaTypes, RawConfirm, Opening
  <1>1. /\ Blank' /\ OwnersExact' /\ WriterAlone' /\ owners'.fs = owners.fs
        /\ owners' \in [fs : BOOLEAN, writer : BOOLEAN, readers : Nat]
        /\ lease' \in [Leases -> [active : BOOLEAN, write : BOOLEAN, generation : Nat]]
        /\ \A k \in Leases : lease'[k].active => lease[k].active
    <2>1. CASE UNCHANGED <<owners, lease>>
      BY <2>1, SameLeases, ZenonT(40) DEF MediaInv, MediaTypes
    <2>2. CASE ove_media_raw_release(target[t].lease)
      BY <1>0, <2>2, RawReleaseKeeps, Zenon DEF MediaInv
    <2>q. QED
      BY <2>1, <2>2, Zenon DEF RawConfirm
  <1>2. /\ info' \in [Threads -> Nat] /\ mpc' \in [Threads -> MediaPcs]
        /\ target' \in [Threads -> [lease : Leases \cup {NoLease}, write : BOOLEAN]]
        /\ \A u \in Threads \ {t} : mpc'[u] = mpc[u]
        /\ Opening'
    BY <1>0, <1>1, DoneKeeps, Zenon DEF MediaInv
  <1>3. MediaTypes'
    BY <1>0, <1>1, <1>2, ZenonT(40) DEF MediaInv, MediaTypes
  <1>q. QED
    BY <1>1, <1>2, <1>3, StorageAssumption, Zenon DEF MediaInv, MediaMoves

-----------------------------------------------------------------------------
(* The adapter's steps on mount and handles.                               *)

(* A step that moves no lease, mounts nothing and opens no file. *)
LEMMA QuietStep ==
    ASSUME CardInv, UNCHANGED <<owners, lease, noted, mpc, info, target, g_mounted>>,
           \A s \in Slots : g_handles'[s] => g_handles[s],
           mpc["coordinator"] # "idle" => co' = "opening",
           StopDone' \/ ~g_active' => StopDone \/ ~g_active
    PROVE  CardInv'
  <1> USE DEF CardInv
  <1>1. MediaTypes'
    BY Zenon DEF MediaTypes
  <1>2. Blank' /\ OwnersExact' /\ WriterAlone'
    BY Zenon DEF Blank, OwnersExact, WriterAlone
  <1>3. Opening'
    BY Zenon DEF Opening
  <1>4. Stopped' /\ Mounted'
    BY Zenon DEF Stopped, Mounted, handles_open
  <1>q. QED
    BY <1>1, <1>2, <1>3, <1>4, Zenon

(* A step of the raw block API. *)
LEMMA MediaStepKeeps ==
    ASSUME RequestInv, CardInv, NEW t \in Threads, Media(t)
    PROVE  CardInv'
  <1>1. /\ MediaStep(t) /\ MediaInv /\ mpc[t] # "idle"
        /\ UNCHANGED <<g_handles, g_mounted, g_active, request, co, wk, serving>>
    BY Zenon DEF Media, store, life, calls, CardInv, MediaInv, MediaStep, ove_block_get_info, Look,
       Count, Answer, ove_media_removed, ove_media_observe, RawAcquire, RawSwap, RawConfirm, Step
  <1>2. MediaMoves(t)
    BY <1>1, InfoStep, AcquireStep, SwapStep, ConfirmStep, Zenon DEF MediaStep
  <1>3. lease'["raw"].active => lease["raw"].active \/ co = "opening"
    BY <1>1, <1>2, Zenon DEF MediaMoves, CardInv, Opening
  <1>4. StopDone \/ ~g_active => co # "opening"
    BY Zenon DEF StopDone, RequestInv, HandOver
  <1>5. Stopped' /\ Mounted'
    BY <1>1, <1>2, <1>3, <1>4, Zenon DEF MediaMoves, CardInv, Stopped, Mounted, StopDone, handles_open
  <1>q. QED
    BY <1>2, <1>5, Zenon DEF MediaMoves, MediaInv, CardInv

(* The worker is at a request that is not the stop ... *)
AtWork == wk \in {"execute", "info", "open", "failed", "fs"} /\ Op # "stop"

(* ... and goes on with it, or has its result. *)
Continues ==
    /\ wk' \notin {"none", "receive", "exited"}
    /\ request'["sync"].op = request["sync"].op
    /\ UNCHANGED <<g_active, co, serving>>

(* A result leaves the worker at the request it serves. *)
LEMMA OutcomeContinues ==
    ASSUME RequestInv, AtWork, NEW ok, NEW s, NEW valid, Outcome(ok, s, valid)
    PROVE  Continues
  BY ZenonT(60) DEF Continues, Outcome, RequestInv, AdapterTypes, HandOver, Kinds, Requests

(* The handles and the mount are not those of a stopped run then. *)
LEMMA StillRunning ==
    ASSUME RequestInv, AtWork, Continues
    PROVE  g_active' /\ ~StopDone'
  BY Zenon DEF AtWork, Continues, RequestInv, HandOver, StopDone, Op

(* A request that touches the mount and the handles, and no lease: files stay on a mounted
   volume, and a volume is mounted beside no writer. *)
LEMMA MountMoves ==
    ASSUME RequestInv, CardInv, AtWork, Continues,
           UNCHANGED <<noted, lease, mcall>>,
           \/ UNCHANGED <<owners, g_mounted>>
           \/ Mount
           \/ Unmount,
           handles_open' => g_mounted'
    PROVE  CardInv'
  <1>1. /\ UNCHANGED <<mpc, info, target, co>>
        /\ owners' \in [fs : BOOLEAN, writer : BOOLEAN, readers : Nat]
        /\ owners'.writer = owners.writer /\ owners'.readers = owners.readers
        /\ owners'.fs => owners.fs \/ ~owners.writer
        /\ owners'.fs = g_mounted'
    BY Zenon DEF CardInv, MediaTypes, Mounted, Mount, Unmount, ove_media_fs_acquire, mcall, Continues
  <1>2. MediaTypes'
    BY <1>1, Zenon DEF CardInv, MediaTypes
  <1>3. Blank' /\ OwnersExact' /\ WriterAlone'
    BY <1>1, SameLeases, Zenon DEF CardInv
  <1>4. Opening'
    BY <1>1, Zenon DEF CardInv, Opening
  <1>5. Stopped' /\ Mounted'
    BY <1>1, StillRunning, Zenon DEF Stopped, Mounted
  <1>q. QED
    BY <1>2, <1>3, <1>4, <1>5, Zenon DEF CardInv

(* Mounting, unmounting and the requests on files keep CardInv. *)
LEMMA MountStep ==
    ASSUME RequestInv, CardInv, ExecuteMount \/ ExecuteUnmount \/ FsRequest
    PROVE  CardInv'
  <1>1. AtWork
    BY Zenon DEF ExecuteMount, ExecuteUnmount, FsRequest, AtWork, RequestInv, HandOver
  <1>2. Continues
    BY <1>1, OutcomeContinues, Zenon DEF ExecuteMount, ExecuteUnmount, FsRequest, Returns, Result
  <1>3. UNCHANGED <<noted, lease, mcall>>
    BY Zenon DEF ExecuteMount, ExecuteUnmount, FsRequest
  <1>4. \/ UNCHANGED <<owners, g_mounted>>
        \/ Mount
        \/ Unmount
    BY Zenon DEF ExecuteMount, ExecuteUnmount, MountFails, FsRequest, ensure_mounted
  <1>5. handles_open' => g_mounted'
    <2>1. CASE ensure_mounted
      BY <2>1 DEF ensure_mounted, Mount
    <2>2. CASE ~ensure_mounted /\ FsRequest
      BY <2>2, Zenon DEF FsRequest, MountFails, handles_open, CardInv, Mounted
    <2>3. CASE ExecuteMount \/ ExecuteUnmount
      BY <2>3, Zenon DEF ExecuteMount, ExecuteUnmount, MountFails, Mount, handles_open, CardInv, Mounted
    <2>q. QED
      BY <2>1, <2>2, <2>3, Zenon
  <1>q. QED
    BY <1>1, <1>2, <1>3, <1>4, <1>5, MountMoves, Zenon

-----------------------------------------------------------------------------
(* Nothing is held at first.                                               *)

(* Nothing is held at first, and nobody opens anything. *)
LEMMA CardInit == Init => CardInv
  <1> SUFFICES ASSUME Init PROVE CardInv
    BY Zenon
  <1>1. MediaTypes
    BY Zenon DEF Init, MediaInit, MediaTypes, MediaPcs, Released, NoTarget
  <1>2. Blank /\ WriterAlone
    BY Zenon DEF Init, MediaInit, Blank, WriterAlone, Released
  <1>3. OwnersExact
    <2>1. Readers = {} /\ Writers = {}
      BY Zenon DEF Init, MediaInit, Readers, Writers, Released
    <2>2. owners.readers = 0 /\ owners.writer = FALSE
      BY Zenon DEF Init, MediaInit
    <2>q. QED
      BY <1>1, <2>1, <2>2, Counted, FS_EmptySet, Zenon
  <1>4. Opening /\ Stopped /\ Mounted
    BY StorageAssumption, Zenon DEF Init, MediaInit, Opening, Stopped, Mounted, NoTarget, Released,
       handles_open
  <1>q. QED
    BY <1>1, <1>2, <1>3, <1>4, Zenon DEF CardInv

-----------------------------------------------------------------------------
(* The adapter's steps on the leases, and the coordinator's.               *)

(* The stop request gives everything back. *)
LEMMA StopStep ==
    ASSUME RequestInv, CardInv, ExecuteStop
    PROVE  CardInv'
  <1>0. /\ g_handles' = [s \in Slots |-> FALSE] /\ g_mounted' = FALSE
        /\ owners' = [fs |-> owners.fs /\ ~g_mounted,
                      writer |-> owners.writer /\ ~lease["raw"].write,
                      readers |-> owners.readers -
                          (IF lease["raw"].active /\ ~lease["raw"].write THEN 1 ELSE 0)]
        /\ lease' = [lease EXCEPT !["raw"] = Released]
        /\ UNCHANGED <<noted, mpc, info, target, co>> /\ "raw" \in Leases
    BY StorageAssumption, Zenon DEF ExecuteStop, mcall, Returns, Result, Outcome
  <1>1. /\ owners'.fs = (owners.fs /\ ~g_mounted)
        /\ owners'.writer = (owners.writer /\ ~lease["raw"].write)
        /\ owners'.readers = owners.readers -
               (IF lease["raw"].active /\ ~lease["raw"].write THEN 1 ELSE 0)
    BY <1>0, Zenon
  <1>2. /\ Blank' /\ OwnersExact' /\ WriterAlone' /\ owners'.readers \in Nat
        /\ lease' \in [Leases -> [active : BOOLEAN, write : BOOLEAN, generation : Nat]]
        /\ \A k \in Leases : lease'[k].active => lease[k].active
    BY <1>0, <1>1, ReleaseKeeps, Zenon DEF CardInv
  <1>3. MediaTypes'
    BY <1>0, <1>1, <1>2, Zenon DEF CardInv, MediaTypes
  <1>4. Opening'
    BY <1>0, <1>2, ZenonT(60) DEF CardInv, Opening, MediaTypes
  <1>5. Stopped' /\ Mounted'
    <2>1. ~lease'["raw"].active /\ ~handles_open' /\ owners'.fs = FALSE
      BY <1>0, <1>1, Zenon DEF handles_open, Released, CardInv, MediaTypes, Mounted
    <2>q. QED
      BY <1>0, <2>1, Zenon DEF Stopped, Mounted
  <1>q. QED
    BY <1>2, <1>3, <1>4, <1>5, Zenon DEF CardInv

(* A request that touches the leases, and neither the mount nor the handles. *)
LEMMA BlockMoves ==
    ASSUME RequestInv, CardInv, AtWork, Continues, UNCHANGED store,
           owners'.fs = owners.fs, MediaTypes', Blank' /\ OwnersExact' /\ WriterAlone', Opening'
    PROVE  CardInv'
  <1>1. Stopped' /\ Mounted'
    BY StillRunning, Zenon DEF store, CardInv, Stopped, Mounted, handles_open
  <1>q. QED
    BY <1>1, Zenon DEF CardInv

(* The worker gives back a lease. *)
LEMMA CloseMoves ==
    ASSUME RequestInv, CardInv, AtWork, Continues, UNCHANGED <<noted, store>>,
           NEW l \in Leases, ove_media_raw_release(l),
           UNCHANGED mcall \/ Done("worker")
    PROVE  CardInv'
  <1>1. /\ Blank' /\ OwnersExact' /\ WriterAlone' /\ owners'.fs = owners.fs
        /\ owners' \in [fs : BOOLEAN, writer : BOOLEAN, readers : Nat]
        /\ lease' \in [Leases -> [active : BOOLEAN, write : BOOLEAN, generation : Nat]]
        /\ \A k \in Leases : lease'[k].active => lease[k].active
    BY RawReleaseKeeps, Zenon DEF CardInv
  <1>2. /\ info' \in [Threads -> Nat] /\ mpc' \in [Threads -> MediaPcs]
        /\ target' \in [Threads -> [lease : Leases \cup {NoLease}, write : BOOLEAN]]
        /\ Opening'
    <2>1. CASE UNCHANGED mcall
      BY <1>1, <2>1, Zenon DEF mcall, CardInv, MediaTypes, Opening, Continues
    <2>2. CASE Done("worker")
      BY <1>1, <2>2, DoneKeeps, StorageAssumption, Zenon DEF CardInv, Continues
    <2>q. QED
      BY <2>1, <2>2, Zenon
  <1>3. MediaTypes'
    BY <1>1, <1>2, Zenon DEF CardInv, MediaTypes
  <1>q. QED
    BY <1>1, <1>2, <1>3, BlockMoves, Zenon

(* The worker looks at the card, or is told what it saw. *)
LEMMA LookStep ==
    ASSUME RequestInv, CardInv, AtWork, Continues, UNCHANGED <<owners, lease, store>>,
           noted' \in [present : {"unknown", "absent", "present"}, generation : Nat],
           \/ UNCHANGED <<mpc, info, target>>
           \/ Done("worker")
           \/ /\ mpc["worker"] = "idle" /\ UNCHANGED <<info, target>>
              /\ \E p \in {"info", "lost"} : mpc' = [mpc EXCEPT !["worker"] = p]
    PROVE  CardInv'
  <1>1. /\ info' \in [Threads -> Nat] /\ mpc' \in [Threads -> MediaPcs]
        /\ target' \in [Threads -> [lease : Leases \cup {NoLease}, write : BOOLEAN]]
        /\ Opening'
    <2>1. CASE UNCHANGED <<mpc, info, target>>
      BY <2>1, Zenon DEF CardInv, MediaTypes, Opening, Continues
    <2>2. CASE Done("worker")
      BY <2>2, DoneKeeps, StorageAssumption, Zenon DEF CardInv, Continues
    <2>3. CASE /\ mpc["worker"] = "idle" /\ UNCHANGED <<info, target>>
               /\ \E p \in {"info", "lost"} : mpc' = [mpc EXCEPT !["worker"] = p]
      <3>1. PICK p \in {"info", "lost"} : mpc' = [mpc EXCEPT !["worker"] = p]
        BY <2>3, Zenon
      <3>2. p \in MediaPcs /\ p \notin {"idle", "acquire", "swap", "confirm"} /\ "worker" \in Threads
        BY StorageAssumption, Zenon DEF MediaPcs
      <3>q. QED
        BY <2>3, <3>1, <3>2, GoesOn, Zenon DEF CardInv, MediaTypes, Continues
    <2>q. QED
      BY <2>1, <2>2, <2>3, Zenon
  <1>2. MediaTypes'
    BY <1>1, Zenon DEF CardInv, MediaTypes
  <1>3. Blank' /\ OwnersExact' /\ WriterAlone'
    BY SameLeases, Zenon DEF CardInv
  <1>q. QED
    BY <1>1, <1>2, <1>3, BlockMoves, Zenon

(* The worker's requests on the block device. *)
LEMMA BlockStep ==
    ASSUME RequestInv, CardInv,
           \/ ExecuteBlockClose \/ ExecuteBlockInfo \/ refresh_block_info \/ ExecuteBlock
           \/ TemporaryRead \/ TransferFailed
    PROVE  CardInv'
  <1>1. AtWork /\ UNCHANGED store
    BY Zenon DEF ExecuteBlockClose, ExecuteBlockInfo, refresh_block_info, ExecuteBlock, TemporaryRead,
       TransferFailed, AtWork, RequestInv, HandOver, BlockOps
  <1>2. ASSUME \/ Returns(TRUE) \/ Returns(FALSE) \/ BlockFails
               \/ Outcome(TRUE, request[serving].slot, TRUE)
        PROVE  Continues /\ wk' = "finish"
    BY <1>1, <1>2, OutcomeContinues, Zenon DEF Returns, Result, BlockFails, Outcome
  <1>3. ASSUME wk' \in {"execute", "info", "open", "failed"}, UNCHANGED <<g_active, calls, co, serving>>
        PROVE  Continues
    BY <1>3, Zenon DEF Continues, calls
  <1>4. /\ "raw" \in Leases /\ "temporary" \in Leases
        /\ noted \in [present : {"unknown", "absent", "present"}, generation : Nat]
    BY StorageAssumption, Zenon DEF CardInv, MediaTypes
  <1>5. ASSUME refresh_presence_after_error("worker")
        PROVE  /\ noted' \in [present : {"unknown", "absent", "present"}, generation : Nat]
               /\ mpc["worker"] = "idle" /\ UNCHANGED <<info, target>>
               /\ \E p \in {"info", "lost"} : mpc' = [mpc EXCEPT !["worker"] = p]
    BY <1>4, <1>5, Zenon DEF refresh_presence_after_error, note_presence, Step
  <1>6. CASE ExecuteBlockClose
    <2>1. ove_media_raw_release("raw") /\ UNCHANGED <<noted, mcall>>
      BY <1>6, Zenon DEF ExecuteBlockClose, ove_block_close
    <2>2. Continues
      BY <1>2, <1>6, Zenon DEF ExecuteBlockClose
    <2>q. QED
      BY <1>1, <1>4, <2>1, <2>2, CloseMoves, Zenon
  <1>7. CASE TransferFailed
    <2>1. ove_media_raw_release("temporary") /\ UNCHANGED noted /\ Done("worker") /\ BlockFails
      BY <1>7, Zenon DEF TransferFailed
    <2>q. QED
      BY <1>1, <1>2, <1>4, <2>1, CloseMoves, Zenon
  <1>8. CASE ExecuteBlockInfo
    <2>1. /\ mpc["worker"] = "idle" /\ mpc' = [mpc EXCEPT !["worker"] = "info"]
          /\ UNCHANGED <<owners, lease, noted, info, target, g_active, calls, co, serving>>
          /\ wk' = "info"
      BY <1>8, Zenon DEF ExecuteBlockInfo, Step, media, life
    <2>q. QED
      BY <1>1, <1>3, <1>4, <2>1, LookStep, Zenon
  <1>9. CASE refresh_block_info
    <2>1. Done("worker") /\ UNCHANGED <<owners, lease, noted>>
      BY <1>9, Zenon DEF refresh_block_info, media
    <2>2. Continues
      BY <1>2, <1>3, <1>9, Zenon DEF refresh_block_info
    <2>q. QED
      BY <1>1, <1>4, <2>1, <2>2, LookStep, Zenon
  <1>10. CASE Transfer("raw") /\ UNCHANGED <<media, lease>>
    <2>1. Transfer("raw") /\ UNCHANGED <<owners, lease>>
      BY <1>10, Zenon DEF media
    <2>2. CASE (Returns(TRUE) \/ BlockFails) /\ UNCHANGED <<noted, mcall>>
      BY <1>1, <1>2, <1>4, <2>1, <2>2, LookStep, Zenon DEF mcall
    <2>3. CASE /\ refresh_presence_after_error("worker") /\ wk' = "failed"
               /\ UNCHANGED <<life, calls, co, serving>>
      BY <1>1, <1>3, <1>5, <2>1, <2>3, LookStep, Zenon DEF life
    <2>q. QED
      BY <2>1, <2>2, <2>3, Zenon DEF Transfer
  <1>11. CASE /\ ove_block_open("worker", "temporary", FALSE) /\ wk' = "open"
              /\ UNCHANGED <<life, calls, co, serving>>
    <2>1. /\ UNCHANGED <<owners, lease, noted, info, g_active, calls, co, serving>>
          /\ ~lease["temporary"].active /\ mpc["worker"] = "idle" /\ wk' = "open"
          /\ mpc' = [mpc EXCEPT !["worker"] = "info"]
          /\ target' = [target EXCEPT !["worker"] = [lease |-> "temporary", write |-> FALSE]]
      BY <1>11, Zenon DEF ove_block_open, Step, media, life
    <2>2. "temporary" # NoLease /\ {"worker", "coordinator"} \subseteq Threads
      BY StorageAssumption, MediaAssumption, Zenon
    <2>3. MediaTypes'
      BY <1>4, <2>1, <2>2, Zenon DEF CardInv, MediaTypes, MediaPcs
    <2>4. Blank' /\ OwnersExact' /\ WriterAlone'
      BY <2>1, SameLeases, Zenon DEF CardInv
    <2>5. /\ mpc'["worker"] = "info" /\ target'["worker"].lease = "temporary"
          /\ \A u \in Threads \ {"worker"} : mpc'[u] = mpc[u] /\ target'[u] = target[u]
      BY <2>1, <2>2, ZenonT(60) DEF CardInv, MediaTypes
    <2>6. Opening'
      BY <2>1, <2>2, <2>5, SMTT(30) DEF CardInv, Opening
    <2>q. QED
      BY <1>1, <1>3, <2>1, <2>3, <2>4, <2>6, BlockMoves, Zenon
  <1>12. CASE TemporaryRead
    <2>1. CASE (Returns(TRUE) \/ Returns(FALSE) \/ BlockFails) /\ UNCHANGED <<noted, mcall>>
      <3>1. ove_media_raw_release("temporary")
        BY <1>2, <1>12, <2>1, Zenon DEF TemporaryRead
      <3>q. QED
        BY <1>1, <1>2, <1>4, <2>1, <3>1, CloseMoves, Zenon
    <2>2. CASE /\ refresh_presence_after_error("worker") /\ wk' = "failed"
               /\ UNCHANGED <<life, calls, co, serving>>
      <3>1. UNCHANGED <<owners, lease>>
        BY <1>12, <2>2, Zenon DEF TemporaryRead
      <3>q. QED
        BY <1>1, <1>3, <1>5, <2>2, <3>1, LookStep, Zenon DEF life
    <2>q. QED
      BY <1>12, <2>1, <2>2, Zenon DEF TemporaryRead, Transfer
  <1>13. CASE Returns(FALSE) /\ UNCHANGED mvars
    BY <1>1, <1>2, <1>4, <1>13, LookStep, Zenon DEF mvars, media, mcall
  <1>14. CASE ExecuteBlock
    BY <1>10, <1>11, <1>13, <1>14, Zenon DEF ExecuteBlock
  <1>q. QED
    BY <1>6, <1>7, <1>8, <1>9, <1>12, <1>14, Zenon

(* storage_run_begin: it blanks the raw lease, which holds nothing then. *)
LEMMA BeginStep ==
    ASSUME RequestInv, CardInv, NEW c, run_begin(c), ~g_active
    PROVE  CardInv'
  <1>1. /\ g_handles' = [s \in Slots |-> FALSE] /\ g_mounted' = FALSE
        /\ lease' = [lease EXCEPT !["raw"] = Released]
        /\ UNCHANGED <<owners, noted, mpc, info, target>>
        /\ co = "idle" /\ "raw" \in Leases
    BY StorageAssumption, Zenon DEF run_begin, media, mcall
  <1>2. ~lease["raw"].active /\ ~lease["raw"].write /\ owners.fs = FALSE /\ owners.readers \in Nat
    BY <1>1, Zenon DEF CardInv, Stopped, Blank, Mounted, MediaTypes
  <1>3. owners.readers = owners.readers - (IF lease["raw"].active /\ ~lease["raw"].write THEN 1 ELSE 0)
    BY <1>2
  <1>4. owners.writer = (owners.writer /\ ~lease["raw"].write)
    BY <1>2, Zenon DEF CardInv, MediaTypes
  <1>5. /\ Blank' /\ OwnersExact' /\ WriterAlone'
        /\ lease' \in [Leases -> [active : BOOLEAN, write : BOOLEAN, generation : Nat]]
        /\ \A k \in Leases : lease'[k].active => lease[k].active
    BY <1>1, <1>3, <1>4, ReleaseKeeps, Zenon DEF CardInv
  <1>6. MediaTypes'
    BY <1>1, <1>5, Zenon DEF CardInv, MediaTypes
  <1>7. Opening'
    BY <1>1, <1>5, ZenonT(30) DEF CardInv, Opening, MediaTypes
  <1>8. Stopped' /\ Mounted'
    <2>1. ~lease'["raw"].active
      BY <1>1, <1>2, <1>5, Zenon
    <2>q. QED
      BY <1>1, <1>2, <2>1, Zenon DEF Stopped, Mounted, handles_open
  <1>q. QED
    BY <1>5, <1>6, <1>7, <1>8, Zenon DEF CardInv

(* block_open starts the coordinator's call. *)
LEMMA BlockOpenStep ==
    ASSUME RequestInv, CardInv, NEW write \in BOOLEAN, block_open(write)
    PROVE  CardInv'
  <1>1. /\ UNCHANGED <<owners, lease, noted, info, g_handles, g_mounted, g_active, request, wk, serving>>
        /\ co' = "opening" /\ ~lease["raw"].active
        /\ mpc' = [mpc EXCEPT !["coordinator"] = "info"]
        /\ target' = [target EXCEPT !["coordinator"] = [lease |-> "raw", write |-> write]]
    BY Zenon DEF block_open, ove_block_open, Step, media, store, life, calls
  <1>2. "raw" \in Leases /\ "raw" # NoLease /\ "coordinator" \in Threads
    BY StorageAssumption, MediaAssumption, Zenon
  <1>3. MediaTypes'
    BY <1>1, <1>2, Zenon DEF CardInv, MediaTypes, MediaPcs
  <1>4. Blank' /\ OwnersExact' /\ WriterAlone'
    BY <1>1, SameLeases, Zenon DEF CardInv
  <1>5. Opening'
    <2>1. /\ mpc'["coordinator"] = "info" /\ target'["coordinator"].lease = "raw"
          /\ \A u \in Threads \ {"coordinator"} : mpc'[u] = mpc[u] /\ target'[u] = target[u]
      BY <1>1, <1>2, Zenon DEF CardInv, MediaTypes
    <2>2. ASSUME NEW t \in Threads \ {"coordinator"}
          PROVE  mpc'[t] = mpc[t] /\ target'[t] = target[t] /\ lease' = lease
      BY <1>1, <2>1, Zenon
    <2>3. /\ "raw" # NoLease /\ ~lease'["raw"].active /\ co' = "opening"
          /\ "info" \notin {"acquire", "swap", "confirm"} /\ "info" # "idle"
      BY <1>1, <1>2, Zenon
    <2>q. QED
      BY <2>1, <2>2, <2>3, ZenonT(60) DEF CardInv, Opening
  <1>6. Stopped' /\ Mounted'
    BY <1>1, Zenon DEF CardInv, Stopped, StopDone, Mounted, handles_open
  <1>q. QED
    BY <1>3, <1>4, <1>5, <1>6, Zenon DEF CardInv

(* The coordinator's other steps, and those of the worker that do not execute. *)
Submission == block_close \/ \E o, op, s : submit(o, op, s)
Settling == \E o : Collect(o) \/ fs_request_cancel(o)
Membership == \E c : run_end(c) \/ (run_begin(c) /\ g_active)
OtherSteps ==
    \/ Send \/ Answered \/ Opened \/ Joined \/ Submission \/ Settling \/ Membership
    \/ Receive \/ ExecuteFs \/ Finish \/ Card \/ UNCHANGED vars

(* What a submission leaves alone. *)
LEMMA SubmissionMoves ==
    ASSUME Submission
    PROVE  /\ UNCHANGED <<mvars, g_mounted, g_handles>> /\ UNCHANGED <<g_active, wk, serving>>
           /\ co = "idle" /\ co' \in {"idle", "send"}
  <1>1. ASSUME NEW o, NEW op, NEW s, submit(o, op, s)
        PROVE  /\ UNCHANGED <<mvars, g_mounted, g_handles>> /\ UNCHANGED <<g_active, wk, serving>>
               /\ co = "idle" /\ co' \in {"idle", "send"}
    BY <1>1, Zenon DEF submit, submit_sync, Submit, life
  <1>2. block_close => /\ UNCHANGED <<mvars, g_mounted, g_handles>> /\ UNCHANGED <<g_active, wk, serving>>
                       /\ co = "idle" /\ co' = "send"
    BY Zenon DEF block_close, submit_sync, life
  <1>q. QED
    BY <1>1, <1>2, Zenon DEF Submission

(* None of them ends a run, and none undoes a stop. *)
LEMMA StopKept ==
    ASSUME RequestInv, OtherSteps
    PROVE  StopDone' \/ ~g_active' => StopDone \/ ~g_active
  <1>1. CASE UNCHANGED <<g_active, request, wk, serving>>
    BY <1>1, Zenon DEF StopDone
  <1>2. CASE Joined \/ Receive \/ Finish
    BY <1>2, Zenon DEF Joined, Receive, Finish, life, Op, RequestInv, HandOver, StopDone
  <1>3. CASE ExecuteFs
    <2>1. AtWork /\ Continues
      BY <1>3, OutcomeContinues, Zenon DEF ExecuteFs, AtWork, Continues, Returns, Result, life, calls
    <2>q. QED
      BY <2>1, StillRunning, Zenon
  <1>4. CASE co # "wait" /\ co' # "wait" /\ UNCHANGED <<g_active, wk, serving>>
    BY <1>4, Zenon DEF RequestInv, HandOver, StopDone
  <1>5. CASE Answered
    BY <1>5, Zenon DEF Answered, life, RequestInv, HandOver, StopDone
  <1>6. CASE Send \/ Opened \/ Card \/ UNCHANGED vars
    BY <1>1, <1>6, Zenon DEF Send, Opened, Card, vars, life, calls
  <1>7. CASE Submission
    BY <1>4, <1>7, SubmissionMoves, Zenon
  <1>8. CASE Settling
    BY <1>4, <1>8, Zenon DEF Settling, Collect, async_collect, fs_request_cancel, life
  <1>9. CASE Membership
    BY <1>1, <1>4, <1>9, Zenon DEF Membership, run_end, run_begin, submit_sync, calls
  <1>q. QED
    BY <1>2, <1>3, <1>5, <1>6, <1>7, <1>8, <1>9, Zenon DEF OtherSteps

(* They move no lease, mount nothing and open no file. *)
LEMMA OtherStep ==
    ASSUME RequestInv, CardInv, OtherSteps
    PROVE  CardInv'
  <1>1. UNCHANGED <<owners, lease, noted, mpc, info, target, g_mounted>>
    <2>1. CASE UNCHANGED <<mvars, g_mounted>>
      BY <2>1, Zenon DEF mvars, media, mcall
    <2>2. CASE Card
      BY <2>2, Zenon DEF Card, Change, media, mcall, store
    <2>3. CASE Send \/ Opened \/ Receive \/ UNCHANGED vars
      BY <2>1, <2>3, Zenon DEF Send, Opened, Receive, vars, store
    <2>4. CASE Answered \/ Joined
      BY <2>1, <2>4, Zenon DEF Answered, Joined
    <2>5. CASE ExecuteFs \/ Finish
      BY <2>1, <2>5, Zenon DEF ExecuteFs, Finish
    <2>6. CASE Settling \/ Membership
      BY <2>1, <2>6, Zenon DEF Settling, Membership, Collect, async_collect, fs_request_cancel,
         run_end, run_begin, submit_sync, store
    <2>q. QED
      BY <2>1, <2>2, <2>3, <2>4, <2>5, <2>6, SubmissionMoves, Zenon DEF OtherSteps
  <1>2. \A s \in Slots : g_handles'[s] => g_handles[s]
    <2>1. CASE Send \/ Opened \/ Receive \/ Card \/ UNCHANGED vars \/ Answered \/ Joined
      BY <2>1, Zenon DEF Send, Opened, Receive, Card, Answered, Joined, vars, store
    <2>2. CASE Settling \/ Membership
      BY <2>2, Zenon DEF Settling, Membership, Collect, async_collect, fs_request_cancel, async_discard,
         run_end, run_begin, submit_sync, store
    <2>3. CASE ExecuteFs \/ Finish
      BY <2>3, Zenon DEF ExecuteFs, Finish, async_discard
    <2>q. QED
      BY <2>1, <2>2, <2>3, SubmissionMoves, Zenon DEF OtherSteps
  <1>3. mpc["coordinator"] # "idle" => co' = "opening"
    <2>1. mpc["coordinator"] # "idle" => co = "opening"
      BY Zenon DEF CardInv, Opening
    <2>2. UNCHANGED co \/ co # "opening" \/ Opened
      BY SubmissionMoves, Zenon DEF OtherSteps, Send, Answered, Joined, Settling, Membership, Collect,
         async_collect, fs_request_cancel, run_end, run_begin, Receive, ExecuteFs, Returns, Result,
         Outcome, Finish, Card, vars
    <2>q. QED
      BY <2>1, <2>2, Zenon DEF Opened
  <1>q. QED
    BY <1>1, <1>2, <1>3, StopKept, QuietStep, Zenon

-----------------------------------------------------------------------------
(* The theorems.                                                           *)

(* Every step keeps the invariant. *)
LEMMA CardStep == RequestInv /\ CardInv /\ [Next]_vars => CardInv'
  <1> SUFFICES ASSUME RequestInv, CardInv, [Next]_vars PROVE CardInv'
    BY Zenon
  <1>1. CASE Call
    BY <1>1, OtherStep, BeginStep, BlockOpenStep, Zenon DEF Call, OtherSteps, Submission, Settling,
       Membership
  <1>2. CASE Continue
    BY <1>2, OtherStep, Zenon DEF Continue, OtherSteps
  <1>3. CASE Worker
    BY <1>3, OtherStep, MountStep, StopStep, BlockStep, Zenon DEF Worker, OtherSteps
  <1>q. QED
    BY <1>1, <1>2, <1>3, OtherStep, MediaStepKeeps, Zenon DEF Next, OtherSteps

(* CardInv is inductive where RequestInv holds. *)
LEMMA CardInvariant == Spec => []CardInv
  BY CardInit, CardStep, RequestInvariant, PTL DEF Spec

(* The card's owners' word counts what is held (ove_media.c), for any number of leases. *)
THEOREM StorageOwnersExact == Spec => []OwnersExact
  <1>1. CardInv => OwnersExact
    BY Zenon DEF CardInv
  <1>q. QED
    BY <1>1, CardInvariant, PTL

(* A raw writer owns the card alone (ove_media_raw_acquire, ove_media_fs_acquire). *)
THEOREM StorageWriterAlone == Spec => []WriterAlone
  <1>1. CardInv => WriterAlone
    BY Zenon DEF CardInv
  <1>q. QED
    BY <1>1, CardInvariant, PTL

(* A file is open only on a mounted volume, and the mount keeps every raw writer out
   (ensure_mounted and the block requests of lxp_ove_storage_adapter.c). *)
THEOREM StorageFilesKeepWritersOut == Spec => []FilesKeepWritersOut
  <1>1. CardInv => FilesKeepWritersOut
    <2> SUFFICES ASSUME CardInv PROVE FilesKeepWritersOut
      BY Zenon
    <2>1. Taken # {} => g_mounted
      BY Zenon DEF CardInv, Mounted, handles_open, Taken
    <2>2. g_mounted => owners.fs
      BY SMTT(30) DEF CardInv, Mounted
    <2>3. owners.writer => ~owners.fs
      BY Zenon DEF CardInv, OwnersExact, WriterAlone, MediaTypes
    <2>q. QED
      BY <2>1, <2>2, <2>3, Zenon DEF FilesKeepWritersOut
  <1>q. QED
    BY <1>1, CardInvariant, PTL

-----------------------------------------------------------------------------
(* Leases for earlier cards.                                               *)

(* What every step but those of ove_block_get_info leaves alone. *)
WordsKept ==
    /\ UNCHANGED <<generation, present>> /\ noted'.generation = noted.generation
    /\ \A t \in Threads : info'[t] \in {info[t], 0}

(* The end of a call forgets its answer. *)
LEMMA DoneForgets ==
    ASSUME MediaTypes, NEW t \in Threads, Done(t)
    PROVE  \A u \in Threads : info'[u] \in {info[u], 0}
  BY Zenon DEF MediaTypes, Done

(* Noting that the card has come or gone counts nothing. *)
LEMMA NotedCounts ==
    ASSUME MediaTypes, NEW t, NEW p, NEW count, NEW next, note_presence(t, p, count, next)
    PROVE  noted'.generation = noted.generation
  BY Zenon DEF MediaTypes, note_presence

(* A step that leaves the answers and the backend alone. *)
LEMMA SameWords ==
    ASSUME UNCHANGED <<generation, present, noted, info>>
    PROVE  WordsKept
  BY Zenon DEF WordsKept

(* The raw block API, but for the rest of ove_block_get_info. *)
LEMMA ApiKeepsWords ==
    ASSUME MediaTypes, NEW t \in Threads, Look(t) \/ RawAcquire(t) \/ RawSwap(t) \/ RawConfirm(t)
    PROVE  WordsKept
  <1>1. CASE Look(t)
    <2>1. UNCHANGED <<generation, present>> /\ noted'.generation = noted.generation
      BY <1>1, NotedCounts, Zenon DEF Look, media
    <2>2. UNCHANGED info \/ Done(t)
      BY <1>1, Zenon DEF Look
    <2>q. QED
      BY <2>1, <2>2, DoneForgets, Zenon DEF WordsKept
  <1>2. CASE RawAcquire(t) \/ RawSwap(t) \/ RawConfirm(t)
    <2>1. UNCHANGED <<generation, present, noted>> /\ (UNCHANGED info \/ Done(t))
      BY <1>2, Zenon DEF RawAcquire, RawSwap, RawConfirm, media
    <2>q. QED
      BY <2>1, DoneForgets, Zenon DEF WordsKept
  <1>q. QED
    BY <1>1, <1>2, Zenon

(* The worker's steps outside the raw block API. *)
LEMMA WorkerKeepsWords ==
    ASSUME MediaTypes, Worker
    PROVE  WordsKept
  <1>1. CASE Receive \/ ExecuteFs \/ Finish
    BY <1>1, SameWords, Zenon DEF Receive, ExecuteFs, Finish, mvars, media, mcall
  <1>2. CASE ExecuteMount \/ ExecuteUnmount \/ ExecuteStop \/ FsRequest
    BY <1>2, SameWords, Zenon DEF ExecuteMount, ExecuteUnmount, ExecuteStop, FsRequest, mcall
  <1>3. CASE ExecuteBlockClose \/ ExecuteBlockInfo
    BY <1>3, SameWords, Zenon DEF ExecuteBlockClose, ExecuteBlockInfo, ove_block_close, media, mcall
  <1>4. CASE refresh_block_info \/ TransferFailed
    BY <1>4, DoneForgets, StorageAssumption, Zenon
       DEF refresh_block_info, TransferFailed, media, WordsKept
  <1>5. ASSUME NEW l, Transfer(l)
        PROVE  noted'.generation = noted.generation /\ UNCHANGED info
    BY <1>5, NotedCounts, Zenon DEF Transfer, refresh_presence_after_error, mcall
  <1>6. CASE ExecuteBlock
    BY <1>5, <1>6, SameWords, Zenon DEF ExecuteBlock, ove_block_open, mvars, media, mcall, WordsKept
  <1>7. CASE TemporaryRead
    BY <1>5, <1>7, Zenon DEF TemporaryRead, mcall, WordsKept
  <1>q. QED
    BY <1>1, <1>2, <1>3, <1>4, <1>6, <1>7, Zenon DEF Worker

(* The coordinator's, and the card's own. *)
LEMMA CallsKeepWords ==
    ASSUME Call \/ Continue \/ Card \/ UNCHANGED vars
    PROVE  WordsKept
  <1>1. CASE UNCHANGED mvars
    BY <1>1, SameWords, Zenon DEF mvars, media, mcall
  <1>2. CASE Continue \/ UNCHANGED vars
    BY <1>1, <1>2, Zenon DEF Continue, Send, Answered, Opened, Joined, vars
  <1>3. CASE Card
    BY <1>3, SameWords, Zenon DEF Card, Change, media, mcall
  <1>4. ASSUME NEW c, run_begin(c) \/ run_end(c)
        PROVE  WordsKept
    BY <1>1, <1>4, SameWords, Zenon DEF run_begin, run_end, media, mcall
  <1>5. ASSUME NEW o, NEW op, NEW s, submit(o, op, s)
        PROVE  WordsKept
    BY <1>1, <1>5, Zenon DEF submit, Submit
  <1>6. ASSUME NEW o, Collect(o) \/ fs_request_cancel(o)
        PROVE  WordsKept
    BY <1>1, <1>6, Zenon DEF Collect, async_collect, fs_request_cancel
  <1>7. ASSUME NEW write, block_open(write)
        PROVE  WordsKept
    BY <1>7, SameWords, Zenon DEF block_open, ove_block_open, media
  <1>8. CASE block_close
    BY <1>1, <1>8, Zenon DEF block_close
  <1>q. QED
    BY <1>2, <1>3, <1>4, <1>5, <1>6, <1>7, <1>8, Zenon DEF Call

(* What is left of ove_block_get_info. *)
Publishes(t) == Count(t) \/ Answer(t) \/ ove_media_removed(t) \/ ove_media_observe(t)

LEMMA WordsMove ==
    ASSUME MediaTypes, [Next]_vars
    PROVE  WordsKept \/ \E t \in Threads : Publishes(t)
  <1>1. ASSUME NEW t \in Threads, Media(t)
        PROVE  WordsKept \/ Publishes(t)
    BY <1>1, ApiKeepsWords, Zenon DEF Media, MediaStep, ove_block_get_info, Publishes
  <1>q. QED
    BY <1>1, WorkerKeepsWords, CallsKeepWords, Zenon DEF Next

(* The backend's count only grows, and an answer is the count of its time. *)
LEMMA AnswersInvariant == Spec => []AnswersPast
  <1>1. Init => AnswersPast
    BY DEF Init, MediaInit, AnswersPast
  <1>2. ASSUME CardInv, AnswersPast, [Next]_vars
        PROVE  AnswersPast'
    <2>0. MediaTypes /\ noted.generation \in Nat /\ \A t \in Threads : info[t] \in Nat
      BY <1>2, Zenon DEF CardInv, MediaTypes
    <2>1. CASE WordsKept
      BY <1>2, <2>0, <2>1 DEF WordsKept, AnswersPast
    <2>2. ASSUME NEW t \in Threads, Publishes(t)
          PROVE  AnswersPast'
      <3>1. CASE Count(t)
        <4>1. noted'.generation = noted.generation + 1 /\ info' = info
          BY <2>0, <3>1, Zenon DEF Count, MediaTypes
        <4>q. QED
          BY <1>2, <2>0, <4>1 DEF AnswersPast
      <3>2. CASE Answer(t)
        <4>1. /\ noted' = noted
              /\ \A u \in Threads : info'[u] = IF u = t THEN noted.generation ELSE info[u]
          BY <2>0, <3>2, Zenon DEF Answer, MediaTypes
        <4>q. QED
          BY <1>2, <2>0, <4>1 DEF AnswersPast
      <3>3. CASE ove_media_removed(t)
        <4>1. noted' = noted /\ \A u \in Threads : info'[u] \in {info[u], 0}
          BY <2>0, <3>3, DoneForgets, Zenon DEF ove_media_removed
        <4>q. QED
          BY <1>2, <2>0, <4>1 DEF AnswersPast
      <3>4. CASE ove_media_observe(t)
        BY <1>2, <3>4, Zenon DEF ove_media_observe, AfterInfo, AnswersPast
      <3>q. QED
        BY <2>2, <3>1, <3>2, <3>3, <3>4, Zenon DEF Publishes
    <2>q. QED
      BY <1>2, <2>0, <2>1, <2>2, WordsMove, Zenon
  <1>q. QED
    BY <1>1, <1>2, CardInvariant, PTL DEF Spec

(* A lease becomes valid again only for the card the backend counts, or when two callers of
   ove_block_get_info overtake each other between answer and ove_media_observe. *)
THEOREM StorageFailsClosed == Spec => FailsClosed
  <1>1. ASSUME CardInv, AnswersPast, [Next]_vars, NEW l \in Leases,
               lease'[l] = lease[l], ~ove_media_raw_valid(l), ove_media_raw_valid(l)'
        PROVE  \/ lease[l].generation = noted.generation
               \/ \E t \in Threads :
                     \/ mpc[t] \in {"observe", "observed"} /\ info[t] < noted.generation
                     \/ mpc[t] = "observed" /\ generation # info[t]
    <2>0. MediaTypes /\ noted.generation \in Nat /\ \A t \in Threads : info[t] \in Nat
      BY <1>1, Zenon DEF CardInv, MediaTypes
    <2>1. ~WordsKept
      BY <1>1, Zenon DEF WordsKept, ove_media_raw_valid
    <2>2. PICK t \in Threads : Publishes(t)
      BY <1>1, <2>0, <2>1, WordsMove, Zenon
    <2>3. ove_media_observe(t)
      <3>1. ~UNCHANGED <<generation, present>> /\ present'
        BY <1>1, Zenon DEF ove_media_raw_valid
      <3>q. QED
        BY <2>2, <3>1, Zenon DEF Publishes, Count, Answer, ove_media_removed, media
    <2>4. info[t] = noted.generation \/ info[t] < noted.generation
      BY <1>1, <2>0 DEF AnswersPast
    <2>5. mpc[t] \in {"observe", "observed"} /\ generation' = lease[l].generation
      BY <1>1, <2>3, Zenon DEF ove_media_observe, Step, ove_media_raw_valid
    <2>6. generation' = info[t] \/ (mpc[t] = "observed" /\ generation' = generation)
      BY <2>3, Zenon DEF ove_media_observe
    <2>7. CASE info[t] < noted.generation
      BY <2>5, <2>7, Zenon
    <2>8. CASE generation # info[t] /\ generation' # info[t]
      BY <2>6, <2>8, Zenon
    <2>9. CASE info[t] = noted.generation /\ generation' = info[t]
      BY <2>5, <2>9, Zenon
    <2>q. QED
      BY <2>4, <2>6, <2>7, <2>8, <2>9, Zenon
  <1>2. CardInv /\ AnswersPast /\ [Next]_vars =>
          [\A l \in Leases :
              /\ lease[l].active /\ lease'[l] = lease[l]
              /\ ~ove_media_raw_valid(l) /\ ove_media_raw_valid(l)'
              => \/ lease[l].generation = noted.generation
                 \/ \E t \in Threads :
                       \/ mpc[t] \in {"observe", "observed"} /\ info[t] < noted.generation
                       \/ mpc[t] = "observed" /\ generation # info[t]]_mvars
    BY <1>1, Zenon
  <1>q. QED
    BY <1>2, CardInvariant, AnswersInvariant, PTL DEF Spec, FailsClosed
=============================================================================
