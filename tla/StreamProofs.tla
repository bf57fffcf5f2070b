---------------------------- MODULE StreamProofs ----------------------------
(***************************************************************************)
(* Proofs about PosixStream, for any number of writers and readers, any    *)
(* set of bytes, any size of the ring and any trigger level: the ring      *)
(* implements ByteStream, readers are woken byte by byte, and a lone       *)
(* writer and the readers wait for each other only after a reset or when   *)
(* the trigger level is above the size.                                    *)
(***************************************************************************)
EXTENDS PosixStream, FiniteSetTheorems, TLAPS

(* The indices of the ring and its count agree. *)
Ring ==
    /\ buffer \in [Slots -> Bytes \cup {Nul}]
    /\ head \in Slots /\ tail \in Slots /\ count \in 0..Size
    /\ head = (tail + count) % Size

(* A blocked writer has bytes left to send, a blocked reader asks for something. *)
Blocked ==
    /\ pc \in [Threads -> {"idle", "wait", "loop", "timedout", "notify"}]
    /\ data \in [Writers -> Seq(Bytes)]
    /\ len \in [Readers -> Nat]
    /\ \A r \in Readers : pc[r] \in {"wait", "loop"} => len[r] # 0

StreamInv == Ring /\ Blocked /\ ReadersAwake /\ trigger \in Nat \ {0}

(* There is at most one writer. *)
LoneWriter == \A v, w \in Writers : v = w

(* A writer that sleeps with space in the ring has been left behind by a reset. *)
Unstranded == \A w \in Writers : pc[w] = "wait" /\ count < Size => stranded

-----------------------------------------------------------------------------
(* Sequences. *)

(* Sequences of the same length and elements are the same. *)
LEMMA SameElements ==
    ASSUME NEW S, NEW s \in Seq(S), NEW t \in Seq(S), Len(s) = Len(t),
           \A i \in 1..Len(s) : s[i] = t[i]
    PROVE  s = t
  OBVIOUS

(* What a concatenation holds. *)
LEMMA Concatenation ==
    ASSUME NEW S, NEW s \in Seq(S), NEW t \in Seq(S)
    PROVE  /\ s \o t \in Seq(S) /\ Len(s \o t) = Len(s) + Len(t)
           /\ \A i \in 1..(Len(s) + Len(t)) :
                 (s \o t)[i] = IF i <= Len(s) THEN s[i] ELSE t[i - Len(s)]
  OBVIOUS

(* Nothing appended. *)
LEMMA NothingAppended ==
    ASSUME NEW S, NEW s \in Seq(S)
    PROVE  s \o << >> = s
  OBVIOUS

-----------------------------------------------------------------------------
(* The ring. *)

(* One wrap of the ring is a subtraction. *)
LEMMA Wrap ==
    ASSUME NEW n \in Nat \ {0}, NEW x \in 0..(2 * n - 1)
    PROVE  x % n = IF x < n THEN x ELSE x - n
  OBVIOUS

(* How far slot t + i of a ring of n is behind the head, when c are occupied from t on. *)
LEMMA Offset ==
    ASSUME NEW n \in Nat \ {0}, NEW t \in 0..(n - 1), NEW c \in 0..n, NEW i \in 0..(n - 1)
    PROVE  (((t + i) % n) + n - ((t + c) % n)) % n = IF i >= c THEN i - c ELSE i - c + n
<1> DEFINE slot == t + i
           end == t + c
           x == (slot % n) + n - (end % n)
<1>0. slot \in 0..(2 * n - 1) /\ end \in 0..(2 * n - 1)
    OBVIOUS
<1> HIDE DEF slot, end
<1>1. slot % n = IF slot < n THEN slot ELSE slot - n
    BY <1>0, Wrap, Zenon
<1>2. end % n = IF end < n THEN end ELSE end - n
    BY <1>0, Wrap, Zenon
<1>3. x \in 0..(2 * n - 1)
    BY <1>0, <1>1, <1>2 DEF slot, end
<1>4. x = (IF i >= c THEN i - c ELSE i - c + n) \/ x = (IF i >= c THEN i - c ELSE i - c + n) + n
    BY <1>0, <1>1, <1>2 DEF slot, end
<1> HIDE DEF x
<1>5. x % n = IF x < n THEN x ELSE x - n
    BY <1>3, Wrap, Zenon
<1>6. x % n = IF i >= c THEN i - c ELSE i - c + n
    BY <1>3, <1>4, <1>5
<1> QED
    BY <1>6, Zenon DEF x, slot, end

(* Moving the start of the window by k. *)
LEMMA Advance ==
    ASSUME NEW n \in Nat \ {0}, NEW t \in 0..(n - 1), NEW c \in 0..n, NEW k \in 0..c,
           NEW i \in 0..(c - k - 1)
    PROVE  (((t + k) % n) + i) % n = (t + (k + i)) % n
<1> DEFINE x == t + k
           u == x % n
           y == u + i
           z == t + (k + i)
<1>1. x \in 0..(2 * n - 1) /\ z \in 0..(2 * n - 1)
    OBVIOUS
<1> HIDE DEF x, z
<1>2. /\ u = IF x < n THEN x ELSE x - n
      /\ z % n = IF z < n THEN z ELSE z - n
    BY <1>1, Wrap, Zenon
<1> HIDE DEF u
<1>3. y \in 0..(2 * n - 1) /\ (y = z \/ (y = z - n /\ y < n))
    BY <1>2 DEF x, z
<1> HIDE DEF y
<1>4. y % n = IF y < n THEN y ELSE y - n
    BY <1>3, Wrap, Zenon
<1>5. y % n = z % n
    BY <1>1, <1>2, <1>3, <1>4
<1> QED
    BY <1>5, Zenon DEF y, z, u, x

(* c slots of the ring b of n slots, from slot t on. *)
Window(b, t, c, n) == [i \in 1..c |-> b[(t + i - 1) % n]]

(* b is a ring of n slots over S. *)
RingOf(b, n, S) == b \in [0..(n - 1) -> S]

(* a is b with the first k bytes of d copied in from slot h on. *)
CopiedIn(a, b, d, k, h, n) ==
    \A j \in 0..(n - 1) : LET off == (j + n - h) % n
                          IN  a[j] = IF off < k THEN d[off + 1] ELSE b[j]

(* q holds what the slots from t on hold. *)
WindowIs(q, b, t, c, n, S) ==
    q \in Seq(S) /\ Len(q) = c /\ \A i \in 1..c : q[i] = b[(t + (i - 1)) % n]

(* A window is a sequence. *)
LEMMA WindowSeq ==
    ASSUME NEW n \in Nat \ {0}, NEW S, NEW b, RingOf(b, n, S), NEW t \in 0..(n - 1), NEW c \in Nat
    PROVE  WindowIs(Window(b, t, c, n), b, t, c, n, S)
<1>1. \A i \in 1..c : (t + i - 1) % n \in 0..(n - 1) /\ t + i - 1 = t + (i - 1)
    OBVIOUS
<1>2. \A i \in 1..c : b[(t + i - 1) % n] \in S
    BY <1>1, Zenon DEF RingOf
<1> QED
    BY <1>1, <1>2 DEF Window, WindowIs

(* Copying k bytes of d in behind the occupied slots, round the end of the buffer where
   necessary, appends them. *)
Appends(a, b, t, c, d, k, n, S) ==
    /\ n \in Nat \ {0} /\ t \in 0..(n - 1) /\ c \in 0..n /\ k \in 0..(n - c)
    /\ d \in Seq(S) /\ k <= Len(d)
    /\ RingOf(a, n, S) /\ RingOf(b, n, S) /\ CopiedIn(a, b, d, k, (t + c) % n, n)

Appended(a, b, t, c, d, k, n) ==
    Window(a, t, c + k, n) = Window(b, t, c, n) \o SubSeq(d, 1, k)

LEMMA WindowAppend ==
    ASSUME NEW a, NEW b, NEW t, NEW c, NEW d, NEW k, NEW n, NEW S, Appends(a, b, t, c, d, k, n, S)
    PROVE  Appended(a, b, t, c, d, k, n)
<1> SUFFICES ASSUME n \in Nat \ {0}, t \in 0..(n - 1), c \in 0..n, k \in 0..(n - c),
                    d \in Seq(S), k <= Len(d), RingOf(a, n, S), RingOf(b, n, S),
                    CopiedIn(a, b, d, k, (t + c) % n, n)
             PROVE  Window(a, t, c + k, n) = Window(b, t, c, n) \o SubSeq(d, 1, k)
    BY Zenon DEF Appends, Appended
<1> DEFINE old == Window(b, t, c, n)
           new == Window(a, t, c + k, n)
           sub == SubSeq(d, 1, k)
<1>0. c \in Nat /\ c + k \in Nat
    OBVIOUS
<1>a. WindowIs(old, b, t, c, n, S) /\ WindowIs(new, a, t, c + k, n, S)
    BY <1>0, WindowSeq, Zenon
<1>3. sub \in Seq(S) /\ Len(sub) = k /\ \A i \in 1..k : sub[i] = d[i]
    OBVIOUS
<1> HIDE DEF old, new, sub
<1>1. old \in Seq(S) /\ Len(old) = c /\ \A i \in 1..c : old[i] = b[(t + (i - 1)) % n]
    BY <1>a, Zenon DEF WindowIs
<1>2. new \in Seq(S) /\ Len(new) = c + k /\ \A i \in 1..(c + k) : new[i] = a[(t + (i - 1)) % n]
    BY <1>a, Zenon DEF WindowIs
<1>4. /\ old \o sub \in Seq(S) /\ Len(old \o sub) = c + k
      /\ \A i \in 1..(c + k) : (old \o sub)[i] = IF i <= c THEN old[i] ELSE sub[i - c]
  <2>1. /\ old \o sub \in Seq(S) /\ Len(old \o sub) = Len(old) + Len(sub)
        /\ \A i \in 1..(Len(old) + Len(sub)) :
              (old \o sub)[i] = IF i <= Len(old) THEN old[i] ELSE sub[i - Len(old)]
    BY <1>1, <1>3, Concatenation, ZenonT(60)
  <2>2. Len(old) = c /\ Len(sub) = k
    BY <1>1, <1>3, Zenon
  <2> QED
    BY <2>1, <2>2, Zenon
<1>5. ASSUME NEW i \in 1..(c + k)
      PROVE  new[i] = (old \o sub)[i]
  <2>1. i - 1 \in 0..(n - 1) /\ (t + (i - 1)) % n \in 0..(n - 1)
    OBVIOUS
  <2> DEFINE j == (t + (i - 1)) % n
             off == (j + n - ((t + c) % n)) % n
  <2>2. off = IF i - 1 >= c THEN (i - 1) - c ELSE (i - 1) - c + n
    BY <2>1, Offset, ZenonT(60)
  <2>4. new[i] = a[j] /\ j \in 0..(n - 1)
    BY <1>2, <2>1, Zenon
  <2> HIDE DEF j
  <2>3. a[j] = IF off < k THEN d[off + 1] ELSE b[j]
    BY <2>4, Zenon DEF CopiedIn
  <2> HIDE DEF off
  <2>5. CASE i <= c
    <3>1. ~(off < k) /\ i \in 1..c
      BY <2>2, <2>5
    <3>2. old[i] = b[j]
      BY <1>1, <3>1, Zenon DEF j
    <3> QED
      BY <1>4, <2>3, <2>4, <2>5, <3>1, <3>2, Zenon
  <2>6. CASE ~(i <= c)
    <3>1. off < k /\ off + 1 = i - c /\ i - c \in 1..k
      BY <2>2, <2>6
    <3>2. sub[i - c] = d[off + 1]
      BY <1>3, <3>1, Zenon
    <3> QED
      BY <1>4, <2>3, <2>4, <2>6, <3>1, <3>2, Zenon
  <2> QED
    BY <2>5, <2>6, Zenon
<1>6. new = old \o sub
    BY <1>2, <1>4, <1>5, SameElements, Zenon
<1> QED
    BY <1>6, Zenon DEF old, new, sub

(* Advancing the tail by k leaves all but the first k bytes, which are what was copied out. *)
Removes(b, t, c, k, n, S) ==
    n \in Nat \ {0} /\ t \in 0..(n - 1) /\ c \in 0..n /\ k \in 0..c /\ RingOf(b, n, S)

LEMMA WindowRemove ==
    ASSUME NEW b, NEW t, NEW c, NEW k, NEW n, NEW S, Removes(b, t, c, k, n, S)
    PROVE  /\ Window(b, t, k, n) = SubSeq(Window(b, t, c, n), 1, k)
           /\ Window(b, (t + k) % n, c - k, n) = SubSeq(Window(b, t, c, n), k + 1, c)
<1> SUFFICES ASSUME n \in Nat \ {0}, t \in 0..(n - 1), c \in 0..n, k \in 0..c, RingOf(b, n, S)
             PROVE  /\ Window(b, t, k, n) = SubSeq(Window(b, t, c, n), 1, k)
                    /\ Window(b, (t + k) % n, c - k, n) = SubSeq(Window(b, t, c, n), k + 1, c)
    BY Zenon DEF Removes
<1> DEFINE old == Window(b, t, c, n)
           out == Window(b, t, k, n)
           u == (t + k) % n
           new == Window(b, u, c - k, n)
<1>0. u \in 0..(n - 1) /\ c - k \in Nat /\ c \in Nat /\ k \in Nat
    OBVIOUS
<1> HIDE DEF u
<1>a. WindowIs(old, b, t, c, n, S) /\ WindowIs(out, b, t, k, n, S) /\ WindowIs(new, b, u, c - k, n, S)
    BY <1>0, WindowSeq, Zenon
<1> HIDE DEF old, out, new
<1>1. old \in Seq(S) /\ Len(old) = c /\ \A i \in 1..c : old[i] = b[(t + (i - 1)) % n]
    BY <1>a, Zenon DEF WindowIs
<1>2. out \in Seq(S) /\ Len(out) = k /\ \A i \in 1..k : out[i] = b[(t + (i - 1)) % n]
    BY <1>a, Zenon DEF WindowIs
<1>3. new \in Seq(S) /\ Len(new) = c - k /\ \A i \in 1..(c - k) : new[i] = b[(u + (i - 1)) % n]
    BY <1>a, Zenon DEF WindowIs
<1>4. /\ SubSeq(old, 1, k) \in Seq(S) /\ Len(SubSeq(old, 1, k)) = k
      /\ \A i \in 1..k : SubSeq(old, 1, k)[i] = old[i]
    BY <1>1
<1>5. /\ SubSeq(old, k + 1, c) \in Seq(S) /\ Len(SubSeq(old, k + 1, c)) = c - k
      /\ \A i \in 1..(c - k) : SubSeq(old, k + 1, c)[i] = old[k + i]
    BY <1>1
<1>6. out = SubSeq(old, 1, k)
  <2>1. \A i \in 1..k : i \in 1..c
    OBVIOUS
  <2>2. \A i \in 1..k : out[i] = SubSeq(old, 1, k)[i]
    BY <1>1, <1>2, <1>4, <2>1, Zenon
  <2> QED
    BY <1>2, <1>4, <2>2, SameElements, Zenon
<1>7. new = SubSeq(old, k + 1, c)
  <2>1. ASSUME NEW i \in 1..(c - k)
        PROVE  new[i] = SubSeq(old, k + 1, c)[i]
    <3>1. k + i \in 1..c /\ (k + i) - 1 = k + (i - 1)
      OBVIOUS
    <3>2. (u + (i - 1)) % n = (t + (k + (i - 1))) % n
      <4>1. i - 1 \in 0..(c - k - 1)
        OBVIOUS
      <4> QED
        BY <4>1, Advance, Zenon DEF u
    <3>3. old[k + i] = b[(t + (k + (i - 1))) % n]
      BY <1>1, <3>1, Zenon
    <3> QED
      BY <1>3, <1>5, <3>2, <3>3, Zenon
  <2> QED
    BY <1>3, <1>5, <2>1, SameElements, Zenon
<1> QED
    BY <1>6, <1>7, Zenon DEF old, out, new, u

-----------------------------------------------------------------------------
(* What the critical sections of the code do to the ring. *)

(* The items of the stream are the occupied slots. *)
LEMMA ItemsWindow == Items = Window(buffer, tail, count, Size)
BY Zenon DEF Items, Window

(* A send keeps indices and count in agreement and appends what it copies. *)
LEMMA StoreStep ==
    ASSUME Ring, NEW d \in Seq(Bytes), NEW k \in Nat, k <= Len(d),
           k <= Size - count, Store(d, k), tail' = tail
    PROVE  Ring' /\ [Abstract!Write]_<<Items, moved>>
<1>0. /\ Size \in Nat \ {0} /\ tail \in 0..(Size - 1) /\ head \in 0..(Size - 1) /\ count \in 0..Size
      /\ k \in 0..(Size - count) /\ Size # 0
    BY StreamAssumption DEF Ring, Slots
<1>1. /\ head = (tail + count) % Size /\ RingOf(buffer, Size, Bytes \cup {Nul})
    BY Zenon DEF Ring, RingOf, Slots
<1>2. /\ buffer' = [i \in Slots |-> LET off == (i + Size - head) % Size
                                           IN  IF off < k THEN d[off + 1] ELSE buffer[i]]
      /\ head' = (head + k) % Size /\ count' = count + k
      /\ moved' = IF k = 0 THEN moved ELSE SubSeq(d, 1, k)
    BY Zenon DEF Store
<1>3. CopiedIn(buffer', buffer, d, k, (tail + count) % Size, Size)
  <2>1. CopiedIn(buffer', buffer, d, k, head, Size)
    BY <1>2, Zenon DEF CopiedIn, Slots
  <2> QED
    BY <1>1, <2>1, Zenon
<1>4. RingOf(buffer', Size, Bytes \cup {Nul})
  <2>1. ASSUME NEW i \in Slots, NEW off \in Nat, off < k
        PROVE  d[off + 1] \in Bytes
    BY <2>1
  <2>2. \A i \in Slots : (i + Size - head) % Size \in Nat
    BY <1>0 DEF Slots
  <2>3. \A i \in Slots : buffer[i] \in Bytes \cup {Nul}
    BY <1>1, Zenon DEF RingOf, Slots
  <2>4. \A i \in Slots : buffer'[i] \in Bytes \cup {Nul}
    BY <1>2, <2>1, <2>2, <2>3, Zenon
  <2> QED
    BY <1>2, <2>4, Zenon DEF RingOf, Slots
<1>5. head' = (tail + (count + k)) % Size /\ head' \in 0..(Size - 1)
  <2> DEFINE x == tail + count
             y == head + k
             z == tail + (count + k)
  <2>1. x \in 0..(2 * Size - 1) /\ y \in 0..(2 * Size - 1) /\ z \in 0..(2 * Size - 1)
    BY <1>0
  <2> HIDE DEF x, y, z
  <2>2. head = IF x < Size THEN x ELSE x - Size
    BY <1>0, <1>1, <2>1, Wrap, Zenon DEF x
  <2>3. /\ y % Size = IF y < Size THEN y ELSE y - Size
        /\ z % Size = IF z < Size THEN z ELSE z - Size
    BY <1>0, <2>1, Wrap, Zenon
  <2>4. y = z \/ (y = z - Size /\ y < Size)
    BY <1>0, <2>2 DEF x, y, z
  <2>5. y % Size = z % Size /\ y % Size \in 0..(Size - 1)
    BY <1>0, <2>1, <2>3, <2>4
  <2> QED
    BY <1>2, <2>5, Zenon DEF y, z
<1>6. Ring'
  <2>1. buffer' \in [Slots -> Bytes \cup {Nul}]
    BY <1>4, Zenon DEF RingOf, Slots
  <2>2. head' = (tail' + count') % Size /\ head' \in Slots /\ tail' \in Slots
    BY <1>0, <1>2, <1>5, Zenon DEF Slots
  <2>3. count' \in 0..Size
    <3>1. count + k \in 0..Size
      BY <1>0
    <3> QED
      BY <1>2, <3>1, Zenon
  <2> QED
    BY <2>1, <2>2, <2>3, Zenon DEF Ring, Slots
<1>7. Items' = Items \o SubSeq(d, 1, k)
  <2>1. d \in Seq(Bytes \cup {Nul})
    OBVIOUS
  <2>2. Window(buffer', tail, count + k, Size) = Window(buffer, tail, count, Size) \o SubSeq(d, 1, k)
    <3>1. Appends(buffer', buffer, tail, count, d, k, Size, Bytes \cup {Nul})
      BY <1>0, <1>1, <1>3, <1>4, <2>1, Zenon DEF Appends
    <3> QED
      <4>1. Appended(buffer', buffer, tail, count, d, k, Size)
        BY <3>1, WindowAppend, Zenon
      <4> QED
        BY <4>1, Zenon DEF Appended
  <2>3. Items' = Window(buffer', tail', count', Size)
    BY Zenon DEF Items, Window
  <2> QED
    BY <1>2, <2>2, <2>3, ItemsWindow, Zenon
<1>8. Len(Items) = count /\ Items \in Seq(Bytes \cup {Nul})
  <2>1. count \in Nat
    BY <1>0
  <2>2. WindowIs(Window(buffer, tail, count, Size), buffer, tail, count, Size, Bytes \cup {Nul})
    BY <1>0, <1>1, <2>1, WindowSeq, Zenon
  <2> QED
    BY <2>2, ItemsWindow, Zenon DEF WindowIs
<1>9. CASE k = 0
  <2>1. SubSeq(d, 1, k) = << >>
    BY <1>9
  <2>2. Items' = Items
    BY <1>7, <1>8, <2>1, NothingAppended, Zenon
  <2> QED
    BY <1>2, <1>6, <1>9, <2>2, Zenon
<1>10. CASE k # 0
  <2>1. k \in 1..Size /\ count + k <= Size
    BY <1>0, <1>10
  <2>2. SubSeq(d, 1, k) \in [1..k -> Bytes]
    <3>1. \A i \in 1..k : d[i] \in Bytes
      OBVIOUS
    <3>2. SubSeq(d, 1, k) = [i \in 1..k |-> d[i]]
      OBVIOUS
    <3> QED
      BY <3>1, <3>2, Zenon
  <2> QED
    BY <1>2, <1>6, <1>7, <1>8, <1>10, <2>1, <2>2, Zenon DEF Abstract!Write
<1> QED
    BY <1>9, <1>10, Zenon

(* A receive that finds the trigger level reached takes bytes from the front. *)
LEMMA TakeStep ==
    ASSUME Ring, NEW r, NEW n \in Nat \ {0}, trigger \in Nat \ {0}, count >= trigger,
           Take(r, n)
    PROVE  Ring' /\ Abstract!Read /\ count' \in Nat /\ count' < count
<1> DEFINE k == Min2(n, count)
<1>0. /\ Size \in Nat \ {0} /\ tail \in 0..(Size - 1) /\ head \in 0..(Size - 1) /\ count \in 0..Size
      /\ trigger \in Nat \ {0}
    BY StreamAssumption DEF Ring, Slots
<1>1. /\ head = (tail + count) % Size /\ RingOf(buffer, Size, Bytes \cup {Nul})
    BY Zenon DEF Ring, RingOf, Slots
<1>2. /\ moved' = [i \in 1..k |-> buffer[(tail + i - 1) % Size]]
      /\ tail' = (tail + k) % Size /\ count' = count - k /\ buffer' = buffer /\ head' = head
    BY Zenon DEF Take
<1>3. k \in 1..count /\ k \in 0..count
    BY <1>0 DEF Min2
<1> HIDE DEF k
<1>4. tail' \in 0..(Size - 1) /\ head' = (tail' + count') % Size
  <2> DEFINE x == tail + count
             y == tail + k
             u == y % Size
             z == u + (count - k)
  <2>1. x \in 0..(2 * Size - 1) /\ y \in 0..(2 * Size - 1)
    BY <1>0, <1>3
  <2> HIDE DEF x, y
  <2>2. /\ x % Size = IF x < Size THEN x ELSE x - Size
        /\ u = IF y < Size THEN y ELSE y - Size
    BY <1>0, <2>1, Wrap, Zenon
  <2> HIDE DEF u
  <2>3. /\ u \in 0..(Size - 1) /\ z \in 0..(2 * Size - 1)
        /\ z = x \/ (z = x - Size /\ z < Size)
    BY <1>0, <1>3, <2>1, <2>2 DEF x, y
  <2> HIDE DEF z
  <2>4. z % Size = IF z < Size THEN z ELSE z - Size
    BY <1>0, <2>3, Wrap, Zenon
  <2>5. z % Size = x % Size
    BY <1>0, <2>1, <2>2, <2>3, <2>4
  <2> QED
    BY <1>1, <1>2, <2>3, <2>5, Zenon DEF x, y, u, z
<1>5. Ring'
  <2>1. count' \in 0..Size
    BY <1>0, <1>2, <1>3
  <2>2. UNCHANGED Slots
    BY Zenon DEF Slots
  <2> QED
    BY <1>2, <1>4, <2>1, <2>2, Zenon DEF Ring, Slots
<1>6. Len(Items) = count
  <2>1. count \in Nat
    BY <1>0
  <2>2. WindowIs(Window(buffer, tail, count, Size), buffer, tail, count, Size, Bytes \cup {Nul})
    BY <1>0, <1>1, <2>1, WindowSeq, Zenon
  <2> QED
    BY <2>2, ItemsWindow, Zenon DEF WindowIs
<1>7. /\ moved' = SubSeq(Items, 1, k)
      /\ Items' = SubSeq(Items, k + 1, count)
  <2>1. /\ Window(buffer, tail, k, Size) = SubSeq(Window(buffer, tail, count, Size), 1, k)
        /\ Window(buffer, (tail + k) % Size, count - k, Size)
              = SubSeq(Window(buffer, tail, count, Size), k + 1, count)
    <3>1. Removes(buffer, tail, count, k, Size, Bytes \cup {Nul})
      BY <1>0, <1>1, <1>3, Zenon DEF Removes
    <3> QED
      BY <3>1, WindowRemove
  <2>2. moved' = Window(buffer, tail, k, Size)
    BY <1>2, Zenon DEF Window
  <2>3. Items' = Window(buffer, (tail + k) % Size, count - k, Size)
    BY <1>2, Zenon DEF Items, Window
  <2> QED
    BY <2>1, <2>2, <2>3, ItemsWindow, Zenon
<1>8. count' \in Nat /\ count' < count
    BY <1>0, <1>2, <1>3
<1> QED
    BY <1>3, <1>5, <1>6, <1>7, <1>8, Zenon DEF Abstract!Read

(* A reset leaves an empty stream. *)
LEMMA ResetStep ==
    ASSUME Ring, ove_stream_reset
    PROVE  Ring' /\ Abstract!Reset /\ count' = 0
<1>1. Size \in Nat \ {0} /\ 0 \in Slots /\ 0 \in 0..Size /\ 0 = (0 + 0) % Size
    BY StreamAssumption DEF Slots
<1>2. head' = 0 /\ tail' = 0 /\ count' = 0 /\ buffer' = buffer /\ moved' = moved
    BY Zenon DEF ove_stream_reset
<1>3. Ring'
    BY <1>1, <1>2, Zenon DEF Ring, Slots
<1>4. Items' = << >>
    BY <1>2 DEF Items
<1> QED
    BY <1>2, <1>3, <1>4, Zenon DEF Abstract!Reset

(* What does not touch the ring is no step of the stream. *)
LEMMA StillRing ==
    ASSUME Ring, UNCHANGED <<ring, moved>>
    PROVE  Ring' /\ UNCHANGED <<Items, moved>> /\ count' = count
<1>1. buffer' = buffer /\ head' = head /\ tail' = tail /\ count' = count /\ moved' = moved
    BY Zenon DEF ring
<1>2. Ring'
    BY <1>1, Zenon DEF Ring, Slots
<1>3. Items' = Items
    BY <1>1, Zenon DEF Items
<1> QED
    BY <1>1, <1>2, <1>3, Zenon

-----------------------------------------------------------------------------
(* Sleepers and signals. *)

(* The sets of sleeping and woken callers are finite. *)
LEMMA CallersFinite ==
    ASSUME NEW S \in SUBSET Threads, NEW p
    PROVE  /\ IsFiniteSet(At(S, p)) /\ Cardinality(At(S, p)) \in Nat
           /\ IsFiniteSet(At(S, p)') /\ Cardinality(At(S, p)') \in Nat
<1>1. At(S, p) \in SUBSET Threads /\ At(S, p)' \in SUBSET Threads
    BY Zenon DEF At
<1>2. IsFiniteSet(At(S, p)) /\ IsFiniteSet(At(S, p)')
    BY <1>1, StreamAssumption, FS_Subset, Zenon
<1> QED
    BY <1>2, FS_CardinalityType, Zenon

(* n signals that leave somebody of A asleep have woken n. *)
LEMMA WokenCount ==
    ASSUME NEW A, NEW B, IsFiniteSet(A), IsFiniteSet(B), A \cap B = {}, NEW n \in Nat,
           NEW W \in SUBSET A, Cardinality(W) = Min2(n, Cardinality(A)), A \ W # {}
    PROVE  Cardinality(B \cup W) = Cardinality(B) + n
<1>1. IsFiniteSet(W) /\ (Cardinality(A) = Cardinality(W) => A = W)
    BY FS_Subset, Zenon
<1>2. A # W
    BY Zenon
<1>3. Cardinality(W) = n
    BY <1>1, <1>2, Zenon DEF Min2
<1>4. B \cap W = {}
    BY Zenon
<1>5. Cardinality(B \cup W) = Cardinality(B) + Cardinality(W) - Cardinality(B \cap W)
    BY <1>1, FS_Union, Zenon
<1>6. Cardinality(B \cap W) = 0 /\ Cardinality(B) \in Nat
    BY <1>4, FS_EmptySet, FS_CardinalityType, Zenon
<1> QED
    BY <1>3, <1>5, <1>6

(* Fewer sleepers, no fewer woken readers and no more bytes. *)
LEMMA ReadersStayAwake ==
    ASSUME ReadersAwake, count \in Nat, count' \in Nat, count' <= count,
           trigger \in Nat \ {0}, trigger' = trigger,
           At(Readers, "wait")' \subseteq At(Readers, "wait"),
           At(Readers, "loop") \subseteq At(Readers, "loop")'
    PROVE  ReadersAwake'
<1>1. Readers \in SUBSET Threads
    BY Zenon DEF Threads
<1>2. IsFiniteSet(At(Readers, "loop")')
    BY <1>1, CallersFinite, Zenon
<1>3. /\ Cardinality(At(Readers, "loop")') \in Nat /\ Cardinality(At(Readers, "loop")) \in Nat
      /\ Cardinality(At(Readers, "loop")) <= Cardinality(At(Readers, "loop")')
    BY <1>1, <1>2, CallersFinite, FS_Subset, FS_CardinalityType, Zenon
<1>4. trigger \in Nat
    OBVIOUS
<1>5. At(Readers, "wait")' # {} => Cardinality(At(Readers, "loop")) + trigger > count
    BY Zenon DEF ReadersAwake
<1>6. At(Readers, "wait")' # {} => Cardinality(At(Readers, "loop")') + trigger > count'
    BY <1>3, <1>4, <1>5
<1> QED
    BY <1>6, Zenon DEF ReadersAwake

(* Readers and writers are different threads. *)
LEMMA Apart ==
    /\ Readers \in SUBSET Threads /\ Writers \in SUBSET Threads
    /\ \A r \in Readers, w \in Writers : r # w
    /\ Size \in Nat \ {0}
<1>1. Writers \cap Readers = {}
    BY StreamAssumption, Zenon
<1>2. Readers \in SUBSET Threads /\ Writers \in SUBSET Threads
    BY Zenon DEF Threads
<1>3. Size \in Nat \ {0}
    BY StreamAssumption, Zenon
<1> QED
    BY <1>1, <1>2, <1>3, Zenon

-----------------------------------------------------------------------------
(* The invariant and the refinement, critical section by critical section. *)

(* A pass of the loop of ove_stream_send: the bytes that fit go in, a reader is woken for
   each of them that finds the trigger level reached, and the writer sleeps on a full ring
   only. *)
LEMMA SendStep ==
    ASSUME StreamInv, NEW w \in Writers, NEW d \in Seq(Bytes), NEW sent, NEW mode,
           SendLoop(w, d, sent, mode), trigger' = trigger
    PROVE  /\ StreamInv' /\ [Abstract!Write]_<<Items, moved>>
           /\ pc'[w] = "wait" => count' = Size
           /\ \A v \in Writers \ {w} : pc'[v] = pc[v]
<1> DEFINE k == Min2(Len(d), Size - count)
           sleeps == k < Len(d) /\ mode # "zero"
           p == IF sleeps THEN "wait" ELSE AfterSend(sent \/ k > 0)
           A == At(Readers, "wait")
           B == At(Readers, "loop")
<1>0. /\ Size \in Nat \ {0} /\ count \in 0..Size /\ Len(d) \in Nat
      /\ trigger \in Nat \ {0}
    BY Apart DEF StreamInv, Ring
<1>1. k \in Nat /\ k <= Len(d) /\ k <= Size - count /\ (k < Len(d) => k = Size - count)
    BY <1>0 DEF Min2
<1>2. /\ Store(d, k) /\ tail' = tail /\ len' = len /\ count' = count + k
      /\ Signals(A, SignalCount(k), [pc EXCEPT ![w] = p])
    BY Zenon DEF SendLoop, Store
<1>3. data' = [data EXCEPT ![w] = SubSeq(d, k + 1, Len(d))] \/ data' = [data EXCEPT ![w] = << >>]
    BY Zenon DEF SendLoop, EndSend
<1>4. p \in {"idle", "wait", "notify"} /\ (p = "wait" => k = Size - count)
    BY <1>1, Zenon DEF AfterSend
<1> HIDE DEF k, p
<1>5. Ring' /\ [Abstract!Write]_<<Items, moved>>
    BY <1>1, <1>2, StoreStep, Zenon DEF StreamInv
<1>6. PICK W \in SUBSET A :
         /\ Cardinality(W) = Min2(SignalCount(k), Cardinality(A))
         /\ pc' = [t \in Threads |-> IF t \in W THEN "loop" ELSE [pc EXCEPT ![w] = p][t]]
    BY <1>2, Zenon DEF Signals
<1>61. \A t \in Threads : pc'[t] = IF t \in W THEN "loop" ELSE IF t = w THEN p ELSE pc[t]
  <2>1. \A t \in Threads : [pc EXCEPT ![w] = p][t] = IF t = w THEN p ELSE pc[t]
    BY Apart, Zenon DEF StreamInv, Blocked
  <2> QED
    BY <1>6, <2>1, Zenon
<1>7. /\ \A r \in Readers : pc'[r] = IF r \in W THEN "loop" ELSE pc[r]
      /\ \A v \in Writers : pc'[v] = IF v = w THEN p ELSE pc[v]
      /\ \A r \in W : r \in Readers /\ pc[r] = "wait"
  <2>1. \A r \in W : r \in Readers /\ pc[r] = "wait"
    BY Zenon DEF At
  <2> QED
    BY <1>61, <2>1, Apart, Zenon
<1>8. A' = A \ W /\ B' = B \cup W /\ A \cap B = {}
    BY <1>7, Zenon DEF At
<1>9. Blocked'
  <2>1. pc' \in [Threads -> {"idle", "wait", "loop", "timedout", "notify"}]
    BY <1>4, <1>6, <1>61, Zenon DEF StreamInv, Blocked
  <2>2. data' \in [Writers -> Seq(Bytes)]
    <3>1. SubSeq(d, k + 1, Len(d)) \in Seq(Bytes) /\ << >> \in Seq(Bytes)
      BY <1>1
    <3> QED
      BY <1>3, <3>1, Zenon DEF StreamInv, Blocked
  <2>3. \A r \in Readers : pc'[r] \in {"wait", "loop"} => len'[r] # 0
    BY <1>2, <1>7, Zenon DEF StreamInv, Blocked
  <2> QED
    BY <1>2, <2>1, <2>2, <2>3, Zenon DEF StreamInv, Blocked, Threads
<1>10. ReadersAwake'
  <2> DEFINE n == SignalCount(k)
  <2>1. /\ n \in Nat /\ (n = 0 \/ n = k \/ n = count + k - trigger + 1)
        /\ n = 0 => k = 0 \/ count + k < trigger
    BY <1>0, <1>1 DEF SignalCount, Min2
  <2>2. /\ IsFiniteSet(A) /\ IsFiniteSet(B) /\ Cardinality(B) \in Nat
    BY Apart, CallersFinite, Zenon
  <2>3. A' # {} => A # {} /\ A \ W # {}
    BY <1>8, Zenon
  <2>4. A' # {} => Cardinality(B) + trigger > count
    BY <2>3, Zenon DEF StreamInv, ReadersAwake
  <2> HIDE DEF n, A, B
  <2>5. A' # {} => Cardinality(B') = Cardinality(B) + n
    <3>1. Cardinality(W) = Min2(n, Cardinality(A))
      BY <1>6, Zenon DEF n
    <3> QED
      BY <1>8, <2>1, <2>2, <2>3, <3>1, WokenCount
  <2>6. A' # {} => Cardinality(B') + trigger > count + k
    BY <1>0, <1>1, <2>1, <2>2, <2>4, <2>5
  <2> QED
    BY <1>2, <2>6, Zenon DEF ReadersAwake, A, B
<1>11. pc'[w] = "wait" => count' = Size
  <2>1. pc'[w] = "wait" => k = Size - count
    BY <1>4, <1>7, Zenon
  <2> QED
    BY <1>0, <1>2, <2>1
<1> QED
    BY <1>5, <1>7, <1>9, <1>10, <1>11, Zenon DEF StreamInv

(* A pass of ove_stream_receive that finds too few bytes: the reader sleeps. *)
LEMMA BlockStep ==
    ASSUME StreamInv, NEW r \in Readers, NEW n \in Nat \ {0}, NEW mode, count < trigger,
           Block(r, n, mode), data' = data, trigger' = trigger
    PROVE  /\ StreamInv' /\ UNCHANGED <<Items, moved>> /\ count' = count
           /\ \A w \in Writers : pc'[w] = pc[w]
<1>1. /\ pc' = [pc EXCEPT ![r] = "wait"] /\ len' = [len EXCEPT ![r] = n]
      /\ UNCHANGED <<ring, moved>>
    BY Zenon DEF Block
<1>2. Ring' /\ UNCHANGED <<Items, moved>> /\ count' = count
    BY <1>1, StillRing, Zenon DEF StreamInv
<1>3. \A t \in Threads : pc'[t] = IF t = r THEN "wait" ELSE pc[t]
    BY <1>1, Apart, Zenon DEF StreamInv, Blocked
<1>4. Blocked'
  <2>1. pc' \in [Threads -> {"idle", "wait", "loop", "timedout", "notify"}]
    BY <1>1, Zenon DEF StreamInv, Blocked
  <2>2. n \in Nat /\ n # 0
    BY Zenon
  <2>3. len' \in [Readers -> Nat] /\ \A x \in Readers : len'[x] = IF x = r THEN n ELSE len[x]
    BY <1>1, <2>2, Zenon DEF StreamInv, Blocked
  <2>4. \A x \in Readers : pc'[x] \in {"wait", "loop"} => len'[x] # 0
    BY <1>3, <2>2, <2>3, Apart, Zenon DEF StreamInv, Blocked
  <2> QED
    BY <2>1, <2>3, <2>4, Zenon DEF StreamInv, Blocked, Threads
<1>5. ReadersAwake'
  <2>1. Cardinality(At(Readers, "loop")') \in Nat
    BY Apart, CallersFinite, Zenon
  <2>2. count \in Nat /\ trigger \in Nat
    BY Apart DEF StreamInv, Ring
  <2>3. Cardinality(At(Readers, "loop")') + trigger > count
    BY <2>1, <2>2
  <2> QED
    BY <1>2, <2>3, Zenon DEF ReadersAwake
<1> QED
    BY <1>2, <1>3, <1>4, <1>5, Apart, Zenon DEF StreamInv

(* A pass of ove_stream_receive that finds the trigger level reached: it takes bytes out
   and wakes a writer, the one there is when there is one. *)
LEMMA TakenStep ==
    ASSUME StreamInv, NEW r \in Readers, NEW n \in Nat \ {0}, count >= trigger,
           Take(r, n), data' = data, trigger' = trigger
    PROVE  /\ StreamInv' /\ Abstract!Read
           /\ LoneWriter => \A w \in Writers : pc'[w] # "wait"
<1> DEFINE A == At(Writers, "wait")
<1>1. Ring' /\ Abstract!Read /\ count' \in Nat /\ count' < count
    BY TakeStep, Zenon DEF StreamInv
<1>2. /\ Signals(A, 1, [pc EXCEPT ![r] = "idle"])
      /\ len' = [len EXCEPT ![r] = 0]
    BY Zenon DEF Take, EndReceive
<1>3. PICK W \in SUBSET A :
         /\ Cardinality(W) = Min2(1, Cardinality(A))
         /\ pc' = [t \in Threads |-> IF t \in W THEN "loop" ELSE [pc EXCEPT ![r] = "idle"][t]]
    BY <1>2, Zenon DEF Signals
<1>4. \A t \in Threads : pc'[t] = IF t \in W THEN "loop" ELSE IF t = r THEN "idle" ELSE pc[t]
  <2>1. \A t \in Threads : [pc EXCEPT ![r] = "idle"][t] = IF t = r THEN "idle" ELSE pc[t]
    BY Apart, Zenon DEF StreamInv, Blocked
  <2> QED
    BY <1>3, <2>1, Zenon
<1>5. /\ \A x \in Readers : pc'[x] = IF x = r THEN "idle" ELSE pc[x]
      /\ \A w \in Writers : pc'[w] = IF w \in W THEN "loop" ELSE pc[w]
  <2>1. \A w \in W : w \in Writers
    BY Zenon DEF At
  <2> QED
    BY <1>4, <2>1, Apart, Zenon
<1>6. Blocked'
  <2>1. pc' \in [Threads -> {"idle", "wait", "loop", "timedout", "notify"}]
    BY <1>3, <1>4, Zenon DEF StreamInv, Blocked
  <2>2. 0 \in Nat
    BY Zenon
  <2>3. len' \in [Readers -> Nat] /\ \A x \in Readers : x # r => len'[x] = len[x]
    BY <1>2, <2>2, Zenon DEF StreamInv, Blocked
  <2>4. \A x \in Readers : pc'[x] \in {"wait", "loop"} => len'[x] # 0
    BY <1>5, <2>3, Zenon DEF StreamInv, Blocked
  <2> QED
    BY <2>1, <2>3, <2>4, Zenon DEF StreamInv, Blocked, Threads
<1>7. ReadersAwake'
  <2> DEFINE B == At(Readers, "loop")
  <2>1. At(Readers, "wait")' # {} => At(Readers, "wait") # {}
    BY <1>5, Zenon DEF At
  <2>2. At(Readers, "wait")' # {} => Cardinality(B) + trigger > count
    BY <2>1, Zenon DEF ReadersAwake, StreamInv
  <2>3. B' = B \ {r}
    BY <1>5, Zenon DEF At
  <2>4. IsFiniteSet(B) /\ Cardinality(B) \in Nat /\ Cardinality(B') \in Nat
    BY Apart, CallersFinite, Zenon
  <2>5. trigger \in Nat /\ count \in Nat
    BY Apart DEF StreamInv, Ring
  <2> HIDE DEF B
  <2>6. Cardinality(B') = IF r \in B THEN Cardinality(B) - 1 ELSE Cardinality(B)
    BY <2>3, <2>4, FS_RemoveElement, Zenon
  <2>7. At(Readers, "wait")' # {} => Cardinality(B') + trigger > count'
    BY <1>1, <2>2, <2>4, <2>5, <2>6
  <2> QED
    BY <2>7, Zenon DEF ReadersAwake, B
<1>8. ASSUME LoneWriter, NEW w \in Writers, pc'[w] = "wait"
      PROVE  FALSE
  <2>1. w \notin W /\ w \in A
    BY <1>5, <1>8, Zenon DEF At
  <2>2. A = {w} /\ W = {}
    BY <1>8, <2>1, Zenon DEF LoneWriter, At
  <2>3. Cardinality(A) = 1 /\ Cardinality(W) = 0
    BY <2>2, FS_EmptySet, FS_Singleton, Zenon
  <2> HIDE DEF A
  <2>4. Min2(1, 1) = 1
    BY Zenon DEF Min2
  <2> QED
    BY <1>3, <2>3, <2>4
<1> QED
    BY <1>1, <1>6, <1>7, <1>8, Zenon DEF StreamInv

(* A caller t goes on to p without the ring: a wakeup, a deadline, a return. *)
Moves(t, p) ==
    /\ pc' = [pc EXCEPT ![t] = p] /\ p \in {"idle", "loop", "timedout", "notify"}
    /\ pc[t] # "loop" /\ (p = "loop" => pc[t] = "wait")
    /\ UNCHANGED <<ring, moved>>
    /\ data' \in [Writers -> Seq(Bytes)] /\ len' \in [Readers -> Nat]
    /\ \A r \in Readers : pc'[r] \in {"wait", "loop"} => len'[r] = len[r]

(* Such a move is no step of the stream and puts nobody to sleep. *)
LEMMA MoveStep ==
    ASSUME StreamInv, NEW t \in Threads, NEW p, Moves(t, p), trigger' = trigger
    PROVE  /\ StreamInv' /\ UNCHANGED <<Items, moved>> /\ count' = count
           /\ \A w \in Writers : pc'[w] = "wait" => pc[w] = "wait"
<1>1. Ring' /\ UNCHANGED <<Items, moved>> /\ count' = count
    BY StillRing, Zenon DEF StreamInv, Moves
<1>2. /\ \A u \in Threads : pc'[u] = IF u = t THEN p ELSE pc[u]
      /\ pc' \in [Threads -> {"idle", "wait", "loop", "timedout", "notify"}]
    BY Zenon DEF StreamInv, Blocked, Moves
<1>3. Blocked'
  <2>1. \A r \in Readers : pc'[r] \in {"wait", "loop"} => pc[r] \in {"wait", "loop"}
    BY <1>2, Apart, Zenon DEF Moves
  <2>2. \A r \in Readers : pc'[r] \in {"wait", "loop"} => len'[r] # 0
    BY <2>1, Zenon DEF StreamInv, Blocked, Moves
  <2> QED
    BY <1>2, <2>2, Zenon DEF Blocked, Moves, Threads
<1>4. ReadersAwake'
  <2>1. /\ At(Readers, "wait")' \subseteq At(Readers, "wait")
        /\ At(Readers, "loop") \subseteq At(Readers, "loop")'
    BY <1>2, Apart, Zenon DEF At, Moves
  <2>2. count \in Nat /\ count' \in Nat /\ count' <= count
    BY <1>1, Apart DEF StreamInv, Ring
  <2> QED
    BY <2>1, <2>2, ReadersStayAwake, Zenon DEF StreamInv
<1>5. \A w \in Writers : pc'[w] = "wait" => pc[w] = "wait"
    BY <1>2, Apart, Zenon DEF Moves
<1> QED
    BY <1>1, <1>3, <1>4, <1>5, Zenon DEF StreamInv

(* Which moves there are. *)
LEMMA MovesOf ==
    ASSUME StreamInv, NEW t \in Threads,
           \/ DeadlinePasses(t) \/ SpuriousWakeup(t)
           \/ t \in Writers /\ (SendTimedOut(t) \/ Notify(t))
           \/ t \in Readers /\ ReceiveTimedOut(t)
    PROVE  \E p \in {"idle", "loop", "timedout", "notify"} : Moves(t, p)
<1>0. data \in [Writers -> Seq(Bytes)] /\ len \in [Readers -> Nat] /\ 0 \in Nat /\ << >> \in Seq(Bytes)
    BY DEF StreamInv, Blocked
<1>1. CASE DeadlinePasses(t)
  <2>1. Moves(t, "timedout")
    BY <1>0, <1>1, Zenon DEF DeadlinePasses, Moves, call
  <2> QED
    BY <2>1, Zenon
<1>2. CASE SpuriousWakeup(t)
  <2>1. Moves(t, "loop")
    BY <1>0, <1>2, Zenon DEF SpuriousWakeup, Moves, call
  <2> QED
    BY <2>1, Zenon
<1>3. CASE t \in Writers /\ SendTimedOut(t)
  <2>1. AfterSend(some[t]) \in {"idle", "notify"} /\ data' \in [Writers -> Seq(Bytes)]
    BY <1>0, <1>3, Zenon DEF SendTimedOut, EndSend, AfterSend
  <2>2. Moves(t, AfterSend(some[t]))
    BY <1>0, <1>3, <2>1, Zenon DEF SendTimedOut, Moves
  <2> QED
    BY <2>1, <2>2, Zenon
<1>4. CASE t \in Writers /\ Notify(t)
  <2>1. Moves(t, "idle")
    BY <1>0, <1>4, Zenon DEF Notify, Moves, call
  <2> QED
    BY <2>1, Zenon
<1>5. CASE t \in Readers /\ ReceiveTimedOut(t)
  <2>1. /\ len' \in [Readers -> Nat] /\ \A r \in Readers : r # t => len'[r] = len[r]
        /\ pc'[t] = "idle"
    BY <1>0, <1>5, Zenon DEF ReceiveTimedOut, EndReceive, StreamInv, Blocked
  <2>2. Moves(t, "idle")
    BY <1>0, <1>5, <2>1, Zenon DEF ReceiveTimedOut, Moves
  <2> QED
    BY <2>2, Zenon
<1> QED
    BY <1>1, <1>2, <1>3, <1>4, <1>5, Zenon

(* ove_stream_reset leaves the callers where they are. *)
LEMMA ClearStep ==
    ASSUME StreamInv, ove_stream_reset, trigger' = trigger
    PROVE  StreamInv' /\ Abstract!Reset
<1>1. Ring' /\ Abstract!Reset /\ count' = 0
    BY ResetStep, Zenon DEF StreamInv
<1>2. pc' = pc /\ data' = data /\ len' = len
    BY Zenon DEF ove_stream_reset, call
<1>3. Blocked'
    BY <1>2, Zenon DEF StreamInv, Blocked, Threads
<1>4. count \in Nat /\ count' \in Nat /\ count' <= count
    BY <1>1, Apart DEF StreamInv, Ring
<1>5. At(Readers, "wait")' = At(Readers, "wait") /\ At(Readers, "loop")' = At(Readers, "loop")
    BY <1>2, Zenon DEF At
<1>6. ReadersAwake'
    BY <1>4, <1>5, ReadersStayAwake, Zenon DEF StreamInv
<1> QED
    BY <1>1, <1>3, <1>6, Zenon DEF StreamInv

(* What a step of a caller does: a step of the stream or none, and a lone writer that
   sleeps after it has filled the ring or has slept all along. *)
Stepped ==
    /\ StreamInv' /\ [Abstract!Write \/ Abstract!Read]_<<Items, moved>>
    /\ LoneWriter => \A w \in Writers : pc'[w] = "wait" => \/ count' = Size
                                                           \/ pc[w] = "wait" /\ count' = count

(* A pass of a sender or of a receiver. *)
LEMMA PassStep ==
    ASSUME StreamInv, NEW mode, trigger' = trigger,
           \/ \E w \in Writers : \E d \in Seq(Bytes) : \E sent \in BOOLEAN \cup {some[w]} :
                 SendLoop(w, d, sent, mode)
           \/ \E r \in Readers : \E n \in Nat \ {0} : ReceiveTest(r, n, mode)
    PROVE  Stepped
<1>1. ASSUME NEW w \in Writers, NEW d \in Seq(Bytes), NEW sent, SendLoop(w, d, sent, mode)
      PROVE  Stepped
  <2>1. /\ StreamInv' /\ [Abstract!Write]_<<Items, moved>>
        /\ pc'[w] = "wait" => count' = Size
    BY <1>1, SendStep, Zenon
  <2> QED
    BY <2>1, Zenon DEF Stepped, LoneWriter
<1>2. ASSUME NEW r \in Readers, NEW n \in Nat \ {0}, ReceiveTest(r, n, mode)
      PROVE  Stepped
  <2>1. CASE count < trigger /\ Block(r, n, mode)
    <3>1. data' = data
      BY <1>2, Zenon DEF ReceiveTest
    <3>2. /\ StreamInv' /\ UNCHANGED <<Items, moved>> /\ count' = count
          /\ \A w \in Writers : pc'[w] = pc[w]
      BY <2>1, <3>1, BlockStep, Zenon
    <3> QED
      BY <3>2, Zenon DEF Stepped
  <2>2. CASE count >= trigger /\ Take(r, n)
    <3>1. data' = data
      BY <1>2, Zenon DEF ReceiveTest
    <3>2. /\ StreamInv' /\ Abstract!Read
          /\ LoneWriter => \A w \in Writers : pc'[w] # "wait"
      BY <2>2, <3>1, TakenStep, Zenon
    <3> QED
      BY <3>2, Zenon DEF Stepped
  <2> QED
    BY <1>2, <2>1, <2>2, Zenon DEF ReceiveTest
<1> QED
    BY <1>1, <1>2, Zenon

(* Every step of a caller. *)
LEMMA CallerStep ==
    ASSUME StreamInv, trigger' = trigger,
           Call \/ \E t \in Threads : Continue(t) \/ DeadlinePasses(t) \/ SpuriousWakeup(t)
    PROVE  Stepped
<1>0. /\ Messages \subseteq Seq(Bytes) /\ Lengths \subseteq Nat \ {0}
    BY StreamAssumption, Zenon
<1>1. CASE Call
  <2>1. ASSUME NEW w \in Writers, NEW d \in Messages, NEW mode, ove_stream_send(w, d, mode)
        PROVE  Stepped
    <3>1. d \in Seq(Bytes) /\ FALSE \in BOOLEAN \cup {some[w]} /\ SendLoop(w, d, FALSE, mode)
      BY <1>0, <2>1, Zenon DEF ove_stream_send
    <3> QED
      BY <3>1, PassStep, Zenon
  <2>2. ASSUME NEW r \in Readers, NEW n \in Lengths, NEW mode, ove_stream_receive(r, n, mode)
        PROVE  Stepped
    <3>1. n \in Nat \ {0} /\ ReceiveTest(r, n, mode)
      BY <1>0, <2>2, Zenon DEF ove_stream_receive
    <3> QED
      BY <3>1, PassStep, Zenon
  <2> QED
    BY <1>1, <2>1, <2>2, Zenon DEF Call
<1>2. ASSUME NEW w \in Writers, SendWoken(w)
      PROVE  Stepped
  <2>1. /\ data[w] \in Seq(Bytes) /\ some[w] \in BOOLEAN \cup {some[w]}
        /\ SendLoop(w, data[w], some[w], Mode(w))
    BY <1>2, Zenon DEF SendWoken, StreamInv, Blocked
  <2> QED
    BY <2>1, PassStep, Zenon
<1>3. ASSUME NEW r \in Readers, ReceiveWoken(r)
      PROVE  Stepped
  <2>1. len[r] \in Nat /\ len[r] # 0 /\ ReceiveTest(r, len[r], Mode(r))
    BY <1>3, Zenon DEF ReceiveWoken, StreamInv, Blocked
  <2>2. len[r] \in Nat \ {0}
    BY <2>1, Zenon
  <2> QED
    BY <2>1, <2>2, PassStep, Zenon
<1>4. ASSUME NEW t \in Threads,
             \/ DeadlinePasses(t) \/ SpuriousWakeup(t)
             \/ t \in Writers /\ (SendTimedOut(t) \/ Notify(t))
             \/ t \in Readers /\ ReceiveTimedOut(t)
      PROVE  Stepped
  <2>1. PICK p \in {"idle", "loop", "timedout", "notify"} : Moves(t, p)
    BY <1>4, MovesOf, Zenon
  <2>2. /\ StreamInv' /\ UNCHANGED <<Items, moved>> /\ count' = count
        /\ \A w \in Writers : pc'[w] = "wait" => pc[w] = "wait"
    BY <2>1, MoveStep, Zenon
  <2> QED
    BY <2>2, Zenon DEF Stepped
<1> QED
    BY <1>1, <1>2, <1>3, <1>4, Zenon DEF Continue

(* ove_stream_init alone sets the trigger level. *)
LEMMA SameTrigger ==
    ASSUME Next
    PROVE  trigger' = trigger
<1>1. CASE ove_stream_reset
    BY <1>1, Zenon DEF ove_stream_reset, setup
<1>2. ASSUME NEW w, NEW d, NEW sent, NEW mode, SendLoop(w, d, sent, mode)
      PROVE  trigger' = trigger
    BY <1>2, Zenon DEF SendLoop, setup
<1>3. ASSUME NEW r, NEW n, NEW mode, ReceiveTest(r, n, mode)
      PROVE  trigger' = trigger
    BY <1>3, Zenon DEF ReceiveTest, setup
<1>4. ASSUME NEW t, \/ DeadlinePasses(t) \/ SpuriousWakeup(t)
                    \/ SendTimedOut(t) \/ Notify(t) \/ ReceiveTimedOut(t)
      PROVE  trigger' = trigger
    BY <1>4, Zenon DEF DeadlinePasses, SpuriousWakeup, SendTimedOut, Notify, ReceiveTimedOut, setup
<1>5. CASE Call
    BY <1>2, <1>3, <1>5, Zenon DEF Call, ove_stream_send, ove_stream_receive
<1>6. ASSUME NEW t \in Threads, Continue(t)
      PROVE  trigger' = trigger
    BY <1>2, <1>3, <1>4, <1>6, Zenon DEF Continue, SendWoken, ReceiveWoken
<1> QED
    BY <1>1, <1>4, <1>5, <1>6, Zenon DEF Next

(* A step of the program is a step of the stream or none, and keeps the invariant. *)
LEMMA NextStep ==
    ASSUME StreamInv, Next
    PROVE  StreamInv' /\ [Abstract!Next]_<<Items, moved, trigger>>
<1>1. trigger' = trigger
    BY SameTrigger, Zenon
<1>2. CASE Stepped
    BY <1>1, <1>2, Zenon DEF Stepped, Abstract!Next
<1>3. CASE ove_stream_reset
    BY <1>1, <1>3, ClearStep, Zenon DEF Abstract!Next
<1> QED
    BY <1>1, <1>2, <1>3, CallerStep, Zenon DEF Next

(* A lone writer stays awake, or has been stranded by a reset. *)
LEMMA LoneStep ==
    ASSUME StreamInv, LoneWriter, Unstranded, Next
    PROVE  Unstranded'
<1>1. ASSUME Stepped, stranded' = (stranded /\ At(Writers, "wait")' # {})
      PROVE  Unstranded'
  <2>1. Size \in Nat
    BY Apart, Zenon
  <2> SUFFICES ASSUME NEW w \in Writers, pc'[w] = "wait", count' < Size
               PROVE  stranded'
    BY Zenon DEF Unstranded
  <2>2. count' # Size
    BY <2>1
  <2>3. pc[w] = "wait" /\ count' = count
    BY <1>1, <2>2, Zenon DEF Stepped
  <2>4. At(Writers, "wait")' # {}
    BY Zenon DEF At
  <2> QED
    BY <1>1, <2>3, <2>4, Zenon DEF Unstranded
<1>2. ASSUME ove_stream_reset, stranded' = (At(Writers, "wait") # {})
      PROVE  Unstranded'
  <2>1. pc' = pc
    BY <1>2, Zenon DEF ove_stream_reset
  <2>2. \A w \in Writers : pc'[w] = "wait" => stranded'
    BY <1>2, <2>1, Zenon DEF At
  <2> QED
    BY <2>2, Zenon DEF Unstranded
<1> QED
    BY <1>1, <1>2, SameTrigger, CallerStep, Zenon DEF Next

(* A fresh stream. *)
LEMMA FreshStream ==
    ASSUME Init
    PROVE  StreamInv /\ Unstranded /\ Abstract!Init
<1>0. Size \in Nat \ {0} /\ 0 \in Slots /\ 0 \in 0..Size /\ 0 = (0 + 0) % Size
      /\ 0 \in Nat /\ << >> \in Seq(Bytes)
    BY StreamAssumption DEF Slots
<1>1. Ring
    BY <1>0, Zenon DEF Init, Ring
<1>2. Blocked
    BY <1>0, Zenon DEF Init, Blocked, Threads
<1>3. \A t \in Threads : pc[t] # "wait"
    BY Zenon DEF Init
<1>4. ReadersAwake /\ Unstranded
    BY <1>3, Apart, Zenon DEF ReadersAwake, Unstranded, At
<1>5. Items = << >> /\ moved = << >>
    BY DEF Init, Items
<1>6. trigger \in Nat \ {0}
    BY StreamAssumption DEF Init
<1> QED
    BY <1>1, <1>2, <1>4, <1>5, <1>6, Zenon DEF StreamInv, Abstract!Init

(* A stutter keeps everything. *)
LEMMA Stutter ==
    ASSUME StreamInv, UNCHANGED vars
    PROVE  StreamInv' /\ UNCHANGED <<Items, moved, trigger>> /\ (Unstranded => Unstranded')
<1>1. /\ UNCHANGED <<ring, moved>> /\ pc' = pc /\ data' = data /\ len' = len /\ stranded' = stranded
      /\ trigger' = trigger
    BY Zenon DEF vars, call, setup
<1>2. Ring' /\ UNCHANGED <<Items, moved>> /\ count' = count
    BY <1>1, StillRing, Zenon DEF StreamInv
<1>3. Blocked'
    BY <1>1, Zenon DEF StreamInv, Blocked, Threads
<1>4. At(Readers, "wait")' = At(Readers, "wait") /\ At(Readers, "loop")' = At(Readers, "loop")
    BY <1>1, Zenon DEF At
<1>5. ReadersAwake'
    BY <1>1, <1>2, <1>4, Zenon DEF StreamInv, ReadersAwake
<1>6. Unstranded => Unstranded'
    BY <1>1, <1>2, Zenon DEF Unstranded
<1> QED
    BY <1>1, <1>2, <1>3, <1>5, <1>6, Zenon DEF StreamInv

-----------------------------------------------------------------------------
(* The theorems. *)

(* The indices, the count and the callers of the stream stay consistent. *)
THEOREM StreamInvariant == Spec => []StreamInv
<1>1. Init => StreamInv
    BY FreshStream, Zenon
<1>2. StreamInv /\ [Next]_vars => StreamInv'
    BY NextStep, Stutter, Zenon
<1> QED
    BY <1>1, <1>2, PTL DEF Spec

(* However sends, receives, timeouts and resets interleave, no reader sleeps through a
   byte it could have: a woken one is on its way for each from the trigger level up. *)
THEOREM StreamReadersAwake == Spec => []ReadersAwake
<1>1. StreamInv => ReadersAwake
    BY Zenon DEF StreamInv
<1> QED
    BY <1>1, StreamInvariant, PTL

(* The invariant of a stream with one writer. *)
LEMMA LoneInvariant == LoneWriter => (Spec => [](StreamInv /\ Unstranded))
<1>1. Init => StreamInv /\ Unstranded
    BY FreshStream, Zenon
<1>2. LoneWriter /\ StreamInv /\ Unstranded /\ [Next]_vars => StreamInv' /\ Unstranded'
    BY NextStep, LoneStep, Stutter, Zenon
<1> SUFFICES ASSUME LoneWriter
             PROVE  Spec => [](StreamInv /\ Unstranded)
    BY Zenon
<1>3. StreamInv /\ Unstranded /\ [Next]_vars => StreamInv' /\ Unstranded'
    BY <1>2, Zenon
<1> QED
    BY <1>1, <1>3, PTL DEF Spec

(* A lone writer never sleeps with space in the ring, but for the space a reset made:
   it fills the ring before it sleeps, and whoever takes a byte wakes it. *)
THEOREM StreamWritersAwake == LoneWriter => (Spec => []WritersAwake)
<1> SUFFICES ASSUME LoneWriter
             PROVE  Spec => []WritersAwake
    BY Zenon
<1>1. Unstranded => WritersAwake
    BY Zenon DEF Unstranded, WritersAwake, At
<1> QED
    BY <1>1, LoneInvariant, PTL

(* One writer and any number of readers never wait for each other, whatever the trigger
   level up to the size of the ring, but for a writer a reset left asleep: readers that sleep
   have left fewer bytes than the trigger level, so there is space, and beside space the
   writer does not sleep. *)
THEOREM StreamNoStandoff == LoneWriter => (Spec => []NoStandoff)
<1> SUFFICES ASSUME LoneWriter
             PROVE  Spec => []NoStandoff
    BY Zenon
<1>1. StreamInv /\ Unstranded => NoStandoff
  <2> SUFFICES ASSUME StreamInv, Unstranded, At(Threads, "loop") = {},
                      At(Writers, "wait") # {}, At(Readers, "wait") # {}, ~(trigger > Size)
               PROVE  stranded
    BY Zenon DEF NoStandoff
  <2>1. At(Readers, "loop") = {}
    BY Apart, Zenon DEF At
  <2>2. Cardinality(At(Readers, "loop")) = 0
    BY <2>1, FS_EmptySet, Zenon
  <2>3. 0 + trigger > count
    BY <2>2, Zenon DEF StreamInv, ReadersAwake
  <2>4. count < Size
    BY <2>3, Apart DEF StreamInv, Ring
  <2> QED
    BY <2>4, Zenon DEF Unstranded, At
<1> QED
    BY <1>1, LoneInvariant, PTL

(* The ring of posix_stream.c implements the stream of ByteStream: what sends store at
   head and receives copy from tail, around the end of the buffer, are the bytes in the
   order they were sent, each once, none below the trigger level, none after a reset. *)
THEOREM RingImplementsStream == Spec => RefinesStream
<1>1. Init => Abstract!Init
    BY FreshStream, Zenon
<1>2. StreamInv /\ [Next]_vars => [Abstract!Next]_<<Items, moved, trigger>>
    BY NextStep, Stutter, Zenon
<1> QED
    BY <1>1, <1>2, StreamInvariant, PTL DEF Spec, RefinesStream, Abstract!Spec
=============================================================================
