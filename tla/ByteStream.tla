----------------------------- MODULE ByteStream -----------------------------
(***************************************************************************)
(* What include/ove/stream.h promises: a bounded FIFO of bytes that is     *)
(* written in pieces, read in pieces once trigger bytes have gathered, and *)
(* discarded by a reset.                                                   *)
(***************************************************************************)
EXTENDS Naturals, Sequences

CONSTANTS Bytes, Size

VARIABLES items,   \* the bytes in the stream
          moved,   \* the bytes written or read last
          trigger  \* how many bytes a reader waits for, chosen when the stream is made

Init == items = << >> /\ moved = << >> /\ trigger \in Nat \ {0}

Write ==
    \E n \in 1..Size : \E s \in [1..n -> Bytes] :
        Len(items) + n <= Size /\ items' = items \o s /\ moved' = s

Read ==
    /\ Len(items) >= trigger
    /\ \E n \in 1..Len(items) :
          moved' = SubSeq(items, 1, n) /\ items' = SubSeq(items, n + 1, Len(items))

Reset == items' = << >> /\ UNCHANGED moved

Next == (Write \/ Read \/ Reset) /\ UNCHANGED trigger

Spec == Init /\ [][Next]_<<items, moved, trigger>>
=============================================================================
