---------------------------- MODULE BoundedQueue ----------------------------
(***************************************************************************)
(* What ove_queue promises (include/ove/queue.h): a FIFO of at most        *)
(* MaxItems items, each handed out once, in the order sent.                *)
(***************************************************************************)
EXTENDS Naturals, Sequences

CONSTANTS Values, MaxItems, NULL

VARIABLES items,   \* the queued items, oldest first
          moved    \* the item sent or received last

Init == items = <<>> /\ moved = NULL

Send(v) ==
    /\ Len(items) < MaxItems
    /\ items' = Append(items, v)
    /\ moved' = v

Receive ==
    /\ items # <<>>
    /\ items' = Tail(items)
    /\ moved' = Head(items)

Next == Receive \/ \E v \in Values : Send(v)

Spec == Init /\ [][Next]_<<items, moved>>
=============================================================================
