---------------------------- MODULE BoundedStore ----------------------------
(***************************************************************************)
(* What mockly's capture stores promise: a store holds the MaxSize most    *)
(* recent items added since it was last cleared, oldest first.  RingBuffer *)
(* shows how the webhook history, the SMTP inbox and the MQTT and NATS     *)
(* message stores keep the promise.                                        *)
(***************************************************************************)
EXTENDS Naturals, Sequences

CONSTANTS
    Item,       \* what can be stored (emails, messages, records, entries)
    MaxSize     \* capacity, positive: constructors replace maxSize <= 0

VARIABLE items  \* what All() returns

\* The last MaxSize elements of a sequence.
MostRecent(s) ==
    IF Len(s) > MaxSize THEN SubSeq(s, Len(s) - MaxSize + 1, Len(s)) ELSE s

Init == items = << >>

Add(x) == items' = MostRecent(Append(items, x))

Clear == items' = << >>

Next == Clear \/ \E x \in Item : Add(x)

Spec == Init /\ [][Next]_items

=============================================================================
