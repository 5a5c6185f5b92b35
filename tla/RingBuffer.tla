----------------------------- MODULE RingBuffer -----------------------------
(***************************************************************************)
(* The ring buffer behind the webhook history (webhook.Store), the SMTP    *)
(* inbox (smtpserver.Inbox) and the MQTT and NATS message stores: four     *)
(* copies of the same code.  Every method holds the store's mutex for its  *)
(* whole body, so each is one action.  Clear resets head and count but     *)
(* leaves the old items in the slots.                                      *)
(***************************************************************************)
EXTENDS Integers, Sequences

CONSTANTS
    Item,       \* what can be stored
    MaxSize,    \* maxSize, after the constructor's default
    Zero        \* Go's zero value, which fills the slots of a new buffer

ASSUME RingAssumption ==
    /\ MaxSize \in Nat \ {0}
    /\ Zero \notin Item

VARIABLES
    buf,        \* the slots, 0 .. MaxSize - 1
    head,       \* index of the oldest item
    count       \* number of valid items

ringVars == <<buf, head, count>>

Slots == 0 .. MaxSize - 1

NewStore ==
    /\ buf = [i \in Slots |-> Zero]
    /\ head = 0
    /\ count = 0

\* Broken variant of Add: head does not advance when the buffer is full.
AddKeepingHead(x) ==
    /\ buf' = [buf EXCEPT ![(head + count) % MaxSize] = x]
    /\ count' = IF count = MaxSize THEN count ELSE count + 1
    /\ UNCHANGED head

Add(x) ==
    /\ buf' = [buf EXCEPT ![(head + count) % MaxSize] = x]
    /\ IF count = MaxSize
         THEN head' = (head + 1) % MaxSize /\ UNCHANGED count
         ELSE count' = count + 1 /\ UNCHANGED head

Clear ==
    /\ head' = 0
    /\ count' = 0
    /\ UNCHANGED buf

\* What All() returns: a read, so it is the refinement mapping.
All == [i \in 1 .. count |-> buf[(head + i - 1) % MaxSize]]

RingInit == NewStore

RingNext == Clear \/ \E x \in Item : Add(x)

RingSpec == RingInit /\ [][RingNext]_ringVars

-----------------------------------------------------------------------------

\* Type invariant: head is a slot index, count never exceeds the capacity.
RingTypeOK ==
    /\ buf \in [Slots -> Item \cup {Zero}]
    /\ head \in Slots
    /\ count \in 0 .. MaxSize

Store == INSTANCE BoundedStore WITH items <- All

\* Add and Clear keep what All() returns equal to the MaxSize most recent
\* items since the last Clear, oldest first, whatever garbage Clear left in
\* the slots and wherever head has wrapped to.
RefinesBoundedStore == Store!Spec

=============================================================================
