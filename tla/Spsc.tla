-------------------------------- MODULE Spsc --------------------------------
(***************************************************************************)
(* The two single-producer single-consumer rings of pointers:               *)
(* include/op_spsc.h, whose cursors run freely over 64 bits and are masked   *)
(* when a slot is accessed, and include/op_ringbuf.h, whose cursors are kept *)
(* masked and which leaves one slot empty.  Ringbuf selects the second.      *)
(*                                                                          *)
(* One action is one access to shared memory.  The k-th item pushed is the   *)
(* number k.  Modulus is the range of a cursor: 2^64 for op_spsc (any        *)
(* multiple of the capacity shows the wrap), the capacity for op_ringbuf.    *)
(***************************************************************************)
EXTENDS Integers, Sequences

CONSTANTS
    Capacity,   \* mask + 1
    Modulus,
    Ringbuf,
    MaxItems,   \* bound: items pushed
    NULL

(* What the constants have to satisfy.                                      *)
SpscAssumption ==
    /\ Capacity \in Nat \ {0} /\ Modulus \in Nat \ {0}
    /\ Modulus % Capacity = 0
    /\ Ringbuf \in BOOLEAN /\ MaxItems \in Nat
    /\ Ringbuf => Modulus = Capacity
    /\ ~Ringbuf => Modulus > Capacity
    /\ NULL \notin 0 .. MaxItems

VARIABLES
    head, tail,   \* the cursors
    slots,
    ppc, ph,      \* the producer: where it is, its local copy of head
    cpc, ct,      \* the consumer: where it is, its local copy of tail
    citem,        \* ... and the item it has read
    pushed,       \* history: items whose push has returned
    popped        \* history: the items returned by pop

vars == <<head, tail, slots, ppc, ph, cpc, ct, citem, pushed, popped>>
producer == <<ppc, ph, pushed>>
consumer == <<cpc, ct, citem, popped>>

Mask(i) == i % Capacity

(* op_spsc_init, op_ringbuf_create                                           *)
Init ==
    /\ head = 0 /\ tail = 0
    /\ slots = [i \in 0 .. Capacity - 1 |-> NULL]
    /\ ppc = "idle" /\ ph = 0 /\ cpc = "idle" /\ ct = 0 /\ citem = NULL
    /\ pushed = 0 /\ popped = <<>>

-----------------------------------------------------------------------------
(* op_spsc: (h - t) > mask, in 64-bit arithmetic.  op_ringbuf: the next      *)
(* position is the consumer's.                                               *)
Full(h, t) ==
    IF Ringbuf THEN (h + 1) % Capacity = t
               ELSE (h - t) % Modulus > Capacity - 1

(* push: load head, load tail; return 0 if full.                             *)
LoadForPush ==
    /\ ppc = "idle" /\ pushed < MaxItems
    /\ IF Full(head, tail)
       THEN UNCHANGED <<ppc, ph>>
       ELSE ppc' = "write" /\ ph' = head
    /\ UNCHANGED <<head, tail, slots, pushed, consumer>>

WriteSlot ==
    /\ ppc = "write"
    /\ slots' = [slots EXCEPT ![Mask(ph)] = pushed + 1]
    /\ ppc' = "advance"
    /\ UNCHANGED <<head, tail, ph, pushed, consumer>>

(* The store that publishes the item.                                        *)
AdvanceHead ==
    /\ ppc = "advance"
    /\ head' = (ph + 1) % Modulus
    /\ pushed' = pushed + 1
    /\ ppc' = "idle" /\ ph' = 0
    /\ UNCHANGED <<tail, slots, consumer>>

StoreItem == WriteSlot \/ AdvanceHead

-----------------------------------------------------------------------------
(* pop: load tail, load head; return NULL if they are equal.                 *)
LoadForPop ==
    /\ cpc = "idle"
    /\ IF head = tail
       THEN UNCHANGED <<cpc, ct>>
       ELSE cpc' = "read" /\ ct' = tail
    /\ UNCHANGED <<head, tail, slots, citem, popped, producer>>

(* A bug for comparison: the newest item is read.                            *)
ReadNewest ==
    /\ cpc = "read"
    /\ citem' = slots[Mask(head - 1)]
    /\ cpc' = "advance"
    /\ UNCHANGED <<head, tail, slots, ct, popped, producer>>

ReadSlot ==
    /\ cpc = "read"
    /\ citem' = slots[Mask(ct)]
    /\ cpc' = "advance"
    /\ UNCHANGED <<head, tail, slots, ct, popped, producer>>

(* The store that gives the slot back.                                       *)
AdvanceTail ==
    /\ cpc = "advance"
    /\ tail' = (ct + 1) % Modulus
    /\ popped' = Append(popped, citem)
    /\ cpc' = "idle" /\ ct' = 0 /\ citem' = NULL
    /\ UNCHANGED <<head, slots, producer>>

push == LoadForPush \/ StoreItem
pop == LoadForPop \/ ReadSlot \/ AdvanceTail
Next == push \/ pop

Spec == Init /\ [][Next]_vars

-----------------------------------------------------------------------------
TypeOK ==
    /\ head \in 0 .. Modulus - 1 /\ tail \in 0 .. Modulus - 1
    /\ slots \in [0 .. Capacity - 1 -> 1 .. MaxItems \cup {NULL}]
    /\ ppc \in {"idle", "write", "advance"} /\ ph \in 0 .. Modulus - 1
    /\ cpc \in {"idle", "read", "advance"} /\ ct \in 0 .. Modulus - 1
    /\ citem \in 1 .. MaxItems \cup {NULL}
    /\ pushed \in 0 .. MaxItems /\ popped \in Seq(1 .. MaxItems \cup {NULL})

(* Items come out in the order they went in, none lost, none twice, none     *)
(* before it is written, whatever the cursors do at their wrap.              *)
Fifo == Len(popped) <= pushed /\ \A i \in DOMAIN popped : popped[i] = i

(* Every item between the cursors is intact in its slot: the producer, who   *)
(* is at most Capacity items ahead, writes no slot the consumer may read.    *)
InFlightIntact ==
    /\ (head - tail) % Modulus = pushed - Len(popped)
    /\ \A k \in Len(popped) + 1 .. pushed :
          slots[Mask(tail + k - Len(popped) - 1)] = k

(* The limit is exact: a push is refused only with Capacity items in the     *)
(* ring (one fewer in op_ringbuf), a pop only with none.                     *)
RefusalExact ==
    /\ Full(head, tail) <=> (pushed - Len(popped) = IF Ringbuf THEN Capacity - 1 ELSE Capacity)
    /\ (head = tail) <=> (pushed = Len(popped))
=============================================================================
