------------------------------ MODULE ShmRing ------------------------------
(***************************************************************************)
(* src/shm_ring.c: a ring of slots in memory shared by one producer process  *)
(* and one consumer process.  op_shm_ring_push cuts a message into chunks,   *)
(* writes each into a slot, publishes it through slot->len and advances      *)
(* prod_pos; op_shm_ring_pop copies a slot out, clears len and advances      *)
(* cons_pos.                                                                 *)
(*                                                                          *)
(* One action is one access to the shared memory.  A chunk is its message,   *)
(* its number in it and its flags; Chunks gives the number of slots a        *)
(* message needs.  A message that was refused is sent again.                 *)
(***************************************************************************)
EXTENDS Integers, Sequences, SequencesExt

CONSTANTS
    SlotCount,   \* hdr.slot_count, a power of two
    Messages,    \* the messages in the order the producer sends them
    Chunks,      \* [message -> slots it needs]
    MaxPush,     \* bound: calls of op_shm_ring_push
    RoomFirst,   \* TRUE: the producer calls push only when the whole message fits
    Dies,        \* TRUE: a process may die and another map the ring in its place
    None

(* What the constants have to satisfy.                                      *)
ShmRingAssumption ==
    /\ SlotCount \in Nat \ {0} /\ MaxPush \in Nat
    /\ Messages \in Seq(DOMAIN Chunks) /\ Chunks \in [DOMAIN Chunks -> Nat \ {0}]
    /\ RoomFirst \in BOOLEAN /\ Dies \in BOOLEAN

Chunk == [msg : DOMAIN Chunks, n : Nat, first : BOOLEAN, more : BOOLEAN]

VARIABLES
    len,      \* slot->len # 0, for each slot
    body,     \* conn_id, flags and data of each slot
    prod, cons, \* hdr.prod_pos, hdr.cons_pos
    todo,     \* messages still to be sent
    calls,
    ppc, pp,  \* the producer: where it is, its local `prod` ...
    n,        \* ... and the number of the chunk it is about to write
    cpc,      \* the consumer: where it is
    copy,     \* ... and what it has copied out
    in,       \* history: chunks published
    out       \* history: chunks returned by op_shm_ring_pop

vars == <<len, body, prod, cons, todo, calls, ppc, pp, n, cpc, copy, in, out>>
producer == <<prod, todo, calls, ppc, pp, n, in>>
consumer == <<cons, cpc, copy, out>>

Slots == 0 .. SlotCount - 1
Slot(p) == p % SlotCount

(* op_shm_ring_map with init                                                 *)
Init ==
    /\ len = [s \in Slots |-> FALSE] /\ body = [s \in Slots |-> None]
    /\ prod = 0 /\ cons = 0
    /\ todo = Messages /\ calls = 0 /\ ppc = "idle" /\ pp = 0 /\ n = 1
    /\ cpc = "idle" /\ copy = None
    /\ in = <<>> /\ out = <<>>

-----------------------------------------------------------------------------
(* op_shm_ring_push                                                          *)

Sending == Head(todo)

BeginPush ==
    /\ ppc = "idle" /\ todo # <<>> /\ calls < MaxPush
    /\ RoomFirst => SlotCount - (prod - cons) >= Chunks[Sending]
    /\ calls' = calls + 1
    /\ ppc' = "room" /\ pp' = prod /\ n' = 1
    /\ UNCHANGED <<len, body, prod, todo, in, consumer>>

(* prod - cons >= capacity: the ring is full.                                *)
CheckRoom ==
    /\ ppc = "room"
    /\ ppc' = IF pp - cons >= SlotCount THEN "idle" ELSE "slot"
    /\ UNCHANGED <<len, body, prod, todo, calls, pp, n, in, consumer>>

(* slot->len != 0: the consumer has not cleared the slot.                    *)
CheckSlot ==
    /\ ppc = "slot"
    /\ ppc' = IF len[Slot(pp)] THEN "idle" ELSE "write"
    /\ UNCHANGED <<len, body, prod, todo, calls, pp, n, in, consumer>>

WriteChunk ==
    /\ ppc = "write"
    /\ body' = [body EXCEPT ![Slot(pp)] =
                   [msg |-> Sending, n |-> n, first |-> n = 1, more |-> n < Chunks[Sending]]]
    /\ ppc' = "publish"
    /\ UNCHANGED <<len, prod, todo, calls, pp, n, in, consumer>>

PublishLen ==
    /\ ppc = "publish"
    /\ len' = [len EXCEPT ![Slot(pp)] = TRUE]
    /\ in' = Append(in, body[Slot(pp)])
    /\ ppc' = "advance"
    /\ UNCHANGED <<body, prod, todo, calls, pp, n, consumer>>

(* prod_pos = prod + 1; go on with the next chunk, or return 0.              *)
AdvanceProd ==
    /\ ppc = "advance"
    /\ prod' = pp + 1
    /\ IF n < Chunks[Sending]
       THEN ppc' = "room" /\ pp' = pp + 1 /\ n' = n + 1 /\ UNCHANGED todo
       ELSE ppc' = "idle" /\ todo' = Tail(todo) /\ UNCHANGED <<pp, n>>
    /\ UNCHANGED <<len, body, calls, in, consumer>>

op_shm_ring_push ==
    BeginPush \/ CheckRoom \/ CheckSlot \/ WriteChunk \/ PublishLen \/ AdvanceProd

-----------------------------------------------------------------------------
(* op_shm_ring_pop                                                           *)

(* cons == prod: empty.                                                      *)
CheckEmpty ==
    /\ cpc = "idle" /\ cons # prod
    /\ cpc' = "len"
    /\ UNCHANGED <<len, body, cons, copy, out, producer>>

CheckLen ==
    /\ cpc = "len"
    /\ cpc' = IF len[Slot(cons)] THEN "copy" ELSE "idle"
    /\ UNCHANGED <<len, body, cons, copy, out, producer>>

CopyOut ==
    /\ cpc = "copy"
    /\ copy' = body[Slot(cons)]
    /\ cpc' = "clear"
    /\ UNCHANGED <<len, body, cons, out, producer>>

ClearLen ==
    /\ cpc = "clear"
    /\ len' = [len EXCEPT ![Slot(cons)] = FALSE]
    /\ cpc' = "advance"
    /\ UNCHANGED <<body, cons, copy, out, producer>>

AdvanceCons ==
    /\ cpc = "advance"
    /\ cons' = cons + 1
    /\ out' = Append(out, copy)
    /\ copy' = None
    /\ cpc' = "idle"
    /\ UNCHANGED <<len, body, producer>>

TakeSlot == CopyOut \/ ClearLen \/ AdvanceCons

op_shm_ring_pop == CheckEmpty \/ CheckLen \/ TakeSlot

-----------------------------------------------------------------------------
(* A process dies inside a call.  The next one maps the ring as it is        *)
(* (op_shm_ring_map without init) and starts over from prod_pos or cons_pos.  *)

ProducerDies ==
    /\ Dies /\ ppc # "idle"
    /\ ppc' = "idle"
    /\ UNCHANGED <<len, body, prod, todo, calls, pp, n, in, consumer>>

ConsumerDies ==
    /\ Dies /\ cpc # "idle"
    /\ cpc' = "idle" /\ copy' = None
    /\ UNCHANGED <<len, body, cons, out, producer>>

-----------------------------------------------------------------------------
Next == op_shm_ring_push \/ op_shm_ring_pop \/ ProducerDies \/ ConsumerDies

Spec == Init /\ [][Next]_vars

(* Both processes run, and the producer sends again what was refused.        *)
LiveSpec == Spec /\ WF_vars(op_shm_ring_push) /\ WF_vars(op_shm_ring_pop)

-----------------------------------------------------------------------------
TypeOK ==
    /\ len \in [Slots -> BOOLEAN]
    /\ \A s \in Slots : body[s] = None \/ body[s] \in Chunk
    /\ prod \in Nat /\ cons \in 0 .. prod /\ prod - cons \in 0 .. SlotCount
    /\ ppc \in {"idle", "room", "slot", "write", "publish", "advance"}
    /\ cpc \in {"idle", "len", "copy", "clear", "advance"}
    /\ pp \in Nat /\ n \in Nat \ {0} /\ calls \in 0 .. MaxPush
    /\ copy = None \/ copy \in Chunk

(* The consumer reads whole slots, in the order they were published, each    *)
(* once: a slot is not rewritten while it may still be read.                 *)
InOrder == IsPrefix(out, in)

(* A slot in use belongs to one side: the producer writes it only while len  *)
(* is 0, the consumer reads it only while it is not.                         *)
SlotHandshake ==
    /\ ppc \in {"write", "publish"} => ~len[Slot(pp)]
    /\ cpc \in {"copy", "clear"} => len[Slot(cons)]

(* The chunks the consumer gets make up whole messages: a chunk flagged MORE *)
(* is followed by the next chunk of the same message, and only such a chunk  *)
(* lacks FIRST.                                                              *)
MessagesWhole ==
    \A i \in 2 .. Len(out) :
        IF out[i - 1].more
        THEN out[i].msg = out[i - 1].msg /\ out[i].n = out[i - 1].n + 1
        ELSE out[i].first

(* Every message gets through.                                               *)
Unreceived == todo # <<>> \/ Len(out) # Len(in)
AllReceived == <>~Unreceived
=============================================================================
