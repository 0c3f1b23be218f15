-------------------------------- MODULE Mpmc --------------------------------
(***************************************************************************)
(* include/op_mpmc.h: a bounded queue for many producers and consumers.      *)
(* Every slot has a sequence number; a producer claims position `pos` of     *)
(* `head`, a consumer position `pos` of `tail`, by compare-and-swap when the *)
(* slot's number says it is their turn, and passes the slot on by storing    *)
(* the next number.                                                          *)
(*                                                                          *)
(* One action is one access to shared memory.  head, tail and the sequence   *)
(* numbers are 64 bits wide and are not taken to wrap.                       *)
(***************************************************************************)
EXTENDS Integers, FiniteSets

CONSTANTS
    Items,      \* pushed at most once each
    Producers,
    Consumers,
    Capacity,   \* mask + 1
    NULL

(* What the constants have to satisfy.  op_mpmc_init also accepts a         *)
(* capacity of 1, which the algorithm does not carry: the number that       *)
(* publishes position 0 is then the number that frees its slot for          *)
(* position 1, so a second push overwrites the item.                        *)
MpmcAssumption ==
    /\ Capacity \in Nat \ {0, 1}
    /\ NULL \notin Items
    /\ Producers \cap Consumers = {}

Slots == 0 .. Capacity - 1
Slot(p) == p % Capacity

VARIABLES
    head, tail,   \* q->head, q->tail
    seq, data,    \* slot->seq, slot->data
    pc,           \* where each thread is
    pos, sq,      \* its locals `pos` and `seq`
    item,         \* the item a producer pushes or a consumer has read
    fresh,        \* items nobody has pushed yet
    order,        \* history: the item claimed for each position of head
    got           \* history: the item read at each position of tail

memory == <<head, tail, seq, data>>
vars == <<head, tail, seq, data, pc, pos, sq, item, fresh, order, got>>

Threads == Producers \cup Consumers

(* op_mpmc_init                                                              *)
Init ==
    /\ head = 0 /\ tail = 0
    /\ seq = [i \in Slots |-> i]
    /\ data = [i \in Slots |-> NULL]
    /\ pc = [t \in Threads |-> "idle"]
    /\ pos = [t \in Threads |-> 0]
    /\ sq = [t \in Threads |-> 0]
    /\ item = [t \in Threads |-> NULL]
    /\ fresh = Items /\ order = <<>> /\ got = <<>>

Goto(t, l) == pc' = [pc EXCEPT ![t] = l]

-----------------------------------------------------------------------------
(* op_mpmc_push, by producer p                                               *)

BeginPush(p) ==
    /\ pc[p] = "idle"
    /\ fresh # {}
    /\ LET x == CHOOSE i \in fresh : TRUE
       IN  item' = [item EXCEPT ![p] = x] /\ fresh' = fresh \ {x}
    /\ pos' = [pos EXCEPT ![p] = head]
    /\ Goto(p, "seq")
    /\ UNCHANGED <<memory, sq, order, got>>

PushLoadSeq(p) ==
    /\ pc[p] = "seq"
    /\ sq' = [sq EXCEPT ![p] = seq[Slot(pos[p])]]
    /\ Goto(p, "test")
    /\ UNCHANGED <<memory, pos, item, fresh, order, got>>

(* A bug for comparison: head is advanced without a compare.                 *)
ClaimUnchecked(p) ==
    /\ pc[p] = "test" /\ sq[p] = pos[p]
    /\ head' = pos[p] + 1
    /\ order' = [i \in DOMAIN order \cup {pos[p] + 1} |-> IF i = pos[p] + 1 THEN item[p] ELSE order[i]]
    /\ Goto(p, "write")
    /\ UNCHANGED <<tail, seq, data, pos, sq, item, fresh, got>>

(* diff == 0: claim the position; a failed exchange reloads it. (The exchange is a weak     *)
(* one, op_mpmc.h:81 and 109. When it fails though the position is still free, the thread   *)
(* is back before the load of seq that brought it here, with the same pos: a repetition,     *)
(* which is left out.)                                                                *)
ClaimHead(p) ==
    /\ pc[p] = "test" /\ sq[p] = pos[p]
    /\ IF head = pos[p]
       THEN /\ head' = head + 1
            /\ order' = [i \in 1 .. head + 1 |-> IF i = head + 1 THEN item[p] ELSE order[i]]
            /\ Goto(p, "write")
            /\ UNCHANGED pos
       ELSE /\ pos' = [pos EXCEPT ![p] = head]
            /\ Goto(p, "seq")
            /\ UNCHANGED <<head, order>>
    /\ UNCHANGED <<tail, seq, data, sq, item, fresh, got>>

WriteData(p) ==
    /\ pc[p] = "write"
    /\ data' = [data EXCEPT ![Slot(pos[p])] = item[p]]
    /\ Goto(p, "publish")
    /\ UNCHANGED <<head, tail, seq, pos, sq, item, fresh, order, got>>

(* A bug for comparison: the number stored is the one already there.         *)
PublishOldSeq(p) ==
    /\ pc[p] = "publish"
    /\ seq' = [seq EXCEPT ![Slot(pos[p])] = pos[p]]
    /\ item' = [item EXCEPT ![p] = NULL]
    /\ Goto(p, "idle")
    /\ UNCHANGED <<head, tail, data, pos, sq, fresh, order, got>>

Publish(p) ==
    /\ pc[p] = "publish"
    /\ seq' = [seq EXCEPT ![Slot(pos[p])] = pos[p] + 1]
    /\ item' = [item EXCEPT ![p] = NULL]
    /\ Goto(p, "idle")
    /\ UNCHANGED <<head, tail, data, pos, sq, fresh, order, got>>

StoreItem(p) == WriteData(p) \/ Publish(p)

(* diff < 0: full; the caller keeps the item and may try again.              *)
PushFull(p) ==
    /\ pc[p] = "test" /\ sq[p] < pos[p]
    /\ fresh' = fresh \cup {item[p]}
    /\ item' = [item EXCEPT ![p] = NULL]
    /\ Goto(p, "idle")
    /\ UNCHANGED <<memory, pos, sq, order, got>>

(* diff > 0: the position is taken.                                          *)
PushReload(p) ==
    /\ pc[p] = "test" /\ sq[p] > pos[p]
    /\ pos' = [pos EXCEPT ![p] = head]
    /\ Goto(p, "seq")
    /\ UNCHANGED <<memory, sq, item, fresh, order, got>>

op_mpmc_push(p) ==
    \/ BeginPush(p) \/ PushLoadSeq(p) \/ ClaimHead(p) \/ StoreItem(p)
    \/ PushFull(p) \/ PushReload(p)

-----------------------------------------------------------------------------
(* op_mpmc_pop, by consumer c                                                *)

BeginPop(c) ==
    /\ pc[c] = "idle"
    /\ pos' = [pos EXCEPT ![c] = tail]
    /\ Goto(c, "seq")
    /\ UNCHANGED <<memory, sq, item, fresh, order, got>>

PopLoadSeq(c) ==
    /\ pc[c] = "seq"
    /\ sq' = [sq EXCEPT ![c] = seq[Slot(pos[c])]]
    /\ Goto(c, "test")
    /\ UNCHANGED <<memory, pos, item, fresh, order, got>>

ClaimTail(c) ==
    /\ pc[c] = "test" /\ sq[c] = pos[c] + 1
    /\ IF tail = pos[c]
       THEN tail' = tail + 1 /\ Goto(c, "read") /\ UNCHANGED pos
       ELSE pos' = [pos EXCEPT ![c] = tail] /\ Goto(c, "seq") /\ UNCHANGED tail
    /\ UNCHANGED <<head, seq, data, sq, item, fresh, order, got>>

ReadData(c) ==
    /\ pc[c] = "read"
    /\ item' = [item EXCEPT ![c] = data[Slot(pos[c])]]
    /\ got' = [i \in DOMAIN got \cup {pos[c] + 1} |->
                  IF i = pos[c] + 1 THEN data[Slot(pos[c])] ELSE got[i]]
    /\ Goto(c, "release")
    /\ UNCHANGED <<memory, pos, sq, fresh, order>>

(* A bug for comparison: the slot is passed on one position early.           *)
ReleaseOffByOne(c) ==
    /\ pc[c] = "release"
    /\ seq' = [seq EXCEPT ![Slot(pos[c])] = pos[c] + Capacity - 1]
    /\ item' = [item EXCEPT ![c] = NULL]
    /\ Goto(c, "idle")
    /\ UNCHANGED <<head, tail, data, pos, sq, fresh, order, got>>

(* The item is returned; the slot waits for position pos + mask + 1.         *)
Release(c) ==
    /\ pc[c] = "release"
    /\ seq' = [seq EXCEPT ![Slot(pos[c])] = pos[c] + Capacity]
    /\ item' = [item EXCEPT ![c] = NULL]
    /\ Goto(c, "idle")
    /\ UNCHANGED <<head, tail, data, pos, sq, fresh, order, got>>

PopEmpty(c) ==
    /\ pc[c] = "test" /\ sq[c] < pos[c] + 1
    /\ Goto(c, "idle")
    /\ UNCHANGED <<memory, pos, sq, item, fresh, order, got>>

PopReload(c) ==
    /\ pc[c] = "test" /\ sq[c] > pos[c] + 1
    /\ pos' = [pos EXCEPT ![c] = tail]
    /\ Goto(c, "seq")
    /\ UNCHANGED <<memory, sq, item, fresh, order, got>>

op_mpmc_pop(c) ==
    \/ BeginPop(c) \/ PopLoadSeq(c) \/ ClaimTail(c) \/ ReadData(c) \/ Release(c)
    \/ PopEmpty(c) \/ PopReload(c)

-----------------------------------------------------------------------------
Next ==
    \/ \E p \in Producers : op_mpmc_push(p)
    \/ \E c \in Consumers : op_mpmc_pop(c)

Spec == Init /\ [][Next]_vars

(* Every thread is scheduled: it finishes the call it is in, and one         *)
(* consumer pops again and again.                                            *)
Fairness ==
    /\ \A p \in Producers : WF_vars(op_mpmc_push(p))
    /\ \A c \in Consumers : WF_vars(op_mpmc_pop(c))

LiveSpec == Spec /\ Fairness

-----------------------------------------------------------------------------
TypeOK ==
    /\ head \in Nat /\ tail \in Nat
    /\ seq \in [Slots -> 0 .. tail + Capacity]
    /\ data \in [Slots -> Items \cup {NULL}]
    /\ pc \in [Threads -> {"idle", "seq", "test", "write", "publish", "read", "release"}]
    /\ \A p \in Producers : pc[p] \notin {"read", "release"}
    /\ \A c \in Consumers : pc[c] \notin {"write", "publish"}
    /\ pos \in [Threads -> Nat]
    /\ sq \in [Threads -> Nat]
    /\ item \in [Threads -> Items \cup {NULL}]
    /\ fresh \subseteq Items

(* Consumers get the items in the order in which their positions were        *)
(* claimed, each one exactly once and fully written: what is read at         *)
(* position i is what was claimed for position i.                            *)
FifoByPosition ==
    /\ DOMAIN got \subseteq DOMAIN order
    /\ \A i \in DOMAIN got : got[i] = order[i]

(* No two threads own a slot at once, and a slot between two claims still    *)
(* holds its item: nothing is overwritten before it has been read.           *)
Owns(t) == pc[t] \in {"write", "publish", "read", "release"}
SlotsExclusive ==
    /\ \A t, u \in Threads : t # u /\ Owns(t) /\ Owns(u) => Slot(pos[t]) # Slot(pos[u])
    /\ head - tail <= Capacity
    /\ \A i \in tail .. head - 1 :
          (\A p \in Producers : ~(Owns(p) /\ pos[p] = i)) => data[Slot(i)] = order[i + 1]

(* A thread is between claiming and publishing, or claiming and releasing.   *)
UnderWay(S) == \E t \in S : Owns(t)

EmptyHonest(c) ==
    pc[c] = "seq" /\ pc'[c] = "test" /\ sq'[c] < pos[c] + 1 => tail >= head \/ UnderWay(Producers)

(* op_mpmc_pop finds the queue empty only if it is, or a push is under way:  *)
(* no item is hidden once the pushes have returned.                          *)
EmptyIsHonest == [][\A c \in Consumers : EmptyHonest(c)]_vars

FullHonest(p) ==
    pc[p] = "seq" /\ pc'[p] = "test" /\ sq'[p] < pos[p] => head - tail = Capacity \/ UnderWay(Consumers)

(* op_mpmc_push finds the queue full only if it is, or a pop is under way.   *)
FullIsHonest == [][\A p \in Producers : FullHonest(p)]_vars

(* Every item claimed is popped in the end.                                  *)
Unpopped(i) == i \in DOMAIN order /\ i \notin DOMAIN got
EveryItemPopped == \A i \in 1 .. Cardinality(Items) : Unpopped(i) ~> ~Unpopped(i)
=============================================================================
