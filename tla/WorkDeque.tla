----------------------------- MODULE WorkDeque -----------------------------
(***************************************************************************)
(* The Chase-Lev work-stealing deque of one pool worker                     *)
(* (src/thread_pool.c, deque_t).  The owning worker pushes and pops at      *)
(* `top`; every other worker steals at `bottom` with a compare-and-swap.    *)
(* The items live in a circular buffer that doubles when it is full; the    *)
(* old buffers are never freed.                                             *)
(*                                                                          *)
(* One action is one access to memory another thread can see.  The fences   *)
(* of deque_pop and deque_steal order the accesses the algorithm needs      *)
(* ordered, so memory is sequentially consistent here.                      *)
(***************************************************************************)
EXTENDS Integers

CONSTANTS
    Items,       \* the work items, each pushed at most once
    Thieves,     \* the workers that steal from this deque
    InitCap,     \* DEQUE_INIT_CAP
    NULL,        \* the null pointer: an empty slot, "nothing returned"
    Garbage,     \* what a read past the end of a slot array yields
    SingleLoad   \* TRUE: the compiler merges the two loads of d->buf in
                 \* deque_steal into one (any optimised build); FALSE: it
                 \* emits both (the unoptimised default build)

ASSUME DequeAssumption ==
    /\ InitCap \in Nat \ {0}
    /\ SingleLoad \in BOOLEAN
    /\ NULL \notin Items
    /\ Garbage \notin Items
    /\ NULL # Garbage

VARIABLES
    top,       \* d->top
    bottom,    \* d->bottom
    buf,       \* d->buf: the buffers are numbered as they are allocated
    capacity,  \* the capacity of every deque_buf_t ever allocated ...
    slots,     \* ... and its slots
    opc,       \* the owner: where it is in deque_push or deque_pop
    oitem,     \* the owner's `item`
    ot,        \* the owner's `t`
    ob,        \* the owner's `b`
    tpc,       \* each thief: where it is in deque_steal
    tb,        \* each thief's `b`
    tg,        \* the buffer whose `slots` each thief is about to read
    titem,     \* each thief's `item`
    fresh,     \* the items nobody has pushed yet
    ran        \* how often each item has been handed to a worker to run

ownerVars == <<opc, oitem, ot, ob>>
thiefVars == <<tpc, tb, tg, titem>>
bufVars == <<buf, capacity, slots>>
vars == <<top, bottom, buf, capacity, slots, opc, oitem, ot, ob,
          tpc, tb, tg, titem, fresh, ran>>

Slots(n) == 0 .. n - 1

(* Slot i of the current buffer.  The capacity is a power of two, so the    *)
(* code's i & (capacity - 1) is i % capacity.                               *)
Live(i) == slots[buf][i % capacity[buf]]

Init ==
    /\ top = 0 /\ bottom = 0
    /\ buf = 1
    /\ capacity = [g \in 1 .. 1 |-> InitCap]
    /\ slots = [g \in 1 .. 1 |-> [s \in Slots(InitCap) |-> NULL]]
    /\ opc = "idle" /\ oitem = NULL /\ ot = 0 /\ ob = 0
    /\ tpc = [w \in Thieves |-> "idle"]
    /\ tb = [w \in Thieves |-> 0]
    /\ tg = [w \in Thieves |-> 1]
    /\ titem = [w \in Thieves |-> NULL]
    /\ fresh = Items
    /\ ran = [i \in Items \cup {Garbage} |-> 0]

(* The worker that got `item` runs it (work_item_run).                      *)
Run(item) == ran' = [ran EXCEPT ![item] = @ + 1]

-----------------------------------------------------------------------------
(* deque_push, by the owner.                                                *)

PushLoad ==
    /\ opc = "idle"
    /\ \E i \in fresh : fresh' = fresh \ {i} /\ oitem' = i
    /\ ot' = top /\ ob' = bottom
    /\ opc' = "pushed"
    /\ UNCHANGED <<top, bottom, bufVars, thiefVars, ran>>

Full == ot - ob >= capacity[buf]

(* A bug for comparison: the copy stops one item early.                     *)
CopiedShort(n) ==
    [s \in Slots(n) |->
        IF \E i \in ob .. ot - 2 : i % n = s
        THEN Live(CHOOSE i \in ob .. ot - 2 : i % n = s)
        ELSE NULL]

(* The items b .. t-1 copied into a buffer of n slots, the rest zeroed.     *)
Copied(n) ==
    [s \in Slots(n) |->
        IF \E i \in ob .. ot - 1 : i % n = s
        THEN Live(CHOOSE i \in ob .. ot - 1 : i % n = s)
        ELSE NULL]

PushGrow ==
    /\ opc = "pushed" /\ Full
    /\ buf' = buf + 1
    /\ capacity' = [g \in 1 .. buf + 1 |-> IF g = buf + 1 THEN 2 * capacity[buf] ELSE capacity[g]]
    /\ slots' = [g \in 1 .. buf + 1 |-> IF g = buf + 1 THEN Copied(2 * capacity[buf]) ELSE slots[g]]
    /\ opc' = "store"
    /\ UNCHANGED <<top, bottom, oitem, ot, ob, thiefVars, fresh, ran>>

PushStore ==
    /\ opc = "store" \/ (opc = "pushed" /\ ~Full)
    /\ slots' = [slots EXCEPT ![buf] = [@ EXCEPT ![ot % capacity[buf]] = oitem]]
    /\ opc' = "publish"
    /\ UNCHANGED <<top, bottom, buf, capacity, oitem, ot, ob, thiefVars, fresh, ran>>

PushPublish ==
    /\ opc = "publish"
    /\ top' = ot + 1
    /\ opc' = "idle" /\ oitem' = NULL
    /\ UNCHANGED <<bottom, bufVars, ot, ob, thiefVars, fresh, ran>>

-----------------------------------------------------------------------------
(* deque_pop, by the owner.                                                 *)

PopDecrement ==
    /\ opc = "idle"
    /\ top' = top - 1 /\ ot' = top - 1
    /\ opc' = "popb"
    /\ UNCHANGED <<bottom, bufVars, oitem, ob, thiefVars, fresh, ran>>

(* A bug for comparison: the last item is taken without a compare-and-swap. *)
PopLoadNoRace ==
    /\ opc = "popb"
    /\ ob' = bottom
    /\ \/ ot < bottom /\ opc' = "empty" /\ UNCHANGED ran
       \/ ot >= bottom /\ opc' = "idle" /\ Run(Live(ot))
    /\ UNCHANGED <<top, bottom, bufVars, oitem, ot, thiefVars, fresh>>

PopLoad ==
    /\ opc = "popb"
    /\ ob' = bottom
    /\ \/ /\ ot < bottom
          /\ opc' = "empty"
          /\ UNCHANGED <<oitem, ran>>
       \/ /\ ot > bottom
          /\ opc' = "idle"
          /\ Run(Live(ot))
          /\ UNCHANGED oitem
       \/ /\ ot = bottom
          /\ opc' = "cas"
          /\ oitem' = Live(ot)
          /\ UNCHANGED ran
    /\ UNCHANGED <<top, bottom, bufVars, ot, thiefVars, fresh>>

PopEmpty ==
    /\ opc = "empty"
    /\ top' = ob
    /\ opc' = "idle"
    /\ UNCHANGED <<bottom, bufVars, oitem, ot, ob, thiefVars, fresh, ran>>

(* A bug for comparison: a weak compare-and-swap that may fail although     *)
(* nobody took the item.                                                    *)
PopCasWeak ==
    /\ opc = "cas"
    /\ \/ bottom = ob /\ bottom' = ob + 1 /\ UNCHANGED oitem
       \/ oitem' = NULL /\ UNCHANGED bottom
    /\ opc' = "restore"
    /\ UNCHANGED <<top, bufVars, ot, ob, thiefVars, fresh, ran>>

PopCas ==
    /\ opc = "cas"
    /\ \/ bottom = ob /\ bottom' = ob + 1 /\ UNCHANGED oitem
       \/ bottom # ob /\ oitem' = NULL /\ UNCHANGED bottom
    /\ opc' = "restore"
    /\ UNCHANGED <<top, bufVars, ot, ob, thiefVars, fresh, ran>>

(* A bug for comparison: `top` stays decremented after the race.            *)
PopNoRestore ==
    /\ opc = "restore"
    /\ \/ oitem = NULL /\ UNCHANGED ran
       \/ oitem # NULL /\ Run(oitem)
    /\ opc' = "idle" /\ oitem' = NULL
    /\ UNCHANGED <<top, bottom, bufVars, ot, ob, thiefVars, fresh>>

PopRestore ==
    /\ opc = "restore"
    /\ top' = ob + 1
    /\ \/ oitem = NULL /\ UNCHANGED ran
       \/ oitem # NULL /\ Run(oitem)
    /\ opc' = "idle" /\ oitem' = NULL
    /\ UNCHANGED <<bottom, bufVars, ot, ob, thiefVars, fresh>>

-----------------------------------------------------------------------------
(* deque_steal, by thief w.                                                 *)

StealLoad(w) ==
    /\ tpc[w] = "idle"
    /\ tb' = [tb EXCEPT ![w] = bottom]
    /\ tpc' = [tpc EXCEPT ![w] = "top"]
    /\ UNCHANGED <<top, bottom, bufVars, ownerVars, tg, titem, fresh, ran>>

StealTop(w) ==
    /\ tpc[w] = "top"
    /\ tpc' = [tpc EXCEPT ![w] = IF tb[w] >= top THEN "idle" ELSE "slots"]
    /\ UNCHANGED <<top, bottom, bufVars, ownerVars, tb, tg, titem, fresh, ran>>

StealSlots(w) ==
    /\ tpc[w] = "slots"
    /\ tg' = [tg EXCEPT ![w] = buf]
    /\ tpc' = [tpc EXCEPT ![w] = "item"]
    /\ UNCHANGED <<top, bottom, bufVars, ownerVars, tb, titem, fresh, ran>>

(* d->buf->slots[b & (d->buf->capacity - 1)]: unless the compiler merged    *)
(* them, the second d->buf can be a newer buffer than the first, and the    *)
(* index can then lie past the end of the older slot array.                 *)
StealItem(w) ==
    LET g == tg[w]
        i == tb[w] % capacity[IF SingleLoad THEN g ELSE buf]
    IN  /\ tpc[w] = "item"
        /\ titem' = [titem EXCEPT ![w] = IF i < capacity[g] THEN slots[g][i] ELSE Garbage]
        /\ tpc' = [tpc EXCEPT ![w] = "cas"]
        /\ UNCHANGED <<top, bottom, bufVars, ownerVars, tb, tg, fresh, ran>>

(* A bug for comparison: `bottom` is moved by a plain store.                *)
StealNoCas(w) ==
    /\ tpc[w] = "cas"
    /\ bottom' = tb[w] + 1
    /\ IF titem[w] = NULL THEN UNCHANGED ran ELSE Run(titem[w])
    /\ tpc' = [tpc EXCEPT ![w] = "idle"]
    /\ titem' = [titem EXCEPT ![w] = NULL]
    /\ UNCHANGED <<top, bufVars, ownerVars, tb, tg, fresh>>

StealCas(w) ==
    /\ tpc[w] = "cas"
    /\ \/ bottom = tb[w] /\ bottom' = tb[w] + 1
          /\ IF titem[w] = NULL THEN UNCHANGED ran ELSE Run(titem[w])
       \/ bottom # tb[w] /\ UNCHANGED <<bottom, ran>>
    /\ tpc' = [tpc EXCEPT ![w] = "idle"]
    /\ titem' = [titem EXCEPT ![w] = NULL]
    /\ UNCHANGED <<top, bufVars, ownerVars, tb, tg, fresh>>

-----------------------------------------------------------------------------
deque_push == PushLoad \/ PushGrow \/ PushStore \/ PushPublish
deque_pop == PopDecrement \/ PopLoad \/ PopEmpty \/ PopCas \/ PopRestore
deque_steal(w) == StealLoad(w) \/ StealTop(w) \/ StealSlots(w) \/ StealItem(w) \/ StealCas(w)

Next == deque_push \/ deque_pop \/ \E w \in Thieves : deque_steal(w)

(* A worker drains its inbox into the deque and pops until it is empty      *)
(* (worker_entry), so an owner that can take a step does.                   *)
Spec == Init /\ [][Next]_vars /\ WF_vars(deque_push \/ deque_pop)

-----------------------------------------------------------------------------
TypeOK ==
    /\ top \in Int /\ bottom \in Nat
    /\ buf \in Nat \ {0}
    /\ capacity \in [1 .. buf -> Nat \ {0}]
    /\ DOMAIN slots = 1 .. buf
    /\ \A g \in 1 .. buf : slots[g] \in [Slots(capacity[g]) -> Items \cup {NULL}]
    /\ opc \in {"idle", "pushed", "store", "publish", "popb", "empty", "cas", "restore"}
    /\ oitem \in Items \cup {NULL}
    /\ ot \in Int /\ ob \in Nat
    /\ tpc \in [Thieves -> {"idle", "top", "slots", "item", "cas"}]
    /\ tb \in [Thieves -> Nat]
    /\ tg \in [Thieves -> Nat]
    /\ titem \in [Thieves -> Items \cup {NULL, Garbage}]
    /\ fresh \subseteq Items
    /\ ran \in [Items \cup {Garbage} -> Nat]

(* No work item is handed out twice, and nothing that is not a work item    *)
(* is ever run: op_thread_pool.h promises that fn(arg) is called exactly    *)
(* once although the owner and the thieves race for the last item.          *)
RunAtMostOnce ==
    /\ \A i \in Items : ran[i] <= 1
    /\ ran[Garbage] = 0

(* One past the last item in the deque: deque_pop decrements `top` before   *)
(* it knows whether the item there is its own.                              *)
End == IF opc \in {"popb", "empty", "cas", "restore"} THEN top + 1 ELSE top

(* The items that are in the deque.                                         *)
Contents == {Live(i) : i \in bottom .. End - 1}

(* Nothing is lost: an item that was pushed has run, is still in the        *)
(* deque, or is in the owner's hands (being pushed, or just popped).        *)
NothingLost ==
    \A i \in Items : i \in fresh \/ ran[i] > 0 \/ oitem = i \/ i \in Contents

(* The circular buffer never holds more items than it has slots, and holds  *)
(* each of them once, whatever growing and stealing overlap.                *)
NoOverwrite ==
    /\ End - bottom <= capacity[buf]
    /\ \A i, j \in bottom .. End - 1 : i # j => Live(i) # Live(j)
    /\ \A i \in bottom .. End - 1 : Live(i) \in Items /\ ran[Live(i)] = 0

(* What ties the owner's local variables to the deque at each point of      *)
(* deque_push and deque_pop.                                                *)
OwnerInv ==
    /\ opc \in {"idle", "popb", "empty"} => oitem = NULL
    /\ opc \in {"pushed", "store", "publish"} =>
          /\ ot = top /\ ob <= bottom
          /\ oitem \in Items \ fresh /\ ran[oitem] = 0
          /\ oitem \notin Contents
    /\ opc = "pushed" => ot - ob <= capacity[buf]
    /\ opc = "store" => ot - ob < capacity[buf]
    /\ opc = "publish" => ot - bottom < capacity[buf] /\ Live(ot) = oitem
    /\ opc = "popb" => ot = top
    /\ opc = "empty" => ob = bottom /\ bottom = top + 1
    /\ opc = "cas" => /\ ot = top /\ ob = top /\ ob <= bottom /\ oitem \in Items
                      /\ bottom = ob => oitem = Live(ob)
                      /\ bottom # ob => ran[oitem] > 0
    /\ opc = "restore" => /\ ob = top /\ bottom = top + 1
                          /\ oitem # NULL => oitem \notin fresh /\ ran[oitem] = 0

(* What a thief that can still win the compare-and-swap (nobody has moved   *)
(* `bottom` since it read it) knows: there is an item at `bottom`, and the  *)
(* buffer it looks at, however old, holds that item in its slot.            *)
ThiefInv(w) ==
    /\ tb[w] <= bottom
    /\ tg[w] \in 1 .. buf
    /\ titem[w] # Garbage
    /\ tb[w] = bottom =>
          /\ tpc[w] \in {"slots", "item", "cas"} => bottom < End
          /\ tpc[w] = "item" => slots[tg[w]][bottom % capacity[tg[w]]] = Live(bottom)
          /\ tpc[w] = "cas" => titem[w] = Live(bottom)

(* The inductive invariant behind RunAtMostOnce and NothingLost.            *)
IInv ==
    /\ TypeOK
    /\ RunAtMostOnce
    /\ NothingLost
    /\ NoOverwrite
    /\ bottom <= End
    /\ \A i \in bottom .. End - 1 : Live(i) \notin fresh
    /\ \A i \in fresh : ran[i] = 0
    /\ OwnerInv
    /\ \A w \in Thieves : ThiefInv(w)

(* deque_pop returns NULL only when there is nothing to pop: it never gives *)
(* up on an item that nobody else takes.                                    *)
NullMeansEmpty ==
    opc = "empty" \/ (opc = "restore" /\ oitem = NULL) => Contents = {}

(* Every item that was pushed is run in the end (deque_pop, deque_steal): an *)
(* item is pushed once and stays run, so []<> says the same as ~> here.      *)
EveryItemRuns == \A i \in Items : []<>(i \in fresh \/ ran[i] = 1)

-----------------------------------------------------------------------------
(* The deque as AtomicDeque sees it: a push counts when `top` is published, *)
(* a pop when it has won, a steal when its compare-and-swap succeeds.       *)
AbstractFresh == fresh \cup (IF opc \in {"pushed", "store", "publish"} THEN {oitem} ELSE {})
AbstractQueue == [k \in 1 .. End - bottom |-> Live(bottom + k - 1)]
AbstractOut == {i \in Items : ran[i] > 0} \cup (IF opc = "restore" THEN {oitem} \ {NULL} ELSE {})

Atomic == INSTANCE AtomicDeque WITH
    fresh <- AbstractFresh, queue <- AbstractQueue, out <- AbstractOut

(* The lock-free deque implements the atomic one: every operation of the    *)
(* owner and of the thieves takes effect in a single step.                  *)
ImplementsAtomicDeque == Atomic!Spec
=============================================================================
