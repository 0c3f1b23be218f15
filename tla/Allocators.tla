----------------------------- MODULE Allocators -----------------------------
(***************************************************************************)
(* The slab allocator with per-thread magazines (src/balloc.c), its shared-memory      *)
(* variant with re-attachment after a reload, and the bump arena (src/arena.c).        *)
(* An element is <<life, slab, index>>: which life of the heap's address, which of     *)
(* its slabs, which element. A magazine's items and the free list are stacks.        *)
(***************************************************************************)
EXTENDS Integers, FiniteSets, Sequences, SequencesExt

CONSTANTS
    Use,         \* "heap" or "arena"
    Threads,
    PerBlock,    \* elemsPerBlock
    Magazine,    \* MAGAZINE_SIZE (32 in the code)
    Reuse,       \* may malloc give a later heap the address of a destroyed one?
    Shared,      \* op_bh_create_shared, with reloads?
    ZeroFirst,   \* may a live element's first word be 0 when a reload comes?
    Capacity,    \* of the arena
    MaxSlabs, MaxLives, MaxBlocks   \* bounds: slabs of a heap, lives of its address, arena blocks

(* What the constants have to satisfy.                                      *)
AllocatorsAssumption ==
    /\ Use \in {"heap", "arena"} /\ {Reuse, Shared, ZeroFirst} \subseteq BOOLEAN
    /\ PerBlock \in Nat \ {0} /\ Magazine \div 2 > 0 /\ {Capacity, MaxSlabs, MaxLives, MaxBlocks} \subseteq Nat

VARIABLES
    heap,   \* the op_bh: life, live, generation, slabs, free list, nfree, nused
    mags,   \* [Threads -> its magazine for this address]
    own,    \* elements (blocks) their users hold
    words,  \* [element -> is its first word nonzero?] (shared heaps)
    arena

vars == <<heap, mags, own, words, arena>>

Half == Magazine \div 2
NoMag == [there |-> FALSE, items |-> <<>>, generation |-> 0]
Slab(life, s) == {<<life, s, i>> : i \in 1..PerBlock}
SlabSeq(life, s) == [i \in 1..PerBlock |-> <<life, s, i>>]
Mapped == UNION {Slab(heap.life, s) : s \in 1..heap.slabs}

(* The first words along the free list: every element but the last points on.    *)
ListWords(w, free) == [e \in DOMAIN w \cup Range(free) |->
                          IF e \in Range(free) THEN e # Last(free) ELSE w[e]]
SetWord(w, e, b) == [x \in DOMAIN w \cup {e} |-> IF x = e THEN b ELSE w[x]]

-----------------------------------------------------------------------------
(* op_bh_grow: a slab's elements, the lowest address first.                   *)
op_bh_grow(h) == [h EXCEPT !.slabs = @ + 1, !.free = SlabSeq(h.life, h.slabs + 1) \o @,
                           !.nfree = @ + PerBlock]

op_bh_alloc_struct(life) ==
    [life |-> life, live |-> TRUE, generation |-> 0, slabs |-> 0, free |-> <<>>, nfree |-> 0, nused |-> 0]

op_bh_create(life) == op_bh_grow(op_bh_alloc_struct(life))

(* op_bh_create_shared: the first slab is in the memfd, behind its header, and its      *)
(* elements go on the free list like op_bh_grow's.                               *)
op_bh_create_shared(life) == op_bh_grow(op_bh_alloc_struct(life))

(* mag_find_or_create: a magazine of another generation is emptied.           *)
mag_find_or_create(t) ==
    IF mags[t].there /\ mags[t].generation = heap.generation THEN mags[t]
    ELSE [there |-> TRUE, items |-> <<>>, generation |-> heap.generation]

(* mag_refill_locked: half a magazine, growing the heap where it must.         *)
mag_refill_locked(h, items) ==
    FoldLeft(LAMBDA acc, i :
                LET g == IF acc[1].free = <<>> THEN op_bh_grow(acc[1]) ELSE acc[1]
                IN  <<[g EXCEPT !.free = Tail(@), !.nfree = @ - 1, !.nused = @ + 1],
                      Append(acc[2], Head(g.free))>>,
             <<h, items>>, [i \in 1..Half |-> i])

(* A bug for comparison: flushed elements stay in the magazine.               *)
FlushKeeps(h, items, n) ==
    <<[h EXCEPT !.free = SubSeq(items, Len(items) - n + 1, Len(items)) \o @, !.nfree = @ + n, !.nused = @ - n],
      items>>

(* mag_flush_locked: the last n items go back.                                *)
mag_flush_locked(h, items, n) ==
    <<[h EXCEPT !.free = SubSeq(items, Len(items) - n + 1, Len(items)) \o @, !.nfree = @ + n, !.nused = @ - n],
      SubSeq(items, 1, Len(items) - n)>>

(* op_bh_alloc.                                                             *)
op_bh_alloc(t) ==
    LET m == mag_find_or_create(t)
        filled == IF m.items = <<>> THEN mag_refill_locked(heap, <<>>) ELSE <<heap, m.items>>
        e == Last(filled[2])
    IN  /\ heap.live /\ Cardinality(own) < PerBlock * MaxSlabs
        /\ heap' = filled[1] /\ heap'.slabs <= MaxSlabs
        /\ mags' = [mags EXCEPT ![t] = [m EXCEPT !.items = Front(filled[2])]]
        /\ own' = own \cup {e}
        /\ words' = IF Shared THEN SetWord(ListWords(words, heap'.free), e, FALSE) ELSE words
        /\ UNCHANGED arena

(* op_bh_free, by whichever thread has the element.                           *)
op_bh_free(t, e) ==
    LET m == mag_find_or_create(t)
        room == IF Len(m.items) >= Magazine THEN mag_flush_locked(heap, m.items, Half) ELSE <<heap, m.items>>
    IN  /\ heap.live /\ e \in own
        /\ heap' = room[1] /\ own' = own \ {e}
        /\ mags' = [mags EXCEPT ![t] = [m EXCEPT !.items = Append(room[2], e)]]
        /\ words' = IF Shared THEN ListWords(words, heap'.free) ELSE words
        /\ UNCHANGED arena

(* The user stores into an element.                                          *)
UserWrites(e) ==
    /\ Shared /\ e \in own /\ ~words[e]
    /\ words' = SetWord(words, e, TRUE) /\ UNCHANGED <<heap, mags, own, arena>>

(* op_bh_destroy, when the users are done with the heap: the caller's magazine goes,   *)
(* those of other threads stay, and the generation dies with the struct.         *)
op_bh_destroy(t) ==
    /\ heap.live /\ own = {} /\ ~Shared
    /\ heap' = [heap EXCEPT !.live = FALSE, !.generation = @ + 1, !.slabs = 0, !.free = <<>>]
    /\ mags' = [mags EXCEPT ![t] = NoMag] /\ UNCHANGED <<own, words, arena>>

(* The next op_bh_create: another address, for which no thread has a magazine, or    *)
(* the same one.                                                             *)
CreateAgain ==
    /\ ~heap.live /\ heap.life < MaxLives
    /\ heap' = op_bh_create(heap.life + 1)
    /\ mags' \in IF Reuse THEN {mags} ELSE {[t \in Threads |-> NoMag]}
    /\ UNCHANGED <<own, words, arena>>

(* A reload: op_bh_attach_shmem rebuilds the free list from the elements whose       *)
(* first word is 0; the threads and their magazines are new.                    *)
op_bh_attach_shmem ==
    /\ Shared /\ heap.slabs = 1 /\ (ZeroFirst \/ \A e \in own : words[e])
    /\ LET free == SelectSeq(SlabSeq(heap.life, 1), LAMBDA e : e \in DOMAIN words => ~words[e])
       IN  /\ heap' = [heap EXCEPT !.free = free, !.nfree = Len(free), !.nused = PerBlock - Len(free),
                                   !.generation = 0]
           /\ words' = ListWords(words, free)
    /\ mags' = [t \in Threads |-> NoMag] /\ UNCHANGED <<own, arena>>

-----------------------------------------------------------------------------
(* The arena: blocks [at, size] in the inline buffer, overflow blocks apart.     *)

op_arena_init == [used |-> 0, overflow |-> 0, marks |-> <<>>, blocks |-> {}, open |-> TRUE]

op_arena_alloc(size) ==
    /\ Use = "arena" /\ arena.open /\ Cardinality(arena.blocks) + arena.overflow < MaxBlocks
    /\ arena' = IF arena.used + size <= Capacity
                THEN [arena EXCEPT !.used = @ + size, !.blocks = @ \cup {[at |-> arena.used, size |-> size]}]
                ELSE [arena EXCEPT !.overflow = @ + 1]
    /\ UNCHANGED <<heap, mags, own, words>>

op_arena_save ==
    /\ Use = "arena" /\ arena.open /\ Len(arena.marks) < 2
    /\ arena' = [arena EXCEPT !.marks = Append(@, arena.used)] /\ UNCHANGED <<heap, mags, own, words>>

(* Marks are restored innermost first; the blocks taken since are dead.         *)
op_arena_restore ==
    /\ Use = "arena" /\ arena.open /\ arena.marks # <<>>
    /\ LET mark == Last(arena.marks)
       IN  arena' = [arena EXCEPT !.used = IF mark < @ THEN mark ELSE @, !.marks = Front(@),
                                  !.blocks = {b \in @ : b.at < mark}]
    /\ UNCHANGED <<heap, mags, own, words>>

op_arena_reset ==
    /\ Use = "arena" /\ arena.open
    /\ arena' = [arena EXCEPT !.used = 0, !.overflow = 0, !.marks = <<>>, !.blocks = {}]
    /\ UNCHANGED <<heap, mags, own, words>>

(* op_arena_fini frees every buffer but the event arena's, one that the caller supplied    *)
(* included (op_arena.h:96-97 says "if one was allocated by op_arena_init").              *)
op_arena_fini ==
    /\ Use = "arena" /\ arena.open
    /\ arena' = [op_arena_init EXCEPT !.open = FALSE]
    /\ UNCHANGED <<heap, mags, own, words>>

-----------------------------------------------------------------------------
Init ==
    /\ heap = (IF Shared THEN op_bh_create_shared(1) ELSE op_bh_create(1)) /\ mags = [t \in Threads |-> NoMag] /\ own = {}
    /\ words = (IF Shared THEN ListWords([e \in {} |-> FALSE], heap.free) ELSE [e \in {} |-> FALSE])
    /\ arena = op_arena_init

Next ==
    \/ /\ Use = "heap"
       /\ \/ \E t \in Threads : op_bh_alloc(t) \/ op_bh_destroy(t) \/ \E e \in own : op_bh_free(t, e)
          \/ \E e \in own : UserWrites(e)
          \/ CreateAgain \/ op_bh_attach_shmem
    \/ \E size \in 1..3 : op_arena_alloc(size)
    \/ op_arena_save \/ op_arena_restore \/ op_arena_reset \/ op_arena_fini

Spec == Init /\ [][Next]_vars

-----------------------------------------------------------------------------
(* Properties.                                                              *)

Cached == UNION {Range(mags[t].items) : t \in {u \in Threads : mags[u].there /\ heap.live
                                                   /\ mags[u].generation = heap.generation}}

Stale == (own \cup Cached \cup Range(heap.free)) \ Mapped

TypeOK ==
    /\ \A t \in Threads : Len(mags[t].items) <= Magazine
    /\ heap.nfree = Len(heap.free) \/ ~heap.live

(* Every element of the heap is in one place only: the free list, one thread's        *)
(* magazine, or its user's hands; and none is lost (a reload aside).            *)
OneOwner ==
    /\ IsInjective(heap.free) /\ \A t \in Threads : IsInjective(mags[t].items)
    /\ Cached \cap Range(heap.free) = {} /\ own \cap Cached = {} /\ own \cap Range(heap.free) = {}
    /\ \A t, u \in Threads : t # u => Range(mags[t].items) \cap Range(mags[u].items) = {}
    /\ (heap.live /\ ~Shared) =>
          /\ Mapped \subseteq own \cup Cached \cup Range(heap.free)
          /\ Stale = {} => /\ Mapped = own \cup Cached \cup Range(heap.free)
                          /\ heap.nused + heap.nfree = Cardinality(Mapped)

(* What op_bh_alloc hands out is memory of the heap as it is now, or, when the heap has the     *)
(* address of a destroyed one, of an earlier life: what another thread's magazine still held     *)
(* when op_bh_destroy was called. balloc.c:116-119 and 642-643 expect the generation to tell      *)
(* such a magazine, but op_bh_alloc_struct starts every heap at generation 0 (balloc.c:197).       *)
NothingStale ==
    heap.live => \A e \in own \ Mapped : Reuse /\ e[1] < heap.life

(* Live blocks of an arena are apart, and inside the buffer.                    *)
BlocksApart ==
    \A b, c \in arena.blocks :
        /\ b.at + b.size <= Capacity
        /\ b # c => b.at + b.size <= c.at \/ c.at + c.size <= b.at
=============================================================================
