------------------------------ MODULE MCQueues ------------------------------
(* Small instances of WorkDeque, Mpmc, Spsc and ShmRing; of Tables, Trees, Tries, Containers, DirectedGraph, Members,  *)
(* Text, Toml, Addresses, Allocators, Replicas and Locks; a behaviour is one of one     *)
(* of them.                                                                                  *)
(*   dequeGrows: the work-stealing deque, three items and a thief, a buffer that grows twice;     *)
(*   dequeRace: ... two items and two thieves;                                                  *)
(*   mpmc:     a producer and two consumers, two slots, twice as many items;       *)
(*   mpmcFair: ... two producers and a consumer, all of them scheduled;            *)
(*   spsc:     op_spsc, four slots, cursors that wrap after two rounds;           *)
(*   ringbuf:  op_ringbuf, four slots, masked cursors;                            *)
(*   shm:      the shared-memory ring, four slots, a producer that waits for      *)
(*             room for its whole message;                                       *)
(*   shmFull:  ... and one that does not; shmDies: processes that die and are replaced;   *)
(*   map, lru, lruFrees, intern: the hash table on its own, under the LRU cache, whose user keeps or       *)
(*             frees the keys, and under interned strings;                                            *)
(*   rbt, skiplist, itree, trie, cidr: the ordered containers and the tries;                          *)
(*   pqueue, deque, vec, strbuf, graph: the growing arrays, and the graph that is built on them;         *)
(*   dlink, bitset, bloom, hll: lists of three nodes, sets of four bits, a filter of four small cells,      *)
(*             three sketches;                                                               *)
(*   utf8, scan, params, strings, base64, unbase64: the scanners of text; inet: addresses written and parsed;         *)
(*   toml:     configuration texts of three lines, any allocation of which may fail;                    *)
(*   heap, heapReused, heapShared, arena: the block allocator, one created again at the same address,        *)
(*             the one that survives a reload, the arena;                                             *)
(*   orset, orsetAgain, merkle: two replicas, deltas delivered once or again; events: two replicas         *)
(*             whose wall clocks differ;                                                            *)
(*   ordered, orderedFatal, sameLevel, tracked, deadlock: the macros of op_lock.h, two threads.            *)
(* The recurring form []<>~P says the same as P ~> ~P.                           *)
EXTENDS WorkDeque, FiniteSets, Sequences, TLC

VARIABLES
    scenario,
    rep, fed, answer, sentTo, seen,                  \* of the containers and replicas
    slabs, mags, own, words, arena,                  \* of Allocators
    lock, exclusive, holder, levels, lpc, reports, named, dead    \* of Locks

In(s) == scenario = s
Absent == "absent"

TableUses == {"map", "lru", "lruFrees", "intern"}
Tab(s) ==
    INSTANCE Tables WITH
        Use <- IF s = "lruFrees" THEN "lru" ELSE s,
        Strings <- IF s \in {"lru", "lruFrees"} THEN {"a", "b", "c"} ELSE {"a", "b", "c", "d"},
        Hash <- IF s \in {"lru", "lruFrees"} THEN "a" :> 3 @@ "b" :> 3 @@ "c" :> 0
                ELSE "a" :> 3 @@ "b" :> 3 @@ "c" :> 0 @@ "d" :> 7,
        Vals <- {1, 2}, MinCap <- 4, Merges <- {"cb", "null"}, Capacity <- 2,
        FreesKey <- s = "lruFrees",
        MaxRefs <- 2, out <- answer

TreeUses == {"rbt", "skiplist", "itree"}
Tree(s) ==
    INSTANCE Trees WITH
        Use <- s, Keys <- IF s = "rbt" THEN 1..6 ELSE 1..4, Vals <- {1},
        IterDepth <- 64, MaxLevel <- 3, MaxCount <- 4, out <- answer

TrieUses == {"trie", "cidr"}
Trie(s) ==
    INSTANCE Tries WITH
        Use <- s, Chars <- {1, 2, 3}, Fold <- 1 :> 1 @@ 2 :> 2 @@ 3 :> 1, MaxKey <- 2,
        Width <- 2, Vals <- {1}, out <- answer

ArrayUses == {"pqueue", "deque", "vec", "strbuf"}
Pairs(s) == IF s = "pqueue" THEN {<<1, 1>>, <<2, 2>>, <<3, 3>>, <<4, 4>>, <<5, 5>>, <<4, 6>>}
            ELSE IF s = "strbuf" THEN {<<1, 1>>, <<2, 2>>} ELSE {<<1, 1>>, <<2, 2>>, <<1, 3>>, <<3, 4>>}
Arr(s) ==
    INSTANCE Containers WITH
        Use <- s, Elems <- Pairs(s), DefCap <- IF s \in {"pqueue", "strbuf"} THEN 2 ELSE 1,
        Hints <- IF s = "pqueue" THEN {1} ELSE {0, 3},
        MaxSize <- IF s \in {"pqueue", "strbuf"} THEN 6 ELSE 3,
        MaxCap <- 4, out <- answer

G ==
    INSTANCE DirectedGraph WITH
        Use <- "graph", Elems <- {}, DefCap <- 1, Hints <- {}, MaxSize <- 0, MaxCap <- 0,
        Weights <- {1, 3}, MaxNodes <- 3, MaxEdges <- 3, out <- answer

TextUses == {"utf8", "scan", "params", "strings", "base64", "unbase64"}
T(s) ==
    INSTANCE Text WITH
        Use <- s, Avx2 <- 4, Lanes <- 2, text <- rep,
        MaxLen <- CASE s = "utf8" -> 4 [] s = "scan" -> 7 [] s \in {"base64", "strings"} -> 5 [] OTHER -> 6,
        Bytes <- CASE s = "utf8" -> {65, 143, 144, 159, 160, 193, 194, 224, 237, 240, 244}
                   [] s = "scan" -> {1, 2, 3}
                   [] s = "params" -> {32, 58, 65}
                   [] s = "strings" -> {47, 65, 97}
                   [] s = "base64" -> {0, 3, 129, 254}
                   [] s = "unbase64" -> {21, 62, 64, 65}

MemberUses == {"dlink", "bitset", "bloom", "hll"}
M(s) ==
    INSTANCE Members WITH
        Use <- s, Nodes <- {1, 2, 3}, Data <- {1, 2}, WordBits <- 2, NWords <- 2,
        Positions <- "k" :> <<0, 1, 2>> @@ "l" :> <<1, 3, 3>> @@ "m" :> <<2, 0, 3>>,
        CellMax <- 3, MaxAdds <- 2,
        HashBits <- 4, Hashes <- {0, 1, 5, 8}, Precisions <- <<1, 1, 2>>

TomlLines ==
    {<<>>, <<"#", "a">>,
     <<"[", "a", "]">>, <<"[", "b", "]", "#", "a">>, <<"[", "[", "a", "]", "]">>,
     <<"[", "[", "b", "]", "]", "#", "=">>, <<"[", "]">>, <<"[", "[", "a", "]">>,
     <<"[", "a", "]", "a">>,
     <<"'a'", "=", "'a'">>, <<"a", "=", "true", "#">>, <<"7", "=", "127", "'a'">>,
     <<"a", "=", "128">>, <<"a", "=", "'">>, <<"b", "=">>,
     <<"b", "=", "[", "'a'", ",", "nl", "#", "]", "nl", "'a'", "]">>,
     <<"a", "=", "[", "7", ",", "127", ",", "]", "#", "a">>,
     <<"a", "=", "[", "7", ",", "'a'", "]">>, <<"b", "=", "[", "7">>, <<"b", "=", "[", ",", "]">>}
Conf ==
    INSTANCE Toml WITH
        Lines <- TomlLines, Words <- {"a", "b"}, Quoted <- "'a'" :> "a", Open <- "'",
        Digits <- "7" :> <<7>> @@ "127" :> <<1, 2, 7>> @@ "128" :> <<1, 2, 8>>, LongMax <- 127,
        FirstCap <- 1, MaxLines <- 3, MaxFail <- 9, out <- answer

Token(n) == [num |-> n]       \* a number, or one of Addresses' Colon (-1) and Dot (-2)
Inet ==
    INSTANCE Addresses WITH
        Words <- {0, 1, 65535}, Tokens <- {Token(1), Token(300), Token(-1), Token(-2)}, MaxText <- 7,
        out <- answer

AllocatorUses == {"heap", "heapReused", "heapShared", "arena"}
A(s) ==
    INSTANCE Allocators WITH
        Use <- IF s = "arena" THEN "arena" ELSE "heap", Threads <- {"t1", "t2"}, PerBlock <- 2,
        Magazine <- 2, Reuse <- s = "heapReused", Shared <- s = "heapShared", ZeroFirst <- FALSE,
        Capacity <- 6, MaxSlabs <- IF s \in {"heap", "arena"} THEN 2 ELSE 1,
        MaxLives <- 2, MaxBlocks <- 4, heap <- slabs

ReplicaUses == {"orset", "orsetAgain", "events", "merkle"}
Rep(s) ==
    INSTANCE Replicas WITH
        Use <- IF s = "orsetAgain" THEN "orset" ELSE s, Replicas <- {1, 2},
        Elems <- CASE s = "merkle" -> {"a", "b", "c", "d"} [] s = "orsetAgain" -> {"a"} [] OTHER -> {"a", "b"},
        Dup <- s = "orsetAgain", MaxOps <- 3, Skips <- 1, MaxDots <- 4, MaxEntries <- 3, MaxOver <- 4,
        Walls <- {1, 2}, LogicalMod <- 9, Depth <- 2,
        Stamp <- IF s = "merkle" THEN "a" :> 1 @@ "b" :> 4 @@ "c" :> 5 @@ "d" :> 9
                 ELSE "a" :> 1 @@ "b" :> 4,
        TsMin <- 0, TsMax <- 7, sent <- sentTo

LockUses == {"ordered", "orderedFatal", "sameLevel", "tracked", "deadlock"}
TwoMutexes == {"orderedFatal", "sameLevel", "deadlock"}
Lk(s) ==
    INSTANCE Locks WITH
        Threads <- {"t1", "t2"},
        Mutexes <- IF s \in TwoMutexes THEN {"m1", "m2"} ELSE {"m1"},
        RwLocks <- IF s \in TwoMutexes THEN {} ELSE {"r1"},
        Level <- IF s \in TwoMutexes THEN "m1" :> 10 @@ "m2" :> (IF s = "sameLevel" THEN 10 ELSE 20)
                 ELSE "m1" :> 10 @@ "r1" :> 20,
        Style <- IF s \in {"orderedFatal", "sameLevel"} THEN "ordered" ELSE s, Windows <- TRUE,
        Fatal <- s = "orderedFatal", MaxHeld <- 2, MaxNest <- 2, pc <- lpc

ASSUME
    /\ \A s \in TableUses : Tab(s)!TablesAssumption
    /\ \A s \in TreeUses : Tree(s)!TreesAssumption
    /\ \A s \in TrieUses : Trie(s)!TriesAssumption
    /\ \A s \in AllocatorUses : A(s)!AllocatorsAssumption
    /\ \A s \in ReplicaUses : Rep(s)!ReplicasAssumption
    /\ \A s \in LockUses : Lk(s)!LocksAssumption
    /\ \A s \in ArrayUses : Arr(s)!ContainersAssumption
    /\ \A s \in TextUses : T(s)!TextAssumption
    /\ \A s \in MemberUses : M(s)!MembersAssumption
    /\ Conf!TomlAssumption
    /\ Inet!AddressesAssumption /\ G!GraphAssumption

allocVars == <<slabs, mags, own, words, arena>>
lockVars == <<lock, exclusive, holder, levels, lpc, reports, named, dead>>
structureVars == <<rep, fed, answer, sentTo, seen, allocVars, lockVars>>

Structures ==
    TableUses \cup TreeUses \cup TrieUses \cup ArrayUses \cup TextUses \cup MemberUses
        \cup {"graph", "toml", "inet"} \cup AllocatorUses \cup ReplicaUses \cup LockUses
InStructure == scenario \in Structures

(* The variables of the components that a behaviour is not about.                              *)
NoAlloc == slabs = Absent /\ mags = Absent /\ own = Absent /\ words = Absent /\ arena = Absent
NoLock ==
    /\ lock = Absent /\ exclusive = Absent /\ holder = Absent /\ levels = Absent
    /\ lpc = Absent /\ reports = Absent /\ named = Absent /\ dead = Absent
NoSeen == sentTo = Absent /\ seen = Absent
NoContainer == rep = Absent /\ fed = Absent /\ answer = Absent /\ NoSeen
NoStructure == NoContainer /\ NoAlloc /\ NoLock

StructuresInit ==
    \/ /\ NoAlloc /\ NoLock
       /\ \/ \E s \in TableUses : In(s) /\ Tab(s)!Init /\ NoSeen
          \/ \E s \in TreeUses : In(s) /\ Tree(s)!Init /\ NoSeen
          \/ \E s \in TrieUses : In(s) /\ Trie(s)!Init /\ NoSeen
          \/ \E s \in ArrayUses : In(s) /\ Arr(s)!Init /\ NoSeen
          \/ In("graph") /\ G!GraphInit /\ NoSeen
          \/ \E s \in TextUses : In(s) /\ T(s)!Init /\ fed = Absent /\ answer = Absent /\ NoSeen
          \/ \E s \in MemberUses : In(s) /\ M(s)!Init /\ answer = Absent /\ NoSeen
          \/ In("toml") /\ Conf!Init /\ NoSeen
          \/ In("inet") /\ Inet!Init /\ fed = Absent /\ NoSeen
          \/ \E s \in ReplicaUses : In(s) /\ Rep(s)!Init /\ fed = Absent /\ answer = Absent
    \/ \E s \in AllocatorUses : In(s) /\ A(s)!Init /\ NoContainer /\ NoLock
    \/ \E s \in LockUses : In(s) /\ Lk(s)!Init /\ NoContainer /\ NoAlloc

(* A step of one component leaves the variables of the others alone.                            *)
Others == <<allocVars, lockVars>>
containerVars == <<rep, fed, answer, sentTo, seen>>
InContainer(s) == In(s) /\ UNCHANGED <<sentTo, seen, Others>>
InText(s) == In(s) /\ UNCHANGED <<fed, answer, sentTo, seen, Others>>
InMembers(s) == In(s) /\ UNCHANGED <<answer, sentTo, seen, Others>>
InInet == In("inet") /\ UNCHANGED <<fed, sentTo, seen, Others>>
InReplicas(s) == In(s) /\ UNCHANGED <<fed, answer, Others>>
InAlloc(s) == In(s) /\ UNCHANGED <<containerVars, lockVars>>
InLock(s) == In(s) /\ UNCHANGED <<containerVars, allocVars>>

StructuresNext ==
    /\ InStructure
    /\ \/ \E s \in TableUses : InContainer(s) /\ Tab(s)!Next
       \/ \E s \in TreeUses : InContainer(s) /\ Tree(s)!Next
       \/ \E s \in TrieUses : InContainer(s) /\ Trie(s)!Next
       \/ \E s \in ArrayUses : InContainer(s) /\ Arr(s)!Next
       \/ InContainer("graph") /\ G!GraphNext
       \/ \E s \in TextUses : InText(s) /\ T(s)!Next
       \/ \E s \in MemberUses : InMembers(s) /\ M(s)!Next
       \/ InContainer("toml") /\ Conf!Next
       \/ InInet /\ Inet!Next
       \/ \E s \in ReplicaUses : InReplicas(s) /\ Rep(s)!Next
       \/ \E s \in AllocatorUses : InAlloc(s) /\ A(s)!Next
       \/ \E s \in LockUses : InLock(s) /\ Lk(s)!Next

(* Threads run on and a timed wait ends (the fairness of Locks' FairSpec); a behaviour stays in         *)
(* one scenario.                                                                            *)
ThreadRuns(t) ==
    InLock("deadlock") /\ (Lk("deadlock")!op_rwlock_locked(t) \/ Lk("deadlock")!Locked(t)
                           \/ Lk("deadlock")!op_rwlock_unlock(t))
TimedWaitEnds(t) ==
    InLock("deadlock") /\ (Lk("deadlock")!Acquire(t) \/ Lk("deadlock")!_op_lock_deadlock_die(t))

StructuresFair ==
    \A t \in {"t1", "t2"} : WF_structureVars(ThreadRuns(t)) /\ WF_structureVars(TimedWaitEnds(t))

-----------------------------------------------------------------------------
(* The properties of the components, each where it holds.                                     *)

(* Every query answers as a map of what was set and not deleted would, whatever the insertions,         *)
(* deletions, rotations and rehashes before it: op_htab, op_lru, op_str_intern, op_rbt,               *)
(* op_skiplist, op_itree, op_trie, op_cidr; the balanced trees stay balanced; op_pqueue, op_deque        *)
(* and op_vec hold what they were given, op_graph_shortest_path and the searches answer as the graph        *)
(* its user built does; op_dlink lists, op_bs sets, op_bloom filters and op_hll registers hold their    *)
(* members; utf8_decode_one, the vector scans, op_string_to_array, the string functions and base64      *)
(* answer as their definitions do, op_toml_parse as the text's lines say; and an address that           *)
(* op_inet_ntop_sock wrote op_inet_pton_sock reads back, the parsers accepting nothing else.            *)
AnswersExact ==
    InStructure =>
        /\ \A s \in TableUses : In(s) => Tab(s)!TypeOK /\ Tab(s)!LookupsExact
        /\ \A s \in TreeUses : In(s) => Tree(s)!TypeOK /\ Tree(s)!OrderedExact /\ Tree(s)!Balanced
        /\ \A s \in TrieUses : In(s) => Trie(s)!TypeOK /\ Trie(s)!TriesExact
        /\ \A s \in ArrayUses : In(s) => Arr(s)!TypeOK /\ Arr(s)!ContainersExact
        /\ In("graph") => G!GraphExact
        /\ \A s \in TextUses : In(s) => T(s)!TextExact
        /\ \A s \in MemberUses : In(s) => M(s)!MembersExact
        /\ In("toml") => Conf!TypeOK /\ Conf!TomlExact
        /\ In("inet") => Inet!RoundTrip /\ Inet!ParsersExact

(* An element of the block allocator has one owner: the free list, a thread's magazine or a user         *)
(* (op_bh_alloc, op_bh_free, mag_flush_locked), and none comes from a destroyed heap; the blocks of       *)
(* an arena are apart; no key that the LRU cache's table compares with has been given to evict_cb; a        *)
(* parser of TOML that fails has freed all it allocated (free_table).                                *)
MemoryOwned ==
    InStructure =>
        /\ \A s \in AllocatorUses : In(s) => /\ A(s)!TypeOK /\ A(s)!OneOwner /\ A(s)!NothingStale
                                             /\ A(s)!BlocksApart
        /\ In("lruFrees") => Tab("lruFrees")!KeysAlive
        /\ In("toml") => Conf!NothingLeaks


(* op_rwlock_unlock releases what the thread holds, a deadlock of ordered locks was reported before          *)
(* it happens (_op_lock_check_order), and the recorded holder holds the lock (OP_UNLOCK).                *)
LocksSound ==
    \A s \in LockUses \cap {scenario} :
        Lk(s)!TypeOK /\ Lk(s)!UnlockMatches /\ Lk(s)!DeadlockReported /\ Lk(s)!HolderTrue

(* A thread that waits for a mutex with OP_MUTEX_LOCK_DEADLOCK.                                *)
LockWaits(t) == In("deadlock") /\ lpc[t].at = "wait" /\ ~dead
-----------------------------------------------------------------------------
(* The queues. *)

CONSTANTS Unused, p1, p2, c1, c2, i3, w2

VARIABLES
    head, tail, ppc, cpc,                                  \* of more than one
    seq, data, pc, pos, sq, item, unpushed, order, got,     \* of Mpmc
    cells, ph, ct, citem, pushed, popped,                   \* of Spsc
    len, body, prod, cons, todo, calls, pp, n, copy, in, out

Mpmc ==
    INSTANCE Mpmc WITH
        Items <- 1 .. 4, Producers <- {p1}, Consumers <- {c1, c2}, Capacity <- 2, NULL <- 0, fresh <- unpushed

MpmcFair ==
    INSTANCE Mpmc WITH
        Items <- 1 .. 4, Producers <- {p1, p2}, Consumers <- {c1}, Capacity <- 2, NULL <- 0, fresh <- unpushed

Spsc == INSTANCE Spsc WITH Capacity <- 4, Modulus <- 8, Ringbuf <- FALSE, MaxItems <- 12, NULL <- Unused, slots <- cells
Masked == INSTANCE Spsc WITH Capacity <- 4, Modulus <- 4, Ringbuf <- TRUE, MaxItems <- 12, NULL <- Unused, slots <- cells

Sizes == [short |-> 1, long |-> 2, longer |-> 3]
Mixed == <<"long", "short", "longer", "short", "long", "longer">>

Shm ==
    INSTANCE ShmRing WITH None <- Unused,
        SlotCount <- 4, Messages <- Mixed, Chunks <- Sizes, MaxPush <- 10, RoomFirst <- TRUE,
        Dies <- FALSE

ShmFull ==
    INSTANCE ShmRing WITH None <- Unused,
        SlotCount <- 4, Messages <- Mixed, Chunks <- Sizes, MaxPush <- 7, RoomFirst <- FALSE,
        Dies <- FALSE

ShmDies ==
    INSTANCE ShmRing WITH None <- Unused,
        SlotCount <- 2, Messages <- Mixed, Chunks <- Sizes, MaxPush <- 4, RoomFirst <- FALSE,
        Dies <- TRUE

ASSUME
    /\ Mpmc!MpmcAssumption /\ MpmcFair!MpmcAssumption
    /\ Spsc!SpscAssumption /\ Masked!SpscAssumption
    /\ Shm!ShmRingAssumption /\ ShmFull!ShmRingAssumption /\ ShmDies!ShmRingAssumption

mpmcOnly == <<seq, data, pc, pos, sq, item, unpushed, order, got>>
spscOnly == <<cells, ph, ct, citem, pushed, popped>>
shmOnly == <<len, body, prod, cons, todo, calls, pp, n, copy, in, out>>
ringVars == <<head, tail, ppc, cpc, mpmcOnly, spscOnly, shmOnly>>

(* The variables of the components that a behaviour is not about.                *)
NoMpmc ==
    /\ seq = Unused /\ data = Unused /\ pc = Unused /\ pos = Unused /\ sq = Unused
    /\ item = Unused /\ unpushed = Unused /\ order = Unused /\ got = Unused

NoSpsc ==
    /\ cells = Unused /\ ph = Unused /\ ct = Unused /\ citem = Unused /\ pushed = Unused /\ popped = Unused

NoShm ==
    /\ len = Unused /\ body = Unused /\ prod = Unused /\ cons = Unused /\ todo = Unused /\ calls = Unused
    /\ pp = Unused /\ n = Unused /\ copy = Unused /\ in = Unused /\ out = Unused

RingInit ==
    \/ /\ NoSpsc /\ NoShm /\ ppc = Unused /\ cpc = Unused
       /\ \/ In("mpmc") /\ Mpmc!Init
          \/ In("mpmcFair") /\ MpmcFair!Init
    \/ /\ NoMpmc /\ NoShm
       /\ \/ In("spsc") /\ Spsc!Init
          \/ In("ringbuf") /\ Masked!Init
    \/ /\ NoMpmc /\ NoSpsc /\ head = Unused /\ tail = Unused
       /\ \/ In("shm") /\ Shm!Init
          \/ In("shmFull") /\ ShmFull!Init
          \/ In("shmDies") /\ ShmDies!Init

NoRing ==
    /\ NoMpmc /\ NoSpsc /\ NoShm
    /\ head = Unused /\ tail = Unused /\ ppc = Unused /\ cpc = Unused

(* In the other behaviours the work-stealing deque stays as it was created.       *)
MCInit ==
    /\ Init
    /\ \/ NoStructure /\ RingInit
       \/ StructuresInit /\ NoRing
       \/ scenario \in {"dequeGrows", "dequeRace"} /\ NoStructure /\ NoRing

MpmcNext ==
    /\ \/ In("mpmc") /\ Mpmc!Next
       \/ In("mpmcFair") /\ MpmcFair!Next
    /\ UNCHANGED <<ppc, cpc, spscOnly, shmOnly>>

SpscNext ==
    /\ \/ In("spsc") /\ Spsc!Next
       \/ In("ringbuf") /\ Masked!Next
    /\ UNCHANGED <<mpmcOnly, shmOnly>>

ShmNext ==
    /\ \/ In("shm") /\ Shm!Next
       \/ In("shmFull") /\ ShmFull!Next
       \/ In("shmDies") /\ ShmDies!Next
    /\ UNCHANGED <<head, tail, mpmcOnly, spscOnly>>

(* Bounds: one thief does not steal, or one item is not pushed.                  *)
DequeNext ==
    /\ Next
    /\ \/ In("dequeGrows") /\ tpc'[w2] = tpc[w2]
       \/ In("dequeRace") /\ i3 \in fresh'

MCNext ==
    /\ \/ (MpmcNext \/ SpscNext \/ ShmNext) /\ UNCHANGED <<structureVars, vars>>
       \/ StructuresNext /\ UNCHANGED <<ringVars, vars>>
       \/ DequeNext /\ UNCHANGED <<structureVars, ringVars>>
    /\ UNCHANGED scenario

mpmcVars == <<head, tail, mpmcOnly>>
shmVars == <<ppc, cpc, shmOnly>>

(* The fairness of WorkDeque's Spec, of Mpmc's and of ShmRing's LiveSpec, and of    *)
(* the structures.                                                              *)
MCSpec ==
    /\ MCInit /\ [][MCNext]_<<scenario, ringVars, structureVars, vars>> /\ StructuresFair
    /\ WF_vars(scenario \in {"dequeGrows", "dequeRace"} /\ (deque_push \/ deque_pop))
    /\ \A p \in {p1, p2} : WF_mpmcVars(In("mpmcFair") /\ MpmcFair!op_mpmc_push(p))
    /\ WF_mpmcVars(In("mpmcFair") /\ MpmcFair!op_mpmc_pop(c1))
    /\ WF_shmVars(In("shm") /\ Shm!op_shm_ring_push)
    /\ WF_shmVars(In("shm") /\ Shm!op_shm_ring_pop)

-----------------------------------------------------------------------------
(* The properties of Mpmc, Spsc and ShmRing, each where it holds; those of the      *)
(* work-stealing deque are WorkDeque's own.                                      *)

(* What is read at a position of the MPMC queue is what was claimed for it       *)
(* (op_mpmc_push, op_mpmc_pop); items come out of op_spsc and op_ringbuf in the   *)
(* order they went in, each once; the consumer process reads whole slots in the   *)
(* order they were published (op_shm_ring_push, op_shm_ring_pop), also when either   *)
(* process dies between two stores and is replaced, and they make up whole         *)
(* messages when the producer lives and waits for room.                          *)
Fifo ==
    /\ In("mpmc") => Mpmc!FifoByPosition
    /\ In("mpmcFair") => MpmcFair!FifoByPosition
    /\ In("spsc") => Spsc!Fifo
    /\ In("ringbuf") => Masked!Fifo
    /\ In("shm") => Shm!InOrder /\ Shm!MessagesWhole
    /\ In("shmFull") => ShmFull!InOrder
    /\ In("shmDies") => ShmDies!InOrder

(* A slot in use belongs to one thread or process and what it holds is intact     *)
(* until it has been read (op_mpmc_push, op_spsc_push, op_ringbuf_push,          *)
(* op_shm_ring_push), the rings running full included; a push to op_spsc or        *)
(* op_ringbuf is refused at exactly the capacity, a pop at exactly none, across    *)
(* the wrap of the cursors.                                                     *)
SlotsIntact ==
    /\ In("mpmc") => Mpmc!TypeOK /\ Mpmc!SlotsExclusive
    /\ In("mpmcFair") => MpmcFair!SlotsExclusive
    /\ In("spsc") => Spsc!TypeOK /\ Spsc!InFlightIntact /\ Spsc!RefusalExact
    /\ In("ringbuf") => Masked!TypeOK /\ Masked!InFlightIntact /\ Masked!RefusalExact
    /\ In("shm") => Shm!TypeOK /\ Shm!SlotHandshake
    /\ In("shmFull") => ShmFull!SlotHandshake
    /\ In("shmDies") => ShmDies!TypeOK /\ ShmDies!SlotHandshake

(* op_mpmc_pop finds the queue empty, and op_mpmc_push finds it full, only if it   *)
(* is, or an operation of the other side is under way.                          *)
RefusalHonest ==
    [][/\ In("mpmc") => Mpmc!FullHonest(p1) /\ \A c \in {c1, c2} : Mpmc!EmptyHonest(c)
       /\ In("mpmcFair") => MpmcFair!EmptyHonest(c1) /\ \A p \in {p1, p2} : MpmcFair!FullHonest(p)]_mpmcVars

(* A state in which something is under way that has to end.                     *)
Pending ==
    \/ In("mpmcFair") /\ \E i \in 1 .. 4 : MpmcFair!Unpopped(i)
    \/ In("shm") /\ Shm!Unreceived
    \/ LockWaits("t1")

(* Every item claimed in op_mpmc_push is popped in the end, every message sent      *)
(* through the shared-memory ring gets through, and no wait for a mutex with        *)
(* OP_MUTEX_LOCK_DEADLOCK is for ever.  The threads are interchangeable, and the     *)
(* items few: none is pushed again.                                             *)
EverythingArrives == []<>~Pending
=============================================================================
