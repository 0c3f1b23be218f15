------------------------------- MODULE Tables -------------------------------
(***************************************************************************)
(* The open-addressing hash table (src/htab.c) with Robin Hood probing and          *)
(* backward-shift deletion, and the two structures built on it: the LRU cache        *)
(* (src/lru.c) and the string interner (src/str_intern.c).                       *)
(*                                                                          *)
(* A key is a pair <<string, copy>>: the pointer the caller passed. Tables           *)
(* compare the strings; who owns the copy is what the LRU property is about.      *)
(***************************************************************************)
EXTENDS Integers, FiniteSets, Sequences, SequencesExt, FiniteSetsExt

CONSTANTS
    Use,       \* "map", "lru" or "intern"
    Strings,   \* key strings
    Hash,      \* [Strings -> Nat]: hash_fn
    Vals,      \* values
    MinCap,    \* next_pow2's minimum (16 in the code)
    Merges,    \* the conflict_cb arguments op_htab_merge is called with: "cb", "null"
    Capacity,  \* of the LRU cache
    FreesKey,  \* does evict_cb free the key too, as in op_lru.h's usage example?
    MaxRefs    \* bound: outstanding op_str_intern_get calls per string

(* What the constants have to satisfy.                                      *)
TablesAssumption ==
    /\ Use \in {"map", "lru", "intern"} /\ Hash \in [Strings -> Nat] /\ FreesKey \in BOOLEAN
    /\ MinCap \in {2, 4, 8, 16} /\ Merges \subseteq {"cb", "null"} /\ Capacity \in Nat \ {0}

VARIABLES
    rep,   \* the structure
    fed,   \* what its user may expect of it
    out    \* map: the iteration in progress; lru: key copies that are allocated

vars == <<rep, fed, out>>

None == 0            \* NULL; values are not 0
Empty == [hash |-> 0, key |-> <<>>, val |-> None]
Copies == 1..2
Keys == Strings \X Copies
StrOf(k) == k[1]

-----------------------------------------------------------------------------
(* The hash table.                                                          *)

fix_hash(h) == IF h = 0 THEN 1 ELSE h
HashOf(k) == fix_hash(Hash[StrOf(k)])
NewSlots(cap) == [i \in 0..cap - 1 |-> Empty]
CapOf(slots) == Cardinality(DOMAIN slots)
next_pow2(n) == CHOOSE c \in {MinCap * 2^e : e \in 0..4} :
                    c >= n /\ (c = MinCap \/ c \div 2 < n)

(* dib: distance of slot i from the ideal bucket of hash h.                   *)
dib(slots, i, h) == (i - h) % CapOf(slots)

(* htab_find_idx (and htab_lookup): the first slot of the probe that ends it.     *)
htab_find_idx(slots, k) ==
    LET h == HashOf(k)
        at(d) == (h + d) % CapOf(slots)
        hit(d) == slots[at(d)].hash = h /\ StrOf(slots[at(d)].key) = StrOf(k)
        ends(d) == \/ slots[at(d)].hash = 0
                   \/ dib(slots, at(d), slots[at(d)].hash) < d
                   \/ hit(d)
        d == Min({x \in DOMAIN slots : ends(x)})
    IN  IF slots[at(d)].hash # 0 /\ hit(d) THEN {at(d)} ELSE {}

(* htab_insert_slot: the entry further from its bucket takes the slot.         *)
RECURSIVE htab_insert_slot(_, _, _, _)
htab_insert_slot(slots, e, i, dist) ==
    LET sitting == dib(slots, i, slots[i].hash)
        j == (i + 1) % CapOf(slots)
    IN  IF slots[i].hash = 0 THEN [slots EXCEPT ![i] = e]
        ELSE IF sitting < dist
             THEN htab_insert_slot([slots EXCEPT ![i] = e], slots[i], j, sitting + 1)
             ELSE htab_insert_slot(slots, e, j, dist + 1)

Insert(slots, e) == htab_insert_slot(slots, e, e.hash % CapOf(slots), 0)

(* A bug for comparison: a hole is left where the entry was.                  *)
DelLeavesHole(slots, i) == [slots EXCEPT ![i] = Empty]

(* htab_del_at: the entries behind move back until one is where it belongs.     *)
htab_del_at(slots, i) ==
    LET cap == CapOf(slots)
        at(n) == (i + n) % cap
        stop(n) == slots[at(n)].hash = 0 \/ dib(slots, at(n), slots[at(n)].hash) = 0
        last == Min({n \in 1..cap : stop(n)}) - 1
    IN  [s \in DOMAIN slots |->
            IF (s - i) % cap < last THEN slots[(s + 1) % cap]
            ELSE IF (s - i) % cap = last THEN Empty ELSE slots[s]]

htab_resize(slots, cap) ==
    FoldLeft(LAMBDA acc, i : IF slots[i - 1].hash = 0 THEN acc ELSE Insert(acc, slots[i - 1]),
             NewSlots(cap), [i \in 1..CapOf(slots) |-> i])

htab_maybe_grow(t) ==
    LET cap == CapOf(t.slots)
    IN  IF t.count * 4 >= cap * 3 THEN htab_resize(t.slots, cap * 2) ELSE t.slots

(* op_htab_set: the table afterwards; an update keeps the stored key.         *)
op_htab_set(t, k, v) ==
    LET found == htab_find_idx(t.slots, k)
    IN  IF found # {} THEN [t EXCEPT !.slots[CHOOSE i \in found : TRUE].val = v]
        ELSE [slots |-> Insert(htab_maybe_grow(t), [hash |-> HashOf(k), key |-> k, val |-> v]),
              count |-> t.count + 1]

op_htab_get(t, k) ==
    LET found == htab_find_idx(t.slots, k)
    IN  IF found = {} THEN None ELSE t.slots[CHOOSE i \in found : TRUE].val

op_htab_get_or_set(t, k, v) == IF op_htab_get(t, k) # None THEN t ELSE op_htab_set(t, k, v)

op_htab_del(t, k) ==
    LET found == htab_find_idx(t.slots, k)
    IN  IF found = {} THEN t
        ELSE [slots |-> htab_del_at(t.slots, CHOOSE i \in found : TRUE), count |-> t.count - 1]

op_htab_compact(t) ==
    LET cap == next_pow2(t.count * 2 + 1)
    IN  IF cap < CapOf(t.slots) THEN [t EXCEPT !.slots = htab_resize(t.slots, cap)] ELSE t

(* op_htab_merge: every entry of src is set in dst; only with a conflict_cb is the  *)
(* displaced value put back.                                                *)
op_htab_merge(dst, src, cb) ==
    FoldLeft(LAMBDA t, i :
                LET s == src.slots[i - 1]
                    old == op_htab_get(t, s.key)
                    set == op_htab_set(t, s.key, s.val)
                IN  IF s.hash = 0 THEN t
                    ELSE IF old # None /\ cb = "cb" THEN op_htab_set(set, s.key, old) ELSE set,
             dst, [i \in 1..CapOf(src.slots) |-> i])

op_htab_create == [slots |-> NewSlots(MinCap), count |-> 0]
TableOf(f) == FoldSet(LAMBDA s, t : op_htab_set(t, <<s, 1>>, f[s]), op_htab_create, DOMAIN f)
With(f, s, v) == [x \in DOMAIN f \cup {s} |-> IF x = s THEN v ELSE f[x]]
Without(f, s) == [x \in DOMAIN f \ {s} |-> f[x]]
NoIter == [idx |-> 0, cur |-> -1, on |-> FALSE, left |-> {}]

-----------------------------------------------------------------------------
(* The table as a map, with an iteration that may delete.                    *)

MapInit == rep = op_htab_create /\ fed = [s \in {} |-> None] /\ out = NoIter

Changes(t, f) == rep' = t /\ fed' = f /\ out' = NoIter

MapSet(k, v) == Changes(op_htab_set(rep, k, v), With(fed, StrOf(k), v))
MapDel(k) == Changes(op_htab_del(rep, k), Without(fed, StrOf(k)))
MapGetOrSet(k, v) == /\ StrOf(k) \notin DOMAIN fed
                     /\ Changes(op_htab_get_or_set(rep, k, v), With(fed, StrOf(k), v))
MapCompact == Changes(op_htab_compact(rep), fed)

(* With a conflict_cb the value dst had stays; without one src's replaces it, though      *)
(* op_htab.h:217-220 and the comment at htab.c:646 say that dst wins then too.              *)
MapMerge(f, cb) ==
    LET stays(s) == s \in DOMAIN fed /\ (cb = "cb" \/ s \notin DOMAIN f)
    IN  Changes(op_htab_merge(rep, TableOf(f), cb),
                [s \in DOMAIN fed \cup DOMAIN f |-> IF stays(s) THEN fed[s] ELSE f[s]])

op_htab_iter_init == ~out.on /\ out' = [NoIter EXCEPT !.on = TRUE, !.left = DOMAIN fed]
                             /\ UNCHANGED <<rep, fed>>

(* A live slot, or the end.                                                 *)
op_htab_iter_next ==
    /\ out.on
    /\ LET live == {i \in DOMAIN rep.slots : i >= out.idx /\ rep.slots[i].hash # 0}
       IN  IF live = {} THEN out' = [out EXCEPT !.on = FALSE, !.cur = -1]
           ELSE out' = [out EXCEPT !.idx = Min(live) + 1, !.cur = Min(live),
                                   !.left = @ \ {StrOf(rep.slots[Min(live)].key)}]
    /\ UNCHANGED <<rep, fed>>

(* The current entry is removed and its slot examined again.                 *)
op_htab_iter_del ==
    /\ out.on /\ out.cur # -1
    /\ rep' = [slots |-> htab_del_at(rep.slots, out.cur), count |-> rep.count - 1]
    /\ fed' = Without(fed, StrOf(rep.slots[out.cur].key))
    /\ out' = [out EXCEPT !.idx = out.cur, !.cur = -1]

MapNext ==
    \/ \E s \in Strings, v \in Vals : MapSet(<<s, 1>>, v) \/ MapGetOrSet(<<s, 1>>, v)
    \/ \E s \in Strings : MapDel(<<s, 1>>)
    \/ MapCompact \/ op_htab_iter_init \/ op_htab_iter_next \/ op_htab_iter_del
    \/ \E cb \in Merges, S \in SUBSET Strings, v \in Vals :
          Cardinality(S) <= 2 /\ MapMerge([s \in S |-> v], cb)

-----------------------------------------------------------------------------
(* The LRU cache: rep.list holds the entries, most recent first.              *)

LruInit == /\ rep = [ht |-> op_htab_create, list |-> <<>>]
           /\ fed = <<>> /\ out = {}

EntryAt(k) == SelectInSeq(rep.list, LAMBDA e : StrOf(e.key) = StrOf(k))
Freed(e) == IF FreesKey THEN {e.key} ELSE {}
FedWithout(s) == SelectSeq(fed, LAMBDA x : x # s)
ToFront(list, i, e) == <<e>> \o RemoveAt(list, i)

(* lru_evict_tail: unlink, take out of the table, then the callback.          *)
lru_evict_tail(c) ==
    [ht |-> op_htab_del(c.ht, Last(c.list).key), list |-> Front(c.list)]

op_lru_get(k) ==
    /\ EntryAt(k) > 0 /\ op_htab_get(rep.ht, k) # None
    /\ rep' = [rep EXCEPT !.list = ToFront(@, EntryAt(k), @[EntryAt(k)])]
    /\ fed' = <<StrOf(k)>> \o FedWithout(StrOf(k)) /\ UNCHANGED out

(* op_lru_set on a key that is cached: the callback gets the old pair, the entry    *)
(* gets the new key; the table's slot is not touched.                         *)
LruUpdate(k, v) ==
    /\ op_htab_get(rep.ht, k) # None /\ EntryAt(k) > 0
    /\ LET e == rep.list[EntryAt(k)]
       IN  /\ rep' = [rep EXCEPT !.list = ToFront(@, EntryAt(k), [key |-> k, val |-> v])]
           /\ out' = (out \cup {k}) \ (IF e.val # v THEN Freed(e) ELSE {})
    /\ fed' = <<StrOf(k)>> \o FedWithout(StrOf(k))

(* op_lru_set on a new key: evict first when full.                            *)
LruInsert(k, v) ==
    /\ op_htab_get(rep.ht, k) = None
    /\ LET full == Len(rep.list) >= Capacity
           c == IF full THEN lru_evict_tail(rep) ELSE rep
       IN  /\ rep' = [ht |-> op_htab_set(c.ht, k, 1),
                      list |-> <<[key |-> k, val |-> v]>> \o c.list]
           /\ out' = (IF full THEN out \ Freed(Last(rep.list)) ELSE out) \cup {k}
           /\ fed' = <<StrOf(k)>> \o (IF full THEN Front(fed) ELSE fed)

op_lru_delete(k) ==
    /\ op_htab_get(rep.ht, k) # None /\ EntryAt(k) > 0
    /\ rep' = [ht |-> op_htab_del(rep.ht, k), list |-> RemoveAt(rep.list, EntryAt(k))]
    /\ out' = out \ Freed(rep.list[EntryAt(k)]) /\ fed' = FedWithout(StrOf(k))

op_lru_flush ==
    /\ rep' = FoldLeft(LAMBDA c, e : lru_evict_tail(c), rep, rep.list)
    /\ out' = out \ UNION {Freed(e) : e \in Range(rep.list)} /\ fed' = <<>>

LruNext ==
    \/ \E s \in Strings : op_lru_get(<<s, 1>>) \/ op_lru_delete(<<s, 1>>)
    \* a user who frees keys passes a newly allocated one
    \/ \E k \in Keys, v \in Vals : (FreesKey => k \notin out) /\ (LruInsert(k, v) \/ LruUpdate(k, v))
    \/ op_lru_flush

-----------------------------------------------------------------------------
(* The interner: a table from a string to its reference count.                *)

InternInit == rep = [ht |-> op_htab_create, refs |-> 0, bytes |-> 0]
              /\ fed = [s \in Strings |-> 0] /\ out = {}

LenOf(s) == Hash[s]       \* any length will do

op_str_intern_get(s) ==
    /\ fed[s] < MaxRefs
    /\ LET n == op_htab_get(rep.ht, <<s, 1>>)
       IN  rep' = [ht |-> op_htab_set(rep.ht, <<s, 1>>, IF n = None THEN 1 ELSE n + 1),
                   refs |-> rep.refs + 1,
                   bytes |-> rep.bytes + (IF n = None THEN LenOf(s) ELSE 0)]
    /\ fed' = [fed EXCEPT ![s] = @ + 1] /\ UNCHANGED out

(* The last put takes the entry out of the table and frees it.                *)
op_str_intern_put(s) ==
    /\ fed[s] > 0
    /\ LET n == op_htab_get(rep.ht, <<s, 1>>)
       IN  IF n = None THEN UNCHANGED rep
           ELSE rep' = [ht |-> IF n = 1 THEN op_htab_del(rep.ht, <<s, 1>>)
                               ELSE op_htab_set(rep.ht, <<s, 1>>, n - 1),
                        refs |-> rep.refs - 1,
                        bytes |-> rep.bytes - (IF n = 1 THEN LenOf(s) ELSE 0)]
    /\ fed' = [fed EXCEPT ![s] = @ - 1] /\ UNCHANGED out

InternNext == \E s \in Strings : op_str_intern_get(s) \/ op_str_intern_put(s)

-----------------------------------------------------------------------------
Init == CASE Use = "map" -> MapInit [] Use = "lru" -> LruInit [] Use = "intern" -> InternInit

Next == \/ Use = "map" /\ MapNext
        \/ Use = "lru" /\ LruNext
        \/ Use = "intern" /\ InternNext

Spec == Init /\ [][Next]_vars

Table == IF Use = "map" THEN rep ELSE rep.ht

(* The type: an array whose capacity is a power of two with a free slot, and a       *)
(* count that is right.                                                      *)
TypeOK ==
    /\ CapOf(Table.slots) \in {MinCap * 2^e : e \in 0..4}
    /\ Table.count = Cardinality({i \in DOMAIN Table.slots : Table.slots[i].hash # 0})
    /\ Table.count < CapOf(Table.slots)

AllKeysAlive == \A i \in DOMAIN Table.slots : Table.slots[i].hash # 0 => Table.slots[i].key \in out

(* Whatever was inserted, displaced, shifted back or rehashed, a lookup finds         *)
(* exactly the entries set and not deleted, with their last value (of a merge without   *)
(* conflict_cb, src's); and an iteration that deletes as it goes has skipped nothing     *)
(* when it ends. A cache's answers are defined while its table compares with live keys.   *)
LookupsExact ==
    LET get(s) == op_htab_get(Table, <<s, 1>>)
    IN  CASE Use = "map" -> /\ \A s \in Strings :
                                  get(s) = IF s \in DOMAIN fed THEN fed[s] ELSE None
                            /\ (~out.on /\ out.idx > 0) => out.left = {}
          [] Use = "lru" -> AllKeysAlive =>
                            /\ [i \in DOMAIN rep.list |-> StrOf(rep.list[i].key)] = fed
                            /\ Len(fed) <= Capacity
                            /\ \A s \in Strings : (get(s) # None) <=> s \in Range(fed)
          [] Use = "intern" -> /\ \A s \in Strings : get(s) = IF fed[s] = 0 THEN None ELSE fed[s]
                               /\ rep.refs = MapThenSumSet(LAMBDA s : fed[s], Strings)
                               /\ rep.bytes = MapThenSumSet(LAMBDA s : IF fed[s] > 0 THEN LenOf(s) ELSE 0, Strings)

(* The keys a cache's table compares with are keys the evict callback has not been      *)
(* given to free (op_lru.h:17, "and for freeing them in the evict_cb"), but for one case:   *)
(* when op_lru_set replaces the value of a cached key, evict_cb gets the old key, the entry   *)
(* gets the new one and the table's slot keeps the old (lru.c:214-216).                   *)
KeysAlive ==
    Use = "lru" => \A i \in DOMAIN rep.ht.slots :
        LET k == rep.ht.slots[i].key
        IN  rep.ht.slots[i].hash # 0 =>
                \/ k \in out
                \/ \E e \in Range(rep.list) : StrOf(e.key) = StrOf(k) /\ e.key # k
=============================================================================
