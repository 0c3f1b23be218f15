----------------------------- MODULE Containers -----------------------------
(* The growing arrays of src/pqueue.c (a binary heap), src/deque.c (a ring), src/vec.c and             *)
(* src/strbuf.c (a string, whose characters are keys).                                          *)
(* The heap and the vector are sequences of what they hold, with a capacity; the ring is a             *)
(* sequence as long as its capacity, Junk where nothing was stored.  Elements are pairs               *)
(* <<key, id>>, compared by key and told apart by id, as pointers are.  A step is one call; fed        *)
(* is the set or sequence its user expects.                                                  *)
EXTENDS Integers, Sequences, SequencesExt, FiniteSets, FiniteSetsExt, Functions

CONSTANTS
    Use,       \* "pqueue", "deque", "vec" or "strbuf"
    Elems,     \* the elements, each held at most once
    DefCap,    \* PQ_DEFAULT_CAP, DEFAULT_CAP, VEC_DEFAULT_CAP (a power of two), OP_STRBUF_INLINE_CAP
    Hints,     \* the capacities asked for at creation or reserved
    MaxSize,   \* bound: elements held at once
    MaxCap     \* bound: capacity asked for

(* What the constants have to satisfy.                                      *)
ContainersAssumption ==
    /\ Use \in {"pqueue", "deque", "vec", "strbuf"} /\ Elems \subseteq Nat \X Nat /\ DefCap \in {1, 2, 4, 8, 16}
    /\ Hints \subseteq Nat /\ MaxSize \in Nat /\ MaxCap \in Nat

VARIABLES
    rep,   \* the structure
    fed,   \* what its user expects it to hold
    out    \* what the last call returned and what it should have returned

vars == <<rep, fed, out>>

None == <<>>
Junk == <<0>>
NoAnswer == <<None, None>>

Room(n) == [i \in 1..n |-> Junk]
Cropped(s, cap) == SubSeq(s, 1, Min({cap, Len(s)}))          \* what op_realloc keeps
Put(s, e, cap) == IF Len(s) < cap THEN Append(s, e) ELSE s    \* a store past the end is lost
Keys == {e[1] : e \in Elems}
New == Elems \ Range(fed)

-----------------------------------------------------------------------------
(* The binary heap: rep = [heap, cap], positions from 1 as in the code.                 *)

pq_swap(h, a, b) == [h EXCEPT ![a] = h[b], ![b] = h[a]]
Before(h, a, b) == h[a][1] < h[b][1]

RECURSIVE pq_sift_up(_, _)
pq_sift_up(h, i) ==
    IF i > 1 /\ Before(h, i, i \div 2) THEN pq_sift_up(pq_swap(h, i, i \div 2), i \div 2) ELSE h

RECURSIVE pq_sift_down(_, _)
pq_sift_down(h, i) ==
    LET a == IF 2 * i <= Len(h) /\ Before(h, 2 * i, i) THEN 2 * i ELSE i
        smallest == IF 2 * i + 1 <= Len(h) /\ Before(h, 2 * i + 1, a) THEN 2 * i + 1 ELSE a
    IN  IF smallest = i THEN h ELSE pq_sift_down(pq_swap(h, i, smallest), smallest)

op_pqueue_create(initial) == [heap |-> <<>>, cap |-> IF initial > 0 THEN initial ELSE DefCap]

pq_resize(q, cap) == [heap |-> Cropped(q.heap, cap), cap |-> cap]

op_pqueue_push(q0, e) ==
    LET q == IF Len(q0.heap) >= q0.cap THEN pq_resize(q0, Max({2 * q0.cap, DefCap})) ELSE q0
        put == Put(q.heap, e, q.cap)
    IN  [q EXCEPT !.heap = pq_sift_up(put, Len(put))]

(* The last element takes the place of element i.                              *)
Moved(h, i) == Front([h EXCEPT ![i] = Last(h)])

op_pqueue_pop(q) ==
    IF q.heap = <<>> THEN [q |-> q, top |-> None]
    ELSE LET h == Moved(q.heap, 1)
             sifted == [q EXCEPT !.heap = IF h = <<>> THEN h ELSE pq_sift_down(h, 1)]
             n == Len(h)
         IN  [q |-> IF n > 0 /\ n <= q.cap \div 4 /\ q.cap > DefCap THEN pq_resize(sifted, q.cap \div 2) ELSE sifted,
              top |-> q.heap[1]]

(* The element is looked for by its address.                                  *)
op_pqueue_remove(q, e) ==
    LET at == {i \in DOMAIN q.heap : q.heap[i] = e}
        i == Min(at)
        h == Moved(q.heap, i)
    IN  IF at = {} THEN q
        ELSE [q EXCEPT !.heap = IF i <= Len(h) THEN pq_sift_down(pq_sift_up(h, i), i) ELSE h]

op_pqueue_peek(q) == IF q.heap # <<>> THEN q.heap[1] ELSE None
op_pqueue_foreach(q) == q.heap
op_pqueue_empty(q) == q.heap = <<>>

PqInit == \E n \in Hints : rep = op_pqueue_create(n) /\ fed = {} /\ out = <<TRUE, TRUE>>

PqNext ==
    \/ /\ Cardinality(fed) < MaxSize
       /\ \E e \in Elems \ fed : rep' = op_pqueue_push(rep, e) /\ fed' = fed \cup {e} /\ out' = <<TRUE, TRUE>>
    \/ LET p == op_pqueue_pop(rep)
       IN  rep' = p.q /\ out' = <<p.top # None, fed # {}>> /\ fed' = fed \ {p.top}
    \/ \E e \in Elems : rep' = op_pqueue_remove(rep, e) /\ fed' = fed \ {e} /\ out' = <<TRUE, TRUE>>

-----------------------------------------------------------------------------
(* The ring: rep = [slots, head, size], slots[1..cap] for indexes 0..cap-1.             *)

next_pow2(n) == Min({DefCap * 2^e : e \in {x \in 0..8 : DefCap * 2^x >= n}})
Cap(d) == Len(d.slots)
slot(d, i) == (d.head + i) % Cap(d)
At(d, i) == d.slots[slot(d, i) + 1]
Linear(d, cap) == [i \in 1..cap |-> IF i <= d.size THEN At(d, i - 1) ELSE Junk]

deque_grow(d) == [d EXCEPT !.slots = Linear(d, 2 * Cap(d)), !.head = 0]

op_deque_init(hint) == [slots |-> Room(next_pow2(hint)), head |-> 0, size |-> 0]
Grown(d) == IF d.size = Cap(d) THEN deque_grow(d) ELSE d

op_deque_push_back(d0, e) ==
    LET d == Grown(d0) IN [d EXCEPT !.slots[slot(d, d.size) + 1] = e, !.size = @ + 1]

op_deque_push_front(d0, e) ==
    LET d == Grown(d0)
        h == (d.head - 1) % Cap(d)
    IN  [d EXCEPT !.head = h, !.slots[h + 1] = e, !.size = @ + 1]

op_deque_pop_back(d) ==
    IF d.size = 0 THEN [d |-> d, item |-> None]
    ELSE [d |-> [d EXCEPT !.size = @ - 1], item |-> At(d, d.size - 1)]

op_deque_pop_front(d) ==
    IF d.size = 0 THEN [d |-> d, item |-> None]
    ELSE [d |-> [d EXCEPT !.head = (@ + 1) % Cap(d), !.size = @ - 1], item |-> At(d, 0)]

op_deque_front(d) == IF d.size > 0 THEN At(d, 0) ELSE None
op_deque_back(d) == IF d.size > 0 THEN At(d, d.size - 1) ELSE None
op_deque_at(d, i) == IF i >= d.size THEN None ELSE At(d, i)
op_deque_set(d, i, e) == IF i >= d.size THEN d ELSE [d EXCEPT !.slots[slot(d, i) + 1] = e]
op_deque_clear(d) == [d EXCEPT !.head = 0, !.size = 0]

op_deque_reserve(d, n) ==
    IF n <= Cap(d) THEN d ELSE [d EXCEPT !.slots = Linear(d, next_pow2(n)), !.head = 0]

op_deque_foreach(d) == [i \in 1..d.size |-> At(d, i - 1)]

DequeInit == \E n \in Hints : rep = op_deque_init(n) /\ fed = <<>> /\ out = NoAnswer

DequeNext ==
    \/ /\ Len(fed) < MaxSize /\ out' = NoAnswer
       /\ \E e \in New : \/ rep' = op_deque_push_back(rep, e) /\ fed' = Append(fed, e)
                         \/ rep' = op_deque_push_front(rep, e) /\ fed' = <<e>> \o fed
    \/ LET p == op_deque_pop_back(rep)
       IN  /\ rep' = p.d /\ out' = <<p.item, IF fed = <<>> THEN None ELSE Last(fed)>>
           /\ fed' = SubSeq(fed, 1, Len(fed) - 1)
    \/ LET p == op_deque_pop_front(rep)
       IN  /\ rep' = p.d /\ out' = <<p.item, IF fed = <<>> THEN None ELSE Head(fed)>>
           /\ fed' = SubSeq(fed, 2, Len(fed))
    \/ \E i \in DOMAIN fed, e \in New :
           /\ rep' = op_deque_set(rep, i - 1, e) /\ fed' = [fed EXCEPT ![i] = e] /\ out' = NoAnswer
    \/ \E n \in Hints : /\ Cap(rep) < n /\ n <= MaxCap /\ rep' = op_deque_reserve(rep, n)
                        /\ out' = NoAnswer /\ UNCHANGED fed
    \/ rep' = op_deque_clear(rep) /\ fed' = <<>> /\ out' = NoAnswer

-----------------------------------------------------------------------------
(* The vector: rep = [data, cap]; indexes from 1.                            *)

vec_resize(v, cap) == [data |-> Cropped(v.data, cap), cap |-> cap]

vec_maybe_grow(v) ==
    IF Len(v.data) < v.cap THEN v ELSE vec_resize(v, IF v.cap > 0 THEN 2 * v.cap ELSE DefCap)

vec_maybe_shrink(v) ==
    IF v.cap <= DefCap \/ Len(v.data) > v.cap \div 4 THEN v
    ELSE vec_resize(v, Max({v.cap \div 2, DefCap}))

op_vec_init(cap) == [data |-> <<>>, cap |-> IF cap > 0 THEN cap ELSE DefCap]
op_vec_fini(v) == [data |-> <<>>, cap |-> 0]

op_vec_push(v0, e) == LET v == vec_maybe_grow(v0) IN [v EXCEPT !.data = Put(@, e, v.cap)]

op_vec_pop(v) ==
    IF v.data = <<>> THEN [v |-> v, elem |-> None]
    ELSE [v |-> vec_maybe_shrink([v EXCEPT !.data = Front(@)]), elem |-> Last(v.data)]

op_vec_insert(v0, idx, e) ==
    LET v == vec_maybe_grow(v0)
        at == Min({idx, Len(v.data) + 1})
    IN  [v EXCEPT !.data = Cropped(InsertAt(@, at, e), v.cap)]

op_vec_remove(v, idx) ==
    IF idx > Len(v.data) THEN [v |-> v, elem |-> None]
    ELSE [v |-> vec_maybe_shrink([v EXCEPT !.data = RemoveAt(@, idx)]), elem |-> v.data[idx]]

op_vec_remove_fast(v, idx) ==
    IF idx > Len(v.data) THEN [v |-> v, elem |-> None]
    ELSE [v |-> vec_maybe_shrink([v EXCEPT !.data = Moved(@, idx)]), elem |-> v.data[idx]]

op_vec_clear(v) == [v EXCEPT !.data = <<>>]
op_vec_reserve(v, cap) == IF cap > v.cap THEN vec_resize(v, cap) ELSE v

op_vec_shrink(v) ==
    CASE v.data = <<>> -> [v EXCEPT !.cap = DefCap]
      [] v.data # <<>> /\ Len(v.data) < v.cap -> vec_resize(v, Len(v.data))
      [] OTHER -> v

op_vec_find(v, k) ==
    LET at == {i \in DOMAIN v.data : v.data[i][1] = k} IN IF at = {} THEN 0 ELSE Min(at)

RECURSIVE Bsearch(_, _, _, _)
Bsearch(v, k, lo, hi) ==
    LET mid == lo + (hi - lo) \div 2
        x == v.data[mid + 1][1]
    IN  CASE lo >= hi -> 0
          [] lo < hi /\ x = k -> mid + 1
          [] lo < hi /\ x < k -> Bsearch(v, k, mid + 1, hi)
          [] OTHER -> Bsearch(v, k, lo, mid)
op_vec_bsearch(v, k) == Bsearch(v, k, 0, Len(v.data))

(* qsort: the elements in an order by key.                                     *)
op_vec_sort(v) == [v EXCEPT !.data = SortSeq(@, LAMBDA a, b : a[1] < b[1])]

op_vec_foreach(v) == v.data

VecInit == \E n \in Hints : rep = op_vec_init(n) /\ fed = <<>> /\ out = NoAnswer

VecNext ==
    \/ /\ Len(fed) < MaxSize /\ out' = NoAnswer
       /\ \E e \in New :
              \/ rep' = op_vec_push(rep, e) /\ fed' = Append(fed, e)
              \/ \E i \in 1..Len(fed) + 2 : /\ rep' = op_vec_insert(rep, i, e)
                                            /\ fed' = InsertAt(fed, Min({i, Len(fed) + 1}), e)
    \/ LET p == op_vec_pop(rep)
       IN  /\ rep' = p.v /\ out' = <<p.elem, IF fed = <<>> THEN None ELSE Last(fed)>>
           /\ fed' = SubSeq(fed, 1, Len(fed) - 1)
    \/ \E i \in DOMAIN fed :
           \/ LET p == op_vec_remove(rep, i)
              IN  rep' = p.v /\ out' = <<p.elem, fed[i]>> /\ fed' = RemoveAt(fed, i)
           \/ LET p == op_vec_remove_fast(rep, i)
              IN  /\ rep' = p.v /\ out' = <<p.elem, fed[i]>>
                  /\ fed' = SubSeq([fed EXCEPT ![i] = Last(fed)], 1, Len(fed) - 1)
    \/ /\ out' = NoAnswer
       /\ \/ \E n \in Hints : n <= MaxCap /\ rep' = op_vec_reserve(rep, n) /\ UNCHANGED fed
          \/ rep' = op_vec_shrink(rep) /\ UNCHANGED fed
          \/ rep' = op_vec_sort(rep) /\ fed' = SortSeq(fed, LAMBDA a, b : a[1] < b[1])
          \/ fed' = <<>> /\ (rep' = op_vec_clear(rep) \/ rep' = op_vec_fini(rep))

-----------------------------------------------------------------------------
(* The string: rep = [data, len, cap, heap], data being what was stored up to the terminator and heap     *)
(* whether it moved out of the inline buffer.  The inline capacity exceeds the least heap one (64).       *)

RECURSIVE Doubled(_, _)
Doubled(cap, need) == IF cap < need THEN Doubled(2 * cap, need) ELSE cap

strbuf_grow(sb, need) ==
    IF need <= sb.cap THEN sb
    ELSE [sb EXCEPT !.cap = Doubled(@, need), !.heap = TRUE, !.data = Cropped(@, Doubled(sb.cap, need))]

(* s stored behind the content; what is past the capacity is lost.                 *)
Stored(sb, s) == [sb EXCEPT !.data = Cropped(SubSeq(@, 1, sb.len) \o s, sb.cap), !.len = @ + Len(s)]

op_strbuf_init == [data |-> <<>>, len |-> 0, cap |-> DefCap, heap |-> FALSE]
op_strbuf_free(sb) == op_strbuf_init
op_strbuf_clear(sb) == [sb EXCEPT !.len = 0, !.data = <<>>]

op_strbuf_append(sb, s) == IF s = <<>> THEN sb ELSE Stored(strbuf_grow(sb, sb.len + Len(s)), s)
op_strbuf_appendc(sb, c) == Stored(strbuf_grow(sb, sb.len + 1), <<c>>)

(* The text of a format is s; it is written again when it did not fit.                *)
RECURSIVE op_strbuf_vappendf(_, _)
op_strbuf_vappendf(sb, s) ==
    LET avail == sb.cap - sb.len
        tried == [sb EXCEPT !.data = SubSeq(@, 1, sb.len) \o Cropped(s, avail)]
    IN  IF Len(s) <= avail THEN [tried EXCEPT !.len = @ + Len(s)]
        ELSE op_strbuf_vappendf(strbuf_grow(tried, sb.len + Len(s)), s)

op_strbuf_steal(sb) == [text |-> sb.data, sb |-> op_strbuf_init]

op_strbuf_truncate(sb, max) ==
    IF sb.len <= max THEN sb ELSE [sb EXCEPT !.len = max, !.data = SubSeq(@, 1, max)]

(* A caller that writes s where op_strbuf_ensure points, and no more than it asked for.          *)
op_strbuf_advance(sb, extra, s) == Stored(strbuf_grow(sb, sb.len + extra), s)

RECURSIVE op_strbuf_trim_end(_, _)
op_strbuf_trim_end(sb, reject) ==
    IF sb.len > 0 /\ sb.data[sb.len] \in reject
    THEN op_strbuf_trim_end([sb EXCEPT !.len = @ - 1, !.data = Front(@)], reject) ELSE sb

op_strbuf_join(sb, parts, sep) ==
    LET step(acc, part) ==
            IF part = Junk THEN acc                                  \* a NULL entry
            ELSE [sb |-> op_strbuf_append(IF acc.first THEN acc.sb ELSE op_strbuf_append(acc.sb, sep), part),
                  first |-> FALSE]
    IN  FoldLeft(step, [sb |-> sb, first |-> TRUE], parts).sb

op_strbuf_repeat(sb, s, count) ==
    FoldLeft(LAMBDA acc, i : op_strbuf_append(acc, s), sb, [i \in 1..count |-> i])

StrInit == rep = op_strbuf_init /\ fed = <<>> /\ out = NoAnswer

StrNext ==
    LET Becomes(sb, s) == Len(s) <= MaxSize /\ rep' = sb /\ fed' = s /\ out' = NoAnswer
    IN  \/ \E n \in 0..3, k \in Keys :
              LET s == [i \in 1..n |-> k]
              IN  \/ Becomes(op_strbuf_append(rep, s), fed \o s)
                  \/ Becomes(op_strbuf_vappendf(rep, s), fed \o s)
                  \/ Becomes(op_strbuf_repeat(rep, <<k>>, n), fed \o s)
                  \/ \E extra \in n..3 : Becomes(op_strbuf_advance(rep, extra, s), fed \o s)
                  \/ n = 1 /\ Becomes(op_strbuf_appendc(rep, k), fed \o s)
        \/ \E k, sep \in Keys :
              Becomes(op_strbuf_join(rep, <<Junk, <<k>>, <<sep>>, Junk>>, <<sep>>), fed \o <<k, sep, sep>>)
        \/ \E max \in 0..Len(fed) : Becomes(op_strbuf_truncate(rep, max), SubSeq(fed, 1, max))
        \/ \E k \in Keys : Becomes(op_strbuf_trim_end(rep, {k}),
                                    SubSeq(fed, 1, Max({0} \cup {i \in DOMAIN fed : fed[i] # k})))
        \/ Becomes(op_strbuf_clear(rep), <<>>)
        \/ Becomes(op_strbuf_free(rep), <<>>)
        \/ LET p == op_strbuf_steal(rep)
           IN  rep' = p.sb /\ out' = <<p.text, fed>> /\ fed' = <<>>

-----------------------------------------------------------------------------
Init == CASE Use = "pqueue" -> PqInit [] Use = "deque" -> DequeInit [] Use = "vec" -> VecInit
          [] Use = "strbuf" -> StrInit

Next == \/ Use = "pqueue" /\ PqNext
        \/ Use = "deque" /\ DequeNext
        \/ Use = "vec" /\ VecNext
        \/ Use = "strbuf" /\ StrNext

Spec == Init /\ [][Next]_vars

-----------------------------------------------------------------------------
(* Properties.                                                              *)

TypeOK ==
    /\ Use = "pqueue" => Len(rep.heap) <= rep.cap
    /\ Use = "deque" => rep.size \in 0..Cap(rep) /\ rep.head \in 0..Cap(rep) - 1
    /\ Use = "vec" => Len(rep.data) <= rep.cap
    /\ Use = "strbuf" => rep.len <= rep.cap /\ (~rep.heap => rep.cap = DefCap)

(* The heap holds what was pushed and not popped or removed, its root is least, and every        *)
(* sub-heap's root is, whatever op_pqueue_remove took out of the middle.                      *)
PqExact ==
    /\ Range(op_pqueue_foreach(rep)) = fed /\ Len(rep.heap) = Cardinality(fed)
    /\ \A i \in 2..Len(rep.heap) : ~Before(rep.heap, i, i \div 2)
    /\ op_pqueue_empty(rep) = (fed = {})
    /\ fed # {} => op_pqueue_peek(rep)[1] = Min({e[1] : e \in fed})

(* The ring is the sequence its user pushed and popped at both ends, wherever head stands when    *)
(* it grows or is reserved.                                                               *)
DequeExact ==
    /\ op_deque_foreach(rep) = fed
    /\ op_deque_front(rep) = (IF fed = <<>> THEN None ELSE Head(fed))
    /\ op_deque_back(rep) = (IF fed = <<>> THEN None ELSE Last(fed))
    /\ \A i \in 1..Len(fed) + 1 : op_deque_at(rep, i - 1) = IF i <= Len(fed) THEN fed[i] ELSE None

(* The vector is its user's sequence through every growth and shrink; a search in a sorted one    *)
(* finds a key exactly when it is there.                                                   *)
VecExact ==
    /\ op_vec_foreach(rep) = fed
    /\ \A k \in Keys :
          /\ (op_vec_find(rep, k) # 0) = (\E e \in Range(fed) : e[1] = k)
          /\ (\A i \in 1..Len(fed) - 1 : fed[i][1] <= fed[i + 1][1]) =>
                 LET i == op_vec_bsearch(rep, k)
                 IN  IF i = 0 THEN op_vec_find(rep, k) = 0 ELSE fed[i][1] = k

(* The growing arrays hold what they were given, now and in what the last call returned.          *)
ContainersExact ==
    /\ out[1] = out[2]
    /\ CASE Use = "pqueue" -> PqExact [] Use = "deque" -> DequeExact [] Use = "vec" -> VecExact
         [] Use = "strbuf" -> rep.data = fed /\ rep.len = Len(fed)
=============================================================================
