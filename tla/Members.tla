------------------------------ MODULE Members ------------------------------
(* Collections that hold what their user gives them: the doubly linked lists of include/op_tools.h, the  *)
(* bit sets of include/op_bitset.h, the counting Bloom filter of src/bloom.c and the registers of the      *)
(* HyperLogLog sketch of src/hll.c.  A step is one call.                                        *)
EXTENDS Integers, Sequences, SequencesExt, FiniteSets, FiniteSetsExt, Functions

CONSTANTS
    Use,        \* "dlink", "bitset", "bloom" or "hll"
    Nodes,      \* the nodes of the lists, from 1; 0 is NULL
    Data,       \* what they carry
    WordBits,   \* bits of a word (64)
    NWords,     \* words of a bit set
    Positions,  \* for every key of the filter, the cells that its hashes give
    CellMax,    \* the greatest value of a cell (15); two cells share a byte
    MaxAdds,    \* bound: how often a key is in the filter
    HashBits,   \* bits of a hash (64)
    Hashes,     \* the hashes that are added to a sketch
    Precisions  \* the index bits b of the sketches, a sequence

(* What the constants have to satisfy.                                      *)
MembersAssumption ==
    /\ Use \in {"dlink", "bitset", "bloom", "hll"} /\ Nodes \subseteq Nat \ {0}
    /\ {WordBits, NWords, CellMax, MaxAdds} \subseteq Nat \ {0}
    /\ \A k \in DOMAIN Positions : Positions[k] \in Seq(Nat) \ {<<>>}
    /\ HashBits \in Nat /\ Hashes \subseteq 0..2^HashBits - 1
    /\ \A x \in DOMAIN Precisions : Precisions[x] \in 0..HashBits

VARIABLES
    rep,    \* the representation
    fed     \* what its user put in and did not take out

vars == <<rep, fed>>

-----------------------------------------------------------------------------
(* Lists.  r has prev, next and data of every node, head, tail and length of two lists.               *)

Lists == {1, 2}
Put(f, n, v) == IF n = 0 THEN f ELSE [f EXCEPT ![n] = v]      \* a store through a pointer that may be NULL

op_dlinkAdd(r, d, m, l) ==
    LET h == r.head[l]
    IN  [r EXCEPT !.data[m] = d, !.prev = Put([@ EXCEPT ![m] = 0], h, m), !.next[m] = h,
                  !.tail[l] = IF h = 0 /\ @ = 0 THEN m ELSE @, !.head[l] = m, !.length[l] = @ + 1]

op_dlinkAddTail(r, d, m, l) ==
    LET t == r.tail[l]
    IN  [r EXCEPT !.data[m] = d, !.next = Put([@ EXCEPT ![m] = 0], t, m), !.prev[m] = t,
                  !.head[l] = IF t = 0 /\ @ = 0 THEN m ELSE @, !.tail[l] = m, !.length[l] = @ + 1]

op_dlinkAddBefore(r, b, d, m, l) ==
    IF b = r.head[l] THEN op_dlinkAdd(r, d, m, l)
    ELSE [r EXCEPT !.data[m] = d, !.next = [@ EXCEPT ![r.prev[b]] = m, ![m] = b],
                   !.prev = [@ EXCEPT ![m] = r.prev[b], ![b] = m], !.length[l] = @ + 1]

(* A node taken out of the chain of a list.                                   *)
Unlinked(r, m, l) ==
    [r EXCEPT !.prev = Put(@, r.next[m], r.prev[m]), !.next = Put(@, r.prev[m], r.next[m]),
              !.tail[l] = IF r.next[m] = 0 THEN r.prev[m] ELSE @,
              !.head[l] = IF r.prev[m] = 0 THEN r.next[m] ELSE @]

op_dlinkDelete(r, m, l) ==
    [Unlinked(r, m, l) EXCEPT !.next[m] = 0, !.prev[m] = 0, !.length[l] = @ - 1]

op_dlinkMoveNode(r, m, old, new) ==
    LET u == Unlinked(r, m, old)
        h == u.head[new]
        a == [u EXCEPT !.prev = Put([@ EXCEPT ![m] = 0], h, m), !.next[m] = h,
                       !.tail[new] = IF h = 0 /\ @ = 0 THEN m ELSE @, !.head[new] = m, !.length[old] = @ - 1]
    IN  [a EXCEPT !.length[new] = @ + 1]

op_dlinkMoveTail(r, m, l) ==
    LET t == r.tail[l]
        n == r.next[m]
    IN  IF t = m THEN r
        ELSE [r EXCEPT !.prev = [@ EXCEPT ![n] = r.prev[m], ![m] = t],
                       !.next = [Put(@, r.prev[m], n) EXCEPT ![t] = m, ![m] = 0],
                       !.head[l] = IF r.prev[m] = 0 THEN n ELSE @, !.tail[l] = m]

(* The first node of a list with the data, or NULL.                              *)
RECURSIVE Search(_, _, _)
Search(r, n, d) == IF n = 0 \/ r.data[n] = d THEN n ELSE Search(r, r.next[n], d)
op_dlinkFind(r, d, l) == Search(r, r.head[l], d)
op_dlinkFindDelete(r, d, l) == LET m == op_dlinkFind(r, d, l) IN IF m = 0 THEN r ELSE op_dlinkDelete(r, m, l)

op_dlinkMoveList(r, from, to) ==
    CASE r.head[from] = 0 -> r
      [] r.head[from] # 0 /\ r.head[to] = 0 ->
            [r EXCEPT !.head = [@ EXCEPT ![to] = r.head[from], ![from] = 0],
                      !.tail = [@ EXCEPT ![to] = r.tail[from], ![from] = 0],
                      !.length = [@ EXCEPT ![to] = r.length[from], ![from] = 0]]
      [] OTHER ->
            [r EXCEPT !.next[r.tail[from]] = r.head[to], !.prev[r.head[to]] = r.tail[from],
                      !.head = [@ EXCEPT ![to] = r.head[from], ![from] = 0], !.tail[from] = 0,
                      !.length = [@ EXCEPT ![to] = @ + r.length[from], ![from] = 0]]

(* The user's account: the sequences of nodes.                                  *)
Loose == Nodes \ (Range(fed[1]) \cup Range(fed[2]))
Without(s, m) == SelectSeq(s, LAMBDA x : x # m)
BeforeIn(s, b, m) == LET i == CHOOSE i \in DOMAIN s : s[i] = b IN InsertAt(s, i, m)
FirstWith(s, d) ==
    LET found == {i \in DOMAIN s : rep.data[s[i]] = d} IN IF found = {} THEN 0 ELSE s[Min(found)]

ListInit ==
    LET none == [n \in Nodes |-> 0]
    IN  /\ rep = [prev |-> none, next |-> none, data |-> none,
                  head |-> <<0, 0>>, tail |-> <<0, 0>>, length |-> <<0, 0>>]
        /\ fed = <<<<>>, <<>>>>

ListNext ==
    \E l \in Lists :
        \/ \E m \in Loose, d \in Data :
              \/ rep' = op_dlinkAdd(rep, d, m, l) /\ fed' = [fed EXCEPT ![l] = <<m>> \o @]
              \/ rep' = op_dlinkAddTail(rep, d, m, l) /\ fed' = [fed EXCEPT ![l] = Append(@, m)]
              \/ \E b \in Range(fed[l]) :
                    rep' = op_dlinkAddBefore(rep, b, d, m, l) /\ fed' = [fed EXCEPT ![l] = BeforeIn(@, b, m)]
        \/ \E m \in Range(fed[l]) :
              \/ rep' = op_dlinkDelete(rep, m, l) /\ fed' = [fed EXCEPT ![l] = Without(@, m)]
              \/ rep' = op_dlinkMoveTail(rep, m, l) /\ fed' = [fed EXCEPT ![l] = Append(Without(@, m), m)]
              \/ \E k \in Lists : /\ rep' = op_dlinkMoveNode(rep, m, l, k)
                                  /\ fed' = [[fed EXCEPT ![l] = Without(@, m)] EXCEPT ![k] = <<m>> \o @]
        \/ \E d \in Data : /\ rep' = op_dlinkFindDelete(rep, d, l)
                           /\ fed' = [fed EXCEPT ![l] = Without(@, FirstWith(@, d))]
        \/ /\ rep' = op_dlinkMoveList(rep, l, 3 - l)
           /\ fed' = [fed EXCEPT ![3 - l] = fed[l] \o @, ![l] = <<>>]

-----------------------------------------------------------------------------
(* Bit sets: two of them, sequences of words; a word is the set of its bits that are set.              *)

OP_BS_WORD(i) == (i \div WordBits) + 1
OP_BS_MASK(i) == {i % WordBits}
Ones == 0..WordBits - 1
Flipped(x, y) == (x \ y) \cup (y \ x)

op_bs_zero(w) == [k \in DOMAIN w |-> {}]
op_bs_fill(w) == [k \in DOMAIN w |-> Ones]
op_bs_set(w, i) == [w EXCEPT ![OP_BS_WORD(i)] = @ \cup OP_BS_MASK(i)]
op_bs_clear(w, i) == [w EXCEPT ![OP_BS_WORD(i)] = @ \cap (Ones \ OP_BS_MASK(i))]
op_bs_flip(w, i) == [w EXCEPT ![OP_BS_WORD(i)] = Flipped(@, OP_BS_MASK(i))]
op_bs_test(w, i) == w[OP_BS_WORD(i)] \cap OP_BS_MASK(i) # {}

op_bs_or(w, v) == [k \in DOMAIN w |-> w[k] \cup v[k]]
op_bs_and(w, v) == [k \in DOMAIN w |-> w[k] \cap v[k]]
op_bs_xor(w, v) == [k \in DOMAIN w |-> Flipped(w[k], v[k])]
op_bs_andnot(w, v) == [k \in DOMAIN w |-> w[k] \cap (Ones \ v[k])]
op_bs_not(w) == [k \in DOMAIN w |-> Ones \ w[k]]

op_bs_any(w) == \E k \in DOMAIN w : w[k] # {}
op_bs_count(w) == FoldLeft(LAMBDA n, x : n + Cardinality(x), 0, w)
op_bs_eq(w, v) == \A k \in DOMAIN w : w[k] = v[k]
op_bs_subset(w, v) == \A k \in DOMAIN w : w[k] \cap v[k] = w[k]
op_bs_intersects(w, v) == \E k \in DOMAIN w : w[k] \cap v[k] # {}

op_bs_next(w, from) ==
    LET start == from \div WordBits
        bit == from % WordBits
        word == {b - bit : b \in {x \in w[start + 1] : x >= bit}}      \* shifted right
        later == {wi \in start + 1..NWords - 1 : w[wi + 1] # {}}
    IN  IF from < 0 \/ start >= NWords THEN -1
        ELSE IF word # {} THEN (start * WordBits) + bit + Min(word)
        ELSE IF later = {} THEN -1 ELSE (Min(later) * WordBits) + Min(w[Min(later) + 1])

(* The bits in the order of OP_BS_FOREACH.                                     *)
RECURSIVE Foreach(_, _)
Foreach(w, bit) ==
    LET b == op_bs_next(w, bit) IN IF b < 0 THEN <<>> ELSE <<b>> \o Foreach(w, b + 1)

Bits == 0..(NWords * WordBits) - 1
BitInit == LET zero == [k \in 1..NWords |-> {}] IN rep = <<zero, zero>> /\ fed = <<{}, {}>>
BitNext ==
    \E x \in {1, 2} :
        LET Becomes(w, s) == rep' = [rep EXCEPT ![x] = w] /\ fed' = [fed EXCEPT ![x] = s]
            w == rep[x]
            v == rep[3 - x]
            s == fed[x]
            t == fed[3 - x]
        IN  \/ \E i \in Bits : \/ Becomes(op_bs_set(w, i), s \cup {i})
                               \/ Becomes(op_bs_clear(w, i), s \ {i})
                               \/ Becomes(op_bs_flip(w, i), IF i \in s THEN s \ {i} ELSE s \cup {i})
            \/ Becomes(op_bs_or(w, v), s \cup t)
            \/ Becomes(op_bs_and(w, v), s \cap t)
            \/ Becomes(op_bs_xor(w, v), (s \cup t) \ (s \cap t))
            \/ Becomes(op_bs_andnot(w, v), s \ t)
            \/ Becomes(op_bs_not(w), Bits \ s)
            \/ Becomes(op_bs_zero(w), {})
            \/ Becomes(op_bs_fill(w), Bits)

-----------------------------------------------------------------------------
(* The Bloom filter: the bytes of its cells, two in a byte.  Its count n is not read, and left out.       *)

Nibble == CellMax + 1
Byte(i) == i \div 2
cell_get(cells, i) == IF i % 2 = 1 THEN (cells[Byte(i)] \div Nibble) % Nibble ELSE cells[Byte(i)] % Nibble
Unit(i) == IF i % 2 = 1 THEN Nibble ELSE 1
cell_inc(cells, i) == IF cell_get(cells, i) < CellMax THEN [cells EXCEPT ![Byte(i)] = @ + Unit(i)] ELSE cells
cell_dec(cells, i) == IF cell_get(cells, i) > 0 THEN [cells EXCEPT ![Byte(i)] = @ - Unit(i)] ELSE cells

op_bloom_test(b, key) == \A i \in DOMAIN Positions[key] : cell_get(b, Positions[key][i]) # 0

op_bloom_add(b, key) == FoldLeft(cell_inc, b, Positions[key])

op_bloom_remove(b, key) == IF op_bloom_test(b, key) THEN FoldLeft(cell_dec, b, Positions[key]) ELSE b

op_bloom_reset(b) == [x \in DOMAIN b |-> 0]

Cells == UNION {Range(Positions[k]) : k \in DOMAIN Positions}
Fresh == [count |-> [k \in DOMAIN Positions |-> 0], full |-> FALSE]
BloomInit ==
    /\ rep = [x \in {Byte(i) : i \in Cells} |-> 0]
    /\ fed = Fresh

(* How often the hashes of what is in the filter hit a cell.                       *)
Hits(count, i) ==
    FoldFunctionOnSet(+, 0, [k \in DOMAIN Positions |->
                                count[k] * Cardinality({j \in DOMAIN Positions[k] : Positions[k][j] = i})],
                      DOMAIN Positions)

(* The user removes what they added; full is set once a cell cannot count further.              *)
BloomNext ==
    \/ \E k \in DOMAIN Positions :
          \/ /\ fed.count[k] < MaxAdds
             /\ rep' = op_bloom_add(rep, k)
             /\ LET count == [fed.count EXCEPT ![k] = @ + 1]
                IN  fed' = [count |-> count, full |-> fed.full \/ \E i \in Cells : Hits(count, i) > CellMax]
          \/ /\ fed.count[k] > 0
             /\ rep' = op_bloom_remove(rep, k)
             /\ fed' = [fed EXCEPT !.count[k] = @ - 1]
    \/ rep' = op_bloom_reset(rep) /\ fed' = Fresh

-----------------------------------------------------------------------------
(* The HyperLogLog sketches: b index bits and the registers of each.  The estimate is floating point and      *)
(* left out.                                                                              *)

clz64(v) == Min({n \in 0..HashBits : 2^(HashBits - n) <= 2 * v \/ n = HashBits})

op_hll_add_hash(hll, h) ==
    LET idx == h \div 2^(HashBits - hll.b)
        rest == (h * 2^hll.b) % 2^HashBits
        lz == clz64(rest)
        max_rho == HashBits - hll.b + 1
        rho == IF lz < max_rho THEN lz + 1 ELSE max_rho
    IN  IF rho > hll.regs[idx] THEN [hll EXCEPT !.regs[idx] = rho] ELSE hll

op_hll_merge(dst, src) ==
    IF dst.b # src.b THEN dst
    ELSE [dst EXCEPT !.regs = [i \in DOMAIN dst.regs |-> Max({src.regs[i], dst.regs[i]})]]

op_hll_reset(hll) == [hll EXCEPT !.regs = [i \in DOMAIN hll.regs |-> 0]]

SketchInit ==
    /\ rep = [x \in DOMAIN Precisions |-> [b |-> Precisions[x], regs |-> [i \in 0..2^Precisions[x] - 1 |-> 0]]]
    /\ fed = [x \in DOMAIN Precisions |-> {}]
SketchNext ==
    \E x \in DOMAIN Precisions :
        LET Becomes(hll, s) == rep' = [rep EXCEPT ![x] = hll] /\ fed' = [fed EXCEPT ![x] = s]
        IN  \/ \E h \in Hashes : Becomes(op_hll_add_hash(rep[x], h), fed[x] \cup {h})
            \/ \E y \in DOMAIN Precisions \ {x} :
                  Becomes(op_hll_merge(rep[x], rep[y]),
                          IF Precisions[x] = Precisions[y] THEN fed[x] \cup fed[y] ELSE fed[x])
            \/ Becomes(op_hll_reset(rep[x]), {})

-----------------------------------------------------------------------------
Init == CASE Use = "dlink" -> ListInit [] Use = "bitset" -> BitInit [] Use = "bloom" -> BloomInit
          [] Use = "hll" -> SketchInit
Next ==
    \/ Use = "dlink" /\ ListNext
    \/ Use = "bitset" /\ BitNext
    \/ Use = "bloom" /\ BloomNext
    \/ Use = "hll" /\ SketchNext
Spec == Init /\ [][Next]_vars

-----------------------------------------------------------------------------
(* Properties.                                                              *)

(* From the head, and back from the tail, a list links the nodes its user put into it, and its length    *)
(* is their number; the first node with the data is the one that op_dlinkFind finds.                   *)
ListsLinked ==
    \A l \in Lists :
        LET s == fed[l]
            at(i) == IF i \in DOMAIN s THEN s[i] ELSE 0
        IN  /\ rep.head[l] = at(1) /\ rep.tail[l] = at(Len(s)) /\ rep.length[l] = Len(s)
            /\ \A i \in DOMAIN s : rep.next[s[i]] = at(i + 1) /\ rep.prev[s[i]] = at(i - 1)
            /\ \A d \in Data : op_dlinkFind(rep, d, l) = FirstWith(s, d)

(* The tests, the counts, the comparisons and the walk over a bit set are those of the set of its bits,    *)
(* across the boundaries of its words.                                                         *)
BitsExact ==
    \A x \in {1, 2} :
        LET w == rep[x]
            s == fed[x]
        IN  /\ \A i \in Bits : op_bs_test(w, i) <=> i \in s
            /\ op_bs_any(w) <=> s # {}
            /\ op_bs_count(w) = Cardinality(s) /\ Foreach(w, 0) = SetToSortSeq(s, <)
            /\ op_bs_eq(w, rep[3 - x]) <=> s = fed[3 - x]
            /\ op_bs_subset(w, rep[3 - x]) <=> s \subseteq fed[3 - x]
            /\ op_bs_intersects(w, rep[3 - x]) <=> s \cap fed[3 - x] # {}

(* As long as no cell had to count beyond its maximum, the cells count the hashes of what is in the       *)
(* filter, so that op_bloom_test finds every key that was added and not removed.                     *)
NoFalseNegative ==
    ~fed.full => /\ \A i \in Cells : cell_get(rep, i) = Hits(fed.count, i)
                 /\ \A k \in DOMAIN Positions : fed.count[k] > 0 => op_bloom_test(rep, k)

(* A register holds the greatest rank, the place of the first one after the index bits, of the hashes added    *)
(* to its sketch or to one merged into it, whatever the order and the repetitions.                   *)
SketchExact ==
    \A x \in DOMAIN Precisions :
        LET width == HashBits - Precisions[x]
            rank(h) == Min({k \in 1..width + 1 : k = width + 1 \/ (h \div 2^(width - k)) % 2 = 1})
            of(i) == {h \in fed[x] : h \div 2^width = i}
        IN  \A i \in DOMAIN rep[x].regs : rep[x].regs[i] = Max({0} \cup {rank(h) : h \in of(i)})

(* A collection holds what its user put in and did not take out.                 *)
MembersExact ==
    CASE Use = "dlink" -> ListsLinked [] Use = "bitset" -> BitsExact [] Use = "bloom" -> NoFalseNegative
      [] Use = "hll" -> SketchExact
=============================================================================
