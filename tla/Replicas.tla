------------------------------ MODULE Replicas ------------------------------
(***************************************************************************)
(* The replicated data types of the mesh protocol: the delta-state OR-Set        *)
(* (src/crdt.c), the causal context, last-writer-wins register and grow-only      *)
(* counter (include/op_crdt.h), the hybrid logical clock (op_hlc.h), the vector     *)
(* clock (op_vclock.h) and the Merkle tree of the anti-entropy (op_merkle.h).       *)
(*                                                                          *)
(* The library sends nothing. The model adds the network its types are made for:    *)
(* what one replica emits reaches each other replica in any order, or never, and,    *)
(* if Dup, more than once. A table with one entry per replica is a function on the   *)
(* replicas it knows. rep[r] is the state of replica r, seen[r] the ghost set of      *)
(* updates r has made or received, from which every reference is computed.           *)
(***************************************************************************)
EXTENDS Integers, FiniteSets, Sequences, SequencesExt, FiniteSetsExt, Functions

CONSTANTS
    Use,         \* "orset", "events" or "merkle"
    Replicas,    \* replica keys: integers, ordered as memcmp orders the keys
    Elems,       \* elements of the OR-Set; event ids of the Merkle tree
    Dup,         \* may a message be delivered again?
    MaxOps,      \* bound: updates made
    Skips,       \* bound: dots other OR-Sets of the process take from s_dot_counter
    MaxDots,     \* OP_CRDT_ORSET_MAX_DOTS
    MaxEntries,  \* OP_CRDT_CC_MAX_REPLICAS, OP_CRDT_GCTR_MAX_REPLICAS, OP_VCLOCK_MAX_ENTRIES
    MaxOver,     \* OP_CRDT_CC_MAX_OVERFLOW
    Walls,       \* wall-clock readings, in any order
    LogicalMod,  \* 2^16: the width of the HLC's logical counter
    Depth,       \* OP_MERKLE_DEPTH
    Stamp,       \* [Elems -> Nat]: timestamps of the events of the Merkle tree
    TsMin, TsMax \* range the Merkle tree was initialised with

(* What the constants have to satisfy.                                      *)
ReplicasAssumption ==
    /\ Use \in {"orset", "events", "merkle"} /\ Replicas \subseteq Nat \ {0} /\ Dup \in BOOLEAN
    /\ MaxOps \in Nat /\ Skips \in Nat /\ MaxDots \in Nat \ {0} /\ MaxEntries \in Nat /\ MaxOver \in Nat
    /\ Walls \subseteq Nat /\ LogicalMod \in Nat \ {0} /\ Depth \in Nat \ {0} /\ TsMin < TsMax

VARIABLES
    rep,    \* rep[r]: the state of replica r
    sent,   \* the messages emitted
    seen    \* seen[r]: the updates in the causal past of r

vars == <<rep, sent, seen>>

Get(table, r) == IF r \in DOMAIN table THEN table[r] ELSE 0
Put(table, r, n) == [x \in DOMAIN table \cup {r} |-> IF x = r THEN n ELSE table[x]]
Room(table, r) == r \in DOMAIN table \/ Cardinality(DOMAIN table) < MaxEntries
Updates == UNION {seen[r] : r \in Replicas}

(* The component-wise maximum the counter and the clock merge with: an entry that         *)
(* does not fit is dropped.                                                        *)
JoinMax(dst, src) ==
    FoldSet(LAMBDA r, t : IF Room(t, r) THEN Put(t, r, Max({Get(t, r), src[r]})) ELSE t,
            dst, DOMAIN src)

-----------------------------------------------------------------------------
(* The causal context: max[r] dots of r without a gap, and over, the dots beyond.          *)
(* A dot is <<replica, counter>>.                                                   *)

NoContext == [max |-> <<>>, over |-> {}]

op_crdt_cc_contains(cc, d) == d[2] <= Get(cc.max, d[1]) \/ d \in cc.over

op_crdt_cc_add(cc, d) ==
    LET r == d[1]
        c == Get(cc.max, r)
        dots == cc.over \cup {d}
        top == CHOOSE m \in c + 1..c + 1 + Cardinality(dots) :
                   /\ \A i \in c + 1..m : <<r, i>> \in dots
                   /\ <<r, m + 1>> \notin dots
    IN  CASE ~Room(cc.max, r) -> cc
          [] Room(cc.max, r) /\ d[2] = c + 1 ->
                [max |-> Put(cc.max, r, top),
                 over |-> {e \in cc.over : ~(e[1] = r /\ e[2] \in c + 1..top)}]
          [] Room(cc.max, r) /\ d[2] > c + 1 /\ Cardinality(cc.over) < MaxOver ->
                [max |-> Put(cc.max, r, c), over |-> dots]
          [] OTHER -> [cc EXCEPT !.max = Put(@, r, c)]

op_crdt_cc_merge(dst, src) ==
    FoldSet(LAMBDA d, cc : IF op_crdt_cc_contains(cc, d) THEN cc ELSE op_crdt_cc_add(cc, d),
            [dst EXCEPT !.max = JoinMax(@, src.max)], src.over)

ContextOf(dots) == FoldSet(LAMBDA d, cc : op_crdt_cc_add(cc, d), NoContext, dots)

-----------------------------------------------------------------------------
(* The OR-Set: entries maps an element to the sequence of its dots. A delta has the          *)
(* element added and its dot, or no entry, and a context.                             *)

EmptySet == [entries |-> <<>>, cc |-> NoContext, counter |-> 0]
Drop(f, x) == [y \in DOMAIN f \ {x} |-> f[y]]
Set(f, x, v) == IF v = <<>> THEN Drop(f, x) ELSE [y \in DOMAIN f \cup {x} |-> IF y = x THEN v ELSE f[y]]
DotsOf(s, e) == IF e \in DOMAIN s.entries THEN s.entries[e] ELSE <<>>
Prefix(s, n) == SubSeq(s, 1, Min({n, Len(s)}))

orset_find(s, e) == e \in DOMAIN s.entries
op_crdt_orset_contains(r, e) == orset_find(rep[r], e)

(* A new dot for e; past the limit the oldest is evicted.                               *)
op_crdt_orset_add(r, e) ==
    LET s == rep[r]
        d == <<r, s.counter + 1>>
        old == DotsOf(s, e)
        kept == IF Len(old) < MaxDots THEN old ELSE Tail(old)
        delta == [add |-> TRUE, elem |-> e, dots |-> {d}, cc |-> ContextOf({d})]
    IN  /\ Use = "orset" /\ Cardinality(Updates) < MaxOps
        /\ rep' = [rep EXCEPT ![r] = [entries |-> Set(s.entries, e, Append(kept, d)),
                                      cc |-> op_crdt_cc_add(s.cc, d), counter |-> s.counter + 1]]
        /\ sent' = sent \cup {delta}
        /\ seen' = [seen EXCEPT ![r] = @ \cup {delta}]

(* s_dot_counter is shared by all the OR-Sets of the process.                             *)
AddToOtherSet(r) ==
    /\ Use = "orset"
    /\ SumFunction([q \in Replicas |-> rep[q].counter])
         < Skips + Cardinality({u \in Updates : u.add})
    /\ rep' = [rep EXCEPT ![r].counter = @ + 1]
    /\ UNCHANGED <<sent, seen>>

op_crdt_orset_remove(r, e) ==
    LET dots == Range(DotsOf(rep[r], e))
        delta == [add |-> FALSE, elem |-> e, dots |-> dots, cc |-> ContextOf(dots)]
    IN  /\ Use = "orset" /\ orset_find(rep[r], e) /\ Cardinality(Updates) < MaxOps
        /\ rep' = [rep EXCEPT ![r].entries = Drop(@, e)]
        /\ sent' = sent \cup {delta}
        /\ seen' = [seen EXCEPT ![r] = @ \cup {delta}]


(* The entries after a delta: an add keeps the local dots the delta's context does not        *)
(* cover and takes the delta's dot if the local context does not; a remove drops from         *)
(* every entry the dots the delta covers.                                             *)
Merged(s, delta) ==
    LET outside(seq, cc) == SelectSeq(seq, LAMBDA d : ~op_crdt_cc_contains(cc, d))
        merged(e) == Prefix(outside(DotsOf(s, e), delta.cc) \o outside(SetToSeq(delta.dots), s.cc), MaxDots)
    IN  IF delta.add
        THEN Set(s.entries, delta.elem, merged(delta.elem))
        ELSE FoldSet(LAMBDA e, f : Set(f, e, outside(f[e], delta.cc)), s.entries, DOMAIN s.entries)

op_crdt_orset_apply_delta(r, delta) ==
    /\ Use = "orset" /\ (Dup \/ delta \notin seen[r])
    /\ rep' = [rep EXCEPT ![r].entries = Merged(rep[r], delta),
                          ![r].cc = op_crdt_cc_merge(@, delta.cc)]
    /\ seen' = [seen EXCEPT ![r] = @ \cup {delta}]
    /\ UNCHANGED sent

-----------------------------------------------------------------------------
(* Clocks, register and counter. An HLC timestamp is <<wall, logical>>.                    *)

op_hlc_cmp(a, b) ==
    CASE a[1] < b[1] \/ (a[1] = b[1] /\ a[2] < b[2]) -> -1
      [] a = b -> 0
      [] OTHER -> 1

op_hlc_tick(hlc, now) ==
    IF now > hlc[1] THEN <<now, 0>> ELSE <<hlc[1], (hlc[2] + 1) % LogicalMod>>

op_hlc_recv(hlc, now, remote) ==
    LET wall == Max({now, hlc[1], remote[1]})
    IN  <<wall, CASE wall = hlc[1] /\ wall = remote[1] -> (Max({hlc[2], remote[2]}) + 1) % LogicalMod
                  [] wall = hlc[1] /\ wall # remote[1] -> (hlc[2] + 1) % LogicalMod
                  [] wall # hlc[1] /\ wall = remote[1] -> (remote[2] + 1) % LogicalMod
                  [] OTHER -> 0>>

op_vclock_get(vc, r) == Get(vc, r)
op_vclock_tick(vc, r) == IF Room(vc, r) THEN Put(vc, r, Get(vc, r) + 1) ELSE vc
op_vclock_merge(dst, src) == JoinMax(dst, src)

op_vclock_cmp(a, b) ==
    LET keys == DOMAIN a \cup DOMAIN b
        le(x, y) == \A k \in keys : op_vclock_get(x, k) <= op_vclock_get(y, k)
    IN  CASE le(a, b) /\ le(b, a) -> 0
          [] le(a, b) /\ ~le(b, a) -> -1
          [] ~le(a, b) /\ le(b, a) -> 1
          [] OTHER -> 2

op_crdt_gctr_inc(ctr, r) == IF Room(ctr, r) THEN Put(ctr, r, Get(ctr, r) + 1) ELSE ctr
op_crdt_gctr_value(ctr) == SumFunction(ctr)
op_crdt_gctr_merge(dst, src) == JoinMax(dst, src)

(* A register holds the value (here the update that wrote it), its timestamp and writer.        *)
op_crdt_lww_set(reg, value, hlc, writer) ==
    LET cmp == op_hlc_cmp(hlc, reg.hlc)
    IN  IF cmp < 0 \/ (cmp = 0 /\ writer <= reg.writer) THEN reg
        ELSE [value |-> value, hlc |-> hlc, writer |-> writer]

op_crdt_lww_merge(reg, remote) == op_crdt_lww_set(reg, remote.value, remote.hlc, remote.writer)

NoValue == <<0, 0>>
Fresh == [hlc |-> <<0, 0>>, vc |-> <<>>, ctr |-> <<>>,
          reg |-> [value |-> NoValue, hlc |-> <<0, 0>>, writer |-> 0]]

(* An update: the clocks tick, the register is written and the counter incremented. Its           *)
(* stamp is recorded with the updates that happened before it.                            *)
Update(r, now) ==
    LET s == rep[r]
        u == <<r, Cardinality({v \in seen[r] : v.id[1] = r}) + 1>>
        hlc == op_hlc_tick(s.hlc, now)
        vc == op_vclock_tick(s.vc, r)
    IN  /\ Use = "events" /\ Cardinality(Updates) < MaxOps
        /\ rep' = [rep EXCEPT ![r] = [hlc |-> hlc, vc |-> vc, ctr |-> op_crdt_gctr_inc(s.ctr, r),
                                      reg |-> op_crdt_lww_set(s.reg, u, hlc, r)]]
        /\ seen' = [seen EXCEPT ![r] = @ \cup
                       {[id |-> u, hlc |-> hlc, vc |-> vc, past |-> {v.id : v \in seen[r]}]}]
        /\ UNCHANGED sent

(* A replica sends what it has; the receiver merges all of it.                              *)
SendState(r) ==
    /\ Use = "events" /\ seen[r] # {}
    /\ Cardinality(sent) < MaxOps /\ \A m \in sent : m.state # rep[r]
    /\ sent' = sent \cup {[state |-> rep[r], seen |-> seen[r], to |-> Replicas \ {r}]}
    /\ UNCHANGED <<rep, seen>>

ReceiveState(r, m, now) ==
    /\ Use = "events" /\ r \in m.to
    /\ rep' = [rep EXCEPT ![r] =
                  [hlc |-> op_hlc_recv(@.hlc, now, m.state.hlc),
                   vc |-> op_vclock_merge(@.vc, m.state.vc),
                   ctr |-> op_crdt_gctr_merge(@.ctr, m.state.ctr),
                   reg |-> op_crdt_lww_merge(@.reg, m.state.reg)]]
    /\ seen' = [seen EXCEPT ![r] = @ \cup m.seen]
    /\ sent' = IF Dup THEN sent ELSE (sent \ {m}) \cup {[m EXCEPT !.to = @ \ {r}]}

-----------------------------------------------------------------------------
(* The Merkle tree: a fingerprint is the xor of ids, here the set of the ids xored in.          *)
(* Node 1 is the root, node n has children 2n and 2n + 1, the leaves start at Leaves.             *)

Leaves == 2^Depth
Nodes == 1..2 * Leaves - 1
op_merkle_xor(a, b) == (a \ b) \cup (b \ a)
op_merkle_init == [n \in Nodes |-> {}]

op_merkle_leaf_index(ts) ==
    CASE ts <= TsMin -> 0
      [] ts >= TsMax -> Leaves - 1
      [] OTHER -> Min({Leaves - 1, ((ts - TsMin) * Leaves) \div (TsMax - TsMin)})

Inserted(m, e) ==
    LET leaf == Leaves + op_merkle_leaf_index(Stamp[e])
        node[n \in Nodes] ==
            IF n >= Leaves THEN IF n = leaf THEN op_merkle_xor(m[n], {e}) ELSE m[n]
            ELSE IF n \in {leaf \div 2^i : i \in 1..Depth}
                 THEN op_merkle_xor(node[2 * n], node[2 * n + 1]) ELSE m[n]
    IN  node

op_merkle_node_equal(a, b, n) == a[n] = b[n]

(* The differing leaves in the order the walk meets them, at most most of them.                  *)
op_merkle_diff(a, b, most) ==
    LET below[n \in Nodes] ==
            CASE op_merkle_node_equal(a, b, n) -> <<>>
              [] ~op_merkle_node_equal(a, b, n) /\ n >= Leaves -> <<n - Leaves>>
              [] OTHER -> below[2 * n] \o below[2 * n + 1]
    IN  Prefix(below[1], most)

op_merkle_leaf_range(leaf) ==
    LET at(i) == TsMin + ((TsMax - TsMin) * i) \div Leaves IN at(leaf)..at(leaf + 1)

(* An event is recorded at r: made there, or received.                                    *)
op_merkle_insert(r, e) ==
    /\ Use = "merkle" /\ (Dup \/ e \notin seen[r])
    /\ rep' = [rep EXCEPT ![r] = Inserted(@, e)]
    /\ seen' = [seen EXCEPT ![r] = @ \cup {e}]
    /\ UNCHANGED sent

-----------------------------------------------------------------------------
Init ==
    /\ rep = [r \in Replicas |-> CASE Use = "orset" -> EmptySet
                                   [] Use = "events" -> Fresh
                                   [] Use = "merkle" -> op_merkle_init]
    /\ sent = {}
    /\ seen = [r \in Replicas |-> {}]

Next == \E r \in Replicas :
    \/ \E e \in Elems : op_crdt_orset_add(r, e) \/ op_crdt_orset_remove(r, e) \/ op_merkle_insert(r, e)
    \/ AddToOtherSet(r)
    \/ \E now \in Walls : Update(r, now)
    \/ SendState(r)
    \/ \E m \in sent :
          \/ op_crdt_orset_apply_delta(r, m)
          \/ \E now \in Walls : ReceiveState(r, m, now)

Spec == Init /\ [][Next]_vars

-----------------------------------------------------------------------------
(* The representation is well formed.                                          *)
TypeOK ==
    /\ DOMAIN rep = Replicas /\ DOMAIN seen = Replicas
    /\ Use = "orset" => \A r \in Replicas :
          /\ \A e \in DOMAIN rep[r].entries : Len(rep[r].entries[e]) \in 1..MaxDots
          /\ Cardinality(rep[r].cc.over) <= MaxOver
    /\ Use = "events" => \A r \in Replicas : rep[r].hlc[2] < LogicalMod

(* An element is in the OR-Set of a replica exactly when the replica has seen an add of       *)
(* it that no remove it has seen had observed, in whatever order                          *)
(* op_crdt_orset_apply_delta got the deltas: a remove that overtakes its add wins over it,      *)
(* a concurrent add wins over a remove, and replicas that saw the same updates agree. With       *)
(* deltas delivered again no element comes back, but one may be lost (MergeIdempotent).          *)
ObservedRemove ==
    Use = "orset" => \A r \in Replicas, e \in Elems :
        LET adds == UNION {u.dots : u \in {v \in seen[r] : v.add /\ v.elem = e}}
            gone == UNION {u.dots : u \in {v \in seen[r] : ~v.add}}
        IN  /\ op_crdt_orset_contains(r, e) => adds \ gone # {}
            /\ ~Dup => (adds \ gone # {} => op_crdt_orset_contains(r, e))

(* "All types satisfy the join-semilattice property: commutative, associative, idempotent      *)
(* merge" (op_crdt.h:10-11): replicas that have seen the same deltas hold the same elements,       *)
(* however often each was applied. A second copy of an add delta removes the element: its dot       *)
(* is in the delta's context and in the local one (crdt.c:157-180).                              *)
MergeIdempotent ==
    Use = "orset" => \A r, q \in Replicas :
        seen[r] = seen[q] => \A e \in Elems : op_crdt_orset_contains(r, e) <=> op_crdt_orset_contains(q, e)

(* op_vclock_cmp decides happened-before of any two updates, concurrency included.             *)
ClocksDecide ==
    Use = "events" => \A u, v \in Updates :
        op_vclock_cmp(u.vc, v.vc) = CASE u.id = v.id -> 0
                                      [] u.id \in v.past -> -1
                                      [] v.id \in u.past -> 1
                                      [] OTHER -> 2

(* The HLC stamps an update later than every update that happened before it, though the          *)
(* wall clocks differ and go backwards (op_hlc_tick, op_hlc_recv).                          *)
StampsCausal ==
    Use = "events" => \A u, v \in Updates : u.id \in v.past => op_hlc_cmp(u.hlc, v.hlc) = -1

(* What a replica reads depends only on the updates it has seen, not on the order or the         *)
(* number of merges: the counter has counted each once and the register holds the one          *)
(* with the greatest timestamp, ties going to the greater writer.                            *)
ReadsOfPast ==
    Use = "events" => \A r \in Replicas :
        LET u == CHOOSE w \in seen[r] : \A v \in seen[r] :
                    \/ op_hlc_cmp(v.hlc, w.hlc) = -1
                    \/ op_hlc_cmp(v.hlc, w.hlc) = 0 /\ v.id[1] <= w.id[1]
        IN  /\ op_crdt_gctr_value(rep[r].ctr) = Cardinality(seen[r])
            /\ rep[r].reg.value = IF seen[r] = {} THEN NoValue ELSE u.id

(* op_merkle_diff of two replicas' trees names exactly the buckets in which their events           *)
(* differ, and asking for op_merkle_leaf_range of those buckets finds every event one of them        *)
(* lacks whose time is in the tree's range; equal roots mean equal events.                          *)
DiffFindsMissing ==
    Use = "merkle" => \A r, q \in Replicas :
        LET lacking == op_merkle_xor(seen[r], seen[q])
            found == Range(op_merkle_diff(rep[r], rep[q], Leaves))
        IN  /\ found = {op_merkle_leaf_index(Stamp[e]) : e \in lacking}
            /\ \A e \in lacking : Stamp[e] \in TsMin..TsMax =>
                  \E leaf \in found : Stamp[e] \in op_merkle_leaf_range(leaf)
            /\ op_merkle_node_equal(rep[r], rep[q], 1) <=> seen[r] = seen[q]
=============================================================================
