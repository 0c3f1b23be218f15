------------------------------- MODULE Trees -------------------------------
(***************************************************************************)
(* The ordered containers: the left-leaning red-black tree (src/rbt.c), the      *)
(* interval tree built the same way and augmented with the greatest end of       *)
(* every subtree (src/itree.c), and the skip list (src/skiplist.c).              *)
(*                                                                          *)
(* A tree is a nested record, so the in-place rotations return the tree they      *)
(* leave. The skip list keeps its links: forward pointers per level and prev.      *)
(* random_level is a choice.                                                 *)
(***************************************************************************)
EXTENDS Integers, FiniteSets, Sequences, SequencesExt, FiniteSetsExt

CONSTANTS
    Use,        \* "rbt", "itree" or "skiplist"
    Keys,       \* keys (low ends of intervals), positive integers
    Vals,       \* values
    IterDepth,  \* OP_RBT_ITER_DEPTH
    MaxLevel,   \* SKIPLIST_MAX_LEVEL
    MaxCount    \* bound: intervals stored at once

(* What the constants have to satisfy.                                      *)
TreesAssumption ==
    /\ Use \in {"rbt", "itree", "skiplist"} /\ Keys \subseteq Nat \ {0} /\ Vals \subseteq Nat \ {0}
    /\ IterDepth \in Nat \ {0} /\ MaxLevel \in Nat \ {0} /\ MaxCount \in Nat

VARIABLES
    rep,   \* the structure
    fed,   \* what its user put in: a map, or the number of times each interval is in
    out    \* what the last operation returned and what the map says it should return

vars == <<rep, fed, out>>

None == 0                       \* NULL; keys and values are not 0
Nil == [nil |-> TRUE]           \* the NULL node

-----------------------------------------------------------------------------
(* rbt.c: nodes and structural transformations.                                 *)

is_red(h) == h # Nil /\ h.red
node_alloc(k, v) == [key |-> k, val |-> v, max |-> 0, left |-> Nil, right |-> Nil, red |-> TRUE]

rotate_left(h) ==
    [h.right EXCEPT !.left = [h EXCEPT !.right = h.right.left, !.red = TRUE], !.red = h.red]

rotate_right(h) ==
    [h.left EXCEPT !.right = [h EXCEPT !.left = h.left.right, !.red = TRUE], !.red = h.red]

flip_colours(h) == [h EXCEPT !.red = ~@, !.left.red = ~@, !.right.red = ~@]

fixup(h) ==
    LET a == IF is_red(h.right) /\ ~is_red(h.left) THEN rotate_left(h) ELSE h
        b == IF is_red(a.left) /\ is_red(a.left.left) THEN rotate_right(a) ELSE a
    IN  IF is_red(b.left) /\ is_red(b.right) THEN flip_colours(b) ELSE b

RECURSIVE insert(_, _, _)
insert(h, k, v) ==
    IF h = Nil THEN node_alloc(k, v)
    ELSE fixup(CASE k < h.key -> [h EXCEPT !.left = insert(@, k, v)]
                 [] k > h.key -> [h EXCEPT !.right = insert(@, k, v)]
                 [] OTHER -> [h EXCEPT !.key = k, !.val = v])

move_red_left(h) ==
    LET f == flip_colours(h)
    IN  IF is_red(f.right.left)
        THEN flip_colours(rotate_left([f EXCEPT !.right = rotate_right(@)]))
        ELSE f

move_red_right(h) ==
    LET f == flip_colours(h)
    IN  IF is_red(f.left.left) THEN flip_colours(rotate_right(f)) ELSE f

RECURSIVE tree_min(_)
tree_min(h) == IF h.left = Nil THEN h ELSE tree_min(h.left)

TwoNode(h) == ~is_red(h) /\ ~is_red(h.left)

RECURSIVE del_min(_)
del_min(h) ==
    IF h.left = Nil THEN Nil
    ELSE LET g == IF TwoNode(h.left) THEN move_red_left(h) ELSE h
         IN  fixup([g EXCEPT !.left = del_min(@)])

RECURSIVE del(_, _)
del(h, k) ==
    CASE h = Nil -> Nil
      [] h # Nil /\ k < h.key ->
            IF h.left = Nil THEN h
            ELSE LET g == IF TwoNode(h.left) THEN move_red_left(h) ELSE h
                 IN  fixup([g EXCEPT !.left = del(@, k)])
      [] OTHER ->
            LET a == IF is_red(h.left) THEN rotate_right(h) ELSE h
                b == IF TwoNode(a.right) THEN move_red_right(a) ELSE a
                s == tree_min(b.right)
            IN  CASE k = a.key /\ a.right = Nil -> Nil
                  [] k # a.key /\ a.right = Nil -> fixup(a)
                  [] OTHER -> fixup(
                        IF k = b.key
                        THEN [b EXCEPT !.key = s.key, !.val = s.val, !.right = del_min(@)]
                        ELSE [b EXCEPT !.right = del(@, k)])

Blacken(h) == IF h = Nil THEN Nil ELSE [h EXCEPT !.red = FALSE]

(* rbt.c: lookups.                                                            *)
RECURSIVE Find(_, _)
Find(h, k) == IF h = Nil \/ k = h.key THEN h ELSE Find(IF k < h.key THEN h.left ELSE h.right, k)

op_rbt_get(h, k) == IF Find(h, k) = Nil THEN None ELSE Find(h, k).val
op_rbt_has(h, k) == Find(h, k) # Nil

RECURSIVE op_rbt_min_key(_)
op_rbt_min_key(h) == IF h = Nil THEN None ELSE IF h.left = Nil THEN h.key ELSE op_rbt_min_key(h.left)
RECURSIVE op_rbt_max_key(_)
op_rbt_max_key(h) == IF h = Nil THEN None ELSE IF h.right = Nil THEN h.key ELSE op_rbt_max_key(h.right)

RECURSIVE LowerFrom(_, _, _)
LowerFrom(h, k, best) ==
    IF h = Nil THEN best
    ELSE IF k <= h.key THEN LowerFrom(h.left, k, h.key) ELSE LowerFrom(h.right, k, best)
op_rbt_lower_bound(h, k) == LowerFrom(h, k, None)

RECURSIVE UpperFrom(_, _, _)
UpperFrom(h, k, best) ==
    IF h = Nil THEN best
    ELSE IF k < h.key THEN UpperFrom(h.left, k, h.key) ELSE UpperFrom(h.right, k, best)
op_rbt_upper_bound(h, k) == UpperFrom(h, k, None)

RECURSIVE foreach_r(_)
foreach_r(h) == IF h = Nil THEN <<>> ELSE foreach_r(h.left) \o <<h.key>> \o foreach_r(h.right)
RECURSIVE foreach_rev_r(_)
foreach_rev_r(h) ==
    IF h = Nil THEN <<>> ELSE foreach_rev_r(h.right) \o <<h.key>> \o foreach_rev_r(h.left)

(* The iterator: a stack of at most IterDepth nodes, the next one on top.           *)
RECURSIVE push_left(_, _)
push_left(stack, h) ==
    IF h = Nil \/ Len(stack) = IterDepth THEN stack ELSE push_left(Append(stack, h), h.left)

op_rbt_iter_init(h) == push_left(<<>>, h)

RECURSIVE IterLowerFrom(_, _, _)
IterLowerFrom(stack, h, k) ==
    IF h = Nil \/ Len(stack) = IterDepth THEN stack
    ELSE IF k <= h.key THEN IterLowerFrom(Append(stack, h), h.left, k)
                       ELSE IterLowerFrom(stack, h.right, k)
op_rbt_iter_lower(h, k) == IterLowerFrom(<<>>, h, k)

RECURSIVE op_rbt_iter_next(_)
op_rbt_iter_next(stack) ==
    IF stack = <<>> THEN <<>>
    ELSE <<Last(stack).key>> \o op_rbt_iter_next(push_left(Front(stack), Last(stack).right))

(* The map operations the user calls.                                           *)
Updated(map, k, v) == [x \in DOMAIN map \cup {k} |-> IF x = k THEN v ELSE map[x]]
Without(map, k) == [x \in DOMAIN map \ {k} |-> map[x]]
OldVal(map, k) == IF k \in DOMAIN map THEN map[k] ELSE None

op_rbt_set(k, v) ==
    /\ Use = "rbt"
    /\ rep' = [root |-> Blacken(insert(rep.root, k, v)),
               size |-> rep.size + IF op_rbt_has(rep.root, k) THEN 0 ELSE 1]
    /\ out' = <<op_rbt_get(rep.root, k), OldVal(fed, k)>>
    /\ fed' = Updated(fed, k, v)

(* found: did del unlink a node?                                               *)
Removed(before, after) == Len(foreach_r(after)) < Len(foreach_r(before))

op_rbt_del(k) ==
    /\ Use = "rbt"
    /\ rep' = [root |-> Blacken(del(rep.root, k)),
               size |-> rep.size - IF Removed(rep.root, del(rep.root, k)) THEN 1 ELSE 0]
    /\ out' = <<IF Removed(rep.root, del(rep.root, k)) THEN op_rbt_get(rep.root, k) ELSE None,
                OldVal(fed, k)>>
    /\ fed' = Without(fed, k)

-----------------------------------------------------------------------------
(* itree.c: val is the chain of (hi, value) segments that share a low end.         *)

Least == -1                     \* INT64_MIN
MaxOf(h) == IF h = Nil THEN Least ELSE h.max
aug(h) == [h EXCEPT !.max = Max({MaxOf(h.left), MaxOf(h.right), Least} \cup {s[1] : s \in Range(h.val)})]

itree_rotate_left(h) == LET x == rotate_left(h) IN aug([x EXCEPT !.left = aug(@)])

itree_rotate_right(h) == LET x == rotate_right(h) IN aug([x EXCEPT !.right = aug(@)])

itree_fixup(h) ==
    LET a == IF is_red(h.right) /\ ~is_red(h.left) THEN itree_rotate_left(h) ELSE h
        b == IF is_red(a.left) /\ is_red(a.left.left) THEN itree_rotate_right(a) ELSE a
    IN  aug(IF is_red(b.left) /\ is_red(b.right) THEN flip_colours(b) ELSE b)

RECURSIVE itree_insert(_, _, _, _)
itree_insert(h, lo, hi, v) ==
    IF h = Nil THEN [node_alloc(lo, <<<<hi, v>>>>) EXCEPT !.max = hi]
    ELSE itree_fixup(CASE lo < h.key -> [h EXCEPT !.left = itree_insert(@, lo, hi, v)]
                       [] lo > h.key -> [h EXCEPT !.right = itree_insert(@, lo, hi, v)]
                       [] OTHER -> [h EXCEPT !.val = <<<<hi, v>>>> \o @])

itree_move_red_left(h) ==
    LET f == flip_colours(h)
    IN  IF is_red(f.right.left)
        THEN flip_colours(itree_rotate_left([f EXCEPT !.right = itree_rotate_right(@)]))
        ELSE f

itree_move_red_right(h) ==
    LET f == flip_colours(h)
    IN  IF is_red(f.left.left) THEN flip_colours(itree_rotate_right(f)) ELSE f

RECURSIVE itree_del_min(_)
itree_del_min(h) ==
    IF h.left = Nil THEN Nil
    ELSE LET g == IF TwoNode(h.left) THEN itree_move_red_left(h) ELSE h
         IN  itree_fixup([g EXCEPT !.left = itree_del_min(@)])

(* Unlink the first segment of the chain that has this end and value.               *)
Unlink(segs, hi, v) == IF <<hi, v>> \in Range(segs) THEN RemoveFirst(segs, <<hi, v>>) ELSE segs

RECURSIVE itree_del(_, _, _, _)
itree_del(h, lo, hi, v) ==
    CASE h = Nil -> Nil
      [] h # Nil /\ lo < h.key ->
            IF h.left = Nil THEN h
            ELSE LET g == IF TwoNode(h.left) THEN itree_move_red_left(h) ELSE h
                 IN  itree_fixup([g EXCEPT !.left = itree_del(@, lo, hi, v)])
      [] OTHER ->
            LET a == IF is_red(h.left) THEN itree_rotate_right(h) ELSE h
                b == IF TwoNode(a.right) THEN itree_move_red_right(a) ELSE a
                s == tree_min(b.right)
                left(n) == Unlink(n.val, hi, v)
            IN  CASE lo = a.key /\ a.right = Nil ->
                        IF left(a) = <<>> THEN Nil ELSE aug([a EXCEPT !.val = left(a)])
                  [] lo # a.key /\ a.right = Nil -> itree_fixup(a)
                  [] OTHER -> itree_fixup(
                        CASE lo # b.key -> [b EXCEPT !.right = itree_del(@, lo, hi, v)]
                          [] lo = b.key /\ left(b) # <<>> -> [b EXCEPT !.val = left(b)]
                          [] OTHER -> [b EXCEPT !.key = s.key, !.val = Reverse(s.val),
                                                !.right = itree_del_min(@)])

(* The segments visited for [a, b], in the order of the calls of fn.                 *)
visit_segs(h, a, b) ==
    [i \in DOMAIN SelectSeq(h.val, LAMBDA s : s[1] >= a /\ h.key <= b) |->
        <<h.key>> \o SelectSeq(h.val, LAMBDA s : s[1] >= a /\ h.key <= b)[i]]

RECURSIVE query_overlap(_, _, _)
query_overlap(h, a, b) ==
    IF h = Nil \/ MaxOf(h) < a THEN <<>>
    ELSE query_overlap(h.left, a, b)
         \o IF h.key <= b THEN visit_segs(h, a, b) \o query_overlap(h.right, a, b) ELSE <<>>

op_itree_overlap(h, a, b) == IF a > b THEN <<>> ELSE query_overlap(h, a, b)
op_itree_first_stab(h, x) ==
    LET seen == query_overlap(h, x, x) IN IF seen = <<>> THEN None ELSE Head(seen)[3]

AllSegs(h) == query_overlap(h, Least, Max(Keys))
Intervals == {iv \in Keys \X Keys \X Vals : iv[1] <= iv[2]}
Stored == SumFunction(fed)

op_itree_insert(lo, hi, v) ==
    /\ Use = "itree" /\ Stored < MaxCount
    /\ IF hi < lo THEN out' = <<-1, -1>> /\ UNCHANGED <<rep, fed>>
       ELSE /\ rep' = [root |-> aug(Blacken(itree_insert(rep.root, lo, hi, v))), size |-> rep.size + 1]
            /\ fed' = [fed EXCEPT ![<<lo, hi, v>>] = @ + 1]
            /\ out' = <<1, 1>>

op_itree_delete(iv) ==
    LET after == Blacken(itree_del(rep.root, iv[1], iv[2], iv[3]))
        n == Len(AllSegs(rep.root)) - Len(AllSegs(after))        \* found
    IN  /\ Use = "itree"
        /\ rep' = [root |-> after, size |-> rep.size - n]
        /\ out' = <<n, Min({1, fed[iv]})>>
        /\ fed' = [fed EXCEPT ![iv] = Max({0, @ - 1})]

-----------------------------------------------------------------------------
(* skiplist.c: rep.fwd[n][i] is n->forward[i], rep.prev the level-0 back links.     *)
(* The sentinel is node 0; a node is its key.                                     *)

Sentinel == 0
End == -1                       \* a NULL link

op_skiplist_create ==
    [fwd |-> [n \in {Sentinel} |-> [i \in 0..MaxLevel - 1 |-> End]], val |-> <<>>,
     prev |-> <<>>, tail |-> End, level |-> 1, size |-> 0]

(* Along one level from x, past the nodes that are before k (or, if past, at k).      *)
RECURSIVE Along(_, _, _, _, _)
Along(sl, x, i, k, past) ==
    LET n == sl.fwd[x][i]
    IN  IF n # End /\ (n < k \/ (past /\ n = k)) THEN Along(sl, n, i, k, past) ELSE x

(* The search all operations start with: update[i] for every active level.            *)
Search(sl, k, past) ==
    LET update[i \in 0..sl.level - 1] ==
            Along(sl, IF i = sl.level - 1 THEN Sentinel ELSE update[i + 1], i, k, past)
    IN  update
After(sl, k, past) == sl.fwd[Search(sl, k, past)[0]][0]
KeyOr(n) == IF n = End THEN None ELSE n

op_skiplist_get(sl, k) == IF After(sl, k, FALSE) = k THEN sl.val[k] ELSE None
op_skiplist_has(sl, k) == After(sl, k, FALSE) = k
op_skiplist_min_key(sl) == KeyOr(sl.fwd[Sentinel][0])
op_skiplist_max_key(sl) == KeyOr(sl.tail)
op_skiplist_lower_bound(sl, k) == KeyOr(After(sl, k, FALSE))
op_skiplist_upper_bound(sl, k) == KeyOr(After(sl, k, TRUE))

RECURSIVE op_skiplist_iter_next(_, _)
op_skiplist_iter_next(sl, n) == IF n = End THEN <<>> ELSE <<n>> \o op_skiplist_iter_next(sl, sl.fwd[n][0])
op_skiplist_foreach(sl) == op_skiplist_iter_next(sl, sl.fwd[Sentinel][0])
op_skiplist_iter_lower(sl, k) == op_skiplist_iter_next(sl, After(sl, k, FALSE))

RECURSIVE BackFrom(_, _)
BackFrom(sl, n) == IF n = Sentinel THEN <<>> ELSE <<n>> \o BackFrom(sl, sl.prev[n])
op_skiplist_foreach_rev(sl) == IF sl.tail = End THEN <<>> ELSE BackFrom(sl, sl.tail)

(* A new node of lvl levels: levels above the active ones start at the sentinel.      *)
Linked(sl, k, v, lvl) ==
    LET update == [i \in 0..lvl - 1 |-> IF i < sl.level THEN Search(sl, k, FALSE)[i] ELSE Sentinel]
        next == sl.fwd[update[0]][0]
        node == [i \in 0..lvl - 1 |-> sl.fwd[update[i]][i]]
        fwd == [n \in DOMAIN sl.fwd |->
                   [i \in DOMAIN sl.fwd[n] |-> IF i < lvl /\ update[i] = n THEN k ELSE sl.fwd[n][i]]]
        back == Updated(sl.prev, k, update[0])
    IN  [fwd |-> Updated(fwd, k, node), val |-> Updated(sl.val, k, v), size |-> sl.size + 1,
         level |-> Max({lvl, sl.level}),
         prev |-> IF next = End THEN back ELSE Updated(back, next, k),
         tail |-> IF next = End THEN k ELSE sl.tail]

op_skiplist_set(k, v) ==
    /\ Use = "skiplist"
    /\ IF op_skiplist_has(rep, k)
       THEN rep' = [rep EXCEPT !.val[k] = v]
       ELSE \E lvl \in 1..MaxLevel : rep' = Linked(rep, k, v, lvl)
    /\ out' = <<op_skiplist_get(rep, k), OldVal(fed, k)>>
    /\ fed' = Updated(fed, k, v)

Unlinked(sl, k) ==
    LET update == Search(sl, k, FALSE)
        fwd == [n \in DOMAIN sl.fwd \ {k} |-> [i \in DOMAIN sl.fwd[n] |->
                   IF i < sl.level /\ update[i] = n /\ sl.fwd[n][i] = k THEN sl.fwd[k][i] ELSE sl.fwd[n][i]]]
        next == sl.fwd[k][0]
        prev == sl.prev[k]
    IN  [fwd |-> fwd, val |-> Without(sl.val, k), size |-> sl.size - 1,
         prev |-> IF next = End THEN Without(sl.prev, k) ELSE Without(Updated(sl.prev, next, prev), k),
         tail |-> CASE next # End -> sl.tail
                    [] next = End /\ prev # Sentinel -> prev
                    [] OTHER -> End,
         level |-> Max({1} \cup {i \in 1..sl.level : fwd[Sentinel][i - 1] # End})]

op_skiplist_del(k) ==
    /\ Use = "skiplist"
    /\ out' = <<op_skiplist_get(rep, k), OldVal(fed, k)>>
    /\ rep' = IF op_skiplist_has(rep, k) THEN Unlinked(rep, k) ELSE rep
    /\ fed' = Without(fed, k)

-----------------------------------------------------------------------------
Init ==
    /\ rep = IF Use = "skiplist" THEN op_skiplist_create ELSE [root |-> Nil, size |-> 0]
    /\ fed = IF Use = "itree" THEN [iv \in Intervals |-> 0] ELSE <<>>
    /\ out = <<None, None>>

Next ==
    \/ \E k \in Keys, v \in Vals : op_rbt_set(k, v) \/ op_skiplist_set(k, v)
    \/ \E k \in Keys : op_rbt_del(k) \/ op_skiplist_del(k)
    \/ \E lo, hi \in Keys, v \in Vals : op_itree_insert(lo, hi, v)
    \/ \E iv \in Intervals : op_itree_delete(iv)

Spec == Init /\ [][Next]_vars

-----------------------------------------------------------------------------
(* The reference: a map read in key order.                                      *)
Sorted(S) == SetToSortSeq(S, <)
LeastOf(S) == IF S = {} THEN None ELSE Min(S)
GreatestOf(S) == IF S = {} THEN None ELSE Max(S)
From(k) == {x \in DOMAIN fed : x >= k}
Beyond(k) == {x \in DOMAIN fed : x > k}

(* Every lookup, bound and traversal of the red-black tree (op_rbt_get, has,        *)
(* min_key, max_key, lower_bound, upper_bound, foreach, foreach_rev and the          *)
(* iterators) answers as a sorted map of what was set and not deleted does, and        *)
(* op_rbt_size counts it, whatever rotations the insertions and deletions took.        *)
RbtExact ==
    LET h == rep.root
    IN  /\ \A k \in Keys :
              /\ op_rbt_has(h, k) = (k \in DOMAIN fed) /\ op_rbt_get(h, k) = OldVal(fed, k)
              /\ op_rbt_lower_bound(h, k) = LeastOf(From(k))
              /\ op_rbt_upper_bound(h, k) = LeastOf(Beyond(k))
              /\ op_rbt_iter_next(op_rbt_iter_lower(h, k)) = Sorted(From(k))
        /\ foreach_r(h) = Sorted(DOMAIN fed) /\ foreach_rev_r(h) = Reverse(foreach_r(h))
        /\ op_rbt_iter_next(op_rbt_iter_init(h)) = foreach_r(h)
        /\ op_rbt_min_key(h) = LeastOf(DOMAIN fed) /\ op_rbt_max_key(h) = GreatestOf(DOMAIN fed)
        /\ rep.size = Cardinality(DOMAIN fed)

(* The same of the skip list, whatever levels random_level chose, with the back        *)
(* links and the tail that op_skiplist_foreach_rev and max_key follow.               *)
SkipListExact ==
    /\ \A k \in Keys :
          /\ op_skiplist_has(rep, k) = (k \in DOMAIN fed) /\ op_skiplist_get(rep, k) = OldVal(fed, k)
          /\ op_skiplist_lower_bound(rep, k) = LeastOf(From(k))
          /\ op_skiplist_upper_bound(rep, k) = LeastOf(Beyond(k))
          /\ op_skiplist_iter_lower(rep, k) = Sorted(From(k))
    /\ op_skiplist_foreach(rep) = Sorted(DOMAIN fed)
    /\ op_skiplist_foreach_rev(rep) = Reverse(Sorted(DOMAIN fed))
    /\ op_skiplist_min_key(rep) = LeastOf(DOMAIN fed) /\ op_skiplist_max_key(rep) = GreatestOf(DOMAIN fed)
    /\ rep.size = Cardinality(DOMAIN fed)

(* op_itree_overlap visits exactly the stored intervals that overlap [a, b], each       *)
(* as often as it is stored and in order of the low end, though it prunes by             *)
(* max_end; op_itree_first_stab returns one of them and op_itree_count counts them.      *)
IntervalsExact ==
    /\ \A a, b \in Keys :
          LET seen == op_itree_overlap(rep.root, a, b)
          IN  /\ \A iv \in Intervals : Cardinality({i \in DOMAIN seen : seen[i] = iv})
                    = IF a <= b /\ iv[1] <= b /\ iv[2] >= a THEN fed[iv] ELSE 0
              /\ \A i \in 1..Len(seen) - 1 : seen[i][1] <= seen[i + 1][1]
    /\ \A x \in Keys :
          LET hits == {iv \in Intervals : fed[iv] > 0 /\ iv[1] <= x /\ x <= iv[2]}
          IN  op_itree_first_stab(rep.root, x) \in
                IF hits = {} THEN {None} ELSE {iv[3] : iv \in hits}
    /\ rep.size = Stored

(* The ordered containers answer as their reference does, now and in what the last      *)
(* set, insert or delete returned.                                             *)
OrderedExact ==
    /\ out[1] = out[2]
    /\ CASE Use = "rbt" -> RbtExact
         [] Use = "skiplist" -> SkipListExact
         [] Use = "itree" -> IntervalsExact

RECURSIVE BlackHeight(_)
BlackHeight(h) == IF h = Nil THEN 0 ELSE BlackHeight(h.left) + IF h.red THEN 0 ELSE 1

RECURSIVE LeftLeaning(_)
LeftLeaning(h) ==
    h # Nil =>
        /\ ~is_red(h.right) /\ ~(is_red(h) /\ is_red(h.left))
        /\ BlackHeight(h.left) = BlackHeight(h.right)
        /\ LeftLeaning(h.left) /\ LeftLeaning(h.right)

(* After every operation, a deletion of an absent key included, both trees are           *)
(* left-leaning red-black trees: black root, no red right link, no two red links in       *)
(* a row, every path with as many black nodes. It is what keeps the path                  *)
(* op_rbt_iter_init stacks within OP_RBT_ITER_DEPTH.                                   *)
Balanced == Use # "skiplist" => ~is_red(rep.root) /\ LeftLeaning(rep.root)

(* The representation is well formed: a map fed with keys and values, or counts.          *)
TypeOK ==
    /\ DOMAIN fed \subseteq IF Use = "itree" THEN Intervals ELSE Keys
    /\ rep.size \in Nat /\ Len(out) = 2
    /\ Use = "skiplist" => rep.level \in 1..MaxLevel /\ rep.tail \in Keys \cup {End}
=============================================================================
