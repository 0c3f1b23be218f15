------------------------------- MODULE Tries -------------------------------
(***************************************************************************)
(* The two tries: the ternary search tree of strings with prefix and wildcard       *)
(* queries (src/trie.c), and the bit trie of address prefixes with first and          *)
(* longest match (src/cidr_tbl.c; one width stands for both address families).       *)
(***************************************************************************)
EXTENDS Integers, FiniteSets, Sequences, SequencesExt, FiniteSetsExt

CONSTANTS
    Use,      \* "trie" or "cidr"
    Chars,    \* characters, integers in the order of their codes
    Fold,     \* [Chars -> Chars]: fold(icase, .)
    MaxKey,   \* bound: length of keys and patterns
    Width,    \* bits of an address
    Vals      \* values; None (NULL) only if the user stores it

(* What the constants have to satisfy.                                      *)
TriesAssumption ==
    /\ Use \in {"trie", "cidr"} /\ Chars \subseteq Nat \ {0} /\ Fold \in [Chars -> Chars]
    /\ \A c \in Chars : Fold[Fold[c]] = Fold[c]
    /\ MaxKey \in Nat \ {0} /\ Width \in Nat /\ Vals \subseteq Nat

VARIABLES
    rep,  \* the trie: [root, count] or [nodes, data, count]
    fed,  \* the map its user expects
    out   \* what the last operation returned and what the map says it should

vars == <<rep, fed, out>>

None == 0
Nil == [nil |-> TRUE]
Star == -1
AnyChar == -2

Strings(S, n) == UNION {[1..k -> S] : k \in 1..n}
Keys == Strings(Chars, MaxKey)
Patterns == {<<>>} \cup Strings(Chars \cup {Star, AnyChar}, MaxKey)
Folded(k) == [i \in DOMAIN k |-> Fold[k[i]]]
OldVal(k) == IF k \in DOMAIN fed THEN fed[k] ELSE None
With(k, v) == [x \in DOMAIN fed \cup {k} |-> IF x = k THEN v ELSE fed[x]]
Without(k) == [x \in DOMAIN fed \ {k} |-> fed[x]]

-----------------------------------------------------------------------------
(* trie.c. A node: its character, its value if val_set, and three subtrees.             *)

node_new(c) == [c |-> c, set |-> FALSE, val |-> None, lo |-> Nil, eq |-> Nil, hi |-> Nil]

RECURSIVE insert(_, _, _)
insert(at, key, v) ==
    LET c == Fold[Head(key)]
        n == IF at = Nil THEN node_new(c) ELSE at
    IN  CASE c < n.c -> [n EXCEPT !.lo = insert(@, key, v)]
          [] c > n.c -> [n EXCEPT !.hi = insert(@, key, v)]
          [] c = n.c /\ Len(key) = 1 -> [n EXCEPT !.set = TRUE, !.val = v]
          [] OTHER -> [n EXCEPT !.eq = insert(@, Tail(key), v)]

RECURSIVE find_node(_, _)
find_node(n, key) ==
    IF n = Nil THEN Nil
    ELSE LET c == Fold[Head(key)]
         IN  CASE c < n.c -> find_node(n.lo, key)
               [] c > n.c -> find_node(n.hi, key)
               [] c = n.c /\ Len(key) = 1 -> n
               [] OTHER -> find_node(n.eq, Tail(key))

RECURSIVE do_del(_, _)
do_del(n, key) ==
    IF n = Nil THEN Nil
    ELSE LET c == Fold[Head(key)]
             m == CASE c < n.c -> [n EXCEPT !.lo = do_del(@, key)]
                    [] c > n.c -> [n EXCEPT !.hi = do_del(@, key)]
                    [] c = n.c /\ Len(key) = 1 -> [n EXCEPT !.set = FALSE, !.val = None]
                    [] OTHER -> [n EXCEPT !.eq = do_del(@, Tail(key))]
         IN  IF ~m.set /\ m.lo = Nil /\ m.eq = Nil /\ m.hi = Nil THEN Nil ELSE m

(* Enumerations: the keys passed to fn, in order. buf is the key built so far.              *)
Terminal(n, buf) == IF n.set THEN <<Append(buf, n.c)>> ELSE <<>>

RECURSIVE tst_each(_, _)
tst_each(n, buf) ==
    IF n = Nil THEN <<>>
    ELSE tst_each(n.lo, buf) \o Terminal(n, buf) \o tst_each(n.eq, Append(buf, n.c)) \o tst_each(n.hi, buf)

RECURSIVE prefix_each(_, _, _)
prefix_each(n, prefix, buf) ==
    IF n = Nil THEN <<>>
    ELSE LET c == Fold[Head(prefix)]
         IN  CASE c < n.c -> prefix_each(n.lo, prefix, buf)
               [] c > n.c -> prefix_each(n.hi, prefix, buf)
               [] c = n.c /\ Len(prefix) = 1 -> Terminal(n, buf) \o tst_each(n.eq, Append(buf, n.c))
               [] OTHER -> prefix_each(n.eq, Tail(prefix), Append(buf, n.c))

RECURSIVE SkipStars(_)
SkipStars(pat) == IF pat # <<>> /\ Head(pat) = Star THEN SkipStars(Tail(pat)) ELSE pat

RECURSIVE glob_match(_, _)
glob_match(pat, str) ==
    LET rest == SkipStars(pat)
    IN  IF rest # pat
        THEN rest = <<>> \/ \E i \in 1..Len(str) : glob_match(rest, SubSeq(str, i, Len(str)))
        ELSE CASE pat = <<>> -> str = <<>>
               [] pat # <<>> /\ str = <<>> -> FALSE
               [] OTHER -> /\ Head(pat) = AnyChar \/ Fold[Head(pat)] = Fold[Head(str)]
                           /\ glob_match(Tail(pat), Tail(str))

RECURSIVE wildcard_each(_, _, _)
wildcard_each(n, pat, buf) ==
    IF n = Nil THEN <<>>
    ELSE wildcard_each(n.lo, pat, buf)
         \o (IF n.set /\ glob_match(pat, Append(buf, n.c)) THEN <<Append(buf, n.c)>> ELSE <<>>)
         \o wildcard_each(n.eq, pat, Append(buf, n.c)) \o wildcard_each(n.hi, pat, buf)

(* The values op_trie_destroy passes to free_fn.                                               *)
RECURSIVE walk_free(_)
walk_free(n) ==
    IF n = Nil THEN <<>>
    ELSE walk_free(n.lo) \o walk_free(n.eq) \o walk_free(n.hi) \o (IF n.set THEN <<n.val>> ELSE <<>>)

op_trie_get(key) == LET n == find_node(rep.root, key) IN IF n # Nil /\ n.set THEN n.val ELSE None
op_trie_has(key) == LET n == find_node(rep.root, key) IN n # Nil /\ n.set
op_trie_foreach == tst_each(rep.root, <<>>)
op_trie_prefix(prefix) == IF prefix = <<>> THEN op_trie_foreach ELSE prefix_each(rep.root, prefix, <<>>)
op_trie_wildcard(pat) == wildcard_each(rep.root, pat, <<>>)

op_trie_set(key, v) ==
    IF key = <<>> THEN out' = <<-1, -1>> /\ UNCHANGED <<rep, fed>>
    ELSE
    LET new == IF op_trie_has(key) THEN 0 ELSE 1
    IN  /\ rep' = [root |-> insert(rep.root, key, v), count |-> rep.count + new]
        /\ out' = <<new, IF Folded(key) \in DOMAIN fed THEN 0 ELSE 1>>
        /\ fed' = With(Folded(key), v)

op_trie_del(key) ==
    /\ key # <<>>
    /\ rep' = [root |-> do_del(rep.root, key), count |-> rep.count - IF op_trie_has(key) THEN 1 ELSE 0]
    /\ out' = <<op_trie_get(key), OldVal(Folded(key))>>
    /\ fed' = Without(Folded(key))

-----------------------------------------------------------------------------
(* cidr_tbl.c. A node is the path of bits to it; data holds the prefixes that have one.        *)

Addresses == [1..Width -> {0, 1}]
PathOf(addr, plen) == SubSeq(addr, 1, plen)
DataAt(path) == IF path \in DOMAIN rep.data THEN rep.data[path] ELSE None

(* How far the walk along addr gets before a child is missing.                                *)
Reached(addr) == {i \in 0..Width : \A j \in 0..i : PathOf(addr, j) \in rep.nodes}

trie_set(path, v) ==
    [nodes |-> rep.nodes \cup {SubSeq(path, 1, i) : i \in 0..Len(path)},
     data |-> [p \in DOMAIN rep.data \cup {path} |-> IF p = path THEN v ELSE rep.data[p]]]

trie_del(path) == [p \in DOMAIN rep.data \ {path} |-> rep.data[p]]

trie_match_any(addr) ==
    LET hits == {i \in Reached(addr) : DataAt(PathOf(addr, i)) # None}
    IN  IF hits = {} THEN None ELSE DataAt(PathOf(addr, Min(hits)))

trie_lpm(addr) ==
    LET hits == {i \in Reached(addr) : DataAt(PathOf(addr, i)) # None}
    IN  IF hits = {} THEN None ELSE DataAt(PathOf(addr, Max(hits)))

RECURSIVE trie_foreach(_)
trie_foreach(path) ==
    IF path \notin rep.nodes THEN <<>>
    ELSE (IF DataAt(path) # None THEN <<path>> ELSE <<>>)
         \o (IF Len(path) = Width THEN <<>> ELSE trie_foreach(Append(path, 0)) \o trie_foreach(Append(path, 1)))

RECURSIVE walk_vals(_)
walk_vals(path) ==
    IF path \notin rep.nodes THEN <<>>
    ELSE (IF DataAt(path) # None THEN <<DataAt(path)>> ELSE <<>>)
         \o (IF Len(path) = Width THEN <<>> ELSE walk_vals(Append(path, 0)) \o walk_vals(Append(path, 1)))

op_cidr_match_any(addr) == trie_match_any(addr)
op_cidr_lpm(addr) == trie_lpm(addr)
op_cidr_foreach == trie_foreach(<<>>)

op_cidr_set(addr, plen, v) ==
    /\ Use = "cidr"
    /\ IF plen > Width THEN out' = <<-1, -1>> /\ UNCHANGED <<rep, fed>>
       ELSE LET path == PathOf(addr, plen)
                new == IF DataAt(path) = None THEN 1 ELSE 0
                set == trie_set(path, v)
            IN  /\ rep' = [nodes |-> set.nodes, data |-> set.data, count |-> rep.count + new]
                /\ out' = <<new, IF path \in DOMAIN fed THEN 0 ELSE 1>>
                /\ fed' = With(path, v)

(* The prefix length of a deletion is one a set accepts: the code does not check it.            *)
op_cidr_del(addr, plen) ==
    LET path == PathOf(addr, plen)
        old == IF path \in rep.nodes THEN DataAt(path) ELSE None
    IN  /\ Use = "cidr" /\ plen <= Width
        /\ rep' = [rep EXCEPT !.data = trie_del(path), !.count = @ - IF old # None THEN 1 ELSE 0]
        /\ out' = <<old, OldVal(path)>>
        /\ fed' = Without(path)

-----------------------------------------------------------------------------
Init ==
    /\ rep = IF Use = "trie" THEN [root |-> Nil, count |-> 0]
                             ELSE [nodes |-> {}, data |-> <<>>, count |-> 0]
    /\ fed = <<>>
    /\ out = <<None, None>>

Next ==
    \/ /\ Use = "trie"
       /\ \E key \in Keys \cup {<<>>} : op_trie_del(key) \/ \E v \in Vals : op_trie_set(key, v)
    \/ \E addr \in Addresses, plen \in 0..Width + 1 :
          op_cidr_del(addr, plen) \/ \E v \in Vals : op_cidr_set(addr, plen, v)

Spec == Init /\ [][Next]_vars

-----------------------------------------------------------------------------
(* The reference of the queries.                                                       *)
Before(a, b) ==
    \/ IsStrictPrefix(a, b)
    \/ \E i \in 1..Min({Len(a), Len(b)}) : a[i] < b[i] /\ SubSeq(a, 1, i - 1) = SubSeq(b, 1, i - 1)
Ordered(S) == SetToSortSeq(S, Before)

(* A pattern matches when each star can be given a stretch of the string.                    *)
RECURSIVE Matches(_, _)
Matches(pat, str) ==
    CASE pat = <<>> -> str = <<>>
      [] pat # <<>> /\ Head(pat) = Star ->
            Matches(Tail(pat), str) \/ (str # <<>> /\ Matches(pat, Tail(str)))
      [] OTHER -> /\ str # <<>> /\ (Head(pat) = AnyChar \/ Fold[Head(pat)] = Head(str))
                  /\ Matches(Tail(pat), Tail(str))

(* Every query of the ternary tree (op_trie_get, has, foreach, prefix, wildcard, count)           *)
(* answers as a sorted map of the folded keys does, after any insertions and pruning              *)
(* deletions.                                                                          *)
TrieExact ==
    /\ rep.count = Cardinality(DOMAIN fed)
    /\ Len(walk_free(rep.root)) = rep.count
    /\ op_trie_foreach = Ordered(DOMAIN fed)
    /\ \A key \in Keys :
          /\ op_trie_has(key) = (Folded(key) \in DOMAIN fed) /\ op_trie_get(key) = OldVal(Folded(key))
          /\ op_trie_prefix(key) = Ordered({k \in DOMAIN fed : IsPrefix(Folded(key), k)})
    /\ \A pat \in Patterns : op_trie_wildcard(pat) = Ordered({k \in DOMAIN fed : Matches(pat, k)})

(* op_cidr_lpm returns the value of the longest stored prefix of an address, match_any of the         *)
(* shortest, foreach visits each stored prefix once and the count counts them, although                *)
(* deletions leave the nodes in place.                                                       *)
CidrExact ==
    LET covering(addr) == {i \in 0..Width : PathOf(addr, i) \in DOMAIN fed}
    IN  /\ rep.count = Cardinality(DOMAIN fed)
        /\ Range(op_cidr_foreach) = DOMAIN fed /\ Len(op_cidr_foreach) = Cardinality(DOMAIN fed)
        /\ Len(walk_vals(<<>>)) = rep.count
        /\ \A addr \in Addresses :
              /\ op_cidr_lpm(addr) = IF covering(addr) = {} THEN None ELSE fed[PathOf(addr, Max(covering(addr)))]
              /\ op_cidr_match_any(addr) = IF covering(addr) = {} THEN None
                                        ELSE fed[PathOf(addr, Min(covering(addr)))]

(* Both tries answer as their reference does, now and in what the last operation returned.              *)
TriesExact == out[1] = out[2] /\ IF Use = "trie" THEN TrieExact ELSE CidrExact

(* The representation is well formed.                                          *)
TypeOK == rep.count \in Nat /\ Len(out) = 2 /\ \A k \in DOMAIN fed : fed[k] \in Vals
=============================================================================
