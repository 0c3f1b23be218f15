-------------------------- MODULE ThreadPoolProofs --------------------------
(* The thread pool runs every submitted item exactly once, shuts down with    *)
(* nothing left, and does not sleep on work where stores are ordered, for any  *)
(* number of workers and items.                                               *)
EXTENDS ThreadPool, TLAPS

(* What the pool does to its stacks and deques, as sets of items.  A sequence *)
(* that is injective holds no item twice.                                     *)

(* inbox_push, at the newest end.                                             *)
LEMMA PushFront ==
    ASSUME NEW S, NEW s \in Seq(S), NEW x \in S, IsInjective(s), x \notin Range(s)
    PROVE  /\ <<x>> \o s \in Seq(S) /\ IsInjective(<<x>> \o s)
           /\ Range(<<x>> \o s) = Range(s) \cup {x}
<1> DEFINE t == <<x>> \o s
<1>1. t \in Seq(S) /\ Len(t) = Len(s) + 1 /\ Len(s) \in Nat
  OBVIOUS
<1>2. DOMAIN t = 1 .. Len(s) + 1 /\ DOMAIN s = 1 .. Len(s)
  BY <1>1
<1>3. t[1] = x /\ \A i \in 1 .. Len(s) : t[i + 1] = s[i]
  OBVIOUS
<1>4. \A i \in DOMAIN t : i # 1 => i - 1 \in DOMAIN s /\ t[i] = s[i - 1]
  BY <1>1, <1>2, <1>3
<1> HIDE DEF t
<1>5. IsInjective(t)
  BY <1>1, <1>2, <1>3, <1>4 DEF IsInjective, Range
<1>6. Range(t) = Range(s) \cup {x}
  BY <1>1, <1>2, <1>3, <1>4 DEF Range
<1>7. QED
  BY <1>1, <1>5, <1>6, Zenon DEF t

(* deque_push, at the bottom.                                                 *)
LEMMA PushBack ==
    ASSUME NEW S, NEW s \in Seq(S), NEW x \in S, IsInjective(s), x \notin Range(s)
    PROVE  /\ Append(s, x) \in Seq(S) /\ IsInjective(Append(s, x))
           /\ Range(Append(s, x)) = Range(s) \cup {x}
<1> DEFINE t == Append(s, x)
<1>1. t \in Seq(S) /\ Len(t) = Len(s) + 1 /\ Len(s) \in Nat
  OBVIOUS
<1>2. DOMAIN t = 1 .. Len(s) + 1 /\ DOMAIN s = 1 .. Len(s)
  BY <1>1
<1>3. t[Len(s) + 1] = x /\ \A i \in 1 .. Len(s) : t[i] = s[i]
  OBVIOUS
<1> HIDE DEF t
<1>4. IsInjective(t)
  BY <1>1, <1>2, <1>3 DEF IsInjective, Range
<1>5. Range(t) = Range(s) \cup {x}
  BY <1>1, <1>2, <1>3 DEF Range
<1>6. QED
  BY <1>1, <1>4, <1>5, Zenon DEF t

(* deque_steal, at the top.                                                   *)
LEMMA TakeFront ==
    ASSUME NEW S, NEW s \in Seq(S), IsInjective(s), s # <<>>
    PROVE  /\ Head(s) \in S /\ Tail(s) \in Seq(S) /\ IsInjective(Tail(s))
           /\ Head(s) \in Range(s) /\ Range(Tail(s)) = Range(s) \ {Head(s)}
<1> DEFINE t == Tail(s)
<1>1. t \in Seq(S) /\ Len(s) \in Nat \ {0} /\ Len(t) = Len(s) - 1 /\ Head(s) = s[1]
  OBVIOUS
<1>2. DOMAIN t = 1 .. Len(s) - 1 /\ DOMAIN s = 1 .. Len(s)
  BY <1>1
<1>3. \A i \in 1 .. Len(s) - 1 : t[i] = s[i + 1]
  BY <1>1
<1>4. \A i \in DOMAIN s : i # 1 => i - 1 \in DOMAIN t /\ s[i] = t[i - 1]
  BY <1>1, <1>2, <1>3
<1> HIDE DEF t
<1>5. IsInjective(t)
  <2>1. ASSUME NEW i \in DOMAIN t, NEW j \in DOMAIN t, t[i] = t[j] PROVE i = j
    <3>1. i + 1 \in DOMAIN s /\ j + 1 \in DOMAIN s /\ s[i + 1] = s[j + 1]
      BY <1>1, <1>2, <1>3, <2>1
    <3>2. i + 1 = j + 1
      BY <3>1, Zenon DEF IsInjective
    <3>3. QED
      BY <1>2, <3>2
  <2>2. QED
    BY <2>1, Zenon DEF IsInjective
<1>6. s[1] \in Range(s) /\ s[1] \in S
  BY <1>1, <1>2 DEF Range
<1>7. Range(t) = Range(s) \ {s[1]}
  <2>1. ASSUME NEW i \in DOMAIN t PROVE t[i] \in Range(s) \ {s[1]}
    <3>1. i + 1 \in DOMAIN s /\ t[i] = s[i + 1] /\ i + 1 # 1 /\ 1 \in DOMAIN s
      BY <1>1, <1>2, <1>3
    <3>2. s[i + 1] # s[1]
      BY <3>1, Zenon DEF IsInjective
    <3>3. QED
      BY <3>1, <3>2, Zenon DEF Range
  <2>2. ASSUME NEW i \in DOMAIN s, s[i] # s[1] PROVE s[i] \in Range(t)
    BY <1>4, <2>2, Zenon DEF Range
  <2>3. QED
    BY <2>1, <2>2, Zenon DEF Range
<1>8. QED
  BY <1>1, <1>5, <1>6, <1>7, Zenon DEF t

(* deque_pop, at the bottom.                                                  *)
LEMMA TakeBack ==
    ASSUME NEW S, NEW s \in Seq(S), IsInjective(s), s # <<>>
    PROVE  /\ Last(s) \in S /\ Front(s) \in Seq(S) /\ IsInjective(Front(s))
           /\ Last(s) \in Range(s) /\ Range(Front(s)) = Range(s) \ {Last(s)}
<1> DEFINE t == SubSeq(s, 1, Len(s) - 1)
           n == Len(s)
<1>1. n \in Nat \ {0} /\ DOMAIN s = 1 .. n
  OBVIOUS
<1>2. t \in Seq(S) /\ Len(t) = n - 1 /\ \A i \in 1 .. n - 1 : t[i] = s[i]
  BY <1>1
<1>3. DOMAIN t = 1 .. n - 1
  BY <1>1, <1>2
<1> HIDE DEF t
<1>4. IsInjective(t)
  BY <1>1, <1>2, <1>3 DEF IsInjective
<1>5. s[n] \in Range(s) /\ s[n] \in S
  BY <1>1 DEF Range
<1>6. Range(t) = Range(s) \ {s[n]}
  BY <1>1, <1>2, <1>3 DEF IsInjective, Range
<1>7. QED
  BY <1>2, <1>4, <1>5, <1>6, Zenon DEF t, Front, Last

(* inbox_drain turns the stack around.                                        *)
LEMMA TurnAround ==
    ASSUME NEW S, NEW s \in Seq(S), IsInjective(s)
    PROVE  /\ Reverse(s) \in Seq(S) /\ IsInjective(Reverse(s))
           /\ Range(Reverse(s)) = Range(s)
<1> DEFINE n == Len(s)
           t == [i \in 1 .. n |-> s[(n - i) + 1]]
<1>1. n \in Nat /\ DOMAIN s = 1 .. n /\ \A i \in 1 .. n : s[i] \in S
  OBVIOUS
<1>2. \A i \in 1 .. n : (n - i) + 1 \in 1 .. n /\ (n - ((n - i) + 1)) + 1 = i
  BY <1>1
<1>3. t \in [1 .. n -> S] /\ DOMAIN t = 1 .. n /\ \A i \in 1 .. n : t[i] = s[(n - i) + 1]
  BY <1>1, <1>2, Zenon
<1>4. t \in Seq(S)
  BY <1>1, <1>3
<1> HIDE DEF t, n
<1>5. IsInjective(t)
  BY <1>1, <1>2, <1>3 DEF IsInjective
<1>6. \A i \in 1 .. n : s[i] = t[(n - i) + 1]
  BY <1>1, <1>2, <1>3, Zenon
<1>7. Range(t) = Range(s)
  BY <1>1, <1>2, <1>3, <1>6 DEF Range
<1>8. QED
  BY <1>4, <1>5, <1>7, Zenon DEF t, n, Reverse

(* ... and the shutdown appends it to the deque.                              *)
LEMMA Joined ==
    ASSUME NEW S, NEW s \in Seq(S), NEW t \in Seq(S), IsInjective(s), IsInjective(t),
           Range(s) \cap Range(t) = {}
    PROVE  /\ s \o t \in Seq(S) /\ IsInjective(s \o t)
           /\ Range(s \o t) = Range(s) \cup Range(t)
<1> DEFINE u == s \o t
           m == Len(s)
           n == Len(t)
<1>1. m \in Nat /\ n \in Nat /\ DOMAIN s = 1 .. m /\ DOMAIN t = 1 .. n
  OBVIOUS
<1>2. u \in Seq(S) /\ Len(u) = m + n
  OBVIOUS
<1>3. DOMAIN u = 1 .. m + n
  BY <1>2
<1>4. \A i \in 1 .. m : u[i] = s[i]
  BY <1>1
<1>5. \A i \in 1 .. m + n : i > m => i - m \in 1 .. n /\ u[i] = t[i - m]
  BY <1>1
<1>6. \A i \in 1 .. n : m + i \in 1 .. m + n /\ u[m + i] = t[i]
  BY <1>1
<1> HIDE DEF u, m, n
<1>7. IsInjective(u)
  <2>1. ASSUME NEW i \in 1 .. m + n, NEW j \in 1 .. m + n, u[i] = u[j] PROVE i = j
    <3>1. CASE i <= m /\ j <= m
      BY <1>1, <1>4, <2>1, <3>1 DEF IsInjective
    <3>2. CASE i > m /\ j > m
      <4>1. i - m \in DOMAIN t /\ j - m \in DOMAIN t /\ t[i - m] = t[j - m]
        BY <1>1, <1>5, <2>1, <3>2, Zenon
      <4>2. i - m = j - m
        BY <4>1, Zenon DEF IsInjective
      <4>3. QED
        BY <1>1, <4>2
    <3>3. CASE i <= m /\ j > m
      <4>1. i \in DOMAIN s /\ j - m \in DOMAIN t /\ s[i] = t[j - m]
        BY <1>1, <1>4, <1>5, <2>1, <3>3
      <4>2. s[i] \in Range(s) /\ t[j - m] \in Range(t)
        BY <4>1, Zenon DEF Range
      <4>3. QED
        BY <4>1, <4>2, Zenon
    <3>4. CASE i > m /\ j <= m
      <4>1. j \in DOMAIN s /\ i - m \in DOMAIN t /\ s[j] = t[i - m]
        BY <1>1, <1>4, <1>5, <2>1, <3>4
      <4>2. s[j] \in Range(s) /\ t[i - m] \in Range(t)
        BY <4>1, Zenon DEF Range
      <4>3. QED
        BY <4>1, <4>2, Zenon
    <3>5. QED
      BY <1>1, <3>1, <3>2, <3>3, <3>4
  <2>2. QED
    BY <1>3, <2>1, Zenon DEF IsInjective
<1>8. Range(u) = Range(s) \cup Range(t)
  <2>1. ASSUME NEW i \in DOMAIN u PROVE u[i] \in Range(s) \cup Range(t)
    <3>1. CASE i <= m
      <4>1. i \in DOMAIN s /\ u[i] = s[i]
        BY <1>1, <1>3, <1>4, <3>1
      <4>2. QED
        BY <4>1, Zenon DEF Range
    <3>2. CASE i > m
      <4>1. i - m \in DOMAIN t /\ u[i] = t[i - m]
        BY <1>1, <1>3, <1>5, <3>2, Zenon
      <4>2. QED
        BY <4>1, Zenon DEF Range
    <3>3. QED
      BY <1>1, <1>3, <3>1, <3>2
  <2>2. ASSUME NEW i \in DOMAIN s PROVE s[i] \in Range(u)
    <3>1. i \in DOMAIN u /\ u[i] = s[i]
      BY <1>1, <1>3, <1>4
    <3>2. QED
      BY <3>1, Zenon DEF Range
  <2>3. ASSUME NEW i \in DOMAIN t PROVE t[i] \in Range(u)
    <3>1. m + i \in DOMAIN u /\ u[m + i] = t[i]
      BY <1>1, <1>3, <1>6, Zenon
    <3>2. QED
      BY <3>1, Zenon DEF Range
  <2>4. Range(u) \subseteq Range(s) \cup Range(t)
    BY <2>1, Zenon DEF Range
  <2>5. Range(s) \subseteq Range(u) /\ Range(t) \subseteq Range(u)
    BY <2>2, <2>3, Zenon DEF Range
  <2>6. QED
    BY <2>4, <2>5, Zenon
<1>9. QED
  BY <1>2, <1>7, <1>8, Zenon DEF u

-----------------------------------------------------------------------------
(* Where an item can be: a worker's inbox, batch, deque or hands, or a call   *)
(* of submit_to_worker.                                                       *)
Cells == ({"inbox", "batch", "deque", "item"} \X Workers) \cup ({"sub"} \X Threads)

Pushing(t) == Submitting(t) /\ sub[t][1] = "push"

In(c) ==
    CASE c[1] = "inbox" -> Range(inbox[c[2]])
      [] c[1] = "batch" -> Range(batch[c[2]])
      [] c[1] = "deque" -> Range(deque[c[2]])
      [] c[1] = "item"  -> {witem[c[2]]} \ {None}
      [] c[1] = "sub"   -> IF Pushing(c[2]) THEN {sub[c[2]][2]} ELSE {}

(* No item is in two places; an item in a place was submitted and has not     *)
(* run; a submitted item has run or is in a place; none runs twice.           *)
Placed ==
    /\ \A c, d \in Cells : c # d => In(c) \cap In(d) = {}
    /\ \A c \in Cells : \A i \in In(c) : i \in Items /\ i \in Submitted /\ ran[i] = 0
    /\ \A i \in Submitted : ran[i] = 1 \/ \E c \in Cells : i \in In(c)
    /\ \A i \in Items : ran[i] \in {0, 1} /\ (ran[i] = 1 => i \in Submitted)
    /\ todo \subseteq Roots

(* Nor twice in one place.                                                    *)
NoRepeats ==
    \A w \in Workers : IsInjective(inbox[w]) /\ IsInjective(batch[w]) /\ IsInjective(deque[w])

(* What worker_entry holds, by where it is.                                   *)
HandsOK ==
    \A w \in Workers :
        /\ wpc[w] # "push" => batch[w] = <<>>
        /\ wpc[w] = "run" <=> witem[w] # None

DataOK ==
    /\ inbox \in [Workers -> Seq(Items)]
    /\ batch \in [Workers -> Seq(Items)]
    /\ deque \in [Workers -> Seq(Items)]
    /\ witem \in [Workers -> Items \cup {None}]
    /\ sub \in [Threads -> {<<>>} \cup ({"push"} \X Items) \cup ({"awake", "signal"} \X Workers)]
    /\ todo \subseteq Items
    /\ ran \in [Items -> Nat]

Pcs == {"drain", "push", "steal", "run", "clear", "recheck", "stop", "poll", "exit", "unborn"}

ControlOK ==
    /\ awake \in [Workers -> {0, 1}]
    /\ pend \in [Workers -> {0, 1, None}]
    /\ efd \in [Workers -> BOOLEAN]
    /\ wpc \in [Workers -> Pcs]
    /\ stop \in BOOLEAN
    /\ mpc \in {"create", "open", "signal", "join", "drain", "pop", "done"} /\ mi \in Workers

(* op_tpool_create (Windows) has yet to start the workers from mi on.         *)
StartOK == mpc = "create" => \A w \in Workers : w >= mi => wpc[w] = "unborn"

IInv == DataOK /\ ControlOK /\ StartOK /\ NoRepeats /\ HandsOK /\ Placed

LEMMA TypeSplit == TypeOK <=> DataOK /\ ControlOK
BY Zenon DEF TypeOK, DataOK, ControlOK, Pcs

LEMMA InOf ==
    /\ \A w \in Workers : /\ In(<<"inbox", w>>) = Range(inbox[w])
                           /\ In(<<"batch", w>>) = Range(batch[w])
                           /\ In(<<"deque", w>>) = Range(deque[w])
                           /\ In(<<"item", w>>) = {witem[w]} \ {None}
    /\ \A t \in Threads : In(<<"sub", t>>) = IF Pushing(t) THEN {sub[t][2]} ELSE {}
BY DEF In

LEMMA InOfNext ==
    /\ \A w \in Workers : /\ In(<<"inbox", w>>)' = Range(inbox'[w])
                           /\ In(<<"batch", w>>)' = Range(batch'[w])
                           /\ In(<<"deque", w>>)' = Range(deque'[w])
                           /\ In(<<"item", w>>)' = {witem'[w]} \ {None}
    /\ \A t \in Threads : In(<<"sub", t>>)' = IF Pushing(t)' THEN {sub'[t][2]} ELSE {}
BY DEF In

LEMMA CellOf ==
    /\ \A w \in Workers : /\ <<"inbox", w>> \in Cells /\ <<"batch", w>> \in Cells
                           /\ <<"deque", w>> \in Cells /\ <<"item", w>> \in Cells
    /\ \A t \in Threads : <<"sub", t>> \in Cells
    /\ \A c \in Cells : /\ c = <<c[1], c[2]>>
                         /\ \/ c[1] \in {"inbox", "batch", "deque", "item"} /\ c[2] \in Workers
                            \/ c[1] = "sub" /\ c[2] \in Threads
BY DEF Cells

(* A place whose variable keeps its value keeps its items.                    *)
LEMMA Untouched ==
    ASSUME NEW c \in Cells,
           c[1] = "inbox" => inbox'[c[2]] = inbox[c[2]],
           c[1] = "batch" => batch'[c[2]] = batch[c[2]],
           c[1] = "deque" => deque'[c[2]] = deque[c[2]],
           c[1] = "item" => witem'[c[2]] = witem[c[2]],
           c[1] = "sub" => \/ sub'[c[2]] = sub[c[2]]
                           \/ ~Pushing(c[2]) /\ ~Pushing(c[2])'
    PROVE  In(c)' = In(c)
<1>1. CASE c[1] = "inbox"
  BY <1>1, Zenon DEF In
<1>2. CASE c[1] = "batch"
  BY <1>2, Zenon DEF In
<1>3. CASE c[1] = "deque"
  BY <1>3, Zenon DEF In
<1>4. CASE c[1] = "item"
  BY <1>4, Zenon DEF In
<1>5. CASE c[1] = "sub"
  <2>1. CASE sub'[c[2]] = sub[c[2]]
    <3>1. Pushing(c[2])' = Pushing(c[2])
      BY <2>1, Zenon DEF Pushing, Submitting
    <3>2. QED
      BY <1>5, <2>1, <3>1, Zenon DEF In
  <2>2. CASE ~Pushing(c[2]) /\ ~Pushing(c[2])'
    BY <1>5, <2>2, Zenon DEF In
  <2>3. QED
    BY <1>5, <2>1, <2>2, Zenon
<1>6. QED
  BY <1>1, <1>2, <1>3, <1>4, <1>5, CellOf, Zenon

LEMMA SubmittedIff ==
    ASSUME NEW i
    PROVE  i \in Submitted <=>
             \/ i \in Roots /\ i \notin todo
             \/ i # None /\ \E j \in Items : ran[j] > 0 /\ Spawn[j] = i
BY DEF Submitted

LEMMA SubmittedIffNext ==
    ASSUME NEW i
    PROVE  (i \in Submitted)' <=>
             \/ i \in Roots /\ i \notin todo'
             \/ i # None /\ \E j \in Items : ran'[j] > 0 /\ Spawn[j] = i
BY DEF Submitted

-----------------------------------------------------------------------------
(* Every step of the pool moves items from one place to another, ...          *)
LEMMA Moved ==
    ASSUME Placed, NEW c \in Cells, NEW d \in Cells, c # d, NEW X, X \subseteq In(c),
           ran' = ran, todo' = todo,
           In(c)' = In(c) \ X, In(d)' = In(d) \cup X,
           \A e \in Cells : e # c /\ e # d => In(e)' = In(e)
    PROVE  Placed'
<1>1. Submitted' = Submitted
  BY Zenon DEF Submitted
<1>2. \A e \in Cells : In(e)' \subseteq In(e) \/ (e = d /\ In(e)' = In(d) \cup X)
  BY Zenon
<1>3. \A e, f \in Cells : e # f => In(e)' \cap In(f)' = {}
  <2>1. ASSUME NEW e \in Cells, NEW f \in Cells, e # f, NEW i, i \in In(e)', i \in In(f)'
        PROVE  FALSE
    <3>1. CASE e = d
      BY <2>1, <3>1 DEF Placed
    <3>2. CASE f = d
      BY <2>1, <3>2 DEF Placed
    <3>3. CASE e # d /\ f # d
      BY <1>2, <2>1, <3>3, Zenon DEF Placed
    <3>4. QED
      BY <3>1, <3>2, <3>3, Zenon
  <2>2. QED
    BY <2>1, Zenon
<1>4. \A e \in Cells : \A i \in In(e)' : i \in Items /\ i \in Submitted /\ ran[i] = 0
  BY <1>2, Zenon DEF Placed
<1>5. \A i \in Submitted : ran[i] = 1 \/ \E e \in Cells : i \in In(e)'
  <2>1. ASSUME NEW i, NEW e \in Cells, i \in In(e) PROVE \E f \in Cells : i \in In(f)'
    BY <2>1, Zenon
  <2>2. QED
    BY <2>1, Zenon DEF Placed
<1>6. QED
  BY <1>1, <1>3, <1>4, <1>5, Zenon DEF Placed

(* ... or none, ...                                                           *)
LEMMA Stayed ==
    ASSUME Placed, ran' = ran, todo' = todo, \A e \in Cells : In(e)' = In(e)
    PROVE  Placed'
<1>1. Submitted' = Submitted
  BY Zenon DEF Submitted
<1>2. QED
  BY <1>1 DEF Placed

(* ... or op_tpool_submit brings in one that was not there, ...                *)
LEMMA Entered ==
    ASSUME Placed, ran \in [Items -> Nat],
           NEW d \in Cells, NEW i \in todo, ran' = ran, todo' = todo \ {i},
           In(d) = {}, In(d)' = {i}, \A e \in Cells : e # d => In(e)' = In(e)
    PROVE  Placed'
<1>1. i \in Roots /\ i \in Items /\ i # None /\ \A j \in Items : Spawn[j] # i
  BY PoolAssumption DEF Placed, PoolAssumption
<1>2. i \notin Submitted
  BY <1>1, SubmittedIff, Zenon
<1>3. Submitted' = Submitted \cup {i}
  BY <1>1, Zenon DEF Submitted
<1>4. ran[i] = 0 /\ \A e \in Cells : i \notin In(e)
  BY <1>1, <1>2, Zenon DEF Placed
<1>5. \A e, f \in Cells : e # f => In(e)' \cap In(f)' = {}
  <2>1. ASSUME NEW e \in Cells, NEW f \in Cells, e # f PROVE In(e)' \cap In(f)' = {}
    <3>1. CASE e = d \/ f = d
      BY <1>4, <2>1, <3>1, Zenon
    <3>2. CASE e # d /\ f # d
      BY <2>1, <3>2, Zenon DEF Placed
    <3>3. QED
      BY <3>1, <3>2, Zenon
  <2>2. QED
    BY <2>1, Zenon
<1>6. \A e \in Cells : \A k \in In(e)' : k \in Items /\ k \in Submitted' /\ ran[k] = 0
  BY <1>1, <1>3, <1>4 DEF Placed
<1>7. \A k \in Submitted' : ran[k] = 1 \/ \E e \in Cells : k \in In(e)'
  <2>1. ASSUME NEW k, NEW e \in Cells, k \in In(e) PROVE \E f \in Cells : k \in In(f)'
    BY <2>1, Zenon
  <2>2. QED
    BY <1>3, <2>1, Zenon DEF Placed
<1>8. QED
  BY <1>3, <1>5, <1>6, <1>7, Zenon DEF Placed

(* ... or work_item_run takes one out for good, and its follow-up comes in.    *)
LEMMA Left ==
    ASSUME Placed, ran \in [Items -> Nat],
           NEW c \in Cells, NEW d \in Cells, c # d, NEW i \in In(c),
           ran' = [ran EXCEPT ![i] = @ + 1], todo' = todo,
           In(c)' = In(c) \ {i}, In(d) = {}, In(d)' = {Spawn[i]} \ {None},
           \A e \in Cells : e # c /\ e # d => In(e)' = In(e)
    PROVE  Placed'
<1>1. i \in Items /\ i \in Submitted /\ ran[i] = 0
  BY Zenon DEF Placed
<1>2. ran'[i] = 1 /\ \A j \in Items : j # i => ran'[j] = ran[j]
  BY <1>1
<1>3. ASSUME NEW k PROVE (k \in Submitted)' <=> (k \in Submitted \/ (k = Spawn[i] /\ k # None))
  BY <1>1, <1>2, SubmittedIff, SubmittedIffNext
<1>4. Spawn[i] # None => Spawn[i] \in Items /\ Spawn[i] \notin Submitted
  <2>1. ASSUME Spawn[i] # None PROVE Spawn[i] \in Items /\ Spawn[i] \notin Roots
    BY <1>1, <2>1, PoolAssumption, Zenon DEF PoolAssumption
  <2>2. ASSUME Spawn[i] # None, NEW j \in Items, ran[j] > 0 PROVE Spawn[j] # Spawn[i]
    BY <1>1, <2>2, PoolAssumption DEF PoolAssumption
  <2>3. QED
    BY <2>1, <2>2, SubmittedIff, Zenon
<1>5. Spawn[i] # None => Spawn[i] # i /\ ran'[Spawn[i]] = 0 /\ \A e \in Cells : Spawn[i] \notin In(e)
  BY <1>1, <1>2, <1>4 DEF Placed
<1>6. \A e, f \in Cells : e # f => In(e)' \cap In(f)' = {}
  <2>1. ASSUME NEW e \in Cells, NEW f \in Cells, e # f PROVE In(e)' \cap In(f)' = {}
    <3>1. CASE e = d \/ f = d
      BY <1>5, <2>1, <3>1
    <3>2. CASE e # d /\ f # d
      BY <2>1, <3>2 DEF Placed
    <3>3. QED
      BY <3>1, <3>2, Zenon
  <2>2. QED
    BY <2>1, Zenon
<1>7. \A e \in Cells : \A k \in In(e)' : k \in Items /\ (k \in Submitted)' /\ ran'[k] = 0
  <2>1. ASSUME NEW e \in Cells, e # d, NEW k, k \in In(e)' PROVE k \in In(e) /\ k # i
    BY <2>1 DEF Placed
  <2>2. QED
    BY <1>2, <1>3, <1>4, <1>5, <2>1 DEF Placed
<1>8. \A k : (k \in Submitted)' => ran'[k] = 1 \/ \E e \in Cells : k \in In(e)'
  <2>1. ASSUME NEW k, NEW e \in Cells, k \in In(e), k # i PROVE \E f \in Cells : k \in In(f)'
    BY <2>1, Zenon
  <2>2. ASSUME NEW k, (k \in Submitted)' PROVE ran'[k] = 1 \/ \E e \in Cells : k \in In(e)'
    <3>1. CASE k = i
      BY <1>2, <3>1
    <3>2. CASE k # i /\ k \in Submitted
      BY <1>2, <2>1, <3>2 DEF Placed
    <3>3. CASE k = Spawn[i] /\ k # None
      BY <3>3, Zenon
    <3>4. QED
      BY <1>3, <2>2, <3>1, <3>2, <3>3, Zenon
  <2>3. QED
    BY <2>2, Zenon
<1>9. \A k \in Items : ran'[k] \in {0, 1} /\ (ran'[k] = 1 => (k \in Submitted)')
  BY <1>1, <1>2, <1>3 DEF Placed
<1>10. QED
  BY <1>6, <1>7, <1>8, <1>9, Zenon DEF Placed

-----------------------------------------------------------------------------
(* Initially, on either system, nothing has been submitted.                   *)
LEMMA InitIInv == ASSUME Init \/ WinInit PROVE IInv
<1>1. /\ inbox = [w \in Workers |-> <<>>] /\ batch = [w \in Workers |-> <<>>]
      /\ deque = [w \in Workers |-> <<>>] /\ witem = [w \in Workers |-> None]
      /\ sub = [t \in Threads |-> <<>>] /\ todo = Roots /\ ran = [i \in Items |-> 0]
      /\ wpc = [w \in Workers |-> "drain"] \/ wpc = [w \in Workers |-> "unborn"]
  BY Zenon DEF Init, WinInit
<1>2. DataOK
  BY <1>1, PoolAssumption DEF DataOK, PoolAssumption
<1>3. ControlOK
  <2>1. 1 \in Workers
    BY PoolAssumption DEF PoolAssumption, Workers
  <2>2. CASE Init
    BY <2>1, <2>2, Zenon DEF Init, ControlOK, Pcs
  <2>3. CASE WinInit
    BY <2>1, <2>3, Zenon DEF WinInit, ControlOK, Pcs
  <2>4. QED
    BY <2>2, <2>3, Zenon
<1>4. NoRepeats
  BY <1>1 DEF NoRepeats, IsInjective
<1>5. HandsOK
  BY <1>1, Zenon DEF HandsOK
<1>6. Placed
  <2>1. Submitted = {}
    BY <1>1 DEF Submitted
  <2>2. \A c \in Cells : In(c) = {}
    <3>1. \A w \in Workers : Range(inbox[w]) = {} /\ Range(batch[w]) = {} /\ Range(deque[w]) = {}
      BY <1>1 DEF Range
    <3>2. \A t \in Threads : ~Pushing(t)
      BY <1>1, Zenon DEF Pushing, Submitting
    <3>3. QED
      BY <1>1, <3>1, <3>2, CellOf DEF In
  <2>3. QED
    BY <1>1, <2>1, <2>2 DEF Placed
<1>7. QED
  BY <1>2, <1>3, <1>4, <1>5, <1>6, Zenon DEF IInv, StartOK, Init, WinInit

(* The program counters and flags keep their types.                           *)
LEMMA Controlled ==
    ASSUME IInv, Next \/ WinNext
    PROVE  ControlOK'
<1>0. ControlOK /\ N \in Nat \ {0} /\ Workers = 1 .. N
  BY PoolAssumption, Zenon DEF IInv, PoolAssumption, Workers
<1>1. ASSUME NEW pc, NEW next, Advance(pc, next) PROVE mi' \in Workers /\ mpc' \in {pc, next}
  BY <1>0, <1>1 DEF Advance, ControlOK
<1>2. ASSUME NEW w, Drained(w) PROVE awake' \in [Workers -> {0, 1}] /\ pend' \in [Workers -> {0, 1, None}]
  BY <1>0, <1>2 DEF Drained, ControlOK
<1>3. CASE op_tpool_submit \/ Done
  BY <1>0, <1>3, Zenon DEF op_tpool_submit, Done, vars, wakeVars, workerVars, mainVars, ControlOK
<1>4. CASE op_tpool_shutdown \/ op_tpool_shutdown_w32
  <2>1. CASE SetStop \/ SignalAll \/ Join
    BY <1>0, <1>1, <2>1, Zenon DEF SetStop, SignalAll, Join, wakeVars, workerVars, ControlOK
  <2>2. CASE DrainInbox \/ RunLeftover \/ Destroy
    BY <1>0, <1>1, <2>2, Zenon DEF DrainInbox, RunLeftover, Destroy, wakeVars, workerVars, mainVars, ControlOK
  <2>3. QED
    BY <1>4, <2>1, <2>2 DEF op_tpool_shutdown, op_tpool_shutdown_w32
<1>5. CASE op_tpool_create
  BY <1>0, <1>1, <1>5, Zenon DEF op_tpool_create, Goto, aside, ControlOK, Pcs
<1>6. ASSUME NEW t \in Threads, submit_to_worker(t) \/ submit_to_worker_w32(t) PROVE ControlOK'
  BY <1>0, <1>2, <1>6, Zenon DEF submit_to_worker, submit_to_worker_w32, inbox_push, inbox_push_w32,
        LoadAwake, SignalWake, aside, wakeVars, workerVars, mainVars, ControlOK
<1>7. ASSUME NEW w \in Workers, worker_entry(w) \/ PollTimeout(w) \/ FlushStore(w) \/ worker_entry_w32(w)
      PROVE  ControlOK'
  <2>1. CASE Harvest(w) \/ HarvestW32(w)
    BY <1>0, <1>2, <2>1 DEF Harvest, HarvestW32, Goto, aside, mainVars, ControlOK, Pcs
  <2>2. CASE PushBatch(w) \/ Pop(w)
    BY <1>0, <2>2 DEF PushBatch, Pop, Goto, wakeVars, mainVars, ControlOK, Pcs
  <2>3. CASE Steal(w) \/ StealW32(w)
    BY <1>0, <2>3 DEF Steal, StealW32, Goto, aside, wakeVars, mainVars, ControlOK, Pcs
  <2>4. CASE Dispatch(w) \/ ClearAwake(w) \/ work_item_run_w32(w)
    <3>1. ASSUME NEW v \in {0, 1}, StoreAwake(w, v)
          PROVE  awake' \in [Workers -> {0, 1}] /\ pend' \in [Workers -> {0, 1, None}]
      BY <1>0, <3>1 DEF StoreAwake, ControlOK
    <3>2. CASE Dispatch(w)
      BY <1>0, <3>1, <3>2, Zenon DEF Dispatch, Goto, mainVars, ControlOK, Pcs
    <3>3. CASE ClearAwake(w)
      BY <1>0, <3>1, <3>3, Zenon DEF ClearAwake, Goto, mainVars, ControlOK, Pcs
    <3>4. CASE work_item_run_w32(w)
      BY <1>0, <3>4, Zenon DEF work_item_run_w32, Goto, aside, mainVars, ControlOK, Pcs
    <3>5. QED
      BY <2>4, <3>2, <3>3, <3>4, Zenon
  <2>5. CASE Recheck(w) \/ TestStop(w)
    BY <1>0, <2>5 DEF Recheck, TestStop, Goto, wakeVars, mainVars, ControlOK, Pcs
  <2>6. CASE PollWake(w) \/ PollTimeout(w) \/ WaitEvent(w)
    BY <1>0, <2>6, Zenon DEF PollWake, PollTimeout, WaitEvent, Goto, aside, wakeVars, mainVars, ControlOK, Pcs
  <2>7. CASE FlushStore(w)
    BY <1>0, <1>2, <2>7 DEF FlushStore, workerVars, mainVars, ControlOK
  <2>8. QED
    BY <1>7, <2>1, <2>2, <2>3, <2>4, <2>5, <2>6, <2>7, Zenon
       DEF worker_entry, worker_entry_w32, inbox_drain_w32
<1>8. QED
  BY <1>3, <1>4, <1>5, <1>6, <1>7 DEF Next, WinNext

(* A worker that has not been started does nothing.                           *)
LEMMA Started ==
    ASSUME IInv, Next \/ WinNext
    PROVE  StartOK'
<1>0. /\ wpc \in [Workers -> Pcs] /\ mi \in Workers /\ StartOK /\ N \in Nat \ {0} /\ Workers = 1 .. N
  BY PoolAssumption, Zenon DEF IInv, ControlOK, PoolAssumption, Workers
<1>1. SUFFICES ASSUME mpc' = "create", NEW v \in Workers, v >= mi' PROVE wpc'[v] = "unborn"
  BY DEF StartOK
<1>2. CASE op_tpool_submit \/ Done
  BY <1>0, <1>1, <1>2, Zenon DEF op_tpool_submit, Done, vars, workerVars, mainVars, StartOK
<1>3. CASE op_tpool_shutdown \/ op_tpool_shutdown_w32
  BY <1>1, <1>3 DEF op_tpool_shutdown, op_tpool_shutdown_w32, SetStop, SignalAll, Join, DrainInbox,
        RunLeftover, Destroy, Advance, MainAt, mainVars
<1>4. CASE op_tpool_create
  <2>1. mi' = mi + 1 /\ wpc' = [wpc EXCEPT ![mi] = "drain"] /\ mpc = "create"
    BY <1>1, <1>4, Zenon DEF op_tpool_create, Advance, Goto
  <2>2. QED
    BY <1>0, <1>1, <2>1 DEF StartOK
<1>5. ASSUME NEW t \in Threads, submit_to_worker(t) \/ submit_to_worker_w32(t)
      PROVE  wpc'[v] = "unborn"
  BY <1>0, <1>1, <1>5 DEF submit_to_worker, submit_to_worker_w32, inbox_push, inbox_push_w32,
        LoadAwake, SignalWake, workerVars, mainVars, StartOK
<1>6. ASSUME NEW w \in Workers,
             worker_entry(w) \/ PollTimeout(w) \/ FlushStore(w) \/ worker_entry_w32(w)
      PROVE  wpc'[v] = "unborn"
  <2>1. mpc' = mpc /\ mi' = mi
    BY <1>6, Zenon DEF worker_entry, worker_entry_w32, inbox_drain_w32, Harvest, HarvestW32, PushBatch, Pop,
          Steal, StealW32, Dispatch, work_item_run_w32, ClearAwake, Recheck, TestStop, PollWake,
          PollTimeout, WaitEvent, FlushStore, mainVars
  <2>2. wpc[v] = "unborn"
    BY <1>0, <1>1, <2>1, Zenon DEF StartOK
  <2>3. wpc' = wpc \/ (v # w /\ \E pc \in Pcs : wpc' = [wpc EXCEPT ![w] = pc])
    BY <1>6, <2>2, Zenon DEF worker_entry, worker_entry_w32, inbox_drain_w32, Harvest, HarvestW32, PushBatch,
          Pop, Steal, StealW32, Dispatch, work_item_run_w32, ClearAwake, Recheck, TestStop, PollWake,
          PollTimeout, WaitEvent, FlushStore, workerVars, At, Goto, Pcs
  <2>4. QED
    BY <1>0, <2>2, <2>3
<1>7. QED
  BY <1>2, <1>3, <1>4, <1>5, <1>6 DEF Next, WinNext

-----------------------------------------------------------------------------
(* What the steps do to the items, the same on both systems.                  *)

(* Nothing: flags, program counters, and calls that have pushed already.       *)
LEMMA Quiet ==
    ASSUME IInv, ControlOK', StartOK', UNCHANGED <<inbox, batch, deque, witem, ran, todo>>,
           sub' \in [Threads -> {<<>>} \cup ({"push"} \X Items) \cup ({"awake", "signal"} \X Workers)],
           \A t \in Threads : sub'[t] = sub[t] \/ (~Pushing(t) /\ ~Pushing(t)'),
           \A w \in Workers : \/ wpc'[w] = wpc[w]
                              \/ /\ wpc[w] # "run" /\ wpc'[w] # "run"
                                 /\ wpc[w] = "push" => batch[w] = <<>>
    PROVE  IInv'
<1>1. DataOK' /\ NoRepeats' /\ HandsOK'
  BY Zenon DEF IInv, DataOK, NoRepeats, HandsOK
<1>2. ASSUME NEW c \in Cells PROVE In(c)' = In(c)
  BY CellOf, Untouched
<1>3. Placed'
  BY <1>2, Stayed DEF IInv
<1>4. QED
  BY <1>1, <1>3, Zenon DEF IInv

(* inbox_push                                                                 *)
LEMMA PushedToInbox ==
    ASSUME IInv, ControlOK', StartOK', NEW t \in Threads, NEW w \in Workers, Pushing(t),
           NEW y \in {"awake", "signal"} \X Workers,
           inbox' = [inbox EXCEPT ![w] = <<sub[t][2]>> \o @],
           sub' = [sub EXCEPT ![t] = y],
           UNCHANGED <<batch, deque, witem, wpc, ran, todo>>
    PROVE  IInv'
<1> DEFINE x == sub[t][2]
           c == <<"sub", t>>
           d == <<"inbox", w>>
<1>1. x \in Items /\ inbox[w] \in Seq(Items) /\ DataOK
  BY Zenon DEF IInv, DataOK, Pushing, Submitting
<1>2. c \in Cells /\ d \in Cells /\ c # d /\ In(c) = {x} /\ In(d) = Range(inbox[w])
  BY InOf, CellOf, Zenon
<1>3. x \notin Range(inbox[w]) /\ IsInjective(inbox[w])
  BY <1>2 DEF IInv, Placed, NoRepeats
<1>4. /\ inbox'[w] \in Seq(Items) /\ IsInjective(inbox'[w])
      /\ Range(inbox'[w]) = Range(inbox[w]) \cup {x}
  <2>1. inbox'[w] = <<x>> \o inbox[w]
    BY <1>1, Zenon DEF DataOK
  <2>2. QED
    BY <1>1, <1>3, <2>1, PushFront
<1>5. \A v \in Workers : v # w => inbox'[v] = inbox[v]
  BY <1>1, Zenon DEF DataOK
<1>6. ~Pushing(t)' /\ \A u \in Threads : u # t => sub'[u] = sub[u] /\ (Pushing(u)' <=> Pushing(u))
  BY <1>1 DEF DataOK, Pushing, Submitting
<1>7. DataOK'
  BY <1>1, <1>4, Zenon DEF DataOK
<1>8. NoRepeats' /\ HandsOK'
  BY <1>4, <1>5 DEF IInv, NoRepeats, HandsOK
<1> HIDE DEF x
<1>9. Placed'
  <2>1. In(c)' = {} /\ In(d)' = In(d) \cup {x}
    BY <1>2, <1>4, <1>6, InOfNext, Zenon
  <2>5. ASSUME NEW e \in Cells, e # c, e # d PROVE In(e)' = In(e)
    BY <1>5, <1>6, <2>5, CellOf, Untouched
  <2>6. Placed /\ {x} \subseteq In(c) /\ In(c)' = In(c) \ {x} /\ ran' = ran /\ todo' = todo
    BY <1>2, <2>1, Zenon DEF IInv
  <2>7. QED
    BY <1>2, <2>1, <2>5, <2>6, Moved, Zenon
<1>10. QED
  BY <1>7, <1>8, <1>9, Zenon DEF IInv

(* inbox_drain, the exchange                                                  *)
LEMMA Harvested ==
    ASSUME IInv, ControlOK', StartOK', NEW w \in Workers, wpc[w] = "drain",
           batch' = [batch EXCEPT ![w] = Reverse(inbox[w])],
           inbox' = [inbox EXCEPT ![w] = <<>>],
           wpc' = [wpc EXCEPT ![w] = "push"],
           UNCHANGED <<deque, witem, sub, ran, todo>>
    PROVE  IInv'
<1> DEFINE X == Range(inbox[w])
           c == <<"inbox", w>>
           d == <<"batch", w>>
<1>1. inbox[w] \in Seq(Items) /\ DataOK /\ IsInjective(inbox[w]) /\ batch[w] = <<>> /\ wpc \in [Workers -> Pcs]
  BY Zenon DEF IInv, DataOK, NoRepeats, HandsOK, ControlOK
<1>2. c \in Cells /\ d \in Cells /\ c # d /\ In(c) = X /\ In(d) = {}
  <2>1. Range(<<>>) = {}
    BY DEF Range
  <2>2. QED
    BY <1>1, <2>1, InOf, CellOf, Zenon
<1>3. /\ batch'[w] \in Seq(Items) /\ IsInjective(batch'[w]) /\ Range(batch'[w]) = X
      /\ inbox'[w] = <<>> /\ IsInjective(inbox'[w]) /\ Range(inbox'[w]) = {}
  <2>1. batch'[w] = Reverse(inbox[w]) /\ inbox'[w] = <<>>
    BY <1>1, Zenon DEF DataOK
  <2>2. IsInjective(<<>>) /\ Range(<<>>) = {}
    BY DEF IsInjective, Range
  <2>3. QED
    BY <1>1, <2>1, <2>2, TurnAround
<1>4. /\ \A v \in Workers : v # w => inbox'[v] = inbox[v] /\ batch'[v] = batch[v] /\ wpc'[v] = wpc[v]
      /\ wpc'[w] = "push"
  BY <1>1 DEF DataOK
<1>5. DataOK'
  BY <1>1, <1>3, Zenon DEF DataOK
<1>6. NoRepeats' /\ HandsOK'
  BY <1>1, <1>3, <1>4 DEF IInv, NoRepeats, HandsOK
<1>7. Placed'
  <2>1. In(c)' = {} /\ In(d)' = X
    BY <1>3, InOfNext, Zenon
  <2>5. ASSUME NEW e \in Cells, e # c, e # d PROVE In(e)' = In(e)
    BY <1>4, <2>5, CellOf, Untouched
  <2>6. /\ Placed /\ X \subseteq In(c) /\ In(c)' = In(c) \ X /\ In(d)' = In(d) \cup X
        /\ ran' = ran /\ todo' = todo
    BY <1>2, <2>1, Zenon DEF IInv
  <2>7. QED
    BY <1>2, <2>5, <2>6, Moved, Zenon
<1>8. QED
  BY <1>5, <1>6, <1>7 DEF IInv

(* inbox_drain, item by item into the deque                                   *)
LEMMA BatchPushed ==
    ASSUME IInv, ControlOK', StartOK', NEW w \in Workers, wpc[w] = "push", batch[w] # <<>>,
           deque' = [deque EXCEPT ![w] = Append(@, Head(batch[w]))],
           batch' = [batch EXCEPT ![w] = Tail(@)],
           UNCHANGED <<inbox, wpc, witem, sub, ran, todo>>
    PROVE  IInv'
<1> DEFINE x == Head(batch[w])
           c == <<"batch", w>>
           d == <<"deque", w>>
<1>1. /\ batch[w] \in Seq(Items) /\ IsInjective(batch[w])
      /\ deque[w] \in Seq(Items) /\ IsInjective(deque[w]) /\ DataOK
  BY Zenon DEF IInv, DataOK, NoRepeats
<1>2. /\ x \in Items /\ x \in Range(batch[w])
      /\ Tail(batch[w]) \in Seq(Items) /\ IsInjective(Tail(batch[w]))
      /\ Range(Tail(batch[w])) = Range(batch[w]) \ {x}
  BY <1>1, TakeFront
<1>3. c \in Cells /\ d \in Cells /\ c # d /\ In(c) = Range(batch[w]) /\ In(d) = Range(deque[w])
  BY InOf, CellOf, Zenon
<1>4. x \notin Range(deque[w])
  BY <1>2, <1>3 DEF IInv, Placed
<1> HIDE DEF x
<1>5. /\ Append(deque[w], x) \in Seq(Items) /\ IsInjective(Append(deque[w], x))
      /\ Range(Append(deque[w], x)) = Range(deque[w]) \cup {x}
  BY <1>1, <1>2, <1>4, PushBack
<1>6. /\ deque'[w] = Append(deque[w], x) /\ batch'[w] = Tail(batch[w])
      /\ \A v \in Workers : v # w => deque'[v] = deque[v] /\ batch'[v] = batch[v]
  BY <1>1, Zenon DEF DataOK, x
<1>7. DataOK'
  BY <1>1, <1>2, <1>5, Zenon DEF DataOK, x
<1>8. NoRepeats' /\ HandsOK'
  BY <1>2, <1>5, <1>6 DEF IInv, NoRepeats, HandsOK
<1>9. Placed'
  <2>1. In(c)' = In(c) \ {x} /\ In(d)' = In(d) \cup {x}
    BY <1>2, <1>3, <1>5, <1>6, InOfNext, Zenon
  <2>2. ASSUME NEW e \in Cells, e # c, e # d PROVE In(e)' = In(e)
    BY <1>6, <2>2, CellOf, Untouched
  <2>3. Placed /\ {x} \subseteq In(c) /\ ran' = ran /\ todo' = todo
    BY <1>2, <1>3, Zenon DEF IInv
  <2>4. QED
    BY <1>3, <2>1, <2>2, <2>3, Moved, Zenon
<1>10. QED
  BY <1>7, <1>8, <1>9 DEF IInv

(* deque_pop or deque_steal hands worker w an item of worker v's deque.        *)
LEMMA Taken ==
    ASSUME IInv, ControlOK', StartOK', NEW w \in Workers, NEW v \in Workers, NEW x, NEW rest,
           wpc[w] # "run", wpc[w] = "push" => batch[w] = <<>>,
           x \in Items, x \in Range(deque[v]),
           rest \in Seq(Items), IsInjective(rest), Range(rest) = Range(deque[v]) \ {x},
           witem' = [witem EXCEPT ![w] = x],
           deque' = [deque EXCEPT ![v] = rest],
           wpc' = [wpc EXCEPT ![w] = "run"],
           UNCHANGED <<inbox, batch, sub, ran, todo>>
    PROVE  IInv'
<1> DEFINE c == <<"deque", v>>
           d == <<"item", w>>
<1>1. DataOK /\ witem[w] = None /\ wpc \in [Workers -> Pcs] /\ x # None
  <2>1. x # None
    BY PoolAssumption DEF PoolAssumption
  <2>2. QED
    BY <2>1, Zenon DEF IInv, HandsOK, ControlOK
<1>2. /\ deque'[v] = rest /\ witem'[w] = x /\ wpc'[w] = "run"
      /\ \A u \in Workers : u # v => deque'[u] = deque[u]
      /\ \A u \in Workers : u # w => witem'[u] = witem[u] /\ wpc'[u] = wpc[u]
  BY <1>1, Zenon DEF DataOK
<1>3. c \in Cells /\ d \in Cells /\ c # d /\ In(c) = Range(deque[v]) /\ In(d) = {}
  BY <1>1, InOf, CellOf, Zenon
<1>4. DataOK'
  BY <1>1, Zenon DEF DataOK
<1>5. NoRepeats' /\ HandsOK'
  BY <1>1, <1>2 DEF IInv, NoRepeats, HandsOK
<1>6. Placed'
  <2>1. In(c)' = In(c) \ {x} /\ In(d)' = In(d) \cup {x}
    BY <1>1, <1>2, <1>3, InOfNext, Zenon
  <2>2. ASSUME NEW e \in Cells, e # c, e # d PROVE In(e)' = In(e)
    BY <1>2, <2>2, CellOf, Untouched
  <2>3. Placed /\ {x} \subseteq In(c) /\ ran' = ran /\ todo' = todo
    BY <1>3, Zenon DEF IInv
  <2>4. QED
    BY <1>3, <2>1, <2>2, <2>3, Moved, Zenon
<1>7. QED
  BY <1>4, <1>5, <1>6 DEF IInv

(* What a run leaves in the runner's call of submit_to_worker.                 *)
LEMMA FollowUp ==
    ASSUME DataOK, NEW t \in Threads, NEW i \in Items, sub[t] = <<>>,
           sub' = [sub EXCEPT ![t] = IF Spawn[i] = None THEN <<>> ELSE <<"push", Spawn[i]>>]
    PROVE  /\ sub' \in [Threads -> {<<>>} \cup ({"push"} \X Items) \cup ({"awake", "signal"} \X Workers)]
           /\ \A u \in Threads : u # t => sub'[u] = sub[u]
           /\ In(<<"sub", t>>) = {}
           /\ In(<<"sub", t>>)' = {Spawn[i]} \ {None}
<1>1. Spawn[i] \in Items \cup {None}
  BY PoolAssumption, Zenon DEF PoolAssumption
<1>2. /\ sub' \in [Threads -> {<<>>} \cup ({"push"} \X Items) \cup ({"awake", "signal"} \X Workers)]
      /\ \A u \in Threads : u # t => sub'[u] = sub[u]
      /\ sub'[t] = IF Spawn[i] = None THEN <<>> ELSE <<"push", Spawn[i]>>
  BY <1>1, Zenon DEF DataOK
<1>3. ~Pushing(t)
  BY Zenon DEF Pushing, Submitting
<1>4. CASE Spawn[i] = None
  <2>1. ~Pushing(t)'
    BY <1>2, <1>4 DEF Pushing, Submitting
  <2>2. QED
    BY <1>2, <1>3, <1>4, <2>1, InOf, InOfNext, Zenon
<1>5. CASE Spawn[i] # None
  <2>1. Pushing(t)' /\ sub'[t][2] = Spawn[i]
    BY <1>2, <1>5 DEF Pushing, Submitting
  <2>2. In(<<"sub", t>>) = {} /\ In(<<"sub", t>>)' = {Spawn[i]}
    BY <1>3, <2>1, InOf, InOfNext, Zenon
  <2>3. QED
    BY <1>2, <1>5, <2>2, Zenon
<1>6. QED
  BY <1>4, <1>5

(* worker_entry runs the item it holds.                                       *)
LEMMA RanItem ==
    ASSUME IInv, ControlOK', StartOK', NEW w \in Workers, wpc[w] = "run", sub[w] = <<>>,
           work_item_run(w, witem[w]),
           witem' = [witem EXCEPT ![w] = None],
           wpc' = [wpc EXCEPT ![w] = "drain"],
           UNCHANGED <<inbox, batch, deque, todo>>
    PROVE  IInv'
<1> DEFINE x == witem[w]
           c == <<"item", w>>
           d == <<"sub", w>>
<1>1. DataOK /\ x \in Items /\ x # None /\ wpc \in [Workers -> Pcs] /\ w \in Threads /\ batch[w] = <<>>
  <2>1. x # None /\ batch[w] = <<>> /\ DataOK /\ wpc \in [Workers -> Pcs]
    BY DEF IInv, HandsOK, ControlOK
  <2>2. w \in Threads
    BY PoolAssumption DEF PoolAssumption, Workers, Threads
  <2>3. QED
    BY <2>1, <2>2, Zenon DEF DataOK
<1>2. /\ witem'[w] = None /\ wpc'[w] = "drain"
      /\ \A u \in Workers : u # w => witem'[u] = witem[u] /\ wpc'[u] = wpc[u]
  BY <1>1, Zenon DEF DataOK
<1>3. c \in Cells /\ d \in Cells /\ c # d /\ In(c) = {x} /\ In(c)' = {}
  BY <1>1, <1>2, InOf, InOfNext, CellOf, Zenon
<1> HIDE DEF x
<1>4. /\ ran' = [ran EXCEPT ![x] = @ + 1]
      /\ sub' = [sub EXCEPT ![w] = IF Spawn[x] = None THEN <<>> ELSE <<"push", Spawn[x]>>]
  BY DEF work_item_run, x
<1>5. /\ sub' \in [Threads -> {<<>>} \cup ({"push"} \X Items) \cup ({"awake", "signal"} \X Workers)]
      /\ \A u \in Threads : u # w => sub'[u] = sub[u]
      /\ In(d) = {} /\ In(d)' = {Spawn[x]} \ {None}
  BY <1>1, <1>4, FollowUp, Zenon
<1>6. DataOK'
  <2>1. ran' \in [Items -> Nat]
    BY <1>1, <1>4 DEF DataOK
  <2>2. QED
    BY <1>1, <1>5, <2>1 DEF DataOK
<1>7. NoRepeats' /\ HandsOK'
  BY <1>1, <1>2, Zenon DEF IInv, NoRepeats, HandsOK
<1>8. Placed'
  <2>1. ASSUME NEW e \in Cells, e # c, e # d PROVE In(e)' = In(e)
    BY <1>2, <1>5, <2>1, CellOf, Untouched
  <2>2. Placed /\ x \in In(c) /\ In(c)' = In(c) \ {x} /\ todo' = todo /\ ran \in [Items -> Nat]
    BY <1>1, <1>3, Zenon DEF IInv, DataOK
  <2>3. QED
    <3> HIDE DEF c, d
    <3>1. QED
      BY <1>3, <1>4, <1>5, <2>1, <2>2, Left, ZenonT(60)
<1>9. QED
  BY <1>6, <1>7, <1>8 DEF IInv

(* op_tpool_submit takes up an item.                                          *)
LEMMA SubmitBegun ==
    ASSUME IInv, ControlOK', StartOK', op_tpool_submit
    PROVE  IInv'
<1>1. PICK x \in todo : todo' = todo \ {x} /\ sub' = [sub EXCEPT ![0] = <<"push", x>>]
  BY Zenon DEF op_tpool_submit
<1>2. /\ sub[0] = <<>> /\ UNCHANGED <<inbox, batch, deque, witem, wpc, ran>>
      /\ DataOK /\ x \in Items /\ 0 \in Threads
  <2>1. sub[0] = <<>> /\ UNCHANGED <<inbox, batch, deque, witem, wpc, ran>>
    BY DEF op_tpool_submit, Submitting, workerVars
  <2>2. DataOK /\ x \in Items
    BY Zenon DEF IInv, DataOK
  <2>3. 0 \in Threads
    BY PoolAssumption DEF Threads, PoolAssumption
  <2>4. QED
    BY <2>1, <2>2, <2>3
<1> DEFINE d == <<"sub", 0>>
<1>3. sub'[0] = <<"push", x>> /\ \A u \in Threads : u # 0 => sub'[u] = sub[u]
  BY <1>1, <1>2, Zenon DEF DataOK
<1>4. d \in Cells /\ In(d) = {} /\ In(d)' = {x}
  <2>1. ~Pushing(0) /\ Pushing(0)' /\ sub'[0][2] = x
    BY <1>2, <1>3 DEF Pushing, Submitting
  <2>2. QED
    BY <1>2, <2>1, InOf, InOfNext, CellOf, Zenon
<1>5. DataOK'
  BY <1>1, <1>2 DEF DataOK
<1>6. NoRepeats' /\ HandsOK'
  BY <1>2, Zenon DEF IInv, NoRepeats, HandsOK
<1>7. Placed'
  <2>1. ASSUME NEW e \in Cells, e # d PROVE In(e)' = In(e)
    BY <1>2, <1>3, <2>1, CellOf, Untouched
  <2>2. Placed /\ ran' = ran /\ ran \in [Items -> Nat]
    BY <1>2 DEF IInv, DataOK
  <2> HIDE DEF d
  <2>3. QED
    BY <1>1, <1>4, <2>1, <2>2, Entered
<1>8. QED
  BY <1>5, <1>6, <1>7, Zenon DEF IInv

(* op_tpool_shutdown moves an inbox into its deque.                            *)
LEMMA InboxDrained ==
    ASSUME IInv, ControlOK', StartOK', NEW w \in Workers, w = mi, DrainInbox
    PROVE  IInv'
<1> DEFINE s == inbox[w]
           c == <<"inbox", w>>
           d == <<"deque", w>>
<1>1. /\ DataOK /\ s \in Seq(Items) /\ IsInjective(s)
      /\ deque[w] \in Seq(Items) /\ IsInjective(deque[w])
  BY Zenon DEF IInv, ControlOK, DataOK, NoRepeats
<1>2. /\ deque' = [deque EXCEPT ![w] = deque[w] \o Reverse(s)]
      /\ inbox' = [inbox EXCEPT ![w] = <<>>]
      /\ UNCHANGED <<batch, wpc, witem, sub, todo, ran>>
  BY Zenon DEF DrainInbox, workerVars
<1>3. c \in Cells /\ d \in Cells /\ c # d /\ In(c) = Range(s) /\ In(d) = Range(deque[w])
  BY <1>1, InOf, CellOf, Zenon
<1>4. Range(deque[w]) \cap Range(s) = {}
  BY <1>3 DEF IInv, Placed
<1>5. Reverse(s) \in Seq(Items) /\ IsInjective(Reverse(s)) /\ Range(Reverse(s)) = Range(s)
  BY <1>1, TurnAround, Zenon
<1>6. /\ deque[w] \o Reverse(s) \in Seq(Items) /\ IsInjective(deque[w] \o Reverse(s))
      /\ Range(deque[w] \o Reverse(s)) = Range(deque[w]) \cup Range(s)
  BY <1>1, <1>4, <1>5, Joined
<1>7. IsInjective(<<>>) /\ Range(<<>>) = {}
  BY DEF IsInjective, Range
<1>8. /\ deque'[w] = deque[w] \o Reverse(s) /\ inbox'[w] = <<>>
      /\ \A v \in Workers : v # w => deque'[v] = deque[v] /\ inbox'[v] = inbox[v]
  BY <1>1, <1>2 DEF DataOK
<1> HIDE DEF s
<1>9. DataOK'
  BY <1>1, <1>2, <1>6 DEF DataOK
<1>10. NoRepeats' /\ HandsOK'
  BY <1>1, <1>2, <1>6, <1>7, <1>8 DEF IInv, NoRepeats, HandsOK
<1>11. Placed'
  <2>1. In(c)' = {} /\ In(d)' = In(d) \cup Range(s)
    BY <1>3, <1>6, <1>7, <1>8, InOfNext, Zenon
  <2>2. ASSUME NEW e \in Cells, e # c, e # d PROVE In(e)' = In(e)
    BY <1>2, <1>8, <2>2, CellOf, Untouched
  <2>3. Placed /\ Range(s) \subseteq In(c) /\ In(c)' = In(c) \ Range(s) /\ ran' = ran /\ todo' = todo
    BY <1>2, <1>3, <2>1 DEF IInv
  <2> HIDE DEF c, d
  <2>4. QED
    BY <1>3, <2>1, <2>2, <2>3, Moved
<1>12. QED
  BY <1>9, <1>10, <1>11, Zenon DEF IInv

(* op_tpool_shutdown runs what it finds in a deque.                            *)
LEMMA LeftoverRan ==
    ASSUME IInv, ControlOK', StartOK', NEW w \in Workers, w = mi, RunLeftover
    PROVE  IInv'
<1> DEFINE s == deque[w]
           x == Last(s)
           c == <<"deque", w>>
           d == <<"sub", 0>>
<1>1. /\ DataOK /\ s \in Seq(Items) /\ IsInjective(s) /\ s # <<>> /\ 0 \in Threads
      /\ sub[0] = <<>>
  <2>1. 0 \in Threads
    BY PoolAssumption DEF PoolAssumption, Threads
  <2>2. QED
    BY <2>1, Zenon DEF RunLeftover, MainAt, Submitting, IInv, ControlOK, DataOK, NoRepeats
<1>2. /\ x \in Items /\ x \in Range(s) /\ Front(s) \in Seq(Items) /\ IsInjective(Front(s))
      /\ Range(Front(s)) = Range(s) \ {x}
  BY <1>1, TakeBack, Zenon
<1>3. /\ deque' = [deque EXCEPT ![w] = Front(s)]
      /\ ran' = [ran EXCEPT ![x] = @ + 1]
      /\ sub' = [sub EXCEPT ![0] = IF Spawn[x] = None THEN <<>> ELSE <<"push", Spawn[x]>>]
      /\ UNCHANGED <<inbox, batch, wpc, witem, todo>>
  BY DEF RunLeftover, work_item_run, workerVars
<1>4. c \in Cells /\ d \in Cells /\ c # d /\ In(c) = Range(s)
  BY <1>1, InOf, CellOf, Zenon
<1>5. deque'[w] = Front(s) /\ \A v \in Workers : v # w => deque'[v] = deque[v]
  BY <1>1, <1>3 DEF DataOK
<1> HIDE DEF s, x
<1>6. /\ sub' \in [Threads -> {<<>>} \cup ({"push"} \X Items) \cup ({"awake", "signal"} \X Workers)]
      /\ \A u \in Threads : u # 0 => sub'[u] = sub[u]
      /\ In(d) = {} /\ In(d)' = {Spawn[x]} \ {None}
  BY <1>1, <1>2, <1>3, FollowUp, Zenon
<1>7. DataOK'
  <2>1. ran' \in [Items -> Nat]
    BY <1>1, <1>2, <1>3 DEF DataOK
  <2>2. deque' \in [Workers -> Seq(Items)]
    BY <1>1, <1>2, <1>3 DEF DataOK
  <2>3. QED
    BY <1>1, <1>3, <1>6, <2>1, <2>2 DEF DataOK
<1>8. NoRepeats' /\ HandsOK'
  BY <1>1, <1>2, <1>3, <1>5 DEF IInv, NoRepeats, HandsOK
<1>9. Placed'
  <2>1. In(c)' = In(c) \ {x}
    BY <1>2, <1>4, <1>5, InOfNext, Zenon
  <2>2. ASSUME NEW e \in Cells, e # c, e # d PROVE In(e)' = In(e)
    BY <1>3, <1>5, <1>6, <2>2, CellOf, Untouched
  <2>3. Placed /\ x \in In(c) /\ todo' = todo /\ ran \in [Items -> Nat]
    BY <1>1, <1>2, <1>3, <1>4 DEF IInv, DataOK
  <2> HIDE DEF c, d
  <2>4. QED
    BY <1>3, <1>4, <1>6, <2>1, <2>2, <2>3, Left, Zenon
<1>10. QED
  BY <1>7, <1>8, <1>9, Zenon DEF IInv

-----------------------------------------------------------------------------
(* Every step of the pool, on either system.                                  *)
LEMMA SubmitSteps ==
    ASSUME IInv, ControlOK', StartOK', NEW t \in Threads, submit_to_worker(t) \/ submit_to_worker_w32(t)
    PROVE  IInv'
<1>0. DataOK
  BY Zenon DEF IInv
<1>1. CASE inbox_push(t) \/ inbox_push_w32(t)
  <2>1. PICK w \in Workers, y \in {"awake", "signal"} \X Workers :
            inbox' = [inbox EXCEPT ![w] = <<sub[t][2]>> \o @] /\ sub' = [sub EXCEPT ![t] = y]
    BY <1>1, Zenon DEF inbox_push, inbox_push_w32
  <2>2. Pushing(t) /\ UNCHANGED <<batch, deque, witem, wpc, ran, todo>>
    BY <1>1 DEF inbox_push, inbox_push_w32, Pushing, workerVars, aside
  <2>3. QED
    BY <2>1, <2>2, PushedToInbox, Zenon
<1>2. CASE LoadAwake(t) \/ SignalWake(t)
  <2>1. UNCHANGED <<inbox, batch, deque, witem, wpc, ran, todo>>
    BY <1>2 DEF LoadAwake, SignalWake, workerVars
  <2>2. ~Pushing(t) /\ sub[t] \in {"awake", "signal"} \X Workers
    BY <1>0, <1>2, Zenon DEF LoadAwake, SignalWake, Submitting, Pushing, DataOK
  <2>3. PICK y \in {<<>>} \cup ({"signal"} \X Workers) : sub' = [sub EXCEPT ![t] = y]
    BY <1>2, <2>2 DEF LoadAwake, SignalWake
  <2>4. sub' \in [Threads -> {<<>>} \cup ({"push"} \X Items) \cup ({"awake", "signal"} \X Workers)]
    BY <1>0, <2>3, Zenon DEF DataOK
  <2>5. ~Pushing(t)' /\ \A u \in Threads : u # t => sub'[u] = sub[u]
    BY <1>0, <2>3 DEF DataOK, Pushing, Submitting
  <2>6. QED
    BY <2>1, <2>2, <2>4, <2>5, Quiet, Zenon
<1>3. QED
  BY <1>1, <1>2 DEF submit_to_worker, submit_to_worker_w32

LEMMA WorkerSteps ==
    ASSUME IInv, ControlOK', StartOK', NEW w \in Workers,
           worker_entry(w) \/ PollTimeout(w) \/ FlushStore(w) \/ worker_entry_w32(w)
    PROVE  IInv'
<1>0. DataOK /\ HandsOK /\ NoRepeats /\ wpc \in [Workers -> Pcs]
  BY DEF IInv, ControlOK
<1>1. CASE Harvest(w) \/ HarvestW32(w)
  <2>1. /\ wpc[w] = "drain" /\ batch' = [batch EXCEPT ![w] = Reverse(inbox[w])]
        /\ inbox' = [inbox EXCEPT ![w] = <<>>] /\ wpc' = [wpc EXCEPT ![w] = "push"]
        /\ UNCHANGED <<deque, witem, sub, ran, todo>>
    BY <1>1 DEF Harvest, HarvestW32, At, Goto, aside
  <2>2. QED
    BY <2>1, Harvested, Zenon
<1>2. CASE PushBatch(w)
  <2>1. /\ wpc[w] = "push" /\ batch[w] # <<>>
        /\ deque' = [deque EXCEPT ![w] = Append(@, Head(batch[w]))]
        /\ batch' = [batch EXCEPT ![w] = Tail(@)]
        /\ UNCHANGED <<inbox, wpc, witem, sub, ran, todo>>
    BY <1>2 DEF PushBatch, At
  <2>2. QED
    BY <2>1, BatchPushed, Zenon
<1>3. CASE Pop(w) /\ deque[w] # <<>>
  <2>1. /\ wpc[w] = "push" /\ batch[w] = <<>>
        /\ witem' = [witem EXCEPT ![w] = Last(deque[w])]
        /\ deque' = [deque EXCEPT ![w] = Front(deque[w])]
        /\ wpc' = [wpc EXCEPT ![w] = "run"]
        /\ UNCHANGED <<inbox, batch, sub, ran, todo>>
    BY <1>3, Zenon DEF Pop, At, Goto
  <2>2. deque[w] \in Seq(Items) /\ IsInjective(deque[w])
    BY <1>0, Zenon DEF DataOK, NoRepeats
  <2>3. /\ Last(deque[w]) \in Items /\ Front(deque[w]) \in Seq(Items)
        /\ IsInjective(Front(deque[w])) /\ Last(deque[w]) \in Range(deque[w])
        /\ Range(Front(deque[w])) = Range(deque[w]) \ {Last(deque[w])}
    BY <1>3, <2>2, TakeBack, Zenon
  <2>4. QED
    BY <2>1, <2>3, Taken, Zenon
<1>4. CASE (Steal(w) \/ StealW32(w)) /\ wpc'[w] = "run"
  <2>1. PICK v \in Workers : /\ deque[v] # <<>>
                             /\ witem' = [witem EXCEPT ![w] = Head(deque[v])]
                             /\ deque' = [deque EXCEPT ![v] = Tail(deque[v])]
                             /\ wpc' = [wpc EXCEPT ![w] = "run"]
    BY <1>0, <1>4 DEF Steal, StealW32, Goto
  <2>2. wpc[w] = "steal" /\ UNCHANGED <<inbox, batch, sub, ran, todo>>
    BY <1>4, Zenon DEF Steal, StealW32, At, aside
  <2>3. deque[v] \in Seq(Items) /\ IsInjective(deque[v])
    BY <1>0 DEF DataOK, NoRepeats
  <2>4. /\ Head(deque[v]) \in Items /\ Tail(deque[v]) \in Seq(Items)
        /\ IsInjective(Tail(deque[v])) /\ Head(deque[v]) \in Range(deque[v])
        /\ Range(Tail(deque[v])) = Range(deque[v]) \ {Head(deque[v])}
    BY <2>1, <2>3, TakeFront, Zenon
  <2>5. QED
    BY <2>1, <2>2, <2>4, Taken, Zenon
<1>5. CASE Dispatch(w) \/ work_item_run_w32(w)
  <2>1. /\ wpc[w] = "run" /\ sub[w] = <<>> /\ work_item_run(w, witem[w])
        /\ witem' = [witem EXCEPT ![w] = None] /\ wpc' = [wpc EXCEPT ![w] = "drain"]
        /\ UNCHANGED <<inbox, batch, deque, todo>>
    BY <1>5 DEF Dispatch, work_item_run_w32, At, Submitting, Goto, aside
  <2>2. QED
    BY <2>1, RanItem, ZenonT(30)
<1>6. CASE \/ Pop(w) /\ deque[w] = <<>>
           \/ (Steal(w) \/ StealW32(w)) /\ wpc'[w] # "run"
           \/ ClearAwake(w) \/ Recheck(w) \/ TestStop(w) \/ PollWake(w) \/ PollTimeout(w)
           \/ WaitEvent(w) \/ FlushStore(w)
  <2>1. UNCHANGED <<inbox, batch, deque, witem, sub, ran, todo>>
    BY <1>0, <1>6, Zenon DEF Pop, Steal, StealW32, ClearAwake, Recheck, TestStop, PollWake, PollTimeout,
          WaitEvent, FlushStore, Goto, workerVars, aside
  <2>2. ASSUME NEW v \in Workers
        PROVE  wpc'[v] = wpc[v] \/ /\ wpc[v] # "run" /\ wpc'[v] # "run"
                                   /\ wpc[v] = "push" => batch[v] = <<>>
    <3>1. CASE v # w
      BY <1>0, <1>6, <3>1, Zenon DEF Pop, Steal, StealW32, ClearAwake, Recheck, TestStop, PollWake,
            PollTimeout, WaitEvent, FlushStore, Goto, workerVars, aside
    <3>2. CASE v = w
      BY <1>0, <1>6, <3>2, Zenon DEF Pop, Steal, StealW32, ClearAwake, Recheck, TestStop, PollWake,
            PollTimeout, WaitEvent, FlushStore, Goto, workerVars, aside, At
    <3>3. QED
      BY <3>1, <3>2, Zenon
  <2>3. QED
    BY <1>0, <2>1, <2>2, Quiet DEF DataOK
<1>7. QED
  BY <1>1, <1>2, <1>3, <1>4, <1>5, <1>6, Zenon DEF worker_entry, worker_entry_w32, inbox_drain_w32

LEMMA NextIInv == ASSUME IInv, Next \/ WinNext \/ UNCHANGED vars PROVE IInv'
<1>1. CASE UNCHANGED vars
  <2>1. ControlOK' /\ StartOK'
    BY <1>1 DEF vars, IInv, ControlOK, StartOK
  <2>2. QED
    BY <1>1, <2>1, Quiet, Zenon DEF vars, IInv, DataOK
<1>2. CASE Next \/ WinNext
  <2>0. ControlOK' /\ StartOK' /\ DataOK /\ wpc \in [Workers -> Pcs] /\ mi \in Workers
    BY <1>2, Controlled, Started DEF IInv, ControlOK
  <2>1. CASE op_tpool_submit
    BY <2>0, <2>1, SubmitBegun
  <2>2. CASE op_tpool_shutdown \/ op_tpool_shutdown_w32
    <3>1. CASE DrainInbox
      BY <2>0, <3>1, InboxDrained, Zenon
    <3>2. CASE RunLeftover
      BY <2>0, <3>2, LeftoverRan, Zenon
    <3>3. CASE SetStop \/ SignalAll \/ Join \/ Destroy
      <4>1. UNCHANGED <<inbox, batch, deque, witem, wpc, sub, ran, todo>>
        BY <3>3, Zenon DEF SetStop, SignalAll, Join, Destroy, workerVars
      <4>2. QED
        BY <2>0, <4>1, Quiet DEF DataOK
    <3>4. QED
      BY <2>2, <3>1, <3>2, <3>3 DEF op_tpool_shutdown, op_tpool_shutdown_w32
  <2>3. CASE Done
    BY <1>1, <2>3 DEF Done
  <2>4. CASE op_tpool_create
    <3>1. UNCHANGED <<inbox, batch, deque, witem, sub, ran, todo>> /\ wpc' = [wpc EXCEPT ![mi] = "drain"]
      BY <2>4 DEF op_tpool_create, Goto, aside
    <3>2. mi >= mi /\ wpc[mi] = "unborn"
      BY <2>0, <2>4 DEF op_tpool_create, IInv, StartOK, Workers
    <3>3. QED
      BY <2>0, <3>1, <3>2, Quiet, Zenon DEF DataOK
  <2>5. ASSUME NEW t \in Threads, submit_to_worker(t) \/ submit_to_worker_w32(t) PROVE IInv'
    BY <2>0, <2>5, SubmitSteps
  <2>6. ASSUME NEW w \in Workers,
               worker_entry(w) \/ PollTimeout(w) \/ FlushStore(w) \/ worker_entry_w32(w)
        PROVE  IInv'
    BY <2>0, <2>6, WorkerSteps, Zenon
  <2>7. QED
    BY <1>2, <2>1, <2>2, <2>3, <2>4, <2>5, <2>6, Zenon DEF Next, WinNext
<1>3. QED
  BY <1>1, <1>2

-----------------------------------------------------------------------------
LEMMA Conclude == IInv => Consistent
<1> SUFFICES ASSUME IInv PROVE Consistent
  BY Zenon
<1>1. TypeOK
  BY TypeSplit DEF IInv
<1>2. ASSUME NEW c \in Cells, NEW i \in In(c) PROVE i \in Held
  <2>1. ASSUME NEW w \in Workers,
               i \in Range(inbox[w]) \cup Range(batch[w]) \cup Range(deque[w]) \cup {witem[w]}
        PROVE  i \in Held
    BY <2>1 DEF Held
  <2>2. ASSUME NEW t \in Threads, Pushing(t), i = sub[t][2] PROVE i \in Held
    BY <2>2, Zenon DEF Held, Pushing
  <2>3. CASE c[1] = "sub" /\ c[2] \in Threads
    BY <2>2, <2>3 DEF In
  <2>4. CASE c[1] = "inbox" /\ c[2] \in Workers
    BY <2>1, <2>4 DEF In
  <2>5. CASE c[1] = "batch" /\ c[2] \in Workers
    BY <2>1, <2>5 DEF In
  <2>6. CASE c[1] = "deque" /\ c[2] \in Workers
    BY <2>1, <2>6, Zenon DEF In
  <2>7. CASE c[1] = "item" /\ c[2] \in Workers
    BY <2>1, <2>7 DEF In
  <2>8. QED
    BY <2>3, <2>4, <2>5, <2>6, <2>7, CellOf
<1>3. ASSUME NEW i \in Submitted PROVE ran[i] = 1 \/ (ran[i] = 0 /\ i \in Held)
  BY <1>2, Zenon DEF IInv, Placed
<1>4. QED
  BY <1>1, <1>3 DEF Consistent, ExactlyOnce

(* On POSIX, whatever the interleaving of submitters, thieves and the          *)
(* shutdown, and whether or not stores are delayed, a submitted item has been   *)
(* run once, or has not been run and some thread still holds it                 *)
(* (submit_to_worker, inbox_drain, worker_entry, op_tpool_shutdown).            *)
THEOREM RunsExactlyOnce == Spec => []Consistent
<1>1. Init => IInv
  BY InitIInv, Zenon
<1>2. IInv /\ [Next]_vars => IInv'
  BY NextIInv
<1>3. QED
  BY <1>1, <1>2, Conclude, PTL DEF Spec

(* The same for the Windows half of the file (op_tpool_create, inbox_drain_w32, *)
(* worker_entry, op_tpool_shutdown), whose workers start one after the other.   *)
THEOREM RunsExactlyOnceWin == WinSpec => []Consistent
<1>1. WinInit => IInv
  BY InitIInv, Zenon
<1>2. IInv /\ [WinNext]_vars => IInv'
  BY NextIInv
<1>3. QED
  BY <1>1, <1>2, Conclude, PTL DEF WinSpec

-----------------------------------------------------------------------------
(* op_tpool_shutdown.  Once it is called no root is on its way to an inbox: a  *)
(* running item submits follow-ups only.  Workers that it has joined have      *)
(* exited for good, and what it has drained holds no root any more.            *)
RootFree(s) == Range(s) \cap Roots = {}

CallsOK == \A t \in Threads : Pushing(t) /\ sub[t][2] \in Roots => t = 0 /\ mpc = "open"

JoinedOK ==
    /\ mpc = "join" => \A w \in Workers : w < mi => wpc[w] = "exit"
    /\ mpc \in {"drain", "pop", "done"} => \A w \in Workers : wpc[w] = "exit"

DrainedOK ==
    \A w \in Workers :
        /\ mpc = "done" \/ (mpc \in {"drain", "pop"} /\ w < mi) => RootFree(inbox[w]) /\ RootFree(deque[w])
        /\ mpc = "pop" /\ w = mi => RootFree(inbox[w])

Leaving == CallsOK /\ JoinedOK /\ DrainedOK

(* inbox_push adds one item.                                                   *)
LEMMA RootFreePush ==
    ASSUME NEW s \in Seq(Items), NEW x \in Items, x \notin Roots, RootFree(s)
    PROVE  RootFree(<<x>> \o s)
<1> DEFINE t == <<x>> \o s
<1>1. t \in Seq(Items) /\ Len(t) = Len(s) + 1 /\ Len(s) \in Nat
  OBVIOUS
<1>2. DOMAIN t = 1 .. Len(s) + 1 /\ DOMAIN s = 1 .. Len(s)
  BY <1>1
<1>3. \A i \in 1 .. Len(s) : t[i + 1] = s[i]
  OBVIOUS
<1>4. t[1] = x /\ \A i \in DOMAIN t : i # 1 => i - 1 \in DOMAIN s /\ t[i] = s[i - 1]
  BY <1>1, <1>2, <1>3
<1> HIDE DEF t
<1>5. Range(t) \subseteq Range(s) \cup {x}
  BY <1>4 DEF Range
<1>6. QED
  BY <1>5 DEF RootFree, t

(* A call of submit_to_worker pushes what it was given.                        *)
LEMMA LeavingSubmit ==
    ASSUME IInv, Leaving, NEW t \in Threads, submit_to_worker(t) \/ submit_to_worker_w32(t)
    PROVE  Leaving'
<1>0. DataOK /\ UNCHANGED <<mpc, mi, wpc, deque>>
  BY DEF IInv, submit_to_worker, submit_to_worker_w32, inbox_push, inbox_push_w32, LoadAwake,
      SignalWake, workerVars, mainVars
<1>1. ~Pushing(t)' /\ \A u \in Threads : u # t => sub'[u] = sub[u]
  <2>1. CASE inbox_push(t) \/ inbox_push_w32(t)
    <3>1. PICK v \in Workers : \/ sub' = [sub EXCEPT ![t] = <<"awake", v>>]
                              \/ sub' = [sub EXCEPT ![t] = <<"signal", v>>]
      BY <2>1, Zenon DEF inbox_push, inbox_push_w32
    <3>2. QED
      BY <1>0, <3>1 DEF Pushing, Submitting, DataOK
  <2>2. CASE LoadAwake(t) \/ SignalWake(t)
    <3>1. \/ sub' = [sub EXCEPT ![t] = <<>>]
          \/ sub' = [sub EXCEPT ![t] = <<"signal", sub[t][2]>>]
      BY <2>2, Zenon DEF LoadAwake, SignalWake
    <3>2. QED
      BY <1>0, <3>1 DEF Pushing, Submitting, DataOK
  <2>3. QED
    BY <2>1, <2>2 DEF submit_to_worker, submit_to_worker_w32
<1>2. CallsOK'
  BY <1>0, <1>1, Zenon DEF Leaving, CallsOK, Pushing, Submitting
<1>3. JoinedOK'
  BY <1>0, Zenon DEF Leaving, JoinedOK
<1>4. DrainedOK'
  <2>1. CASE inbox' = inbox
    BY <1>0, <2>1, Zenon DEF Leaving, DrainedOK
  <2>2. CASE inbox' # inbox
    <3>1. Pushing(t) /\ \E w \in Workers : inbox' = [inbox EXCEPT ![w] = <<sub[t][2]>> \o @]
      BY <2>2, Zenon
         DEF submit_to_worker, submit_to_worker_w32, inbox_push, inbox_push_w32, LoadAwake, SignalWake,
             Pushing
    <3>2. PICK w \in Workers : inbox' = [inbox EXCEPT ![w] = <<sub[t][2]>> \o @]
      BY <3>1, Zenon
    <3>3. inbox'[w] = <<sub[t][2]>> \o inbox[w] /\ \A v \in Workers : v # w => inbox'[v] = inbox[v]
      BY <1>0, <3>2, Zenon DEF DataOK
    <3>4. sub[t][2] \in Items /\ inbox[w] \in Seq(Items)
      BY <1>0, <3>1, Zenon DEF DataOK, Pushing, Submitting
    <3>5. mpc \in {"drain", "pop", "done"} /\ RootFree(inbox[w]) => RootFree(inbox'[w])
      BY <3>1, <3>3, <3>4, RootFreePush, Zenon DEF Leaving, CallsOK
    <3>6. ASSUME NEW v \in Workers, mpc \in {"drain", "pop", "done"}, RootFree(inbox[v])
          PROVE  RootFree(inbox'[v])
      BY <3>3, <3>5, <3>6, Zenon
    <3>7. QED
      BY <1>0, <3>6 DEF Leaving, DrainedOK
  <2>3. QED
    BY <2>1, <2>2
<1>5. QED
  BY <1>2, <1>3, <1>4, Zenon DEF Leaving

(* A worker that moves has not exited, and runs items that submit follow-ups.  *)
LEMMA LeavingWorker ==
    ASSUME IInv, Leaving, NEW w \in Workers,
           worker_entry(w) \/ PollTimeout(w) \/ FlushStore(w) \/ worker_entry_w32(w)
    PROVE  Leaving'
<1>0. DataOK /\ ControlOK /\ N \in Nat \ {0} /\ Workers = 1 .. N /\ w \in Threads
  BY PoolAssumption DEF IInv, PoolAssumption, Workers, Threads
<1>1. mpc' = mpc /\ mi' = mi
  BY Zenon DEF worker_entry, worker_entry_w32, inbox_drain_w32, Harvest, HarvestW32, PushBatch, Pop,
      Steal, StealW32, Dispatch, work_item_run_w32, ClearAwake, Recheck, TestStop, PollWake,
      PollTimeout, WaitEvent, FlushStore, mainVars
<1>2. CallsOK'
  <2>1. CASE sub' = sub
    BY <1>1, <2>1, Zenon DEF Leaving, CallsOK, Pushing, Submitting
  <2>2. CASE sub' # sub
    <3>1. wpc[w] = "run" /\ work_item_run(w, witem[w])
      BY <2>2, Zenon DEF worker_entry, worker_entry_w32, inbox_drain_w32, Harvest, HarvestW32, PushBatch,
          Pop, Steal, StealW32, Dispatch, work_item_run_w32, ClearAwake, Recheck, TestStop, PollWake,
          PollTimeout, WaitEvent, FlushStore, At
    <3>2. witem[w] \in Items /\ Spawn[witem[w]] \notin Roots
      BY <1>0, <3>1, PoolAssumption, Zenon DEF IInv, HandsOK, DataOK, PoolAssumption
    <3>3. \A u \in Threads : u # w => sub'[u] = sub[u]
      BY <1>0, <3>1 DEF work_item_run, DataOK
    <3>4. sub'[w] = IF Spawn[witem[w]] = None THEN <<>> ELSE <<"push", Spawn[witem[w]]>>
      BY <1>0, <3>1, Zenon DEF work_item_run, DataOK
    <3>5. Pushing(w)' => sub'[w][2] \notin Roots
      BY <3>2, <3>4 DEF Pushing, Submitting
    <3>6. QED
      BY <1>1, <3>3, <3>5 DEF Leaving, CallsOK, Pushing, Submitting
  <2>3. QED
    BY <2>1, <2>2
<1>3. CASE FlushStore(w)
  BY <1>1, <1>2, <1>3, SMTT(30) DEF FlushStore, workerVars, Leaving, JoinedOK, DrainedOK
<1>4. CASE ~FlushStore(w)
  <2>1. wpc[w] # "exit"
    BY <1>4, Zenon DEF worker_entry, worker_entry_w32, inbox_drain_w32, Harvest, HarvestW32, PushBatch, Pop,
        Steal, StealW32, Dispatch, work_item_run_w32, ClearAwake, Recheck, TestStop, PollWake,
        PollTimeout, WaitEvent, At
  <2>2. mpc \notin {"drain", "pop", "done"} /\ (mpc = "join" => ~(w < mi))
    BY <2>1 DEF Leaving, JoinedOK
  <2>3. \A v \in Workers : v # w => wpc'[v] = wpc[v]
    BY <1>0, <1>4, Zenon DEF worker_entry, worker_entry_w32, inbox_drain_w32, Harvest, HarvestW32, PushBatch,
        Pop, Steal, StealW32, Dispatch, work_item_run_w32, ClearAwake, Recheck, TestStop, PollWake,
        PollTimeout, WaitEvent, Goto, ControlOK
  <2>4. QED
    BY <1>1, <1>2, <2>2, <2>3 DEF Leaving, JoinedOK, DrainedOK
<1>5. QED
  BY <1>3, <1>4, Zenon

(* The loops of op_tpool_shutdown over the workers.                            *)
LEMMA LeavingMain ==
    ASSUME IInv, Leaving, SetStop \/ SignalAll \/ Join \/ DrainInbox \/ RunLeftover \/ Destroy
    PROVE  Leaving'
<1>0. DataOK /\ ControlOK /\ N \in Nat \ {0} /\ Workers = 1 .. N /\ mi \in Workers /\ 0 \in Threads
  BY PoolAssumption DEF IInv, ControlOK, PoolAssumption, Workers, Threads
<1>1. CASE SetStop
  BY <1>1, Zenon DEF SetStop, MainAt, workerVars, Leaving, CallsOK, JoinedOK, DrainedOK, Pushing, Submitting
<1>2. CASE SignalAll \/ Join
  <2>1. CallsOK'
    BY <1>2, Zenon DEF SignalAll, Join, Leaving, CallsOK, Pushing, Submitting
  <2>2. JoinedOK'
    <3>1. CASE SignalAll
      BY <1>0, <3>1 DEF SignalAll, Advance, JoinedOK
    <3>2. CASE Join
      BY <1>0, <3>2 DEF Join, Advance, workerVars, Leaving, JoinedOK
    <3>3. QED
      BY <1>2, <3>1, <3>2
  <2>3. DrainedOK'
    BY <1>0, <1>2 DEF SignalAll, Join, Advance, DrainedOK
  <2>4. QED
    BY <2>1, <2>2, <2>3, Zenon DEF Leaving
<1>3. CASE DrainInbox
  <2>1. UNCHANGED <<mi, wpc, sub>> /\ mpc = "drain" /\ mpc' = "pop" /\ inbox'[mi] = <<>>
    BY <1>0, <1>3 DEF DrainInbox, workerVars, DataOK
  <2>2. \A w \in Workers : w # mi => inbox'[w] = inbox[w] /\ deque'[w] = deque[w]
    BY <1>0, <1>3, Zenon DEF DrainInbox, DataOK
  <2>3. RootFree(<<>>)
    BY DEF RootFree, Range
  <2>4. CallsOK' /\ JoinedOK'
    BY <2>1, Zenon DEF Leaving, CallsOK, JoinedOK, Pushing, Submitting
  <2>5. DrainedOK'
    BY <1>0, <2>1, <2>2, <2>3 DEF Leaving, DrainedOK
  <2>6. QED
    BY <2>4, <2>5, Zenon DEF Leaving
<1>4. CASE RunLeftover
  <2>1. /\ UNCHANGED <<inbox, mpc, mi, wpc>> /\ mpc = "pop" /\ deque[mi] # <<>>
        /\ sub' = [sub EXCEPT ![0] = IF Spawn[Last(deque[mi])] = None THEN <<>>
                                     ELSE <<"push", Spawn[Last(deque[mi])]>>]
    BY <1>4 DEF RunLeftover, MainAt, work_item_run, workerVars, mainVars
  <2>2. \A w \in Workers : w # mi => deque'[w] = deque[w]
    BY <1>0, <1>4 DEF RunLeftover, DataOK
  <2>3. Last(deque[mi]) \in Items
    BY <1>0, <2>1, TakeBack DEF DataOK, IInv, NoRepeats
  <2>4. Spawn[Last(deque[mi])] \notin Roots
    BY <2>3, PoolAssumption DEF PoolAssumption
  <2>5. /\ \A u \in Threads : u # 0 => sub'[u] = sub[u]
        /\ sub'[0] = IF Spawn[Last(deque[mi])] = None THEN <<>> ELSE <<"push", Spawn[Last(deque[mi])]>>
    BY <1>0, <2>1 DEF DataOK
  <2>6. Pushing(0)' => sub'[0][2] \notin Roots
    BY <2>4, <2>5 DEF Pushing, Submitting
  <2>7. CallsOK'
    BY <2>1, <2>5, <2>6 DEF Leaving, CallsOK, Pushing, Submitting
  <2>8. JoinedOK' /\ DrainedOK'
    BY <1>0, <2>1, <2>2 DEF Leaving, JoinedOK, DrainedOK
  <2>9. QED
    BY <2>7, <2>8, Zenon DEF Leaving
<1>5. CASE Destroy
  <2>1. /\ UNCHANGED <<inbox, deque, wpc, sub>> /\ mpc = "pop" /\ deque[mi] = <<>>
        /\ Advance("drain", "done")
    BY <1>5 DEF Destroy, MainAt, workerVars
  <2>2. RootFree(deque[mi])
    BY <2>1 DEF RootFree, Range
  <2>3. CallsOK' /\ JoinedOK'
    BY <2>1, Zenon DEF Leaving, CallsOK, JoinedOK, Pushing, Submitting, Advance
  <2>4. \A w \in Workers : w <= mi => RootFree(inbox[w]) /\ RootFree(deque[w])
    BY <1>0, <2>1, <2>2 DEF Leaving, DrainedOK
  <2>5. DrainedOK'
    BY <1>0, <2>1, <2>4 DEF DrainedOK, Advance
  <2>6. QED
    BY <2>3, <2>5, Zenon DEF Leaving
<1>6. QED
  BY <1>1, <1>2, <1>3, <1>4, <1>5

LEMMA LeavingNext == ASSUME IInv, Leaving, Next \/ WinNext \/ UNCHANGED vars PROVE Leaving'
<1>1. CASE UNCHANGED vars \/ Done
  BY <1>1 DEF Done, vars, Leaving, CallsOK, JoinedOK, DrainedOK, Pushing, Submitting
<1>2. CASE op_tpool_submit
  <2>1. /\ mpc = "open" /\ UNCHANGED <<mpc, mi, wpc>>
        /\ \A u \in Threads : u # 0 => sub'[u] = sub[u]
    BY <1>2, ZenonT(30) DEF op_tpool_submit, workerVars, mainVars, IInv, DataOK
  <2>2. QED
    BY <2>1, Zenon DEF Leaving, CallsOK, JoinedOK, DrainedOK, Pushing, Submitting
<1>3. CASE op_tpool_create
  BY <1>3 DEF op_tpool_create, Advance, Leaving, CallsOK, JoinedOK, DrainedOK, Pushing, Submitting
<1>4. QED
  BY <1>1, <1>2, <1>3, LeavingMain, LeavingSubmit, LeavingWorker, ZenonT(30)
     DEF Next, WinNext, op_tpool_shutdown, op_tpool_shutdown_w32

(* When it is done, no place is left where a root could be.                    *)
LEMMA LeftNothing == IInv /\ Leaving => ShutdownDrains
<1> SUFFICES ASSUME IInv, Leaving, mpc = "done", NEW i \in Roots \ todo PROVE ran[i] = 1
  BY DEF ShutdownDrains
<1>1. i \in Submitted
  BY Zenon DEF Submitted
<1>2. SUFFICES ASSUME NEW c \in Cells, i \in In(c) PROVE FALSE
  BY <1>1 DEF IInv, Placed
<1>3. \A w \in Workers : /\ wpc[w] = "exit" /\ RootFree(inbox[w]) /\ RootFree(deque[w])
                         /\ batch[w] = <<>> /\ witem[w] = None
  BY DEF Leaving, JoinedOK, DrainedOK, IInv, HandsOK
<1>4. \A w \in Workers : Range(batch[w]) = {}
  BY <1>3 DEF Range
<1>5. \A w \in Workers : /\ i \notin In(<<"inbox", w>>) /\ i \notin In(<<"batch", w>>)
                         /\ i \notin In(<<"deque", w>>) /\ i \notin In(<<"item", w>>)
  <2> TAKE w \in Workers
  <2>1. In(<<"inbox", w>>) = Range(inbox[w]) /\ In(<<"deque", w>>) = Range(deque[w])
    BY InOf, Zenon
  <2>2. In(<<"batch", w>>) = {} /\ In(<<"item", w>>) = {}
    BY <1>3, <1>4, InOf, Zenon
  <2>3. QED
    BY <1>3, <2>1, <2>2 DEF RootFree
<1>6. \A t \in Threads : i \notin In(<<"sub", t>>)
  BY InOf, Zenon DEF Leaving, CallsOK
<1>7. /\ c = <<c[1], c[2]>>
      /\ \/ c[1] \in {"inbox", "batch", "deque", "item"} /\ c[2] \in Workers
         \/ c[1] = "sub" /\ c[2] \in Threads
  BY CellOf, Zenon
<1>8. i \in In(<<c[1], c[2]>>)
  BY <1>2, <1>7, Zenon
<1>9. QED
  BY <1>5, <1>6, <1>7, <1>8, Zenon

(* op_tpool_shutdown returns only when every item that was submitted before it *)
(* was called has been run, on POSIX with or without delayed stores ...         *)
THEOREM DrainsAll == Spec => []ShutdownDrains
<1>1. Init => IInv /\ Leaving
  BY InitIInv, Zenon DEF Init, Leaving, CallsOK, JoinedOK, DrainedOK, Pushing, Submitting
<1>2. IInv /\ Leaving /\ [Next]_vars => IInv' /\ Leaving'
  BY NextIInv, LeavingNext, Zenon
<1>3. QED
  BY <1>1, <1>2, LeftNothing, PTL DEF Spec

(* ... and on Windows.                                                         *)
THEOREM DrainsAllWin == WinSpec => []ShutdownDrains
<1>1. WinInit => IInv /\ Leaving
  BY InitIInv, Zenon DEF WinInit, Leaving, CallsOK, JoinedOK, DrainedOK, Pushing, Submitting
<1>2. IInv /\ Leaving /\ [WinNext]_vars => IInv' /\ Leaving'
  BY NextIInv, LeavingNext
<1>3. QED
  BY <1>1, <1>2, LeftNothing, PTL DEF WinSpec

-----------------------------------------------------------------------------
(* The wake-ups.  A submitter between inbox_push and wake_fd_signal is on its   *)
(* way to worker w.                                                            *)
OnItsWay(w) == \E t \in Threads : sub[t] \in {<<"awake", w>>, <<"signal", w>>}

(* POSIX with ordered stores: from the second look at the inbox until poll()    *)
(* returns `awake` reads 0, so whoever pushes meanwhile goes on to signal.      *)
WakeOK ==
    /\ pend = [w \in Workers |-> None]
    /\ \A w \in Workers : wpc[w] \in {"recheck", "stop", "poll"} => awake[w] = 0
    /\ \A w \in Workers : wpc[w] \in {"stop", "poll"} /\ inbox[w] # <<>> /\ ~efd[w] => OnItsWay(w)

(* Windows: every push is followed by SetEvent, and only the wait that leads    *)
(* back to the inbox resets the event.                                         *)
WinWakeOK ==
    \A w \in Workers : wpc[w] # "drain" /\ inbox[w] # <<>> /\ ~efd[w] => OnItsWay(w)

(* A call that begins, or that has yet to push, is nobody's wake-up.            *)
LEMMA StillCalled ==
    ASSUME NEW t \in Threads, Submitting(t) => sub[t][1] = "push",
           \A u \in Threads : u # t => sub'[u] = sub[u], NEW w, OnItsWay(w)
    PROVE  OnItsWay(w)'
<1>1. PICK u \in Threads : sub[u] \in {<<"awake", w>>, <<"signal", w>>}
  BY DEF OnItsWay
<1>2. u # t
  BY <1>1 DEF Submitting
<1>3. QED
  BY <1>1, <1>2, Zenon DEF OnItsWay

(* A push is on its way to the worker it was made to.                           *)
LEMMA CalledNow ==
    ASSUME DataOK, NEW t \in Threads, inbox_push(t) \/ inbox_push_w32(t)
    PROVE  /\ \E v \in Workers : OnItsWay(v)' /\ \A w \in Workers : w # v => inbox'[w] = inbox[w]
           /\ \A w : OnItsWay(w) => OnItsWay(w)'
<1>1. Submitting(t) => sub[t][1] = "push"
  BY DEF inbox_push, inbox_push_w32
<1>2. PICK v \in Workers : /\ inbox' = [inbox EXCEPT ![v] = <<sub[t][2]>> \o @]
                           /\ \/ sub' = [sub EXCEPT ![t] = <<"awake", v>>]
                              \/ sub' = [sub EXCEPT ![t] = <<"signal", v>>]
  BY Zenon DEF inbox_push, inbox_push_w32
<1>3. /\ sub'[t] \in {<<"awake", v>>, <<"signal", v>>}
      /\ \A u \in Threads : u # t => sub'[u] = sub[u]
      /\ \A w \in Workers : w # v => inbox'[w] = inbox[w]
  BY <1>2 DEF DataOK
<1>4. OnItsWay(v)'
  BY <1>3, Zenon DEF OnItsWay
<1>5. QED
  BY <1>1, <1>3, <1>4, StillCalled, Zenon

(* wake_fd_signal reaches the worker.                                           *)
LEMMA Signalled ==
    ASSUME DataOK, ControlOK, NEW t \in Threads, SignalWake(t), NEW w \in Workers, ~efd'[w]
    PROVE  ~efd[w] /\ (OnItsWay(w) => OnItsWay(w)')
<1>1. /\ sub[t] \in {"signal"} \X Workers
      /\ efd' = [efd EXCEPT ![sub[t][2]] = TRUE] /\ sub' = [sub EXCEPT ![t] = <<>>]
  BY DEF SignalWake, Submitting, DataOK
<1>2. sub[t][2] # w /\ ~efd[w]
  BY <1>1 DEF ControlOK
<1>3. sub[t] \notin {<<"awake", w>>, <<"signal", w>>}
  BY <1>1, <1>2
<1>4. \A u \in Threads : u # t => sub'[u] = sub[u]
  BY <1>1, Zenon DEF DataOK
<1>5. QED
  BY <1>2, <1>3, <1>4, Zenon DEF OnItsWay

(* WakeOK, worker by worker.                                                   *)
Heeded(w) ==
    /\ wpc[w] \in {"recheck", "stop", "poll"} => awake[w] = 0
    /\ wpc[w] \in {"stop", "poll"} /\ inbox[w] # <<>> /\ ~efd[w] => OnItsWay(w)

LEMMA Heed == WakeOK <=> pend = [w \in Workers |-> None] /\ \A w \in Workers : Heeded(w)
BY DEF WakeOK, Heeded

(* What other threads do leaves a worker heeded: they push, or write its fd.    *)
LEMMA StaysHeeded ==
    ASSUME NEW w, Heeded(w), awake'[w] = awake[w],
           \/ wpc'[w] = wpc[w] \/ wpc'[w] \notin {"recheck", "stop", "poll"}
           \/ wpc[w] = "stop" /\ wpc'[w] = "poll",
           inbox'[w] = inbox[w] \/ inbox'[w] = <<>> \/ OnItsWay(w)',
           efd'[w] = efd[w] \/ efd'[w] \/ wpc'[w] \notin {"stop", "poll"},
           OnItsWay(w) => OnItsWay(w)' \/ efd'[w]
    PROVE  Heeded(w)'
BY DEF Heeded

LEMMA HeededSubmit ==
    ASSUME IInv, WakeOK, NEW t \in Threads, submit_to_worker(t)
    PROVE  WakeOK'
<1>0. DataOK /\ ControlOK /\ UNCHANGED wpc /\ pend = [w \in Workers |-> None]
  BY DEF IInv, WakeOK, submit_to_worker, inbox_push, LoadAwake, SignalWake, workerVars
<1>1. UNCHANGED <<awake, pend>>
  BY <1>0, Zenon DEF submit_to_worker, inbox_push, LoadAwake, SignalWake, wakeVars, Drained
<1>2. ASSUME NEW w \in Workers PROVE Heeded(w)'
  <2>0. Heeded(w)
    BY Heed
  <2>1. CASE inbox_push(t)
    <3>1. efd'[w] = efd[w]
      BY <2>1 DEF inbox_push
    <3>2. inbox'[w] = inbox[w] \/ OnItsWay(w)'
      BY <1>0, <2>1, CalledNow, Zenon
    <3>3. OnItsWay(w) => OnItsWay(w)'
      BY <1>0, <2>1, CalledNow
    <3>4. QED
      BY <1>0, <1>1, <2>0, <3>1, <3>2, <3>3, StaysHeeded, Zenon
  <2>2. CASE LoadAwake(t)
    <3>1. sub[t] \in {"awake"} \X Workers /\ UNCHANGED <<inbox, efd>>
      BY <1>0, <2>2, Zenon DEF LoadAwake, Submitting, DataOK, wakeVars
    <3>2. sub' = [sub EXCEPT ![t] = IF awake[sub[t][2]] = 1 THEN <<>> ELSE <<"signal", sub[t][2]>>]
      BY <1>0, <2>2, <3>1, Zenon DEF LoadAwake
    <3>3. \A u \in Threads : u # t => sub'[u] = sub[u]
      BY <1>0, <3>2 DEF DataOK
    <3>4. CASE wpc[w] \in {"stop", "poll"}
      <4>1. awake[w] = 0
        BY <2>0, <3>4 DEF Heeded
      <4>2. sub[t] \in {<<"awake", w>>, <<"signal", w>>} => sub'[t] = <<"signal", w>>
        BY <1>0, <3>1, <3>2, <4>1 DEF DataOK
      <4>3. OnItsWay(w) => OnItsWay(w)'
        BY <3>3, <4>2 DEF OnItsWay
      <4>4. QED
        BY <1>0, <1>1, <2>0, <3>1, <4>3, StaysHeeded, Zenon
    <3>5. CASE wpc[w] \notin {"stop", "poll"}
      BY <1>0, <1>1, <2>0, <3>5, Zenon DEF Heeded
    <3>6. QED
      BY <3>4, <3>5, Zenon
  <2>3. CASE SignalWake(t)
    <3>1. inbox'[w] = inbox[w]
      BY <2>3 DEF SignalWake
    <3>2. efd'[w] \/ (~efd[w] /\ (OnItsWay(w) => OnItsWay(w)'))
      BY <1>0, <2>3, Signalled, Zenon
    <3>3. QED
      BY <1>0, <1>1, <2>0, <3>1, <3>2, Zenon DEF Heeded
  <2>4. QED
    BY <2>1, <2>2, <2>3, Zenon DEF submit_to_worker
<1>3. QED
  BY <1>0, <1>1, <1>2, Heed, Zenon DEF WakeOK, Heeded

LEMMA HeededWorker ==
    ASSUME IInv, WakeOK, StoreBuffer = FALSE, NEW w \in Workers,
           worker_entry(w) \/ PollTimeout(w) \/ FlushStore(w)
    PROVE  WakeOK'
<1>0. DataOK /\ ControlOK /\ w \in Threads /\ pend = [v \in Workers |-> None] /\ ~FlushStore(w)
  <2>1. DataOK /\ ControlOK /\ pend = [v \in Workers |-> None]
    BY Zenon DEF IInv, WakeOK
  <2>2. w \in Threads
    BY PoolAssumption DEF PoolAssumption, Workers, Threads
  <2>3. QED
    BY <2>1, <2>2 DEF FlushStore
<1>1. pend' = pend
  BY <1>0, Zenon DEF worker_entry, PollTimeout, Harvest, PushBatch, Pop, Steal, Dispatch, ClearAwake, Recheck,
      TestStop, PollWake, wakeVars, Drained, StoreAwake
<1>2. Submitting(w) => sub[w][1] = "push"
  BY <1>0, Zenon DEF worker_entry, PollTimeout, Harvest, PushBatch, Pop, Steal, Dispatch, ClearAwake, Recheck,
      TestStop, PollWake, At
<1>3. \A u \in Threads : u # w => sub'[u] = sub[u]
  BY <1>0, Zenon DEF worker_entry, PollTimeout, Harvest, PushBatch, Pop, Steal, Dispatch, ClearAwake, Recheck,
      TestStop, PollWake, work_item_run, DataOK
<1>4. \A v : OnItsWay(v) => OnItsWay(v)'
  BY <1>0, <1>2, <1>3, StillCalled, Zenon
<1>5. ASSUME NEW v \in Workers, v # w PROVE Heeded(v)'
  <2>1. Heeded(v) /\ awake'[v] = awake[v] /\ wpc'[v] = wpc[v] /\ inbox'[v] = inbox[v] /\ efd'[v] = efd[v]
    <3>1. Heeded(v)
      BY Heed
    <3>2. inbox'[v] = inbox[v] /\ efd'[v] = efd[v]
      BY <1>0, <1>5, Zenon DEF worker_entry, PollTimeout, Harvest, PushBatch, Pop, Steal, Dispatch, ClearAwake,
          Recheck, TestStop, PollWake, wakeVars, DataOK, ControlOK
    <3>3. awake'[v] = awake[v] /\ wpc'[v] = wpc[v]
      BY <1>0, <1>5, ZenonT(30) DEF worker_entry, PollTimeout, Harvest, PushBatch, Pop, Steal, Dispatch, ClearAwake,
          Recheck, TestStop, PollWake, wakeVars, Goto, Drained, StoreAwake, ControlOK
    <3>4. QED
      BY <3>1, <3>2, <3>3, Zenon
  <2>2. QED
    BY <1>4, <2>1, StaysHeeded, Zenon
<1>6. Heeded(w)'
  <2>0. Heeded(w)
    BY Heed
  <2>1. CASE Harvest(w) \/ PushBatch(w) \/ Pop(w) \/ Steal(w) \/ Dispatch(w) \/ PollWake(w) \/ PollTimeout(w)
    <3>1. wpc'[w] \notin {"recheck", "stop", "poll"}
      BY <1>0, <2>1, Zenon DEF Harvest, PushBatch, Pop, Steal, Dispatch, PollWake, PollTimeout, Goto, At, ControlOK
    <3>2. QED
      BY <3>1, Zenon DEF Heeded
  <2>2. CASE ClearAwake(w)
    BY <1>0, <2>2, Zenon DEF ClearAwake, StoreAwake, Goto, ControlOK, Heeded
  <2>3. CASE Recheck(w)
    BY <1>0, <2>0, <2>3, Zenon DEF Recheck, Goto, At, wakeVars, ControlOK, Heeded
  <2>4. CASE TestStop(w)
    <3>1. UNCHANGED <<awake, inbox, efd>> /\ wpc[w] = "stop" /\ wpc'[w] \in {"exit", "poll"}
      BY <1>0, <2>4 DEF TestStop, Goto, At, wakeVars, ControlOK
    <3>2. QED
      BY <1>4, <2>0, <3>1, Zenon DEF Heeded
  <2>5. QED
    BY <1>0, <2>1, <2>2, <2>3, <2>4 DEF worker_entry
<1>7. QED
  BY <1>0, <1>1, <1>5, <1>6, Heed, Zenon DEF WakeOK, Heeded

(* The creating thread begins calls, writes every fd, and empties inboxes.      *)
LEMMA MainCalls ==
    ASSUME DataOK, ControlOK,
           op_tpool_submit \/ SetStop \/ SignalAll \/ Join \/ DrainInbox \/ RunLeftover \/ Destroy
    PROVE  /\ UNCHANGED <<awake, pend, wpc>>
           /\ \A w \in Workers : /\ inbox'[w] = inbox[w] \/ inbox'[w] = <<>>
                                 /\ efd'[w] = efd[w] \/ efd'[w]
           /\ \A w : OnItsWay(w) => OnItsWay(w)'
<1>1. UNCHANGED <<awake, pend, wpc>>
  BY Zenon DEF op_tpool_submit, SetStop, SignalAll, Join, DrainInbox, RunLeftover, Destroy, wakeVars, workerVars
<1>2. \A w \in Workers : inbox'[w] = inbox[w] \/ inbox'[w] = <<>>
  BY Zenon DEF op_tpool_submit, SetStop, SignalAll, Join, DrainInbox, RunLeftover, Destroy, DataOK
<1>3. \A w \in Workers : efd'[w] = efd[w] \/ efd'[w]
  BY Zenon DEF op_tpool_submit, SetStop, SignalAll, Join, DrainInbox, RunLeftover, Destroy, wakeVars, ControlOK
<1>4. CASE op_tpool_submit \/ RunLeftover
  <2>1. ~Submitting(0) /\ 0 \in Threads
    BY <1>4, PoolAssumption DEF op_tpool_submit, RunLeftover, MainAt, Threads, PoolAssumption
  <2>2. \A u \in Threads : u # 0 => sub'[u] = sub[u]
    BY <1>4, Zenon DEF op_tpool_submit, RunLeftover, work_item_run, DataOK
  <2>3. QED
    BY <1>1, <1>2, <1>3, <2>1, <2>2, StillCalled, Zenon
<1>5. CASE SetStop \/ SignalAll \/ Join \/ DrainInbox \/ Destroy
  <2>1. sub' = sub
    BY <1>5, Zenon DEF SetStop, SignalAll, Join, DrainInbox, Destroy
  <2>2. \A w : OnItsWay(w) => OnItsWay(w)'
    BY <2>1, Zenon DEF OnItsWay
  <2>3. QED
    BY <1>1, <1>2, <1>3, <2>2, Zenon
<1>6. QED
  BY <1>4, <1>5, Zenon

LEMMA HeededNext ==
    ASSUME StoreBuffer = FALSE, IInv, WakeOK, Next \/ UNCHANGED vars
    PROVE  WakeOK'
<1>1. CASE UNCHANGED vars \/ Done
  BY <1>1, Zenon DEF Done, vars, WakeOK, OnItsWay
<1>2. CASE op_tpool_submit \/ op_tpool_shutdown
  <2>1. DataOK /\ ControlOK
    BY DEF IInv
  <2>2. /\ UNCHANGED <<awake, pend, wpc>>
        /\ \A w \in Workers : /\ inbox'[w] = inbox[w] \/ inbox'[w] = <<>>
                              /\ efd'[w] = efd[w] \/ efd'[w]
        /\ \A w : OnItsWay(w) => OnItsWay(w)'
    BY <1>2, <2>1, MainCalls, Zenon DEF op_tpool_shutdown
  <2>3. ASSUME NEW w \in Workers PROVE Heeded(w)'
    BY <2>2, Heed, StaysHeeded, Zenon
  <2>4. QED
    BY <2>2, <2>3, Zenon DEF WakeOK, Heeded
<1>3. QED
  BY <1>1, <1>2, HeededSubmit, HeededWorker, Zenon DEF Next

(* Where a store is visible to the other threads at once, a worker never sleeps *)
(* in poll() on an inbox with work, unless somebody is about to signal it: the   *)
(* second look at the inbox comes after `awake` is cleared, the submitter's look *)
(* at `awake` after its push (worker_entry, submit_to_worker).                   *)
THEOREM WakesUp == ASSUME StoreBuffer = FALSE PROVE Spec => []NoMissedWakeup
<1>1. Init => IInv /\ WakeOK
  BY InitIInv, Zenon DEF Init, WakeOK
<1>2. IInv /\ WakeOK /\ [Next]_vars => IInv' /\ WakeOK'
  BY NextIInv, HeededNext, Zenon
<1>3. WakeOK => NoMissedWakeup
  BY DEF WakeOK, NoMissedWakeup, OnItsWay
<1>4. QED
  BY <1>1, <1>2, <1>3, PTL DEF Spec

LEMMA WinHeeded ==
    ASSUME IInv, WinWakeOK, WinNext \/ UNCHANGED vars
    PROVE  WinWakeOK'
<1>0. DataOK /\ ControlOK /\ mi \in Workers
  BY DEF IInv, ControlOK
<1>1. CASE UNCHANGED vars \/ Done
  BY <1>1, ZenonT(30) DEF Done, vars, WinWakeOK, OnItsWay
<1>2. CASE op_tpool_create
  BY <1>0, <1>2, SMTT(30) DEF op_tpool_create, Goto, ControlOK, WinWakeOK, OnItsWay
<1>3. CASE op_tpool_submit \/ op_tpool_shutdown_w32
  <2>1. /\ UNCHANGED <<awake, pend, wpc>>
        /\ \A w \in Workers : /\ inbox'[w] = inbox[w] \/ inbox'[w] = <<>>
                              /\ efd'[w] = efd[w] \/ efd'[w]
        /\ \A w : OnItsWay(w) => OnItsWay(w)'
    BY <1>0, <1>3, MainCalls DEF op_tpool_shutdown_w32
  <2>2. QED
    BY <2>1 DEF WinWakeOK
<1>4. ASSUME NEW t \in Threads, submit_to_worker_w32(t) PROVE WinWakeOK'
  <2>1. CASE inbox_push_w32(t)
    <3>1. UNCHANGED <<wpc, efd>>
      BY <2>1 DEF inbox_push_w32, workerVars
    <3>2. \A w \in Workers : inbox'[w] = inbox[w] \/ OnItsWay(w)'
      BY <1>0, <2>1, CalledNow, Zenon
    <3>3. \A w \in Workers : OnItsWay(w) => OnItsWay(w)'
      BY <1>0, <2>1, CalledNow
    <3>4. QED
      BY <3>1, <3>2, <3>3, Zenon DEF WinWakeOK
  <2>2. CASE SignalWake(t)
    <3>1. UNCHANGED <<wpc, inbox>>
      BY <2>2, Zenon DEF SignalWake, workerVars
    <3>2. \A w \in Workers : efd'[w] \/ (~efd[w] /\ (OnItsWay(w) => OnItsWay(w)'))
      BY <1>0, <2>2, Signalled
    <3>3. QED
      BY <3>1, <3>2 DEF WinWakeOK
  <2>3. QED
    BY <1>4, <2>1, <2>2 DEF submit_to_worker_w32
<1>5. ASSUME NEW w \in Workers, worker_entry_w32(w) PROVE WinWakeOK'
  <2>1. w \in Threads /\ ~Submitting(w) /\ \A u \in Threads : u # w => sub'[u] = sub[u]
    <3>1. w \in Threads
      BY PoolAssumption DEF PoolAssumption, Workers, Threads
    <3>2. ~Submitting(w)
      BY <1>5, Zenon DEF worker_entry_w32, inbox_drain_w32, HarvestW32, PushBatch, Pop, StealW32,
          work_item_run_w32, TestStop, WaitEvent, At
    <3>3. sub' = sub \/ \E new : sub' = [sub EXCEPT ![w] = new]
      BY <1>5, Zenon DEF worker_entry_w32, inbox_drain_w32, HarvestW32, PushBatch, Pop, StealW32,
          work_item_run_w32, work_item_run, TestStop, WaitEvent
    <3>4. QED
      BY <1>0, <3>1, <3>2, <3>3 DEF DataOK
  <2>2. \A v : OnItsWay(v) => OnItsWay(v)'
    BY <2>1, StillCalled
  <2>3. ASSUME NEW v \in Workers, v # w
        PROVE  wpc'[v] = wpc[v] /\ inbox'[v] = inbox[v] /\ efd'[v] = efd[v]
    BY <1>0, <1>5, <2>3, ZenonT(30) DEF worker_entry_w32, inbox_drain_w32, HarvestW32, PushBatch, Pop, StealW32,
        work_item_run_w32, TestStop, WaitEvent, Goto, wakeVars, DataOK, ControlOK
  <2>4. \/ inbox'[w] = <<>> \/ wpc'[w] = "drain"
        \/ wpc[w] # "drain" /\ UNCHANGED <<inbox, efd>>
    BY <1>0, <1>5, Zenon DEF worker_entry_w32, inbox_drain_w32, HarvestW32, PushBatch, Pop, StealW32,
        work_item_run_w32, TestStop, WaitEvent, Goto, At, wakeVars, DataOK, ControlOK
  <2>5. QED
    BY <2>2, <2>3, <2>4 DEF WinWakeOK
<1>6. QED
  BY <1>1, <1>2, <1>3, <1>4, <1>5 DEF WinNext

(* Nor does a worker of the Windows half wait on work whose event is not set or  *)
(* about to be, however its threads' stores are ordered (submit_to_worker,       *)
(* worker_entry).                                                               *)
THEOREM WakesUpWin == WinSpec => []NoMissedWakeup
<1>1. WinInit => IInv /\ WinWakeOK
  BY InitIInv, ZenonT(30) DEF WinInit, WinWakeOK
<1>2. IInv /\ WinWakeOK /\ [WinNext]_vars => IInv' /\ WinWakeOK'
  BY NextIInv, WinHeeded, Zenon
<1>3. WinWakeOK => NoMissedWakeup
  BY Zenon DEF WinWakeOK, NoMissedWakeup, OnItsWay
<1>4. QED
  BY <1>1, <1>2, <1>3, PTL DEF WinSpec

=============================================================================
