----------------------------- MODULE MpmcProofs -----------------------------
(* The many-producer many-consumer queue keeps its slots exclusive and hands  *)
(* its items over in order, for any number of threads and items and any       *)
(* capacity above one.                                                        *)
EXTENDS Mpmc, TLAPS

-----------------------------------------------------------------------------
(* What the proofs need to know of remainders: a position is turned into a    *)
(* slot by % (in the code, a mask).                                           *)

(* Division with remainder, in the form the other lemmas use.                 *)
LEMMA DivMod ==
    ASSUME NEW c \in Nat \ {0}, NEW a \in Int
    PROVE  /\ a = c * (a \div c) + (a % c)
           /\ a \div c \in Int /\ a % c \in 0 .. c - 1
OBVIOUS

(* The remainder is the only one: two numbers below c that differ by a        *)
(* multiple of c are equal.                                                   *)
LEMMA ModUnique ==
    ASSUME NEW c \in Nat \ {0}, NEW q \in Int, NEW r \in 0 .. c - 1
    PROVE  (c * q + r) % c = r
<1> DEFINE a == c * q + r
           p == a \div c
           s == a % c
<1>1. a \in Int
  OBVIOUS
<1>2. a = c * p + s /\ p \in Int /\ s \in 0 .. c - 1
  BY <1>1, DivMod
<1> HIDE DEF p, s
<1>3. c * (p - q) = r - s /\ c * (q - p) = s - r
  BY <1>2
<1>4. p - q >= 1 \/ q - p >= 1 \/ p = q
  BY <1>2
<1>5. p = q
  BY <1>2, <1>3, <1>4
<1>6. s = r
  BY <1>2, <1>5
<1>7. QED
  BY <1>6 DEF s

(* Adding a multiple of c changes no remainder.                               *)
LEMMA ModShift ==
    ASSUME NEW c \in Nat \ {0}, NEW a \in Int, NEW k \in Int
    PROVE  (a + c * k) % c = a % c
<1> DEFINE q == a \div c
           r == a % c
<1>1. a = c * q + r /\ q \in Int /\ r \in 0 .. c - 1
  BY DivMod
<1> HIDE DEF q, r
<1>2. a + c * k = c * (q + k) + r /\ q + k \in Int
  BY <1>1
<1>3. (c * (q + k) + r) % c = r
  BY <1>1, <1>2, ModUnique
<1>4. QED
  BY <1>2, <1>3 DEF r

(* A number below c is its own remainder.                                     *)
LEMMA ModSmall ==
    ASSUME NEW c \in Nat \ {0}, NEW a \in 0 .. c - 1
    PROVE  a % c = a
<1>1. (c * 0 + a) % c = a
  BY ModUnique
<1>2. c * 0 + a = a
  OBVIOUS
<1>3. QED
  BY <1>1, <1>2

(* Positions that differ by less than the capacity are in different slots.    *)
LEMMA ModInjective ==
    ASSUME NEW c \in Nat \ {0}, NEW i \in Int, NEW j \in Int,
           i # j, i - j < c, j - i < c
    PROVE  i % c # j % c
<1> DEFINE q == i \div c
           p == j \div c
           r == i % c
           s == j % c
<1>1. i = c * q + r /\ q \in Int /\ r \in 0 .. c - 1
  BY DivMod
<1>2. j = c * p + s /\ p \in Int /\ s \in 0 .. c - 1
  BY DivMod
<1> HIDE DEF q, p, r, s
<1>3. SUFFICES ASSUME r = s PROVE FALSE
  BY DEF r, s
<1>4. j - i = c * (p - q) /\ i - j = c * (q - p)
  BY <1>1, <1>2, <1>3
<1>5. p - q >= 1 \/ q - p >= 1 \/ p = q
  BY <1>1, <1>2
<1>6. QED
  BY <1>1, <1>2, <1>3, <1>4, <1>5

-----------------------------------------------------------------------------
(* The calls in progress: the position was current when it was loaded, and    *)
(* the slot's number can only have grown since it was.                        *)
LocalsOK ==
    /\ \A p \in Producers : pc[p] # "idle" => item[p] \in Items
    /\ \A p \in Producers : pos[p] <= head
    /\ \A c \in Consumers : pos[c] <= tail
    /\ \A t \in Threads : pc[t] = "test" => sq[t] <= seq[Slot(pos[t])]

(* The window of claimed positions, and the numbers it has left behind.       *)
WindowOK ==
    /\ tail <= head /\ head - tail <= Capacity
    /\ \A i \in 0 .. head - 1 : seq[Slot(i)] >= i
    /\ \A i \in 0 .. tail - 1 : seq[Slot(i)] > i

(* A claimed position nobody writes is published.                             *)
PublishedOK ==
    \A i \in tail .. head - 1 :
        (\A p \in Producers : ~(Owns(p) /\ pos[p] = i)) =>
            seq[Slot(i)] = i + 1 /\ data[Slot(i)] = order[i + 1]

(* A position yet to be claimed, whose slot nobody still reads, is free.       *)
FreeOK ==
    \A i \in head .. tail + Capacity - 1 :
        (\A c \in Consumers : ~(Owns(c) /\ pos[c] = i - Capacity)) => seq[Slot(i)] = i

(* What the owner of a slot knows of it.                                      *)
WritersOK ==
    \A p \in Producers : Owns(p) =>
        /\ tail <= pos[p] /\ pos[p] < head
        /\ seq[Slot(pos[p])] = pos[p]
        /\ order[pos[p] + 1] = item[p]
        /\ pc[p] = "publish" => data[Slot(pos[p])] = item[p]

ReadersOK ==
    \A c \in Consumers : Owns(c) =>
        /\ head - Capacity <= pos[c] /\ pos[c] < tail
        /\ seq[Slot(pos[c])] = pos[c] + 1
        /\ pc[c] = "read" => data[Slot(pos[c])] = order[pos[c] + 1]

OwnersApart == \A t, u \in Threads : t # u /\ Owns(t) /\ Owns(u) => pos[t] # pos[u]

HistoryOK ==
    /\ DOMAIN order = 1 .. head
    /\ DOMAIN got \subseteq 1 .. tail
    /\ \A i \in DOMAIN got : got[i] = order[i]

IInv ==
    /\ TypeOK /\ LocalsOK /\ WindowOK /\ PublishedOK /\ FreeOK
    /\ WritersOK /\ ReadersOK /\ OwnersApart /\ HistoryOK

-----------------------------------------------------------------------------
(* What is used of the slots' arithmetic: positions less than a lap apart     *)
(* have different slots, positions a lap apart the same.                      *)
LEMMA SlotFacts ==
    ASSUME MpmcAssumption
    PROVE  /\ Capacity \in Nat /\ Capacity >= 2
           /\ \A i \in Int : Slot(i) \in Slots
           /\ \A i, j \in Int : i # j /\ i - j < Capacity /\ j - i < Capacity => Slot(i) # Slot(j)
           /\ \A i \in Int : Slot(i + Capacity) = Slot(i)
           /\ \A i \in Slots : i \in Int /\ Slot(i) = i
<1>1. Capacity \in Nat \ {0} /\ Capacity >= 2
  BY DEF MpmcAssumption
<1>2. ASSUME NEW i \in Int PROVE Slot(i) \in Slots
  BY <1>1, DivMod, Zenon DEF Slot, Slots
<1>3. ASSUME NEW i \in Int, NEW j \in Int, i # j, i - j < Capacity, j - i < Capacity
      PROVE  Slot(i) # Slot(j)
  BY <1>1, <1>3, ModInjective, Zenon DEF Slot
<1>4. ASSUME NEW i \in Int PROVE Slot(i + Capacity) = Slot(i)
  <2>1. (i + Capacity * 1) % Capacity = i % Capacity
    BY <1>1, 1 \in Int, ModShift, Zenon
  <2>2. QED
    BY <1>1, <2>1 DEF Slot
<1>5. ASSUME NEW i \in Slots PROVE i \in Int /\ Slot(i) = i
  BY <1>1, ModSmall DEF Slot, Slots
<1>6. QED
  BY <1>1, <1>2, <1>3, <1>4, <1>5, Zenon

(* op_mpmc_init                                                               *)
LEMMA InitIInv == ASSUME MpmcAssumption, Init PROVE IInv
<1>1. Capacity \in Nat /\ Capacity >= 2 /\ Slots = 0 .. Capacity - 1
  BY SlotFacts, Zenon DEF Slots
<1>2. TypeOK
  BY <1>1 DEF Init, TypeOK, Threads
<1>3. FreeOK
  <2>1. ASSUME NEW i \in head .. tail + Capacity - 1 PROVE seq[Slot(i)] = i
    <3>1. i \in Slots /\ seq = [j \in Slots |-> j]
      BY <1>1 DEF Init
    <3>2. QED
      BY <3>1, SlotFacts, Zenon
  <2>2. QED
    BY <2>1, Zenon DEF FreeOK
<1>4. \A t \in Threads : ~Owns(t) /\ pc[t] = "idle" /\ pos[t] = 0
  BY Zenon DEF Init, Owns
<1>5. LocalsOK /\ WindowOK
  BY <1>1, <1>4 DEF Init, LocalsOK, WindowOK, Threads
<1>6. PublishedOK /\ WritersOK /\ ReadersOK /\ OwnersApart
  BY <1>1, <1>4 DEF Init, PublishedOK, WritersOK, ReadersOK, OwnersApart, Threads
<1>7. HistoryOK
  BY DEF Init, HistoryOK
<1>8. QED
  BY <1>2, <1>3, <1>5, <1>6, <1>7, Zenon DEF IInv

-----------------------------------------------------------------------------
(* A step of a thread that owns no slot before or after it, and that leaves   *)
(* the shared memory alone, changes nothing the other conjuncts speak of.     *)
LEMMA OthersKeep ==
    ASSUME IInv, NEW t \in Threads, ~Owns(t), ~Owns(t)',
           UNCHANGED <<memory, order, got>>,
           \A u \in Threads \ {t} : pc'[u] = pc[u] /\ pos'[u] = pos[u] /\ item'[u] = item[u]
    PROVE  /\ WindowOK' /\ PublishedOK' /\ FreeOK' /\ WritersOK' /\ ReadersOK'
           /\ OwnersApart' /\ HistoryOK'
<1>1. /\ head' = head /\ tail' = tail /\ seq' = seq /\ data' = data
      /\ order' = order /\ got' = got
  BY Zenon DEF memory
<1>2. \A u \in Threads : Owns(u)' = Owns(u) /\ (Owns(u) => pos'[u] = pos[u] /\ item'[u] = item[u] /\ pc'[u] = pc[u])
  BY DEF Owns
<1>3. Producers \subseteq Threads /\ Consumers \subseteq Threads
  BY Zenon DEF Threads
<1>4. WindowOK' /\ HistoryOK'
  BY <1>1, Zenon DEF IInv, WindowOK, HistoryOK
<1>5. PublishedOK'
  BY <1>1, <1>2, <1>3 DEF IInv, PublishedOK
<1>6. FreeOK'
  BY <1>1, <1>2, <1>3 DEF IInv, FreeOK
<1>7. WritersOK'
  BY <1>1, <1>2, <1>3, Zenon DEF IInv, WritersOK
<1>8. ReadersOK'
  BY <1>1, <1>2, <1>3, Zenon DEF IInv, ReadersOK
<1>9. OwnersApart'
  BY <1>1, <1>2, Zenon DEF IInv, OwnersApart
<1>10. QED
  BY <1>4, <1>5, <1>6, <1>7, <1>8, <1>9, Zenon

(* The steps of op_mpmc_push and op_mpmc_pop that touch locals only: loading a *)
(* position or a number, giving up, starting over.                            *)
LEMMA LocalSteps ==
    ASSUME MpmcAssumption, IInv,
           \/ \E p \in Producers :
                 \/ BeginPush(p) \/ PushLoadSeq(p) \/ PushFull(p) \/ PushReload(p)
                 \/ ClaimHead(p) /\ head # pos[p]
           \/ \E c \in Consumers :
                 \/ BeginPop(c) \/ PopLoadSeq(c) \/ PopEmpty(c) \/ PopReload(c)
                 \/ ClaimTail(c) /\ tail # pos[c]
    PROVE  IInv'
<1>0. /\ TypeOK /\ LocalsOK /\ Capacity \in Nat /\ \A i \in Int : Slot(i) \in Slots
      /\ Producers \subseteq Threads /\ Consumers \subseteq Threads
      /\ Producers \cap Consumers = {}
  BY SlotFacts, Zenon DEF IInv, Threads, MpmcAssumption
<1>1. ASSUME NEW p \in Producers,
             \/ BeginPush(p) \/ PushLoadSeq(p) \/ PushFull(p) \/ PushReload(p)
             \/ ClaimHead(p) /\ head # pos[p]
      PROVE  IInv'
  <2>1. /\ p \in Threads /\ UNCHANGED <<memory, order, got>> /\ ~Owns(p) /\ ~Owns(p)'
        /\ \A u \in Threads \ {p} : /\ pc'[u] = pc[u] /\ pos'[u] = pos[u]
                                     /\ item'[u] = item[u] /\ sq'[u] = sq[u]
    BY <1>0, <1>1, ZenonT(30) DEF BeginPush, PushLoadSeq, PushFull, PushReload, ClaimHead, Goto, memory, Owns, TypeOK
  <2>2. TypeOK' /\ LocalsOK'
    <3>1. CASE BeginPush(p)
      <4>1. PICK x \in fresh : item' = [item EXCEPT ![p] = x] /\ fresh' = fresh \ {x}
        BY <3>1, Zenon DEF BeginPush
      <4>2. x \in Items
        BY <1>0, <4>1, Zenon DEF TypeOK
      <4>3. TypeOK'
        BY <1>0, <3>1, <4>1, <4>2, SMTT(30) DEF BeginPush, Goto, memory, TypeOK
      <4>4. LocalsOK'
        BY <1>0, <2>1, <3>1, <4>1, <4>2, SMTT(30) DEF BeginPush, Goto, memory, LocalsOK, TypeOK
      <4>5. QED
        BY <4>3, <4>4, Zenon
    <3>2. CASE PushFull(p)
      <4>1. TypeOK'
        BY <1>0, <3>2, Zenon DEF PushFull, Goto, memory, LocalsOK, TypeOK
      <4>2. LocalsOK'
        BY <1>0, <2>1, <3>2 DEF PushFull, Goto, memory, LocalsOK, TypeOK
      <4>3. QED
        BY <4>1, <4>2, Zenon
    <3>3. CASE PushLoadSeq(p)
      <4>1. TypeOK'
        BY <1>0, <3>3 DEF PushLoadSeq, Goto, memory, TypeOK
      <4>2. LocalsOK'
        BY <1>0, <2>1, <3>3 DEF PushLoadSeq, Goto, memory, LocalsOK, TypeOK
      <4>3. QED
        BY <4>1, <4>2, Zenon
    <3>4. CASE PushReload(p)
      <4>1. TypeOK'
        BY <1>0, <3>4, Zenon DEF PushReload, Goto, memory, TypeOK
      <4>2. LocalsOK'
        BY <1>0, <2>1, <3>4 DEF PushReload, Goto, memory, LocalsOK, TypeOK
      <4>3. QED
        BY <4>1, <4>2, Zenon
    <3>5. CASE ClaimHead(p) /\ head # pos[p]
      <4>1. TypeOK'
        BY <1>0, <3>5, ZenonT(30) DEF ClaimHead, Goto, memory, TypeOK
      <4>2. LocalsOK'
        <5>1. /\ pc[p] = "test" /\ pc'[p] = "seq" /\ pos'[p] = head /\ item' = item
              /\ head' = head /\ tail' = tail /\ seq' = seq
          BY <1>0, <3>5, Zenon DEF ClaimHead, Goto, TypeOK
        <5>2. QED
          BY <1>0, <2>1, <5>1, SMTT(30) DEF LocalsOK, TypeOK
      <4>3. QED
        BY <4>1, <4>2, Zenon
    <3>6. QED
      BY <1>1, <3>1, <3>2, <3>3, <3>4, <3>5, Zenon
  <2>4. QED
    BY <2>1, <2>2, OthersKeep, Zenon DEF IInv
<1>2. ASSUME NEW c \in Consumers,
             \/ BeginPop(c) \/ PopLoadSeq(c) \/ PopEmpty(c) \/ PopReload(c)
             \/ ClaimTail(c) /\ tail # pos[c]
      PROVE  IInv'
  <2>1. /\ c \in Threads /\ UNCHANGED <<memory, order, got>> /\ ~Owns(c) /\ ~Owns(c)'
        /\ \A u \in Threads \ {c} : /\ pc'[u] = pc[u] /\ pos'[u] = pos[u]
                                     /\ item'[u] = item[u] /\ sq'[u] = sq[u]
    BY <1>0, <1>2, SMTT(30) DEF BeginPop, PopLoadSeq, PopEmpty, PopReload, ClaimTail, Goto, memory, Owns, TypeOK
  <2>2. TypeOK'
    BY <1>0, <1>2, SMTT(30) DEF BeginPop, PopLoadSeq, PopEmpty, PopReload, ClaimTail, Goto, memory, LocalsOK, TypeOK
  <2>3. LocalsOK'
    BY <1>0, <1>2, <2>1, SMTT(30) DEF BeginPop, PopLoadSeq, PopEmpty, PopReload, ClaimTail, Goto, memory, LocalsOK, TypeOK
  <2>4. QED
    BY <2>1, <2>2, <2>3, OthersKeep, Zenon DEF IInv
<1>3. QED
  BY <1>1, <1>2, Zenon

-----------------------------------------------------------------------------
(* The exchange on head succeeds: the position is p's alone, because the       *)
(* number p loaded still stands and no reader is left in the slot.            *)
LEMMA ClaimHeadStep ==
    ASSUME MpmcAssumption, IInv, NEW p \in Producers, ClaimHead(p), head = pos[p]
    PROVE  IInv'
<1>0. /\ TypeOK /\ LocalsOK /\ WindowOK /\ Capacity \in Nat /\ Capacity >= 2
      /\ head \in Nat /\ tail \in Nat /\ p \in Threads
      /\ Producers \subseteq Threads /\ Consumers \subseteq Threads
      /\ \A c \in Consumers : c # p
  BY SlotFacts, Zenon DEF IInv, TypeOK, Threads, MpmcAssumption
<1>1. /\ head' = head + 1 /\ tail' = tail /\ seq' = seq /\ data' = data
      /\ pos' = pos /\ sq' = sq /\ item' = item /\ fresh' = fresh /\ got' = got
      /\ order' = [i \in 1 .. head + 1 |-> IF i = head + 1 THEN item[p] ELSE order[i]]
      /\ pc' = [pc EXCEPT ![p] = "write"]
      /\ pc[p] = "test" /\ sq[p] = pos[p]
  BY <1>0, Zenon DEF ClaimHead, Goto
<1>2. /\ \A u \in Threads : pc'[u] = IF u = p THEN "write" ELSE pc[u]
      /\ \A u \in Threads : Owns(u)' <=> (u = p \/ Owns(u))
      /\ ~Owns(p)
  BY <1>0, <1>1, Zenon DEF TypeOK, Owns
<1>3. seq[Slot(head)] >= head /\ seq[Slot(head)] \in Nat
  BY <1>0, <1>1, SlotFacts DEF LocalsOK, TypeOK
<1>4. head - tail < Capacity
  <2>1. SUFFICES ASSUME head = tail + Capacity PROVE FALSE
    BY <1>0 DEF WindowOK
  <2>2. Slot(head) = Slot(tail) /\ tail \in tail .. head - 1
    BY <1>0, <2>1, SlotFacts
  <2>3. seq[Slot(tail)] = tail \/ seq[Slot(tail)] = tail + 1
    BY <2>2, Zenon DEF IInv, PublishedOK, WritersOK
  <2>4. QED
    BY <1>0, <1>3, <2>1, <2>2, <2>3
<1>5. ASSUME NEW c \in Consumers, Owns(c) PROVE pos[c] # head - Capacity /\ pos[c] \in Nat
  <2>1. pos[c] \in Nat /\ seq[Slot(pos[c])] = pos[c] + 1
    BY <1>0, <1>5, Zenon DEF IInv, ReadersOK, TypeOK
  <2>2. SUFFICES ASSUME pos[c] = head - Capacity PROVE FALSE
    BY <2>1, Zenon
  <2>3. Slot(pos[c]) = Slot(pos[c] + Capacity) /\ pos[c] + Capacity = head
    BY <1>0, <2>1, <2>2, SlotFacts, SMTT(30)
  <2>4. QED
    BY <1>0, <1>3, <2>1, <2>3
<1>6. seq[Slot(head)] = head
  BY <1>0, <1>4, <1>5 DEF IInv, FreeOK
<1>7. TypeOK'
  BY <1>0, <1>1 DEF TypeOK
<1>8. LocalsOK'
  BY <1>0, <1>1, <1>2 DEF LocalsOK, TypeOK
<1>9. WindowOK'
  <2>1. tail' <= head' /\ head' - tail' <= Capacity
    BY <1>0, <1>1, <1>4, SMTT(30) DEF WindowOK
  <2>2. ASSUME NEW i \in 0 .. head' - 1 PROVE seq'[Slot(i)] >= i
    <3>1. i = head \/ i \in 0 .. head - 1
      BY <1>0, <1>1, <2>2
    <3>2. CASE i = head
      BY <1>0, <1>1, <1>6, <3>2
    <3>3. CASE i \in 0 .. head - 1
      BY <1>0, <1>1, <3>3, Zenon DEF WindowOK
    <3>4. QED
      BY <3>1, <3>2, <3>3, Zenon
  <2>3. \A i \in 0 .. tail' - 1 : seq'[Slot(i)] > i
    BY <1>0, <1>1, Zenon DEF WindowOK
  <2>4. QED
    BY <2>1, <2>2, <2>3, Zenon DEF WindowOK
<1>10. HistoryOK'
  BY <1>0, <1>1, SMTT(30) DEF IInv, HistoryOK, WindowOK
<1>11. PublishedOK'
  <2>1. ASSUME NEW i \in tail' .. head' - 1,
               \A q \in Producers : ~(Owns(q)' /\ pos'[q] = i)
        PROVE  seq'[Slot(i)] = i + 1 /\ data'[Slot(i)] = order'[i + 1]
    <3>1. i # head /\ i \in tail .. head - 1
      BY <1>0, <1>1, <1>2, <2>1, SMTT(30)
    <3>2. order'[i + 1] = order[i + 1]
      BY <1>0, <1>1, <3>1, SMTT(30)
    <3>3. QED
      BY <1>0, <1>1, <1>2, <2>1, <3>1, <3>2, Zenon DEF IInv, PublishedOK
  <2>2. QED
    BY <2>1, Zenon DEF PublishedOK
<1>12. FreeOK'
  BY <1>0, <1>1, <1>2, SMTT(30) DEF IInv, FreeOK
<1>13. WritersOK'
  BY <1>0, <1>1, <1>2, <1>6, SMTT(30) DEF IInv, WritersOK, WindowOK, TypeOK
<1>14. ReadersOK'
  <2>1. ASSUME NEW c \in Consumers, Owns(c)'
        PROVE  /\ head' - Capacity <= pos'[c] /\ pos'[c] < tail'
               /\ seq'[Slot(pos'[c])] = pos'[c] + 1
               /\ pc'[c] = "read" => data'[Slot(pos'[c])] = order'[pos'[c] + 1]
    <3>1. Owns(c) /\ pc'[c] = pc[c] /\ pos[c] \in Nat
      BY <1>0, <1>2, <2>1, Zenon DEF TypeOK
    <3>2. /\ head - Capacity <= pos[c] /\ pos[c] < tail /\ pos[c] # head - Capacity
          /\ seq[Slot(pos[c])] = pos[c] + 1
          /\ pc[c] = "read" => data[Slot(pos[c])] = order[pos[c] + 1]
      BY <1>5, <3>1, Zenon DEF IInv, ReadersOK
    <3>3. order'[pos[c] + 1] = order[pos[c] + 1]
      BY <1>0, <1>1, <3>1, <3>2, SMTT(30) DEF WindowOK
    <3>4. QED
      BY <1>0, <1>1, <3>1, <3>2, <3>3, SMTT(30)
  <2>2. QED
    BY <2>1, Zenon DEF ReadersOK
<1>15. OwnersApart'
  <2>1. \A u \in Threads : Owns(u) => pos[u] # head
    BY <1>0, SMTT(30) DEF IInv, WritersOK, ReadersOK, WindowOK, Threads
  <2>2. QED
    BY <1>0, <1>1, <1>2, <2>1, Zenon DEF IInv, OwnersApart
<1>16. QED
  BY <1>7, <1>8, <1>9, <1>10, <1>11, <1>12, <1>13, <1>14, <1>15, Zenon DEF IInv

(* The exchange on tail succeeds: the position is published and unread.        *)
LEMMA ClaimTailStep ==
    ASSUME MpmcAssumption, IInv, NEW c \in Consumers, ClaimTail(c), tail = pos[c]
    PROVE  IInv'
<1>0. /\ TypeOK /\ LocalsOK /\ WindowOK /\ Capacity \in Nat /\ Capacity >= 2
      /\ head \in Nat /\ tail \in Nat /\ c \in Threads
      /\ Producers \subseteq Threads /\ Consumers \subseteq Threads
      /\ \A p \in Producers : c # p
  BY SlotFacts, Zenon DEF IInv, TypeOK, Threads, MpmcAssumption
<1>1. /\ head' = head /\ tail' = tail + 1 /\ seq' = seq /\ data' = data
      /\ pos' = pos /\ sq' = sq /\ item' = item /\ fresh' = fresh /\ got' = got
      /\ order' = order /\ pc' = [pc EXCEPT ![c] = "read"]
      /\ pc[c] = "test" /\ sq[c] = pos[c] + 1
  BY <1>0, Zenon DEF ClaimTail, Goto
<1>2. /\ \A u \in Threads : pc'[u] = IF u = c THEN "read" ELSE pc[u]
      /\ \A u \in Threads : Owns(u)' <=> (u = c \/ Owns(u))
      /\ ~Owns(c)
  BY <1>0, <1>1, Zenon DEF TypeOK, Owns
<1>3. seq[Slot(tail)] > tail /\ seq[Slot(tail)] \in Nat
  BY <1>0, <1>1, SlotFacts DEF LocalsOK, TypeOK
<1>4. tail < head
  <2>1. SUFFICES ASSUME head = tail PROVE FALSE
    BY <1>0 DEF WindowOK
  <2>2. tail \in head .. tail + Capacity - 1
    BY <1>0, <2>1
  <2>3. CASE \A d \in Consumers : ~(Owns(d) /\ pos[d] = tail - Capacity)
    BY <1>0, <1>3, <2>2, <2>3 DEF IInv, FreeOK
  <2>4. ASSUME NEW d \in Consumers, Owns(d), pos[d] = tail - Capacity PROVE FALSE
    <3>1. pos[d] \in Nat /\ seq[Slot(pos[d])] = pos[d] + 1
      BY <1>0, <2>4, Zenon DEF IInv, ReadersOK, TypeOK
    <3>2. Slot(pos[d]) = Slot(pos[d] + Capacity) /\ pos[d] + Capacity = tail
      BY <1>0, <2>4, <3>1, SlotFacts, SMTT(30)
    <3>3. QED
      BY <1>0, <1>3, <2>4, <3>1, <3>2
  <2>5. QED
    BY <2>3, <2>4, Zenon
<1>5. ASSUME NEW p \in Producers, Owns(p) PROVE pos[p] # tail
  BY <1>0, <1>3, <1>5 DEF IInv, WritersOK
<1>6. seq[Slot(tail)] = tail + 1 /\ data[Slot(tail)] = order[tail + 1]
  BY <1>0, <1>4, <1>5 DEF IInv, PublishedOK
<1>7. TypeOK'
  BY <1>0, <1>1 DEF TypeOK
<1>8. LocalsOK'
  BY <1>0, <1>1, <1>2 DEF LocalsOK, TypeOK
<1>9. WindowOK'
  BY <1>0, <1>1, <1>4, <1>6, SMTT(30) DEF WindowOK
<1>10. HistoryOK'
  BY <1>0, <1>1, SMTT(30) DEF IInv, HistoryOK, WindowOK
<1>11. PublishedOK'
  BY <1>0, <1>1, <1>2 DEF IInv, PublishedOK
<1>12. FreeOK'
  <2>1. ASSUME NEW i \in head' .. tail' + Capacity - 1,
               \A d \in Consumers : ~(Owns(d)' /\ pos'[d] = i - Capacity)
        PROVE  seq'[Slot(i)] = i
    <3>1. i # tail + Capacity /\ i \in head .. tail + Capacity - 1
      BY <1>0, <1>1, <1>2, <2>1
    <3>2. QED
      BY <1>0, <1>1, <1>2, <2>1, <3>1, Zenon DEF IInv, FreeOK
  <2>2. QED
    BY <2>1, Zenon DEF FreeOK
<1>13. WritersOK'
  BY <1>0, <1>1, <1>2, <1>5, SMTT(30) DEF IInv, WritersOK, WindowOK, TypeOK
<1>14. ReadersOK'
  BY <1>0, <1>1, <1>2, <1>6, SMTT(30) DEF IInv, ReadersOK, WindowOK, TypeOK
<1>15. OwnersApart'
  <2>1. \A u \in Threads : Owns(u) => pos[u] # tail
    BY <1>0, <1>5, SMTT(30) DEF IInv, WritersOK, ReadersOK, WindowOK, Threads
  <2>2. QED
    BY <1>0, <1>1, <1>2, <2>1, Zenon DEF IInv, OwnersApart
<1>16. QED
  BY <1>7, <1>8, <1>9, <1>10, <1>11, <1>12, <1>13, <1>14, <1>15, Zenon DEF IInv

-----------------------------------------------------------------------------
(* Two positions of the current lap have different slots.  A lap reaches from  *)
(* the oldest position still read to the last one claimed.                    *)
LEMMA OwnSlots ==
    ASSUME MpmcAssumption, IInv, NEW t \in Threads, Owns(t)
    PROVE  /\ pos[t] \in Nat /\ head - Capacity <= pos[t] /\ pos[t] < head
           /\ \A u \in Threads : u # t /\ Owns(u) => Slot(pos[u]) # Slot(pos[t])
           /\ \A i \in tail .. head - 1 : i # pos[t] => Slot(i) # Slot(pos[t])
           /\ \A i \in head .. tail + Capacity - 1 : i - Capacity # pos[t] => Slot(i) # Slot(pos[t])
<1>1. /\ Capacity \in Nat /\ head \in Nat /\ tail \in Nat /\ tail <= head /\ head - tail <= Capacity
      /\ \A u \in Threads : pos[u] \in Nat
  BY SlotFacts, Zenon DEF IInv, TypeOK, WindowOK
<1>2. \A u \in Threads : Owns(u) => head - Capacity <= pos[u] /\ pos[u] < head
  BY <1>1 DEF IInv, WritersOK, ReadersOK, Threads
<1>3. ASSUME NEW u \in Threads, u # t, Owns(u) PROVE Slot(pos[u]) # Slot(pos[t])
  <2>1. pos[u] # pos[t]
    BY <1>3, Zenon DEF IInv, OwnersApart
  <2>2. QED
    BY <1>1, <1>2, <1>3, <2>1, SlotFacts
<1>4. ASSUME NEW i \in tail .. head - 1, i # pos[t] PROVE Slot(i) # Slot(pos[t])
  BY <1>1, <1>2, <1>4, SlotFacts, SMTT(30)
<1>5. ASSUME NEW i \in head .. tail + Capacity - 1, i - Capacity # pos[t]
      PROVE  Slot(i) # Slot(pos[t])
  <2>1. i - Capacity \in Int /\ Slot((i - Capacity) + Capacity) = Slot(i - Capacity)
    BY <1>1, SlotFacts
  <2>2. Slot(i) = Slot(i - Capacity)
    BY <1>1, <2>1
  <2>3. i - Capacity < pos[t] + Capacity /\ pos[t] - (i - Capacity) < Capacity
    BY <1>1, <1>2
  <2>4. (i - Capacity) - pos[t] < Capacity
    BY <1>1, <2>3
  <2>5. Slot(i - Capacity) # Slot(pos[t])
    <3>1. ASSUME NEW k \in Int, k # pos[t], pos[t] - k < Capacity, k - pos[t] < Capacity
          PROVE  Slot(k) # Slot(pos[t])
      BY <1>1, <3>1, SlotFacts
    <3>2. QED
      BY <1>5, <2>1, <2>3, <2>4, <3>1, Zenon
  <2>6. QED
    BY <2>2, <2>5, Zenon
<1>6. QED
  BY <1>1, <1>2, <1>3, <1>4, <1>5, Zenon

(* The owner of a claimed position writes the item into its slot.              *)
LEMMA WriteDataStep ==
    ASSUME MpmcAssumption, IInv, NEW p \in Producers, WriteData(p)
    PROVE  IInv'
<1>0. /\ TypeOK /\ LocalsOK /\ p \in Threads /\ Slot(pos[p]) \in Slots /\ pos[p] \in Nat
      /\ Producers \subseteq Threads /\ Consumers \subseteq Threads
      /\ \A c \in Consumers : c # p
      /\ head \in Nat /\ tail \in Nat /\ Capacity \in Nat
  BY SlotFacts, SMTT(30) DEF IInv, TypeOK, Threads, MpmcAssumption
<1>1. /\ head' = head /\ tail' = tail /\ seq' = seq
      /\ data' = [data EXCEPT ![Slot(pos[p])] = item[p]]
      /\ pos' = pos /\ sq' = sq /\ item' = item /\ fresh' = fresh /\ got' = got
      /\ order' = order /\ pc' = [pc EXCEPT ![p] = "publish"] /\ pc[p] = "write"
  BY Zenon DEF WriteData, Goto
<1>2. /\ \A u \in Threads : pc'[u] = IF u = p THEN "publish" ELSE pc[u]
      /\ \A u \in Threads : Owns(u)' <=> Owns(u)
      /\ Owns(p)
  BY <1>0, <1>1, Zenon DEF TypeOK, Owns
<1>3. /\ data'[Slot(pos[p])] = item[p]
      /\ \A s \in Slots : s # Slot(pos[p]) => data'[s] = data[s]
  BY <1>0, <1>1, Zenon DEF TypeOK
<1>4. TypeOK' /\ LocalsOK'
  BY <1>0, <1>1, <1>2, Zenon DEF TypeOK, LocalsOK
<1>5. WindowOK' /\ HistoryOK' /\ FreeOK' /\ OwnersApart'
  BY <1>0, <1>1, <1>2, Zenon DEF IInv, WindowOK, HistoryOK, FreeOK, OwnersApart
<1>6. PublishedOK'
  <2>1. ASSUME NEW i \in tail .. head - 1,
               \A q \in Producers : ~(Owns(q)' /\ pos'[q] = i)
        PROVE  seq'[Slot(i)] = i + 1 /\ data'[Slot(i)] = order'[i + 1]
    <3>1. i # pos[p] /\ i \in Int
      BY <1>0, <1>1, <1>2, <2>1, SMTT(30)
    <3>2. Slot(i) # Slot(pos[p]) /\ Slot(i) \in Slots
      BY <1>0, <1>2, <3>1, OwnSlots, SlotFacts, Zenon
    <3>3. seq[Slot(i)] = i + 1 /\ data[Slot(i)] = order[i + 1]
      BY <1>0, <1>1, <1>2, <2>1, Zenon DEF IInv, PublishedOK
    <3>4. QED
      BY <1>1, <1>3, <3>2, <3>3, Zenon
  <2>2. QED
    BY <1>1, <2>1, Zenon DEF PublishedOK
<1>7. \A u \in Threads : u # p /\ Owns(u) => data'[Slot(pos[u])] = data[Slot(pos[u])]
  BY <1>0, <1>2, <1>3, OwnSlots, SlotFacts, SMTT(30) DEF TypeOK
<1>8. WritersOK'
  BY <1>0, <1>1, <1>2, <1>3, <1>7, SMTT(30) DEF IInv, WritersOK
<1>9. ReadersOK'
  BY <1>0, <1>1, <1>2, <1>7, SMTT(30) DEF IInv, ReadersOK
<1>10. QED
  BY <1>4, <1>5, <1>6, <1>8, <1>9, Zenon DEF IInv

(* The owner stores the number that lets a consumer in.                       *)
LEMMA PublishStep ==
    ASSUME MpmcAssumption, IInv, NEW p \in Producers, Publish(p)
    PROVE  IInv'
<1>0. /\ TypeOK /\ LocalsOK /\ WindowOK /\ p \in Threads
      /\ Slot(pos[p]) \in Slots /\ pos[p] \in Nat
      /\ Producers \subseteq Threads /\ Consumers \subseteq Threads
      /\ \A u \in Consumers : u # p
      /\ head \in Nat /\ tail \in Nat /\ Capacity \in Nat /\ Capacity >= 2
  BY SlotFacts, SMTT(30) DEF IInv, TypeOK, Threads, MpmcAssumption
<1>1. /\ head' = head /\ tail' = tail /\ data' = data
      /\ seq' = [seq EXCEPT ![Slot(pos[p])] = pos[p] + 1]
      /\ pos' = pos /\ sq' = sq /\ item' = [item EXCEPT ![p] = NULL]
      /\ fresh' = fresh /\ got' = got /\ order' = order
      /\ pc' = [pc EXCEPT ![p] = "idle"] /\ pc[p] = "publish"
  BY Zenon DEF Publish, Goto
<1>2. /\ \A u \in Threads : pc'[u] = IF u = p THEN "idle" ELSE pc[u]
      /\ \A u \in Threads : item'[u] = IF u = p THEN NULL ELSE item[u]
      /\ \A u \in Threads : Owns(u)' <=> (u # p /\ Owns(u))
      /\ Owns(p)
  BY <1>0, <1>1, Zenon DEF TypeOK, Owns
<1>3. /\ tail <= pos[p] /\ pos[p] < head /\ seq[Slot(pos[p])] = pos[p]
      /\ data[Slot(pos[p])] = order[pos[p] + 1]
  BY <1>1, <1>2, Zenon DEF IInv, WritersOK
<1>4. /\ seq'[Slot(pos[p])] = pos[p] + 1
      /\ \A s \in Slots : s # Slot(pos[p]) => seq'[s] = seq[s]
      /\ \A s \in Slots : seq'[s] >= seq[s] /\ seq[s] \in Nat /\ seq'[s] \in Nat
  BY <1>0, <1>1, <1>3, SMTT(30) DEF TypeOK
<1>5. TypeOK'
  <2>1. pos[p] + 1 \in 0 .. tail + Capacity
    BY <1>0, <1>3, SMTT(30) DEF WindowOK
  <2>2. QED
    BY <1>0, <1>1, <2>1, Zenon DEF TypeOK
<1>6. LocalsOK' /\ WindowOK'
  <2>1. \A t \in Threads : pos[t] \in Nat /\ sq[t] \in Nat /\ Slot(pos[t]) \in Slots
    BY <1>0, SlotFacts DEF TypeOK
  <2>2. LocalsOK'
    BY <1>0, <1>1, <1>2, <1>4, <2>1, SMTT(30) DEF LocalsOK
  <2>3. \A i \in 0 .. head - 1 : Slot(i) \in Slots
    BY <1>0, SlotFacts
  <2>4. WindowOK'
    BY <1>0, <1>1, <1>4, <2>3, SMTT(30) DEF WindowOK
  <2>5. QED
    BY <2>2, <2>4, Zenon
<1>7. HistoryOK' /\ OwnersApart'
  BY <1>0, <1>1, <1>2, Zenon DEF IInv, HistoryOK, OwnersApart
<1>8. PublishedOK'
  <2>1. ASSUME NEW i \in tail .. head - 1,
               \A q \in Producers : ~(Owns(q)' /\ pos'[q] = i)
        PROVE  seq'[Slot(i)] = i + 1 /\ data'[Slot(i)] = order'[i + 1]
    <3>1. CASE i = pos[p]
      BY <1>1, <1>3, <1>4, <3>1, Zenon
    <3>2. CASE i # pos[p]
      <4>1. Slot(i) # Slot(pos[p]) /\ Slot(i) \in Slots
        BY <1>0, <1>2, <3>2, OwnSlots, SlotFacts, SMTT(30)
      <4>2. seq[Slot(i)] = i + 1 /\ data[Slot(i)] = order[i + 1]
        BY <1>0, <1>1, <1>2, <2>1, <3>2, Zenon DEF IInv, PublishedOK
      <4>3. QED
        BY <1>1, <1>4, <4>1, <4>2, Zenon
    <3>3. QED
      BY <3>1, <3>2, Zenon
  <2>2. QED
    BY <1>1, <2>1, Zenon DEF PublishedOK
<1>9. FreeOK'
  <2>1. ASSUME NEW i \in head .. tail + Capacity - 1,
               \A c \in Consumers : ~(Owns(c)' /\ pos'[c] = i - Capacity)
        PROVE  seq'[Slot(i)] = i
    <3>1. i - Capacity # pos[p]
      BY <1>0, <1>3, SMTT(30)
    <3>2. Slot(i) # Slot(pos[p]) /\ Slot(i) \in Slots
      BY <1>0, <1>2, <3>1, OwnSlots, SlotFacts, SMTT(30)
    <3>3. seq[Slot(i)] = i
      BY <1>0, <1>1, <1>2, <2>1, Zenon DEF IInv, FreeOK
    <3>4. QED
      BY <1>4, <3>2, <3>3, Zenon
  <2>2. QED
    BY <1>1, <2>1, Zenon DEF FreeOK
<1>10. \A u \in Threads : u # p /\ Owns(u) => seq'[Slot(pos[u])] = seq[Slot(pos[u])]
  BY <1>0, <1>2, <1>4, OwnSlots, SlotFacts, SMTT(30) DEF TypeOK
<1>11. WritersOK'
  BY <1>0, <1>1, <1>2, <1>10, SMTT(30) DEF IInv, WritersOK
<1>12. ReadersOK'
  BY <1>0, <1>1, <1>2, <1>10, SMTT(30) DEF IInv, ReadersOK
<1>13. QED
  BY <1>5, <1>6, <1>7, <1>8, <1>9, <1>11, <1>12, Zenon DEF IInv

(* The reader passes the slot on to the position one lap ahead.               *)
LEMMA ReleaseStep ==
    ASSUME MpmcAssumption, IInv, NEW c \in Consumers, Release(c)
    PROVE  IInv'
<1>0. /\ TypeOK /\ LocalsOK /\ WindowOK /\ c \in Threads
      /\ Slot(pos[c]) \in Slots /\ pos[c] \in Nat
      /\ Producers \subseteq Threads /\ Consumers \subseteq Threads
      /\ \A u \in Producers : u # c
      /\ head \in Nat /\ tail \in Nat /\ Capacity \in Nat /\ Capacity >= 2
  BY SlotFacts, SMTT(30) DEF IInv, TypeOK, Threads, MpmcAssumption
<1>1. /\ head' = head /\ tail' = tail /\ data' = data
      /\ seq' = [seq EXCEPT ![Slot(pos[c])] = pos[c] + Capacity]
      /\ pos' = pos /\ sq' = sq /\ item' = [item EXCEPT ![c] = NULL]
      /\ fresh' = fresh /\ got' = got /\ order' = order
      /\ pc' = [pc EXCEPT ![c] = "idle"] /\ pc[c] = "release"
  BY Zenon DEF Release, Goto
<1>2. /\ \A u \in Threads : pc'[u] = IF u = c THEN "idle" ELSE pc[u]
      /\ \A u \in Threads : item'[u] = IF u = c THEN NULL ELSE item[u]
      /\ \A u \in Threads : Owns(u)' <=> (u # c /\ Owns(u))
      /\ Owns(c)
  BY <1>0, <1>1, Zenon DEF TypeOK, Owns
<1>3. head - Capacity <= pos[c] /\ pos[c] < tail /\ seq[Slot(pos[c])] = pos[c] + 1
  BY <1>1, <1>2, Zenon DEF IInv, ReadersOK
<1>4. /\ seq'[Slot(pos[c])] = pos[c] + Capacity
      /\ \A s \in Slots : s # Slot(pos[c]) => seq'[s] = seq[s]
      /\ \A s \in Slots : seq'[s] >= seq[s] /\ seq[s] \in Nat /\ seq'[s] \in Nat
  BY <1>0, <1>1, <1>3, SMTT(30) DEF TypeOK
<1>5. TypeOK'
  <2>1. pos[c] + Capacity \in 0 .. tail + Capacity
    BY <1>0, <1>3
  <2>2. QED
    BY <1>0, <1>1, <2>1, Zenon DEF TypeOK
<1>6. LocalsOK' /\ WindowOK'
  <2>1. \A t \in Threads : pos[t] \in Nat /\ sq[t] \in Nat /\ Slot(pos[t]) \in Slots
    BY <1>0, SlotFacts DEF TypeOK
  <2>2. LocalsOK'
    BY <1>0, <1>1, <1>2, <1>4, <2>1, SMTT(30) DEF LocalsOK
  <2>3. \A i \in 0 .. head - 1 : Slot(i) \in Slots
    BY <1>0, SlotFacts
  <2>4. WindowOK'
    BY <1>0, <1>1, <1>4, <2>3, SMTT(30) DEF WindowOK
  <2>5. QED
    BY <2>2, <2>4, Zenon
<1>7. HistoryOK' /\ OwnersApart'
  BY <1>0, <1>1, <1>2, Zenon DEF IInv, HistoryOK, OwnersApart
<1>8. PublishedOK'
  <2>1. ASSUME NEW i \in tail .. head - 1,
               \A q \in Producers : ~(Owns(q)' /\ pos'[q] = i)
        PROVE  seq'[Slot(i)] = i + 1 /\ data'[Slot(i)] = order'[i + 1]
    <3>1. i # pos[c] /\ i \in Int
      BY <1>0, <1>3
    <3>2. Slot(i) # Slot(pos[c]) /\ Slot(i) \in Slots
      BY <1>0, <1>2, <3>1, OwnSlots, SlotFacts, Zenon
    <3>3. seq[Slot(i)] = i + 1 /\ data[Slot(i)] = order[i + 1]
      BY <1>0, <1>1, <1>2, <2>1, Zenon DEF IInv, PublishedOK
    <3>4. QED
      BY <1>1, <1>4, <3>2, <3>3, Zenon
  <2>2. QED
    BY <1>1, <2>1, Zenon DEF PublishedOK
<1>9. FreeOK'
  <2>1. ASSUME NEW i \in head .. tail + Capacity - 1,
               \A d \in Consumers : ~(Owns(d)' /\ pos'[d] = i - Capacity)
        PROVE  seq'[Slot(i)] = i
    <3>1. CASE i = pos[c] + Capacity
      BY <1>0, <1>4, <3>1, SlotFacts, SMTT(30)
    <3>2. CASE i # pos[c] + Capacity
      <4>1. i - Capacity # pos[c]
        BY <1>0, <3>2
      <4>2. Slot(i) # Slot(pos[c]) /\ Slot(i) \in Slots
        BY <1>0, <1>2, <4>1, OwnSlots, SlotFacts, SMTT(30)
      <4>3. seq[Slot(i)] = i
        BY <1>0, <1>1, <1>2, <2>1, <4>1, Zenon DEF IInv, FreeOK
      <4>4. QED
        BY <1>4, <4>2, <4>3, Zenon
    <3>3. QED
      BY <3>1, <3>2, Zenon
  <2>2. QED
    BY <1>1, <2>1, Zenon DEF FreeOK
<1>10. \A u \in Threads : u # c /\ Owns(u) => seq'[Slot(pos[u])] = seq[Slot(pos[u])]
  BY <1>0, <1>2, <1>4, OwnSlots, SlotFacts, SMTT(30) DEF TypeOK
<1>11. WritersOK'
  BY <1>0, <1>1, <1>2, <1>10, SMTT(30) DEF IInv, WritersOK
<1>12. ReadersOK'
  BY <1>0, <1>1, <1>2, <1>10, SMTT(30) DEF IInv, ReadersOK
<1>13. QED
  BY <1>5, <1>6, <1>7, <1>8, <1>9, <1>11, <1>12, Zenon DEF IInv

(* The reader takes the item of its position.                                 *)
LEMMA ReadDataStep ==
    ASSUME MpmcAssumption, IInv, NEW c \in Consumers, ReadData(c)
    PROVE  IInv'
<1>0. /\ TypeOK /\ LocalsOK /\ c \in Threads /\ Slot(pos[c]) \in Slots /\ pos[c] \in Nat
      /\ Producers \subseteq Threads /\ Consumers \subseteq Threads
      /\ \A p \in Producers : p # c
      /\ head \in Nat /\ tail \in Nat
  BY SlotFacts, SMTT(30) DEF IInv, TypeOK, Threads, MpmcAssumption
<1>1. /\ head' = head /\ tail' = tail /\ seq' = seq /\ data' = data
      /\ pos' = pos /\ sq' = sq /\ fresh' = fresh /\ order' = order
      /\ item' = [item EXCEPT ![c] = data[Slot(pos[c])]]
      /\ got' = [i \in DOMAIN got \cup {pos[c] + 1} |->
                    IF i = pos[c] + 1 THEN data[Slot(pos[c])] ELSE got[i]]
      /\ pc' = [pc EXCEPT ![c] = "release"] /\ pc[c] = "read"
  BY Zenon DEF ReadData, Goto, memory
<1>2. /\ \A u \in Threads : pc'[u] = IF u = c THEN "release" ELSE pc[u]
      /\ \A u \in Threads : u # c => item'[u] = item[u]
      /\ \A u \in Threads : Owns(u)' <=> Owns(u)
      /\ Owns(c)
  BY <1>0, <1>1, Zenon DEF TypeOK, Owns
<1>3. TypeOK'
  BY <1>0, <1>1, Zenon DEF TypeOK
<1>4. LocalsOK'
  BY <1>0, <1>1, <1>2, Zenon DEF TypeOK, LocalsOK
<1>5. WindowOK' /\ PublishedOK' /\ FreeOK' /\ OwnersApart'
  BY <1>0, <1>1, <1>2, ZenonT(30) DEF IInv, WindowOK, PublishedOK, FreeOK, OwnersApart
<1>6. WritersOK'
  BY <1>0, <1>1, <1>2, SMTT(30) DEF IInv, WritersOK
<1>7. ReadersOK'
  BY <1>0, <1>1, <1>2, SMTT(30) DEF IInv, ReadersOK
<1>8. HistoryOK'
  <2>1. pos[c] < tail /\ data[Slot(pos[c])] = order[pos[c] + 1]
    BY <1>1, <1>2, Zenon DEF IInv, ReadersOK
  <2>2. QED
    BY <1>0, <1>1, <2>1, SMTT(30) DEF IInv, HistoryOK
<1>9. QED
  BY <1>3, <1>4, <1>5, <1>6, <1>7, <1>8, Zenon DEF IInv

-----------------------------------------------------------------------------
LEMMA NextIInv == ASSUME MpmcAssumption, IInv, [Next]_vars PROVE IInv'
<1>1. ASSUME NEW p \in Producers, op_mpmc_push(p) PROVE IInv'
  <2>1. CASE ClaimHead(p) /\ head = pos[p]
    BY <2>1, ClaimHeadStep, Zenon
  <2>2. CASE WriteData(p)
    BY <2>2, WriteDataStep, Zenon
  <2>3. CASE Publish(p)
    BY <2>3, PublishStep, Zenon
  <2>4. CASE \/ BeginPush(p) \/ PushLoadSeq(p) \/ PushFull(p) \/ PushReload(p)
             \/ ClaimHead(p) /\ head # pos[p]
    BY <2>4, LocalSteps, Zenon
  <2>5. QED
    BY <1>1, <2>1, <2>2, <2>3, <2>4, Zenon DEF op_mpmc_push, StoreItem
<1>2. ASSUME NEW c \in Consumers, op_mpmc_pop(c) PROVE IInv'
  <2>1. CASE ClaimTail(c) /\ tail = pos[c]
    BY <2>1, ClaimTailStep, Zenon
  <2>2. CASE ReadData(c)
    BY <2>2, ReadDataStep, Zenon
  <2>3. CASE Release(c)
    BY <2>3, ReleaseStep, Zenon
  <2>4. CASE \/ BeginPop(c) \/ PopLoadSeq(c) \/ PopEmpty(c) \/ PopReload(c)
             \/ ClaimTail(c) /\ tail # pos[c]
    BY <2>4, LocalSteps, Zenon
  <2>5. QED
    BY <1>2, <2>1, <2>2, <2>3, <2>4, Zenon DEF op_mpmc_pop
<1>3. CASE UNCHANGED vars
  <2>1. /\ head' = head /\ tail' = tail /\ seq' = seq /\ data' = data /\ pc' = pc /\ pos' = pos
        /\ sq' = sq /\ item' = item /\ fresh' = fresh /\ order' = order /\ got' = got
    BY <1>3, Zenon DEF vars
  <2>2. TypeOK' /\ LocalsOK'
    BY <2>1, Zenon DEF IInv, TypeOK, LocalsOK
  <2>3. WindowOK' /\ HistoryOK'
    BY <2>1, Zenon DEF IInv, WindowOK, HistoryOK
  <2>4. PublishedOK' /\ FreeOK'
    BY <2>1, Zenon DEF IInv, PublishedOK, FreeOK, Owns
  <2>5. WritersOK' /\ ReadersOK' /\ OwnersApart'
    BY <2>1, Zenon DEF IInv, WritersOK, ReadersOK, OwnersApart, Owns
  <2>6. QED
    BY <2>2, <2>3, <2>4, <2>5, Zenon DEF IInv
<1>4. QED
  BY <1>1, <1>2, <1>3, Zenon DEF Next

(* What the invariant says to a user of the queue.                            *)
LEMMA IInvImplies == ASSUME MpmcAssumption, IInv PROVE FifoByPosition /\ SlotsExclusive
<1>1. /\ head \in Nat /\ tail \in Nat /\ tail <= head /\ head - tail <= Capacity
  BY Zenon DEF IInv, TypeOK, WindowOK
<1>2. FifoByPosition
  BY <1>1 DEF IInv, HistoryOK, FifoByPosition
<1>3. \A t, u \in Threads : t # u /\ Owns(t) /\ Owns(u) => Slot(pos[t]) # Slot(pos[u])
  BY OwnSlots, Zenon
<1>4. QED
  BY <1>1, <1>2, <1>3, Zenon DEF IInv, PublishedOK, SlotsExclusive

(* A slot's number tells a consumer the truth.                                *)
LEMMA EmptyTrue ==
    ASSUME MpmcAssumption, IInv, NEW c \in Consumers, [Next]_vars
    PROVE  EmptyHonest(c)
<1>1. SUFFICES ASSUME pc[c] = "seq", pc'[c] = "test", sq'[c] < pos[c] + 1, tail < head
               PROVE  UnderWay(Producers)
  BY SMTT(30) DEF EmptyHonest, IInv, TypeOK
<1>2. /\ c \in Threads /\ pos[c] \in Nat /\ head \in Nat /\ tail \in Nat /\ pos[c] <= tail
      /\ Slot(pos[c]) \in Slots /\ seq[Slot(pos[c])] \in Nat
  BY SlotFacts, SMTT(30) DEF IInv, TypeOK, LocalsOK, Threads
<1>3. sq'[c] = seq[Slot(pos[c])]
  <2>1. CASE \E p \in Producers : op_mpmc_push(p)
    <3>1. PICK p \in Producers : op_mpmc_push(p)
      BY <2>1, Zenon
    <3>2. p # c /\ pc \in [Threads -> {"idle", "seq", "test", "write", "publish", "read", "release"}]
      BY Zenon DEF MpmcAssumption, IInv, TypeOK
    <3>3. pc'[c] = pc[c]
      BY <1>2, <3>1, <3>2, Zenon
         DEF op_mpmc_push, BeginPush, PushLoadSeq, ClaimHead, StoreItem, WriteData, Publish, PushFull,
             PushReload, Goto
    <3>4. QED
      BY <1>1, <3>3, Zenon
  <2>2. ASSUME NEW d \in Consumers, op_mpmc_pop(d) PROVE sq'[c] = seq[Slot(pos[c])]
    <3>1. /\ pc \in [Threads -> {"idle", "seq", "test", "write", "publish", "read", "release"}]
          /\ sq \in [Threads -> Nat] /\ d \in Threads
      BY Zenon DEF IInv, TypeOK, Threads
    <3>2. d = c /\ PopLoadSeq(d)
      BY <1>1, <1>2, <2>2, <3>1, Zenon
         DEF op_mpmc_pop, BeginPop, PopLoadSeq, ClaimTail, ReadData, Release, PopEmpty, PopReload, Goto
    <3>3. QED
      BY <1>2, <3>1, <3>2, Zenon DEF PopLoadSeq
  <2>3. CASE UNCHANGED vars
    BY <1>1, <2>3, Zenon DEF vars
  <2>4. QED
    BY <2>1, <2>2, <2>3, Zenon DEF Next
<1>4. pos[c] = tail
  <2>1. pos[c] < tail => seq[Slot(pos[c])] > pos[c]
    BY <1>2 DEF IInv, WindowOK
  <2>2. QED
    BY <1>1, <1>2, <1>3, <2>1, SMTT(30)
<1>5. seq[Slot(tail)] # tail + 1
  BY <1>1, <1>2, <1>3, <1>4, SMTT(30)
<1>6. QED
  BY <1>1, <1>2, <1>5, SMTT(30) DEF IInv, PublishedOK, UnderWay

(* A slot's number tells a producer the truth.                                *)
LEMMA FullTrue ==
    ASSUME MpmcAssumption, IInv, NEW p \in Producers, [Next]_vars
    PROVE  FullHonest(p)
<1>0. /\ head \in Nat /\ tail \in Nat /\ Capacity \in Nat /\ head - tail <= Capacity
  BY SlotFacts, Zenon DEF IInv, TypeOK, WindowOK
<1>1. SUFFICES ASSUME pc[p] = "seq", pc'[p] = "test", sq'[p] < pos[p], head - tail < Capacity
               PROVE  UnderWay(Consumers)
  BY <1>0 DEF FullHonest
<1>2. /\ p \in Threads /\ pos[p] \in Nat /\ head \in Nat /\ tail \in Nat /\ pos[p] <= head
      /\ Slot(pos[p]) \in Slots /\ seq[Slot(pos[p])] \in Nat
  BY SlotFacts, SMTT(30) DEF IInv, TypeOK, LocalsOK, Threads
<1>3. sq'[p] = seq[Slot(pos[p])]
  <2>1. CASE \E c \in Consumers : op_mpmc_pop(c)
    <3>1. PICK c \in Consumers : op_mpmc_pop(c)
      BY <2>1, Zenon
    <3>2. c # p /\ pc \in [Threads -> {"idle", "seq", "test", "write", "publish", "read", "release"}]
      BY Zenon DEF MpmcAssumption, IInv, TypeOK
    <3>3. pc'[p] = pc[p]
      BY <1>2, <3>1, <3>2, Zenon
         DEF op_mpmc_pop, BeginPop, PopLoadSeq, ClaimTail, ReadData, Release, PopEmpty, PopReload, Goto
    <3>4. QED
      BY <1>1, <3>3, Zenon
  <2>2. ASSUME NEW q \in Producers, op_mpmc_push(q) PROVE sq'[p] = seq[Slot(pos[p])]
    <3>1. /\ pc \in [Threads -> {"idle", "seq", "test", "write", "publish", "read", "release"}]
          /\ sq \in [Threads -> Nat] /\ q \in Threads
      BY Zenon DEF IInv, TypeOK, Threads
    <3>2. q = p /\ PushLoadSeq(q)
      BY <1>1, <1>2, <2>2, <3>1, Zenon
         DEF op_mpmc_push, BeginPush, PushLoadSeq, ClaimHead, StoreItem, WriteData, Publish, PushFull,
             PushReload, Goto
    <3>3. QED
      BY <1>2, <3>1, <3>2, Zenon DEF PushLoadSeq
  <2>3. CASE UNCHANGED vars
    BY <1>1, <2>3, Zenon DEF vars
  <2>4. QED
    BY <2>1, <2>2, <2>3, Zenon DEF Next
<1>4. pos[p] = head
  <2>1. pos[p] < head => seq[Slot(pos[p])] >= pos[p]
    BY <1>2 DEF IInv, WindowOK
  <2>2. QED
    BY <1>1, <1>2, <1>3, <2>1, SMTT(30)
<1>5. seq[Slot(head)] # head
  BY <1>1, <1>2, <1>3, <1>4, SMTT(30)
<1>6. QED
  BY <1>0, <1>1, <1>5 DEF IInv, FreeOK, UnderWay

-----------------------------------------------------------------------------
(* The state is well formed, and the slots' numbers stay within a lap of the  *)
(* consumers: op_mpmc_push and op_mpmc_pop only store such values.            *)
THEOREM TypeCorrect == ASSUME MpmcAssumption PROVE Spec => []TypeOK
<1>1. IInv => TypeOK
  BY Zenon DEF IInv
<1>2. QED
  BY <1>1, InitIInv, NextIInv, PTL DEF Spec

(* Every item op_mpmc_pop returns is the one op_mpmc_push was given for that   *)
(* position: nothing is lost, returned twice, torn or out of order.           *)
THEOREM InOrder == ASSUME MpmcAssumption PROVE Spec => []FifoByPosition
BY InitIInv, NextIInv, IInvImplies, PTL DEF Spec

(* No two threads are ever in one slot, no item is overwritten before it has  *)
(* been read, and no more than the capacity is ever claimed.                  *)
THEOREM SlotsOwned == ASSUME MpmcAssumption PROVE Spec => []SlotsExclusive
BY InitIInv, NextIInv, IInvImplies, PTL DEF Spec

(* op_mpmc_pop reports an empty queue, and op_mpmc_push a full one, only when   *)
(* it is, or when another call is between its claim and its return.           *)
THEOREM RefusalsHonest == ASSUME MpmcAssumption PROVE Spec => EmptyIsHonest /\ FullIsHonest
<1>1. IInv /\ [Next]_vars => [\A c \in Consumers : EmptyHonest(c)]_vars
  BY EmptyTrue, Zenon
<1>2. IInv /\ [Next]_vars => [\A p \in Producers : FullHonest(p)]_vars
  BY FullTrue, Zenon
<1>3. QED
  BY <1>1, <1>2, InitIInv, NextIInv, PTL DEF Spec, EmptyIsHonest, FullIsHonest

=============================================================================
