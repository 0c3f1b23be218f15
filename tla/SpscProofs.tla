----------------------------- MODULE SpscProofs -----------------------------
(* The single-producer single-consumer rings hand over every item once and   *)
(* in order, for any capacity, any cursor range that is a multiple of it,     *)
(* and any number of items.                                                   *)
EXTENDS Spsc, TLAPS

-----------------------------------------------------------------------------
(* What the proofs need to know of remainders: a position is turned into a    *)
(* slot by % (in the code, a mask).                                           *)

(* Division with remainder, in the form the other lemmas use.                 *)
LEMMA DivMod ==
    ASSUME NEW c \in Nat \ {0}, NEW a \in Int
    PROVE  /\ a = c * (a \div c) + (a % c)
           /\ a \div c \in Int /\ a % c \in 0 .. c - 1
OBVIOUS

(* The remainder is the only one: two numbers below c that differ by a        *)
(* multiple of c are equal.                                                   *)
LEMMA ModUnique ==
    ASSUME NEW c \in Nat \ {0}, NEW q \in Int, NEW r \in 0 .. c - 1
    PROVE  (c * q + r) % c = r
<1> DEFINE a == c * q + r
           p == a \div c
           s == a % c
<1>1. a \in Int
  OBVIOUS
<1>2. a = c * p + s /\ p \in Int /\ s \in 0 .. c - 1
  BY <1>1, DivMod, Zenon
<1> HIDE DEF p, s
<1>3. c * (p - q) = r - s /\ c * (q - p) = s - r
  BY <1>2
<1>4. p - q >= 1 \/ q - p >= 1 \/ p = q
  BY <1>2
<1>5. p = q
  BY <1>2, <1>3, <1>4
<1>6. s = r
  BY <1>2, <1>5
<1>7. QED
  BY <1>6, Zenon DEF s

(* Adding a multiple of c changes no remainder.                               *)
LEMMA ModShift ==
    ASSUME NEW c \in Nat \ {0}, NEW a \in Int, NEW k \in Int
    PROVE  (a + c * k) % c = a % c
<1> DEFINE q == a \div c
           r == a % c
<1>1. a = c * q + r /\ q \in Int /\ r \in 0 .. c - 1
  BY DivMod, Zenon
<1> HIDE DEF q, r
<1>2. a + c * k = c * (q + k) + r /\ q + k \in Int
  BY <1>1
<1>3. (c * (q + k) + r) % c = r
  BY <1>1, <1>2, ModUnique, Zenon
<1>4. QED
  BY <1>2, <1>3, Zenon DEF r

(* A number below c is its own remainder.                                     *)
LEMMA ModSmall ==
    ASSUME NEW c \in Nat \ {0}, NEW a \in 0 .. c - 1
    PROVE  a % c = a
<1>1. (c * 0 + a) % c = a
  BY ModUnique
<1>2. c * 0 + a = a
  OBVIOUS
<1>3. QED
  BY <1>1, <1>2, Zenon

(* Positions that differ by less than the capacity are in different slots.    *)
LEMMA ModInjective ==
    ASSUME NEW c \in Nat \ {0}, NEW i \in Int, NEW j \in Int,
           i # j, i - j < c, j - i < c
    PROVE  i % c # j % c
<1> DEFINE q == i \div c
           p == j \div c
           r == i % c
           s == j % c
<1>1. i = c * q + r /\ q \in Int /\ r \in 0 .. c - 1
  BY DivMod, Zenon
<1>2. j = c * p + s /\ p \in Int /\ s \in 0 .. c - 1
  BY DivMod, Zenon
<1> HIDE DEF q, p, r, s
<1>3. SUFFICES ASSUME r = s PROVE FALSE
  BY Zenon DEF r, s
<1>4. j - i = c * (p - q) /\ i - j = c * (q - p)
  BY <1>1, <1>2, <1>3
<1>5. p - q >= 1 \/ q - p >= 1 \/ p = q
  BY <1>1, <1>2
<1>6. QED
  BY <1>1, <1>2, <1>3, <1>4, <1>5

(* A step of a cursor that is kept in 0 .. m - 1.                             *)
LEMMA ModStep ==
    ASSUME NEW m \in Nat \ {0}, NEW a \in Int
    PROVE  ((a % m) + 1) % m = (a + 1) % m
<1> DEFINE q == a \div m
           r == a % m
<1>1. a = m * q + r /\ q \in Int /\ r \in 0 .. m - 1
  BY DivMod, Zenon
<1> HIDE DEF q, r
<1>2. r + 1 \in Int /\ a + 1 = (r + 1) + m * q
  BY <1>1
<1>3. ((r + 1) + m * q) % m = (r + 1) % m
  BY <1>1, <1>2, ModShift, Zenon
<1>4. QED
  BY <1>2, <1>3, Zenon DEF r

(* The distance of two such cursors, taken around the range, is the distance  *)
(* of what they count.                                                        *)
LEMMA ModDistance ==
    ASSUME NEW m \in Nat \ {0}, NEW a \in Int, NEW b \in Int, a - b \in 0 .. m - 1
    PROVE  ((a % m) - (b % m)) % m = a - b
<1> DEFINE q == a \div m
           p == b \div m
           r == a % m
           s == b % m
<1>1. a = m * q + r /\ q \in Int /\ r \in 0 .. m - 1
  BY DivMod, Zenon
<1>2. b = m * p + s /\ p \in Int /\ s \in 0 .. m - 1
  BY DivMod, Zenon
<1> HIDE DEF q, p, r, s
<1>3. r - s \in Int /\ p - q \in Int /\ r - s = (a - b) + m * (p - q)
  BY <1>1, <1>2
<1>4. ((a - b) + m * (p - q)) % m = (a - b) % m
  <2>1. ASSUME NEW d \in Int, NEW k \in Int PROVE (d + m * k) % m = d % m
    BY <2>1, ModShift, Zenon
  <2>2. a - b \in Int
    OBVIOUS
  <2>3. QED
    BY <1>3, <2>1, <2>2, Zenon
<1>5. (a - b) % m = a - b
  BY ModSmall, Zenon
<1>6. QED
  BY <1>3, <1>4, <1>5, Zenon DEF r, s

(* The slot of a cursor is the slot of what it counts, as long as the range   *)
(* of the cursor is a multiple of the number of slots.                        *)
LEMMA ModNested ==
    ASSUME NEW c \in Nat \ {0}, NEW m \in Nat \ {0}, m % c = 0, NEW a \in Int, NEW j \in Int
    PROVE  ((a % m) + j) % c = (a + j) % c
<1> DEFINE q == a \div m
           r == a % m
           n == m \div c
<1>1. a = m * q + r /\ q \in Int /\ r \in 0 .. m - 1
  BY DivMod, Zenon
<1>2. m = c * n /\ n \in Int
  BY DivMod
<1> HIDE DEF q, r, n
<1>3. r + j \in Int /\ n * q \in Int /\ a + j = (r + j) + c * (n * q)
  <2>1. m * q = c * (n * q)
    BY <1>1, <1>2
  <2>2. QED
    BY <1>1, <1>2, <2>1
<1>4. ((r + j) + c * (n * q)) % c = (r + j) % c
  BY <1>3, ModShift, Zenon
<1>5. QED
  BY <1>3, <1>4, Zenon DEF r

-----------------------------------------------------------------------------
(* How many items fit.                                                        *)
Limit == IF Ringbuf THEN Capacity - 1 ELSE Capacity

(* What the cursors count, and what each side knows between the load that     *)
(* lets it in and the store that lets the other side in.                      *)
IInv ==
    /\ TypeOK
    /\ Fifo
    /\ pushed - Len(popped) <= Limit
    /\ head = pushed % Modulus /\ tail = Len(popped) % Modulus
    /\ \A k \in Len(popped) .. pushed - 1 : slots[k % Capacity] = k + 1
    /\ ppc # "idle" => /\ ph = head /\ pushed < MaxItems
                       /\ pushed - Len(popped) < Limit
    /\ ppc = "advance" => slots[pushed % Capacity] = pushed + 1
    /\ cpc # "idle" => ct = tail /\ Len(popped) < pushed
    /\ cpc = "advance" => citem = Len(popped) + 1

(* The constants, spelled out.                                                *)
LEMMA Constants ==
    ASSUME SpscAssumption
    PROVE  /\ Capacity \in Nat \ {0} /\ Modulus \in Nat \ {0} /\ Modulus % Capacity = 0
           /\ MaxItems \in Nat /\ Limit \in Nat /\ Limit <= Capacity /\ Limit < Modulus
           /\ Ringbuf => Modulus = Capacity /\ Limit = Capacity - 1
           /\ ~Ringbuf => Modulus > Capacity /\ Limit = Capacity
BY DEF SpscAssumption, Limit

(* The counters behind the cursors.                                           *)
LEMMA Counters ==
    ASSUME SpscAssumption, IInv
    PROVE  /\ pushed \in Nat /\ Len(popped) \in Nat /\ Len(popped) <= pushed
           /\ pushed <= MaxItems /\ pushed - Len(popped) \in 0 .. Modulus - 1
           /\ DOMAIN popped = 1 .. Len(popped)
<1>1. pushed \in 0 .. MaxItems /\ popped \in Seq(1 .. MaxItems \cup {NULL})
  BY Zenon DEF IInv, TypeOK
<1>2. Len(popped) <= pushed /\ pushed - Len(popped) <= Limit
  BY Zenon DEF IInv, Fifo
<1>3. Len(popped) \in Nat /\ DOMAIN popped = 1 .. Len(popped)
  BY <1>1
<1>4. QED
  BY <1>1, <1>2, <1>3, Constants

(* A remainder is a cursor, and indexes a slot.                               *)
LEMMA InRange ==
    ASSUME SpscAssumption, NEW a \in Int
    PROVE  a % Modulus \in 0 .. Modulus - 1 /\ a % Capacity \in 0 .. Capacity - 1
BY Constants, DivMod

(* op_spsc_init and op_ringbuf_create leave an empty ring.                    *)
LEMMA InitIInv == ASSUME SpscAssumption, Init PROVE IInv
<1>1. 0 % Modulus = 0
  BY Constants, ModSmall
<1>2. Len(popped) = 0 /\ popped = <<>> /\ pushed = 0
  BY Zenon DEF Init
<1>3. TypeOK
  BY Constants DEF Init, TypeOK
<1>4. QED
  BY <1>1, <1>2, <1>3, Constants DEF Init, IInv, Fifo

(* The two tests of the code are exact: full means Limit items in the ring,   *)
(* equal cursors mean none.                                                   *)
LEMMA TestsExact ==
    ASSUME SpscAssumption, IInv
    PROVE  RefusalExact /\ (head - tail) % Modulus = pushed - Len(popped)
<1> DEFINE n == Len(popped)
<1>1. /\ pushed \in Nat /\ n \in Nat /\ n <= pushed /\ pushed - n \in 0 .. Modulus - 1
      /\ head = pushed % Modulus /\ tail = n % Modulus /\ pushed - n <= Limit
  BY Counters, Zenon DEF IInv
<1>2. /\ Capacity \in Nat \ {0} /\ Modulus \in Nat \ {0}
      /\ Ringbuf => Modulus = Capacity /\ Limit = Capacity - 1
      /\ ~Ringbuf => Modulus > Capacity /\ Limit = Capacity
  BY Constants, Zenon
<1> HIDE DEF n
<1>0. pushed \in Int /\ n \in Int /\ pushed + 1 \in Int
  BY <1>1
<1>3. (head - tail) % Modulus = pushed - n
  <2>1. ((pushed % Modulus) - (n % Modulus)) % Modulus = pushed - n
    BY <1>0, <1>1, <1>2, ModDistance, Zenon
  <2>2. QED
    BY <1>1, <2>1, Zenon
<1>4. head = tail <=> pushed = n
  <2>1. pushed # n => pushed % Modulus # n % Modulus
    <3>1. pushed - n < Modulus /\ n - pushed < Modulus
      BY <1>1, <1>2
    <3>2. QED
      BY <1>0, <1>2, <3>1, ModInjective, Zenon
  <2>2. QED
    BY <1>1, <2>1, Zenon
<1>5. Full(head, tail) <=> pushed - n = Limit
  <2>1. CASE ~Ringbuf
    <3>1. Full(head, tail) <=> pushed - n > Capacity - 1
      BY <1>3, <2>1, Zenon DEF Full
    <3>2. QED
      BY <1>1, <1>2, <2>1, <3>1
  <2>2. CASE Ringbuf
    <3>1. Full(head, tail) <=> (pushed + 1) % Capacity = n % Capacity
      <4>1. (head + 1) % Capacity = (pushed + 1) % Capacity
        BY <1>0, <1>1, <1>2, <2>2, ModStep, Zenon
      <4>2. QED
        BY <1>1, <1>2, <2>2, <4>1, Zenon DEF Full
    <3>2. CASE pushed - n = Capacity - 1
      <4>1. n \in Int /\ pushed + 1 = n + Capacity * 1
        BY <1>1, <1>2, <3>2
      <4>2. (n + Capacity * 1) % Capacity = n % Capacity
        BY <1>0, <1>2, 1 \in Int, ModShift, Zenon
      <4>3. QED
        BY <1>2, <2>2, <3>1, <3>2, <4>1, <4>2, Zenon
    <3>3. CASE pushed - n # Capacity - 1
      <4>1. pushed + 1 # n /\ (pushed + 1) - n < Capacity /\ n - (pushed + 1) < Capacity
        BY <1>1, <1>2, <2>2, <3>3
      <4>2. (pushed + 1) % Capacity # n % Capacity
        BY <1>0, <1>2, <4>1, ModInjective, Zenon
      <4>3. QED
        BY <1>2, <2>2, <3>1, <3>3, <4>2, Zenon
    <3>4. QED
      BY <3>2, <3>3, Zenon
  <2>3. QED
    BY <2>1, <2>2, Zenon
<1>6. QED
  BY <1>3, <1>4, <1>5, Zenon DEF RefusalExact, Limit, n

(* The slot a local copy of a cursor selects is the slot of what it counts.   *)
LEMMA SlotOf ==
    ASSUME SpscAssumption, NEW a \in Nat
    PROVE  Mask(a % Modulus) = a % Capacity
<1>1. a \in Int /\ 0 \in Int /\ a % Modulus \in Int
  BY InRange
<1>2. ((a % Modulus) + 0) % Capacity = (a + 0) % Capacity
  BY <1>1, Constants, ModNested, Zenon
<1>3. QED
  BY <1>1, <1>2 DEF Mask

(* A push that finds room remembers where; a push that does not changes       *)
(* nothing.                                                                   *)
LEMMA LoadForPushStep ==
    ASSUME SpscAssumption, IInv, LoadForPush
    PROVE  IInv'
<1>1. CASE Full(head, tail)
  <2>1. UNCHANGED vars
    BY <1>1, Zenon DEF LoadForPush, consumer, vars
  <2>2. QED
    BY <2>1, Zenon DEF vars, IInv, TypeOK, Fifo
<1>2. CASE ~Full(head, tail)
  <2>1. /\ ppc = "idle" /\ ppc' = "write" /\ ph' = head /\ pushed < MaxItems
        /\ UNCHANGED <<head, tail, slots, pushed, cpc, ct, citem, popped>>
    BY <1>2, Zenon DEF LoadForPush, consumer
  <2>2. pushed - Len(popped) < Limit
    <3>1. pushed - Len(popped) # Limit
      BY <1>2, TestsExact, Zenon DEF RefusalExact, Limit
    <3>2. pushed - Len(popped) <= Limit
      BY Zenon DEF IInv
    <3>3. QED
      BY <3>1, <3>2, Counters, Constants
  <2>3. QED
    BY <2>1, <2>2, Zenon DEF IInv, TypeOK, Fifo
<1>3. QED
  BY <1>1, <1>2, Zenon

(* The slot written lies outside the items in flight, which are fewer than    *)
(* there are slots.                                                           *)
LEMMA WriteSlotStep ==
    ASSUME SpscAssumption, IInv, WriteSlot
    PROVE  IInv'
<1> DEFINE n == Len(popped)
           s == pushed % Capacity
<1>1. /\ pushed \in Nat /\ n \in Nat /\ n <= pushed /\ pushed - n < Limit
      /\ Limit <= Capacity /\ Capacity \in Nat \ {0} /\ pushed < MaxItems /\ MaxItems \in Nat
      /\ Limit \in Nat
  BY Counters, Constants, Zenon DEF IInv, WriteSlot
<1>2. s \in 0 .. Capacity - 1
  BY <1>1, InRange
<1>3. Mask(ph) = s
  BY <1>1, SlotOf, Zenon DEF IInv, WriteSlot
<1>4. /\ slots' = [slots EXCEPT ![s] = pushed + 1] /\ ppc' = "advance" /\ ppc = "write"
      /\ UNCHANGED <<head, tail, ph, pushed, cpc, ct, citem, popped>>
  BY <1>3, Zenon DEF WriteSlot, consumer
<1>5. slots \in [0 .. Capacity - 1 -> 1 .. MaxItems \cup {NULL}]
  BY Zenon DEF IInv, TypeOK
<1>6. \A k \in n .. pushed - 1 : slots'[k % Capacity] = k + 1
  <2> SUFFICES ASSUME NEW k \in n .. pushed - 1 PROVE slots'[k % Capacity] = k + 1
    BY Zenon
  <2>1. k \in Int /\ pushed \in Int /\ k # pushed /\ k - pushed < Capacity /\ pushed - k < Capacity
    BY <1>1
  <2>2. k % Capacity # s
    BY <1>1, <2>1, ModInjective, Zenon
  <2>3. k % Capacity \in 0 .. Capacity - 1
    BY <2>1, InRange, Zenon
  <2>4. slots[k % Capacity] = k + 1
    BY Zenon DEF IInv
  <2>5. QED
    BY <1>4, <1>5, <2>2, <2>3, <2>4, Zenon
<1>7. slots'[s] = pushed + 1
  BY <1>2, <1>4, <1>5, Zenon
<1>8. TypeOK'
  BY <1>1, <1>2, <1>4, <1>5 DEF IInv, TypeOK
<1>9. QED
  BY <1>4, <1>6, <1>7, <1>8, Zenon DEF IInv, Fifo

(* Moving head publishes exactly the item just written.                       *)
LEMMA AdvanceHeadStep ==
    ASSUME SpscAssumption, IInv, AdvanceHead
    PROVE  IInv'
<1> DEFINE n == Len(popped)
<1>1. /\ pushed \in Nat /\ n \in Nat /\ n <= pushed /\ pushed - n < Limit
      /\ pushed < MaxItems /\ MaxItems \in Nat /\ Limit \in Nat
      /\ Modulus \in Nat \ {0}
  BY Counters, Constants, Zenon DEF IInv, AdvanceHead
<1>2. /\ pushed' = pushed + 1 /\ ppc = "advance" /\ ppc' = "idle" /\ ph' = 0
      /\ head' = (ph + 1) % Modulus
      /\ UNCHANGED <<tail, slots, cpc, ct, citem, popped>>
  BY Zenon DEF AdvanceHead, consumer
<1>3. head' = pushed' % Modulus
  <2>1. ((pushed % Modulus) + 1) % Modulus = (pushed + 1) % Modulus
    BY <1>1, pushed \in Int, ModStep, Zenon
  <2>2. QED
    BY <1>2, <2>1, Zenon DEF IInv
<1>4. head' \in 0 .. Modulus - 1
  <2>1. pushed' \in Int
    BY <1>1, <1>2
  <2>2. QED
    BY <1>3, <2>1, InRange, Zenon
<1>5. TypeOK'
  BY <1>1, <1>2, <1>4 DEF IInv, TypeOK
<1>6. \A k \in n .. pushed' - 1 : slots'[k % Capacity] = k + 1
  <2> SUFFICES ASSUME NEW k \in n .. pushed' - 1 PROVE slots'[k % Capacity] = k + 1
    BY Zenon
  <2>1. k = pushed \/ k \in n .. pushed - 1
    BY <1>1, <1>2
  <2>2. QED
    BY <1>2, <2>1, Zenon DEF IInv
<1>7. Fifo' /\ pushed' - Len(popped') <= Limit
  BY <1>1, <1>2 DEF IInv, Fifo
<1>8. cpc # "idle" => ct = tail /\ Len(popped) < pushed'
  BY <1>1, <1>2 DEF IInv
<1>9. QED
  BY <1>2, <1>3, <1>5, <1>6, <1>7, <1>8, Zenon DEF IInv

(* A pop that finds an item remembers where.                                  *)
LEMMA LoadForPopStep ==
    ASSUME SpscAssumption, IInv, LoadForPop
    PROVE  IInv'
<1>1. CASE head = tail
  <2>1. UNCHANGED vars
    BY <1>1, Zenon DEF LoadForPop, producer, vars
  <2>2. QED
    BY <2>1, Zenon DEF vars, IInv, TypeOK, Fifo
<1>2. CASE head # tail
  <2>1. /\ cpc = "idle" /\ cpc' = "read" /\ ct' = tail
        /\ UNCHANGED <<head, tail, slots, ppc, ph, pushed, citem, popped>>
    BY <1>2, Zenon DEF LoadForPop, producer
  <2>2. Len(popped) < pushed
    BY <1>2, TestsExact, Counters DEF RefusalExact
  <2>3. QED
    BY <2>1, <2>2, Zenon DEF IInv, TypeOK, Fifo
<1>3. QED
  BY <1>1, <1>2, Zenon

(* The slot read holds the oldest item in flight.                             *)
LEMMA ReadSlotStep ==
    ASSUME SpscAssumption, IInv, ReadSlot
    PROVE  IInv'
<1> DEFINE n == Len(popped)
<1>1. /\ pushed \in Nat /\ n \in Nat /\ n < pushed /\ pushed <= MaxItems /\ MaxItems \in Nat
  BY Counters, Constants, Zenon DEF IInv, ReadSlot
<1>2. /\ citem' = slots[Mask(ct)] /\ cpc = "read" /\ cpc' = "advance"
      /\ UNCHANGED <<head, tail, slots, ct, ppc, ph, pushed, popped>>
  BY Zenon DEF ReadSlot, producer
<1>3. Mask(ct) = n % Capacity
  BY <1>1, SlotOf, Zenon DEF IInv, ReadSlot
<1>4. citem' = n + 1
  BY <1>1, <1>2, <1>3 DEF IInv
<1>5. TypeOK'
  BY <1>1, <1>2, <1>4 DEF IInv, TypeOK
<1>6. QED
  BY <1>2, <1>4, <1>5, Zenon DEF IInv, Fifo

(* Moving tail gives back exactly the slot just read.                         *)
LEMMA AdvanceTailStep ==
    ASSUME SpscAssumption, IInv, AdvanceTail
    PROVE  IInv'
<1> DEFINE n == Len(popped)
<1>1. /\ pushed \in Nat /\ n \in Nat /\ n < pushed /\ pushed <= MaxItems /\ MaxItems \in Nat
      /\ Modulus \in Nat \ {0} /\ DOMAIN popped = 1 .. n /\ Limit \in Nat
      /\ popped \in Seq(1 .. MaxItems \cup {NULL}) /\ citem = n + 1 /\ pushed - n <= Limit
      /\ \A i \in 1 .. n : popped[i] = i
  BY Counters, Constants, Zenon DEF IInv, AdvanceTail, TypeOK, Fifo
<1>2. /\ tail' = (ct + 1) % Modulus /\ popped' = Append(popped, citem)
      /\ cpc = "advance" /\ cpc' = "idle" /\ ct' = 0 /\ citem' = NULL
      /\ UNCHANGED <<head, slots, ppc, ph, pushed>>
  BY Zenon DEF AdvanceTail, producer
<1>3. Len(popped') = n + 1 /\ popped' \in Seq(1 .. MaxItems \cup {NULL})
  BY <1>1, <1>2
<1>4. Fifo'
  <2>1. \A i \in 1 .. n + 1 : popped'[i] = i
    BY <1>1, <1>2
  <2>2. DOMAIN popped' = 1 .. n + 1
    BY <1>1, <1>2
  <2>3. QED
    BY <1>1, <1>2, <1>3, <2>1, <2>2 DEF Fifo
<1>5. tail' = (n + 1) % Modulus
  <2>1. ((n % Modulus) + 1) % Modulus = (n + 1) % Modulus
    BY <1>1, n \in Int, ModStep, Zenon
  <2>2. QED
    BY <1>2, <2>1, Zenon DEF IInv
<1>6. tail' \in 0 .. Modulus - 1
  BY <1>1, <1>5, n + 1 \in Int, InRange, Zenon
<1>7. TypeOK'
  BY <1>1, <1>2, <1>3, <1>6 DEF IInv, TypeOK
<1>8. \A k \in n + 1 .. pushed - 1 : slots'[k % Capacity] = k + 1
  BY <1>1, <1>2 DEF IInv
<1>9. pushed' - Len(popped') <= Limit
  BY <1>1, <1>2, <1>3
<1>10. ppc # "idle" => /\ ph = head /\ pushed < MaxItems
                       /\ pushed - (n + 1) < Limit
  BY <1>1 DEF IInv
<1>11. ppc = "advance" => slots[pushed % Capacity] = pushed + 1
  BY Zenon DEF IInv
<1>12. head = pushed % Modulus
  BY Zenon DEF IInv
<1>13. QED
  BY <1>2, <1>3, <1>4, <1>5, <1>7, <1>8, <1>9, <1>10, <1>11, <1>12, Zenon DEF IInv

(* Every step of the two threads keeps the invariant.                         *)
LEMMA NextIInv ==
    ASSUME SpscAssumption, IInv, [Next]_vars
    PROVE  IInv'
<1>1. CASE UNCHANGED vars
  BY <1>1, Zenon DEF vars, IInv, TypeOK, Fifo
<1>2. QED
  BY <1>1, LoadForPushStep, WriteSlotStep, AdvanceHeadStep, LoadForPopStep, ReadSlotStep,
     AdvanceTailStep, Zenon
     DEF Next, push, pop, StoreItem

-----------------------------------------------------------------------------
(* The variables keep their types: no cursor leaves its range.                *)
THEOREM TypeCorrect ==
    ASSUME SpscAssumption
    PROVE  Spec => []TypeOK
<1>1. IInv => TypeOK
  BY Zenon DEF IInv
<1>2. QED
  BY <1>1, InitIInv, NextIInv, PTL DEF Spec

(* op_spsc_pop and op_ringbuf_pop return the items in the order they were     *)
(* pushed, each once, none before it is written, whatever the cursors do      *)
(* when they wrap around.                                                     *)
THEOREM InOrder ==
    ASSUME SpscAssumption
    PROVE  Spec => []Fifo
<1>1. IInv => Fifo
  BY Zenon DEF IInv
<1>2. QED
  BY <1>1, InitIInv, NextIInv, PTL DEF Spec

(* Nothing between the cursors is overwritten before it has been read.        *)
THEOREM NothingOverwritten ==
    ASSUME SpscAssumption
    PROVE  Spec => []InFlightIntact
<1>1. ASSUME IInv PROVE InFlightIntact
  <2> DEFINE n == Len(popped)
  <2>1. /\ pushed \in Nat /\ n \in Nat /\ n <= pushed /\ n \in Int
        /\ Capacity \in Nat \ {0} /\ Modulus \in Nat \ {0} /\ Modulus % Capacity = 0
    BY <1>1, Counters, Constants
  <2>2. ASSUME NEW k \in n + 1 .. pushed PROVE slots[Mask(tail + k - n - 1)] = k
    <3>1. k - n - 1 \in Int /\ n + (k - n - 1) = k - 1 /\ tail \in Int
          /\ tail + k - n - 1 = tail + (k - n - 1) /\ k - 1 \in n .. pushed - 1
      BY <1>1, <2>1, <2>2 DEF IInv, TypeOK
    <3>2. ((n % Modulus) + (k - n - 1)) % Capacity = (n + (k - n - 1)) % Capacity
      <4>1. ASSUME NEW j \in Int PROVE ((n % Modulus) + j) % Capacity = (n + j) % Capacity
        BY <2>1, <4>1, ModNested, ZenonT(30)
      <4>2. QED
        BY <3>1, <4>1, Zenon
    <3>3. slots[(k - 1) % Capacity] = (k - 1) + 1
      BY <1>1, <3>1, Zenon DEF IInv
    <3>4. Mask(tail + k - n - 1) = (k - 1) % Capacity
      BY <1>1, <3>1, <3>2, Zenon DEF IInv, Mask
    <3>5. QED
      BY <2>1, <3>3, <3>4
  <2>3. QED
    BY <1>1, <2>2, TestsExact, Zenon DEF InFlightIntact
<1>2. QED
  BY <1>1, InitIInv, NextIInv, PTL DEF Spec

(* A push is refused only when the ring is full, a pop only when it is empty: *)
(* the unsigned difference of the cursors is exact across the wrap.           *)
THEOREM RefusalsExact ==
    ASSUME SpscAssumption
    PROVE  Spec => []RefusalExact
<1>1. IInv => RefusalExact
  BY TestsExact, Zenon
<1>2. QED
  BY <1>1, InitIInv, NextIInv, PTL DEF Spec
=============================================================================
