-------------------------- MODULE WorkDequeProofs --------------------------
(* Every step of deque_push, deque_pop and deque_steal keeps the inductive  *)
(* invariant, for any number of thieves and items and any initial capacity, *)
(* in a build that loads d->buf once per steal; and what follows: the deque *)
(* hands out every work item at most once, loses none, and implements a     *)
(* deque whose operations are atomic.                                       *)
EXTENDS WorkDeque, Sequences, SequenceTheorems, TLAPS

-----------------------------------------------------------------------------
(* What the proofs need to know of remainders: a position is turned into a    *)
(* slot by % (in the code, a mask).                                           *)

(* Division with remainder, in the form the other lemmas use.                 *)
LEMMA DivMod ==
    ASSUME NEW c \in Nat \ {0}, NEW a \in Int
    PROVE  /\ a = c * (a \div c) + (a % c)
           /\ a \div c \in Int /\ a % c \in 0 .. c - 1
OBVIOUS

(* Positions that differ by less than the capacity are in different slots.    *)
LEMMA ModInjective ==
    ASSUME NEW c \in Nat \ {0}, NEW i \in Int, NEW j \in Int,
           i # j, i - j < c, j - i < c
    PROVE  i % c # j % c
<1> DEFINE q == i \div c
           p == j \div c
           r == i % c
           s == j % c
<1>1. i = c * q + r /\ q \in Int /\ r \in 0 .. c - 1
  BY DivMod, Zenon
<1>2. j = c * p + s /\ p \in Int /\ s \in 0 .. c - 1
  BY DivMod, Zenon
<1> HIDE DEF q, p, r, s
<1>3. SUFFICES ASSUME r = s PROVE FALSE
  BY Zenon DEF r, s
<1>4. j - i = c * (p - q) /\ i - j = c * (q - p)
  BY <1>1, <1>2, <1>3
<1>5. p - q >= 1 \/ q - p >= 1 \/ p = q
  BY <1>1, <1>2
<1>6. QED
  BY <1>1, <1>2, <1>3, <1>4, <1>5

-----------------------------------------------------------------------------
(* A remainder is the index of a slot.                                      *)
LEMMA ModInSlots ==
    ASSUME NEW c \in Nat \ {0}, NEW i \in Nat
    PROVE  i % c \in Slots(c)
BY DEF Slots

USE DequeAssumption

(* deque_init gives an empty deque.                                          *)
LEMMA InitIInv == Init => IInv
<1>1. SUFFICES ASSUME Init PROVE IInv
  BY Zenon
<1>2. TypeOK
  BY <1>1 DEF Init, TypeOK, Slots
<1>3. QED
  BY <1>1, <1>2 DEF Init, IInv, RunAtMostOnce, NothingLost, NoOverwrite, End, Contents, OwnerInv, ThiefInv

(* Facts about the window bottom .. End - 1 every step relies on.           *)
LEMMA WindowFacts ==
    ASSUME IInv
    PROVE  /\ End \in Nat /\ bottom \in Nat /\ bottom <= End
           /\ End - bottom <= capacity[buf]
           /\ capacity[buf] \in Nat \ {0}
           /\ \A i \in Nat : i % capacity[buf] \in Slots(capacity[buf])
           /\ \A i \in Nat : Live(i) \in Items \cup {NULL}
<1>1. buf \in 1 .. buf /\ capacity[buf] \in Nat \ {0}
  BY DEF IInv, TypeOK
<1>2. \A i \in Nat : i % capacity[buf] \in Slots(capacity[buf])
  BY <1>1, ModInSlots, Zenon
<1>3. slots[buf] \in [Slots(capacity[buf]) -> Items \cup {NULL}]
  BY <1>1, Zenon DEF IInv, TypeOK
<1>4. \A i \in Nat : Live(i) \in Items \cup {NULL}
  BY <1>2, <1>3, Zenon DEF Live
<1>5. End \in Nat /\ bottom \in Nat /\ bottom <= End
  BY DEF IInv, TypeOK, End
<1>6. QED
  BY <1>1, <1>2, <1>4, <1>5, Zenon DEF IInv, NoOverwrite

(* The types of everything but the buffers.                                  *)
LEMMA Scalars ==
    ASSUME IInv
    PROVE  /\ top \in Int /\ bottom \in Nat /\ buf \in Nat \ {0}
           /\ opc \in {"idle", "pushed", "store", "publish", "popb", "empty", "cas", "restore"}
           /\ oitem \in Items \cup {NULL} /\ ot \in Int /\ ob \in Nat
           /\ tpc \in [Thieves -> {"idle", "top", "slots", "item", "cas"}]
           /\ tb \in [Thieves -> Nat] /\ tg \in [Thieves -> Nat]
           /\ titem \in [Thieves -> Items \cup {NULL, Garbage}]
           /\ fresh \subseteq Items /\ ran \in [Items \cup {Garbage} -> Nat]
BY DEF IInv, TypeOK

LEMMA OwnerOf == ASSUME IInv PROVE OwnerInv
BY DEF IInv

(* The live slots are those of the current buffer.                           *)
LEMMA LiveKept ==
    ASSUME UNCHANGED <<buf, capacity, slots>>
    PROVE  \A i : Live(i)' = Live(i)
BY DEF Live

(* A step that changes nothing but the thieves' local variables keeps what  *)
(* the invariant says of the deque and of its owner.                        *)
LEMMA ThiefLocal ==
    ASSUME IInv, UNCHANGED <<top, bottom, bufVars, ownerVars, fresh, ran>>,
           tpc' \in [Thieves -> {"idle", "top", "slots", "item", "cas"}],
           tb' \in [Thieves -> Nat], tg' \in [Thieves -> Nat],
           titem' \in [Thieves -> Items \cup {NULL, Garbage}],
           \A w \in Thieves : ThiefInv(w)'
    PROVE  IInv'
<1>1. TypeOK'
  BY Zenon DEF IInv, TypeOK, bufVars, ownerVars
<1>2. End' = End /\ Contents' = Contents /\ \A i : Live(i)' = Live(i)
  BY Zenon DEF End, Contents, Live, bufVars, ownerVars
<1>3. (RunAtMostOnce /\ NothingLost /\ NoOverwrite)'
  BY <1>2 DEF IInv, RunAtMostOnce, NothingLost, NoOverwrite, bufVars, ownerVars
<1>4. OwnerInv'
  BY <1>2, Zenon DEF IInv, OwnerInv, bufVars, ownerVars
<1>5. QED
  BY <1>1, <1>2, <1>3, <1>4, Zenon DEF IInv

(* What a thief knows does not change when another thief takes a step that   *)
(* is its own business.                                                      *)
LEMMA OtherThief ==
    ASSUME IInv, UNCHANGED <<top, bottom, bufVars, ownerVars>>, NEW v \in Thieves,
           tb'[v] = tb[v], tg'[v] = tg[v], titem'[v] = titem[v], tpc'[v] = tpc[v]
    PROVE  ThiefInv(v)'
<1>1. End' = End /\ Live(bottom)' = Live(bottom)
  BY Zenon DEF End, Live, bufVars, ownerVars
<1>2. ThiefInv(v)
  BY Zenon DEF IInv
<1>3. QED
  BY <1>1, <1>2, Zenon DEF ThiefInv, bufVars

(* A thief that has just read `bottom` knows nothing else yet.               *)
LEMMA StealLoadStep ==
    ASSUME IInv, NEW w \in Thieves, StealLoad(w)
    PROVE  IInv'
<1>1. ThiefInv(w)'
  BY Scalars DEF IInv, StealLoad, ThiefInv, bufVars
<1>2. \A v \in Thieves : v # w => ThiefInv(v)'
  BY Scalars, OtherThief, Zenon DEF StealLoad
<1>3. QED
  BY Scalars, <1>1, <1>2, ThiefLocal, Zenon DEF StealLoad

(* A thief goes on only when `top` lay beyond the `bottom` it read, and then *)
(* there is an item at `bottom` as long as nobody moves it.                  *)
LEMMA StealTopStep ==
    ASSUME IInv, NEW w \in Thieves, StealTop(w)
    PROVE  IInv'
<1>1. ThiefInv(w)'
  <2>1. End' = End /\ top <= End
    BY Scalars DEF StealTop, End, ownerVars
  <2>2. QED
    BY Scalars, WindowFacts, <2>1 DEF IInv, StealTop, ThiefInv, bufVars
<1>2. \A v \in Thieves : v # w => ThiefInv(v)'
  BY Scalars, OtherThief, Zenon DEF StealTop
<1>3. QED
  BY Scalars, <1>1, <1>2, ThiefLocal, Zenon DEF StealTop

(* A thief picks up the buffer that is current at that moment.               *)
LEMMA StealSlotsStep ==
    ASSUME IInv, NEW w \in Thieves, StealSlots(w)
    PROVE  IInv'
<1>1. ThiefInv(w)'
  <2>1. End' = End /\ Live(bottom)' = Live(bottom) /\ buf \in 1 .. buf
    BY Scalars DEF StealSlots, End, Live, bufVars, ownerVars
  <2>2. QED
    BY Scalars, <2>1, Zenon DEF IInv, StealSlots, ThiefInv, Live, bufVars
<1>2. \A v \in Thieves : v # w => ThiefInv(v)'
  BY Scalars, OtherThief, Zenon DEF StealSlots
<1>3. QED
  BY Scalars, <1>1, <1>2, ThiefLocal, Zenon DEF StealSlots

(* With one load of d->buf a thief reads the slot of the buffer it picked up, *)
(* which still holds the item at `bottom` however often the owner has grown. *)
LEMMA StealItemStep ==
    ASSUME IInv, SingleLoad = TRUE, NEW w \in Thieves, StealItem(w)
    PROVE  IInv'
<1>1. tg[w] \in 1 .. buf /\ tb[w] \in Nat /\ capacity[tg[w]] \in Nat \ {0}
  BY Zenon DEF IInv, TypeOK, ThiefInv
<1>2. tb[w] % capacity[tg[w]] \in Slots(capacity[tg[w]])
  BY <1>1, ModInSlots, Zenon
<1>3. slots[tg[w]][tb[w] % capacity[tg[w]]] \in Items \cup {NULL}
  BY <1>1, <1>2, Zenon DEF IInv, TypeOK
<1>4. titem' = [titem EXCEPT ![w] = slots[tg[w]][tb[w] % capacity[tg[w]]]]
  <2>1. tb[w] % capacity[tg[w]] < capacity[tg[w]]
    BY <1>1, <1>2 DEF Slots
  <2>2. (IF SingleLoad THEN tg[w] ELSE buf) = tg[w]
    BY Zenon
  <2>3. QED
    BY <2>1, <2>2, Zenon DEF StealItem
<1>5. ThiefInv(w)'
  <2>1. End' = End /\ Live(bottom)' = Live(bottom)
    BY Zenon DEF StealItem, End, Live, bufVars, ownerVars
  <2>2. ThiefInv(w) /\ tpc[w] = "item"
    BY Zenon DEF IInv, StealItem
  <2>3. /\ tb' = tb /\ tg' = tg /\ buf' = buf /\ bottom' = bottom
        /\ titem'[w] = slots[tg[w]][tb[w] % capacity[tg[w]]]
        /\ tpc'[w] = "cas"
    BY Scalars, <1>4, Zenon DEF StealItem, bufVars
  <2>4. titem'[w] # Garbage
    BY <1>3, <2>3, Zenon
  <2>5. QED
    BY <2>1, <2>2, <2>3, <2>4, Zenon DEF ThiefInv
<1>6. \A v \in Thieves : v # w => ThiefInv(v)'
  BY Scalars, <1>4, OtherThief, Zenon DEF StealItem
<1>7. titem' \in [Thieves -> Items \cup {NULL, Garbage}]
  BY Scalars, <1>3, <1>4, Zenon
<1>8. QED
  BY Scalars, <1>5, <1>6, <1>7, ThiefLocal, Zenon DEF StealItem

(* The compare-and-swap hands out the item at `bottom`, if it hands out one. *)
LEMMA StealCasStep ==
    ASSUME IInv, NEW w \in Thieves, StealCas(w)
    PROVE  IInv'
<1>1. CASE bottom # tb[w]
  <2>1. \A v \in Thieves : ThiefInv(v)'
    BY Scalars, <1>1, SMTT(30) DEF IInv, StealCas, ThiefInv, End, Live, bufVars, ownerVars
  <2>2. QED
    BY Scalars, <1>1, <2>1, ThiefLocal, Zenon DEF IInv, StealCas
<1>2. CASE bottom = tb[w]
  <2> DEFINE item == Live(bottom)
  <2>1. bottom < End /\ titem[w] = item
    BY <1>2, Zenon DEF IInv, ThiefInv, StealCas
  <2>2. bottom \in bottom .. End - 1
    BY <2>1, WindowFacts
  <2>3. item \in Items /\ ran[item] = 0 /\ item \notin fresh /\ item # NULL /\ item \in Contents
    BY <2>2, Zenon DEF IInv, NoOverwrite, Contents
  <2>4. /\ bottom' = bottom + 1
        /\ ran' = [ran EXCEPT ![item] = @ + 1]
    BY <1>2, <2>1, <2>3, Zenon DEF StealCas, Run
  <2>5. End' = End /\ \A i : Live(i)' = Live(i)
    BY Zenon DEF End, Live, StealCas, bufVars, ownerVars
  <2>6. /\ bottom' .. End' - 1 \subseteq bottom .. End - 1
        /\ \A i \in bottom .. End - 1 : i # bottom => i \in bottom' .. End' - 1
        /\ bottom \notin bottom' .. End' - 1
    <3>1. bottom' = bottom + 1 /\ End' = End /\ bottom \in Nat /\ End \in Nat
      BY <2>4, <2>5, WindowFacts, Zenon
    <3>2. QED
      BY <3>1, SMTT(30)
  <2>7. /\ Contents' \subseteq Contents
        /\ \A i \in Contents : i # item => i \in Contents'
    BY <2>5, <2>6, Zenon DEF Contents
  <2>8. \A i \in bottom' .. End' - 1 : Live(i) # item
    BY <2>2, <2>6, Zenon DEF IInv, NoOverwrite
  <2>9. /\ \A i \in Items : i # item => ran'[i] = ran[i]
        /\ ran'[item] = 1
        /\ ran'[Garbage] = ran[Garbage]
    BY Scalars, <2>3, <2>4, SMTT(30) DEF IInv
  <2>10. TypeOK'
    BY <2>3, <2>4, SMTT(30) DEF IInv, TypeOK, StealCas, bufVars, ownerVars
  <2>11. RunAtMostOnce'
    BY <2>9 DEF IInv, RunAtMostOnce
  <2>12. NothingLost'
    BY <2>7, <2>9 DEF IInv, NothingLost, StealCas, ownerVars
  <2>13. NoOverwrite'
    <3>1. End' - bottom' <= capacity'[buf']
      BY <2>4, <2>5, WindowFacts DEF StealCas, bufVars
    <3>2. QED
      BY <3>1, <2>5, <2>6, <2>8, <2>9 DEF IInv, NoOverwrite
  <2>14. bottom' <= End'
    BY <2>1, <2>4, <2>5, WindowFacts
  <2>15. \A i \in bottom' .. End' - 1 : Live(i)' \notin fresh'
    BY <2>5, <2>6, Zenon DEF IInv, StealCas
  <2>16. \A i \in fresh' : ran'[i] = 0
    BY Scalars, <2>3, <2>9, Zenon DEF IInv, StealCas
  <2>17. OwnerInv'
    <3>1. opc = "cas" => bottom = ob
      BY Scalars, <2>1, SMTT(30) DEF IInv, OwnerInv, End
    <3>2. opc \notin {"empty", "restore"}
      BY Scalars, <2>1, SMTT(30) DEF IInv, OwnerInv, End
    <3>3. opc \in {"pushed", "store", "publish"} => oitem \notin Contents'
                                                  /\ oitem # item
      BY <2>3, <2>7, SMTT(30) DEF IInv, OwnerInv
    <3>4. QED
      BY Scalars, <3>1, <3>2, <3>3, <2>4, <2>5, <2>9, WindowFacts, SMTT(30)
         DEF IInv, OwnerInv, StealCas, ownerVars, bufVars
  <2>18. \A v \in Thieves : ThiefInv(v)'
    BY Scalars, <2>4, SMTT(30) DEF IInv, StealCas, ThiefInv, bufVars, ownerVars
  <2>19. QED
    BY <2>10, <2>11, <2>12, <2>13, <2>14, <2>15, <2>16, <2>17, <2>18, Zenon DEF IInv
<1>3. QED
  BY <1>1, <1>2, Zenon

(* A step of the owner that leaves the window and what is in it alone.       *)
KeepsWindow ==
    /\ End' = End
    /\ \A i \in bottom .. End - 1 : Live(i)' = Live(i)
    /\ capacity'[buf'] \in Nat /\ capacity[buf] <= capacity'[buf'] /\ buf <= buf'
    /\ UNCHANGED <<bottom, thiefVars, ran>>
    /\ fresh' \subseteq fresh
    /\ \A w \in Thieves : tb[w] = bottom /\ tpc[w] = "item" =>
          slots'[tg[w]][bottom % capacity'[tg[w]]] = slots[tg[w]][bottom % capacity[tg[w]]]

(* Such a step keeps the invariant.                                          *)
LEMMA OwnerLocal ==
    ASSUME IInv, TypeOK', OwnerInv', NothingLost', KeepsWindow
    PROVE  IInv'
<1>1. (RunAtMostOnce /\ NoOverwrite)'
  BY WindowFacts, SMTT(30) DEF IInv, RunAtMostOnce, NoOverwrite, KeepsWindow
<1>2. /\ bottom' <= End'
      /\ \A i \in bottom' .. End' - 1 : Live(i)' \notin fresh'
      /\ \A i \in fresh' : ran'[i] = 0
  BY Zenon DEF IInv, KeepsWindow
<1>3. \A w \in Thieves : ThiefInv(w)'
  <2> SUFFICES ASSUME NEW w \in Thieves PROVE ThiefInv(w)'
    BY Zenon
  <2>1. ThiefInv(w)
    BY Zenon DEF IInv
  <2>2. bottom < End => bottom \in bottom .. End - 1
    BY WindowFacts, SMTT(30)
  <2>3. tg[w] \in 1 .. buf'
    <3>1. buf' \in Nat /\ buf <= buf' /\ buf \in Nat
      BY Scalars, Zenon DEF TypeOK, KeepsWindow
    <3>2. QED
      BY <2>1, <3>1, SMTT(30) DEF ThiefInv
  <2>4. QED
    BY <2>1, <2>2, <2>3, Zenon DEF ThiefInv, thiefVars, KeepsWindow
<1>4. QED
  BY <1>1, <1>2, <1>3, ZenonT(30) DEF IInv

(* In particular one that touches nothing but its local variables and `top`. *)
LEMMA OwnerQuiet ==
    ASSUME IInv, TypeOK', OwnerInv', NothingLost', End' = End, fresh' \subseteq fresh,
           UNCHANGED <<bottom, buf, capacity, slots, thiefVars, ran>>
    PROVE  IInv'
<1>1. KeepsWindow
  BY Scalars, WindowFacts, SMTT(30) DEF KeepsWindow, Live, IInv
<1>2. QED
  BY <1>1, OwnerLocal, Zenon

(* The types, for a step that leaves the buffers and the thieves alone.      *)
LEMMA OwnerTypes ==
    ASSUME IInv, UNCHANGED <<buf, capacity, slots, thiefVars>>,
           top' \in Int, bottom' \in Nat,
           opc' \in {"idle", "pushed", "store", "publish", "popb", "empty", "cas", "restore"},
           oitem' \in Items \cup {NULL}, ot' \in Int, ob' \in Nat,
           fresh' \subseteq Items, ran' \in [Items \cup {Garbage} -> Nat]
    PROVE  TypeOK'
BY Zenon DEF IInv, TypeOK, thiefVars

(* deque_push reads `top` and `bottom`: at most a full buffer lies between.  *)
LEMMA PushLoadStep ==
    ASSUME IInv, PushLoad
    PROVE  IInv'
<1> PICK i \in fresh : fresh' = fresh \ {i} /\ oitem' = i
  BY Zenon DEF PushLoad
<1>1. End' = End /\ Contents' = Contents /\ \A j : Live(j)' = Live(j)
  BY SMTT(30) DEF PushLoad, End, Contents, Live, bufVars
<1>2. i \in Items /\ ran[i] = 0 /\ i \notin Contents
  BY Scalars, SMTT(30) DEF IInv, Contents
<1>3. TypeOK'
  BY SMTT(30) DEF IInv, TypeOK, PushLoad, thiefVars, bufVars
<1>4. OwnerInv'
  <2>1. End = top /\ opc' = "pushed" /\ ot' = top /\ ob' = bottom
    BY SMTT(30) DEF PushLoad, End
  <2>2. QED
    BY Scalars, <1>1, <1>2, <2>1, WindowFacts, SMTT(30) DEF IInv, OwnerInv, PushLoad, bufVars
<1>5. NothingLost'
  BY <1>1, Zenon DEF IInv, NothingLost, OwnerInv, PushLoad
<1>6. /\ UNCHANGED <<bottom, thiefVars, ran, buf, capacity, slots>>
      /\ buf \in Nat /\ capacity[buf] \in Nat
  BY Scalars, WindowFacts DEF PushLoad, bufVars, IInv
<1>7. fresh' \subseteq fresh
  BY Zenon
<1>8. QED
  BY <1>1, <1>3, <1>4, <1>5, <1>6, <1>7, OwnerQuiet, Zenon

(* Growing copies the window, and the old buffer stays as it was: ob .. ot-1 *)
(* has exactly as many items as the old buffer has slots, so no two of them  *)
(* meet in the new one.                                                      *)
LEMMA PushGrowStep ==
    ASSUME IInv, PushGrow
    PROVE  IInv' /\ KeepsWindow
<1> DEFINE c == capacity[buf]
<1>1. /\ c \in Nat \ {0} /\ ot \in Int /\ ob \in Nat
      /\ ot - ob = c /\ ot = top /\ ob <= bottom /\ End = top /\ End' = top
  <2>1. c \in Nat \ {0}
    BY WindowFacts, Zenon
  <2>2. opc = "pushed" /\ opc' = "store" /\ top' = top /\ ot - ob >= c
    BY DEF PushGrow, Full
  <2>3. ot \in Int /\ ob \in Nat
    BY Scalars, SMTT(30) DEF IInv
  <2>4. ot - ob <= c /\ ot = top /\ ob <= bottom
    BY <2>2 DEF IInv, OwnerInv
  <2>5. End = top /\ End' = top
    BY <2>2, SMTT(30) DEF End
  <2>6. QED
    BY <2>1, <2>2, <2>3, <2>4, <2>5
<1>2. /\ buf \in Nat \ {0} /\ buf' = buf + 1
      /\ capacity'[buf'] = 2 * c
      /\ slots'[buf'] = Copied(2 * c)
      /\ \A g \in 1 .. buf : capacity'[g] = capacity[g] /\ slots'[g] = slots[g]
  BY DEF IInv, TypeOK, PushGrow
<1>3. 2 * c \in Nat \ {0} /\ c <= 2 * c
  BY <1>1, SMTT(30)
<1>4. \A i \in ob .. ot - 1 : Live(i)' = Live(i)
  <2> SUFFICES ASSUME NEW i \in ob .. ot - 1 PROVE Live(i)' = Live(i)
    BY Zenon
  <2>1. i \in Nat /\ i % (2 * c) \in Slots(2 * c)
    BY <1>1, <1>3, ModInSlots, SMTT(30)
  <2>2. \A j \in ob .. ot - 1 : j % (2 * c) = i % (2 * c) => j = i
    <3> SUFFICES ASSUME NEW j \in ob .. ot - 1, j % (2 * c) = i % (2 * c), j # i
                 PROVE  FALSE
      BY Zenon
    <3>1. i \in Int /\ j \in Int /\ i # j /\ i - j < 2 * c /\ j - i < 2 * c
      BY <1>1, <2>1
    <3>2. ASSUME NEW n \in Nat \ {0}, i - j < n, j - i < n
          PROVE  i % n # j % n
      BY <3>1, <3>2, <2>1, ModInjective, Zenon
    <3>3. QED
      BY <3>1, <3>2, <1>3, Zenon
  <2>3. (CHOOSE j \in ob .. ot - 1 : j % (2 * c) = i % (2 * c)) = i
    BY <2>2
  <2>4. Copied(2 * c)[i % (2 * c)] = Live(i)
    BY <2>1, <2>3, Zenon DEF Copied
  <2>5. QED
    BY <2>4, <1>2, Zenon DEF Live
<1>5. \A i \in bottom .. End - 1 : Live(i)' = Live(i)
  BY <1>1, <1>4, WindowFacts
<1>6. Contents' = Contents
  BY <1>1, <1>5, SMTT(30) DEF Contents, PushGrow
<1>7. TypeOK'
  <2>1. \A i \in ob .. ot - 1 : Live(i) \in Items \cup {NULL}
    BY <1>1, WindowFacts
  <2>2. Copied(2 * c) \in [Slots(2 * c) -> Items \cup {NULL}]
    BY <2>1, Zenon DEF Copied
  <2>3. \A g \in 1 .. buf' : slots'[g] \in [Slots(capacity'[g]) -> Items \cup {NULL}]
    <3> SUFFICES ASSUME NEW g \in 1 .. buf'
                 PROVE  slots'[g] \in [Slots(capacity'[g]) -> Items \cup {NULL}]
      OBVIOUS
    <3>1. CASE g = buf'
      BY <3>1, <2>2, <1>2
    <3>2. CASE g # buf'
      <4>1. g \in 1 .. buf
        BY <3>2, <1>2
      <4>2. QED
        BY <4>1, <1>2, SMTT(30) DEF IInv, TypeOK
    <3>3. QED
      BY <3>1, <3>2, Zenon
  <2>4. capacity' \in [1 .. buf' -> Nat \ {0}] /\ DOMAIN slots' = 1 .. buf'
    BY <1>2, <1>3, SMTT(30) DEF IInv, TypeOK, PushGrow
  <2>5. QED
    BY <2>3, <2>4, SMTT(30) DEF IInv, TypeOK, PushGrow, thiefVars
<1>8. OwnerInv'
  BY Scalars, <1>1, <1>2, <1>3, <1>6, SMTT(30) DEF IInv, OwnerInv, PushGrow
<1>9. NothingLost'
  BY <1>6, SMTT(30) DEF IInv, NothingLost, PushGrow
<1>10. \A w \in Thieves : tg[w] \in 1 .. buf
  BY Zenon DEF IInv, ThiefInv
<1>11. KeepsWindow
  <2>1. /\ End' = End /\ capacity'[buf'] \in Nat /\ capacity[buf] <= capacity'[buf']
        /\ buf <= buf'
    BY <1>1, <1>2, <1>3
  <2>2. UNCHANGED <<bottom, thiefVars, ran, fresh>>
    BY Zenon DEF PushGrow
  <2>3. \A w \in Thieves :
          slots'[tg[w]][bottom % capacity'[tg[w]]] = slots[tg[w]][bottom % capacity[tg[w]]]
    BY <1>2, <1>10, Zenon
  <2>4. QED
    BY <1>5, <2>1, <2>2, <2>3, Zenon DEF KeepsWindow
<1>12. QED
  BY <1>7, <1>8, <1>9, <1>11, OwnerLocal

(* The slot written is not one of the window's: the window is shorter than   *)
(* the buffer and ends just before ot.                                       *)
LEMMA PushStoreStep ==
    ASSUME IInv, PushStore
    PROVE  IInv' /\ KeepsWindow
<1> DEFINE c == capacity[buf]
           s == ot % c
<1>1. /\ c \in Nat \ {0} /\ ot \in Int /\ ob \in Nat /\ bottom \in Nat
      /\ ot - ob < c /\ ot = top /\ ob <= bottom /\ End = top /\ End' = top
      /\ bottom <= ot /\ ot - bottom < c
  <2>1. c \in Nat \ {0} /\ bottom \in Nat /\ bottom <= End
    BY WindowFacts, Zenon
  <2>2. opc \in {"store", "pushed"} /\ opc' = "publish" /\ top' = top
    BY DEF PushStore
  <2>3. ot \in Int /\ ob \in Nat
    BY Scalars, SMTT(30)
  <2>4. ot = top /\ ob <= bottom
    BY <2>2, SMTT(30) DEF IInv, OwnerInv
  <2>5. ot - ob < c
    BY <2>1, <2>3 DEF PushStore, Full, IInv, OwnerInv
  <2>6. End = top /\ End' = top
    BY <2>2 DEF End
  <2>7. QED
    BY <2>1, <2>3, <2>4, <2>5, <2>6
<1>2. ot \in Nat /\ s \in Slots(c)
  <2>1. ot \in Nat
    BY <1>1, SMTT(30)
  <2>2. QED
    BY <1>1, <2>1, ModInSlots, Zenon
<1>3. buf \in 1 .. buf /\ slots[buf] \in [Slots(c) -> Items \cup {NULL}] /\ DOMAIN slots = 1 .. buf
  BY DEF IInv, TypeOK
<1>4. slots' = [slots EXCEPT ![buf] = [slots[buf] EXCEPT ![s] = oitem]]
  BY DEF PushStore
<1>5. \A i \in Nat : i % c # s => slots'[buf][i % c] = slots[buf][i % c]
  BY <1>3, <1>4
<1>6. \A i \in bottom .. End - 1 : i \in Nat /\ i % c # s
  <2> SUFFICES ASSUME NEW i \in bottom .. End - 1 PROVE i \in Nat /\ i % c # s
    BY Zenon
  <2>1. i \in Nat /\ i < ot /\ ot < i + c
    BY <1>1, SMTT(30)
  <2>2. QED
    BY <2>1, <1>1, <1>2, ModInjective
<1>7. \A i \in bottom .. End - 1 : Live(i)' = Live(i)
  BY <1>5, <1>6, SMTT(30) DEF Live, PushStore
<1>8. Live(ot)' = oitem
  BY <1>2, <1>3, <1>4 DEF Live, PushStore
<1>9. Contents' = Contents
  BY <1>1, <1>7, Zenon DEF Contents, PushStore
<1>10. TypeOK'
  <2>1. oitem \in Items
    BY DEF IInv, OwnerInv, PushStore
  <2>2. \A g \in 1 .. buf : slots'[g] \in [Slots(capacity[g]) -> Items \cup {NULL}]
    BY <1>3, <1>4, <2>1, ZenonT(30) DEF IInv, TypeOK
  <2>3. QED
    BY <1>3, <1>4, <2>2, Zenon DEF IInv, TypeOK, PushStore, thiefVars
<1>11. OwnerInv'
  BY Scalars, <1>1, <1>8, <1>9, Zenon DEF IInv, OwnerInv, PushStore
<1>12. NothingLost'
  BY <1>9, SMTT(30) DEF IInv, NothingLost, PushStore
<1>13. ASSUME NEW w \in Thieves, tb[w] = bottom, tpc[w] = "item"
       PROVE  slots'[tg[w]][bottom % capacity'[tg[w]]] = slots[tg[w]][bottom % capacity[tg[w]]]
  <2>1. bottom < End
    BY <1>13 DEF IInv, ThiefInv
  <2>2. bottom % c # s
    BY <1>1, <1>6, <2>1, SMTT(30)
  <2>3. CASE tg[w] = buf
    BY <2>2, <2>3, <1>1, <1>5, Zenon DEF PushStore
  <2>4. CASE tg[w] # buf
    BY <2>4, <1>4, SMTT(30) DEF PushStore
  <2>5. QED
    BY <2>3, <2>4, Zenon
<1>14. /\ UNCHANGED <<bottom, thiefVars, ran, fresh, buf, capacity>>
       /\ buf \in Nat /\ End' = End
  BY Scalars, <1>1, Zenon DEF PushStore, IInv
<1>15. KeepsWindow
  BY <1>1, <1>7, <1>13, <1>14, SMTT(30) DEF KeepsWindow
<1>16. QED
  BY <1>10, <1>11, <1>12, <1>15, OwnerLocal, Zenon

(* Publishing `top` adds the stored item, and only it, to the window.        *)
LEMMA PushPublishStep ==
    ASSUME IInv, PushPublish
    PROVE  IInv'
<1>1. /\ End = top /\ End' = top + 1 /\ ot = top /\ top' = top + 1 /\ bottom' = bottom
      /\ opc = "publish" /\ opc' = "idle" /\ oitem' = NULL
      /\ UNCHANGED <<buf, capacity, slots, fresh, ran>> /\ \A i : Live(i)' = Live(i)
  BY SMTT(30) DEF IInv, OwnerInv, PushPublish, End, Live, bufVars
<1>2. /\ oitem \in Items /\ oitem \notin fresh /\ ran[oitem] = 0 /\ oitem \notin Contents
      /\ Live(top) = oitem /\ top - bottom < capacity[buf]
  BY <1>1, Zenon DEF IInv, OwnerInv
<1>3. /\ \A i \in bottom' .. End' - 1 : i \in bottom .. End - 1 \/ i = top
      /\ bottom .. End - 1 \subseteq bottom' .. End' - 1
      /\ top \in bottom' .. End' - 1
  BY Scalars, <1>1, WindowFacts, SMTT(30) DEF IInv
<1>4. \A i \in bottom .. End - 1 : Live(i) # oitem
  BY <1>2, Zenon DEF Contents
<1>5. TypeOK'
  BY <1>1, Scalars, OwnerTypes DEF PushPublish, bufVars
<1>6. RunAtMostOnce'
  BY <1>1, Zenon DEF IInv, RunAtMostOnce
<1>7. NothingLost'
  <2>1. \A i \in Contents : i \in Contents'
    BY <1>1, <1>3, SMTT(30) DEF Contents
  <2>2. oitem \in Contents'
    BY <1>1, <1>2, <1>3, SMTT(30) DEF Contents
  <2>3. QED
    BY <1>1, <2>1, <2>2 DEF IInv, NothingLost
<1>8. NoOverwrite'
  <2>1. End' - bottom' <= capacity'[buf']
    BY <1>1, <1>2, WindowFacts, SMTT(30)
  <2>2. QED
    BY <2>1, <1>1, <1>2, <1>3, <1>4, SMTT(30) DEF IInv, NoOverwrite
<1>9. /\ bottom' <= End'
      /\ \A i \in bottom' .. End' - 1 : Live(i)' \notin fresh'
      /\ \A i \in fresh' : ran'[i] = 0
  BY <1>1, <1>2, <1>3, WindowFacts DEF IInv
<1>10. OwnerInv'
  BY <1>1, SMTT(30) DEF OwnerInv
<1>11. \A w \in Thieves : ThiefInv(w)'
  BY <1>1, WindowFacts, SMTT(30) DEF IInv, ThiefInv, PushPublish, thiefVars
<1>12. QED
  BY <1>5, <1>6, <1>7, <1>8, <1>9, <1>10, <1>11, Zenon DEF IInv

-----------------------------------------------------------------------------
(* deque_pop announces itself by decrementing `top`; the window is the same. *)
LEMMA PopDecrementStep ==
    ASSUME IInv, PopDecrement
    PROVE  IInv'
<1>1. /\ End' = End /\ \A i : Live(i)' = Live(i)
      /\ UNCHANGED <<bottom, thiefVars, ran, fresh, buf, capacity, slots, oitem>>
      /\ buf \in Nat /\ capacity[buf] \in Nat
  BY Scalars, WindowFacts DEF PopDecrement, IInv, End, Live, bufVars
<1>2. TypeOK'
  BY Scalars, OwnerTypes, SMTT(30) DEF PopDecrement, bufVars
<1>3. OwnerInv'
  BY DEF IInv, OwnerInv, PopDecrement
<1>4. NothingLost'
  BY <1>1 DEF IInv, NothingLost, Contents
<1>5. QED
  BY <1>1, <1>2, <1>3, <1>4, OwnerQuiet, SMTT(30)

(* On the fast path thieves only compete for items below the popped one.     *)
LEMMA PopLoadStep ==
    ASSUME IInv, PopLoad
    PROVE  IInv'
<1>1. /\ opc = "popb" /\ ot = top /\ top \in Int /\ End = top + 1 /\ ob' = bottom
      /\ UNCHANGED <<top, bottom, thiefVars, fresh, buf, capacity, slots, ot>>
      /\ \A i : Live(i)' = Live(i)
      /\ buf \in Nat /\ capacity[buf] \in Nat
  <2>1. opc = "popb" /\ ob' = bottom /\ UNCHANGED <<top, bottom, thiefVars, fresh, buf, capacity, slots, ot>>
    BY DEF PopLoad, bufVars
  <2>2. ot = top /\ top \in Int /\ End = top + 1 /\ buf \in Nat /\ capacity[buf] \in Nat
    BY <2>1, Scalars, WindowFacts, OwnerOf DEF OwnerInv, End
  <2>3. QED
    BY <2>1, <2>2, LiveKept, Zenon
<1>2. oitem = NULL /\ bottom <= top + 1 /\ bottom \in Nat
  BY Scalars, <1>1, Zenon DEF IInv, OwnerInv
<1>3. CASE ot < bottom
  <2>1. opc' = "empty" /\ UNCHANGED <<oitem, ran>>
    BY <1>1, <1>2, <1>3 DEF PopLoad
  <2>2. End' = End
    BY <1>1, <2>1 DEF End
  <2>3. TypeOK'
    BY <1>1, <2>1, Scalars, OwnerTypes, Zenon
  <2>4. OwnerInv'
    BY <1>1, <1>2, <1>3, <2>1, SMTT(30) DEF OwnerInv
  <2>5. NothingLost'
    BY <1>1, <2>1, <2>2 DEF IInv, NothingLost, Contents
  <2>6. QED
    BY <1>1, <2>1, <2>2, <2>3, <2>4, <2>5, OwnerQuiet
<1>4. CASE ot = bottom
  <2>1. opc' = "cas" /\ oitem' = Live(top) /\ UNCHANGED ran
    BY <1>1, <1>2, <1>4 DEF PopLoad
  <2>2. End' = End
    BY <1>1, <2>1, Zenon DEF End
  <2>3. Live(top) \in Items
    <3>1. top \in bottom .. End - 1
      BY <1>1, <1>4, SMTT(30)
    <3>2. QED
      BY <3>1 DEF IInv, NoOverwrite
  <2>4. TypeOK'
    BY <1>1, <1>2, <2>1, <2>3, Scalars, OwnerTypes, SMTT(30)
  <2>5. OwnerInv'
    <3>1. ob' = top' /\ bottom' = ob' /\ ot' = top' /\ oitem' \in Items
      BY <1>1, <1>4, <2>1, <2>3, Zenon
    <3>2. Live(ob)' = oitem'
      BY <1>1, <1>4, <2>1, Zenon DEF Live
    <3>3. QED
      BY <1>1, <1>2, <2>1, <3>1, <3>2 DEF OwnerInv
  <2>6. NothingLost'
    BY <1>1, <1>2, <2>1, <2>2, Zenon DEF IInv, NothingLost, Contents
  <2>7. QED
    BY <1>1, <2>1, <2>2, <2>4, <2>5, <2>6, OwnerQuiet
<1>5. CASE ot > bottom
  <2> DEFINE item == Live(top)
  <2>1. opc' = "idle" /\ oitem' = NULL /\ ran' = [ran EXCEPT ![item] = @ + 1]
    BY <1>1, <1>2, <1>5 DEF PopLoad, Run
  <2>2. End' = top
    BY <1>1, <2>1 DEF End
  <2>3. top \in bottom .. End - 1
    BY <1>1, <1>2, <1>5
  <2>4. item \in Items /\ ran[item] = 0 /\ item \notin fresh
    BY <2>3, Zenon DEF IInv, NoOverwrite
  <2>5. /\ bottom' .. End' - 1 \subseteq bottom .. End - 1
        /\ \A i \in bottom .. End - 1 : i # top => i \in bottom' .. End' - 1
        /\ top \notin bottom' .. End' - 1
    BY <1>1, <1>2, <2>2
  <2>6. \A i \in bottom' .. End' - 1 : Live(i) # item
    BY <2>3, <2>5, Zenon DEF IInv, NoOverwrite
  <2>7. /\ \A i \in Items : i # item => ran'[i] = ran[i]
        /\ ran'[item] = 1
        /\ ran'[Garbage] = ran[Garbage]
    BY Scalars, <2>1, <2>4, SMTT(30) DEF IInv
  <2>8. TypeOK'
    BY <1>1, <1>2, <2>1, <2>4, Scalars, OwnerTypes, SMTT(30)
  <2>9. RunAtMostOnce'
    BY <2>7, SMTT(30) DEF IInv, RunAtMostOnce
  <2>10. NothingLost'
    <3>1. \A i \in Contents : i # item => i \in Contents'
      BY <1>1, <2>5, SMTT(30) DEF Contents
    <3>2. QED
      BY <1>1, <1>2, <2>7, <3>1, SMTT(30) DEF IInv, NothingLost
  <2>11. NoOverwrite'
    <3>1. End' - bottom' <= capacity'[buf']
      BY <1>1, <1>2, <2>2, WindowFacts, SMTT(30)
    <3>2. QED
      BY <3>1, <1>1, <2>5, <2>6, <2>7, SMTT(30) DEF IInv, NoOverwrite
  <2>12. /\ bottom' <= End'
         /\ \A i \in bottom' .. End' - 1 : Live(i)' \notin fresh'
         /\ \A i \in fresh' : ran'[i] = 0
    BY Scalars, <1>1, <1>2, <1>5, <2>2, <2>4, <2>5, <2>7, SMTT(30) DEF IInv
  <2>13. OwnerInv'
    BY <2>1, SMTT(30) DEF OwnerInv
  <2>14. \A w \in Thieves : ThiefInv(w)'
    BY <1>1, <1>2, <1>5, <2>2, Zenon DEF IInv, ThiefInv, thiefVars
  <2>15. QED
    BY <2>8, <2>9, <2>10, <2>11, <2>12, <2>13, <2>14, Zenon DEF IInv
<1>6. QED
  BY <1>1, <1>2, <1>3, <1>4, <1>5, SMTT(30)

(* An empty deque gets its `top` back.                                       *)
LEMMA PopEmptyStep ==
    ASSUME IInv, PopEmpty
    PROVE  IInv'
<1>1. /\ End' = End /\ \A i : Live(i)' = Live(i)
      /\ UNCHANGED <<bottom, thiefVars, ran, fresh, buf, capacity, slots, oitem>>
      /\ buf \in Nat /\ capacity[buf] \in Nat
  <2>1. /\ opc = "empty" /\ opc' = "idle" /\ top' = ob
        /\ UNCHANGED <<bottom, thiefVars, ran, fresh, buf, capacity, slots, oitem>>
    BY Zenon DEF PopEmpty, bufVars
  <2>2. buf \in Nat /\ capacity[buf] \in Nat /\ End' = End
    BY <2>1, Scalars, WindowFacts, OwnerOf DEF OwnerInv, End
  <2>3. QED
    BY <2>1, <2>2, LiveKept
<1>2. TypeOK'
  BY Scalars, OwnerTypes, SMTT(30) DEF PopEmpty, bufVars
<1>3. OwnerInv'
  BY Zenon DEF IInv, OwnerInv, PopEmpty
<1>4. NothingLost'
  BY <1>1, Zenon DEF IInv, NothingLost, Contents
<1>5. QED
  BY <1>1, <1>2, <1>3, <1>4, OwnerQuiet, Zenon

(* The owner wins the last item, or finds that a thief has already run it.   *)
LEMMA PopCasStep ==
    ASSUME IInv, PopCas
    PROVE  IInv'
<1>1. /\ opc = "cas" /\ opc' = "restore" /\ ot = top /\ ob = top /\ top \in Int
      /\ End = top + 1 /\ End' = top + 1 /\ bottom \in Nat /\ ob <= bottom
      /\ bottom <= top + 1 /\ oitem \in Items
      /\ UNCHANGED <<top, ot, ob, ran, thiefVars, fresh, buf, capacity, slots>>
      /\ \A i : Live(i)' = Live(i)
      /\ buf \in Nat /\ capacity[buf] \in Nat
  <2>1. /\ opc = "cas" /\ opc' = "restore"
        /\ UNCHANGED <<top, ot, ob, ran, thiefVars, fresh, buf, capacity, slots>>
    BY DEF PopCas, bufVars
  <2>2. ot = top /\ ob = top /\ ob <= bottom /\ oitem \in Items
    BY <2>1, OwnerOf, Zenon DEF OwnerInv
  <2>3. /\ top \in Int /\ End = top + 1 /\ End' = top + 1 /\ bottom \in Nat /\ bottom <= top + 1
        /\ buf \in Nat /\ capacity[buf] \in Nat
    BY <2>1, Scalars, WindowFacts DEF End
  <2>4. QED
    BY <2>1, <2>2, <2>3, LiveKept, Zenon
<1>2. CASE bottom = ob
  <2>1. bottom' = top + 1 /\ oitem' = oitem /\ oitem = Live(bottom)
    BY <1>1, <1>2, Zenon DEF PopCas, IInv, OwnerInv
  <2>2. bottom \in bottom .. End - 1
    BY <1>1, <1>2
  <2>3. ran[oitem] = 0 /\ oitem \notin fresh
    BY <2>1, <2>2, Zenon DEF IInv, NoOverwrite
  <2>4. bottom' .. End' - 1 = {} /\ bottom .. End - 1 = {bottom}
    BY <1>1, <1>2, <2>1, SMTT(30)
  <2>5. TypeOK'
    BY <1>1, <2>1, Scalars, OwnerTypes
  <2>6. RunAtMostOnce'
    BY <1>1, Zenon DEF IInv, RunAtMostOnce
  <2>7. NothingLost'
    <3>1. \A i \in Contents : i = oitem
      BY <2>1, <2>4 DEF Contents
    <3>2. QED
      BY <1>1, <2>1, <3>1 DEF IInv, NothingLost
  <2>8. NoOverwrite'
    BY <1>1, <2>1, <2>4, SMTT(30) DEF NoOverwrite
  <2>9. /\ bottom' <= End'
        /\ \A i \in bottom' .. End' - 1 : Live(i)' \notin fresh'
        /\ \A i \in fresh' : ran'[i] = 0
    BY <1>1, <2>1, <2>4, SMTT(30) DEF IInv
  <2>10. OwnerInv'
    BY <1>1, <2>1, <2>3, SMTT(30) DEF OwnerInv
  <2>11. \A w \in Thieves : ThiefInv(w)'
    BY Scalars, <1>1, <1>2, <2>1, SMTT(30) DEF IInv, ThiefInv, thiefVars
  <2>12. QED
    BY <2>5, <2>6, <2>7, <2>8, <2>9, <2>10, <2>11, Zenon DEF IInv
<1>3. CASE bottom # ob
  <2>1. oitem' = NULL /\ bottom' = bottom /\ bottom = top + 1 /\ ran[oitem] > 0
    BY <1>1, <1>3, SMTT(30) DEF PopCas, IInv, OwnerInv
  <2>2. TypeOK'
    BY <1>1, <2>1, Scalars, OwnerTypes, SMTT(30)
  <2>3. OwnerInv'
    BY <1>1, <2>1, Zenon DEF OwnerInv
  <2>4. NothingLost'
    BY <1>1, <2>1 DEF IInv, NothingLost, Contents
  <2>5. QED
    BY <1>1, <2>1, <2>2, <2>3, <2>4, OwnerQuiet, SMTT(30)
<1>4. QED
  BY <1>2, <1>3, SMTT(30)

(* The owner runs the item it won; nothing is in the deque at that point.    *)
LEMMA PopRestoreStep ==
    ASSUME IInv, PopRestore
    PROVE  IInv'
<1>1. /\ opc = "restore" /\ opc' = "idle" /\ ob = top /\ top \in Int
      /\ End = top + 1 /\ End' = top + 1 /\ bottom = top + 1 /\ oitem' = NULL
      /\ top' = top + 1
      /\ UNCHANGED <<bottom, ot, ob, thiefVars, fresh, buf, capacity, slots>>
      /\ \A i : Live(i)' = Live(i)
      /\ buf \in Nat /\ capacity[buf] \in Nat
  BY Scalars, WindowFacts, ZenonT(30) DEF PopRestore, IInv, OwnerInv, End, Live, bufVars
<1>2. CASE oitem = NULL
  <2>1. UNCHANGED ran
    BY <1>2 DEF PopRestore
  <2>2. TypeOK'
    BY <1>1, <2>1, Scalars, OwnerTypes, SMTT(30)
  <2>3. OwnerInv'
    BY <1>1, Zenon DEF OwnerInv
  <2>4. NothingLost'
    BY <1>1, <1>2, <2>1, SMTT(30) DEF IInv, NothingLost, Contents
  <2>5. QED
    BY <1>1, <2>1, <2>2, <2>3, <2>4, OwnerQuiet
<1>3. CASE oitem # NULL
  <2>1. /\ ran' = [ran EXCEPT ![oitem] = @ + 1]
        /\ oitem \in Items /\ ran[oitem] = 0 /\ oitem \notin fresh
    BY Scalars, <1>1, <1>3, ZenonT(30) DEF PopRestore, Run, IInv, OwnerInv
  <2>2. /\ \A i \in Items : i # oitem => ran'[i] = ran[i]
        /\ ran'[oitem] = 1
        /\ ran'[Garbage] = ran[Garbage]
    BY Scalars, <2>1 DEF IInv
  <2>3. bottom .. End - 1 = {} /\ bottom' .. End' - 1 = {}
    BY <1>1, SMTT(30)
  <2>4. TypeOK'
    BY <1>1, <2>1, Scalars, OwnerTypes
  <2>5. RunAtMostOnce'
    BY <2>2, SMTT(30) DEF IInv, RunAtMostOnce
  <2>6. NothingLost'
    BY <1>1, <2>2, <2>3, SMTT(30) DEF IInv, NothingLost, Contents
  <2>7. NoOverwrite'
    BY <1>1, <2>3, SMTT(30) DEF NoOverwrite
  <2>8. /\ bottom' <= End'
        /\ \A i \in bottom' .. End' - 1 : Live(i)' \notin fresh'
        /\ \A i \in fresh' : ran'[i] = 0
    BY Scalars, <1>1, <2>1, <2>2, <2>3, SMTT(30) DEF IInv
  <2>9. OwnerInv'
    BY <1>1, Zenon DEF OwnerInv
  <2>10. \A w \in Thieves : ThiefInv(w)'
    BY Scalars, <1>1 DEF IInv, ThiefInv, thiefVars
  <2>11. QED
    BY <2>4, <2>5, <2>6, <2>7, <2>8, <2>9, <2>10, Zenon DEF IInv
<1>4. QED
  BY <1>2, <1>3, SMTT(30)

(* Every step of the owner or of a thief keeps the inductive invariant.      *)
LEMMA NextIInv ==
    ASSUME SingleLoad = TRUE, IInv, [Next]_vars
    PROVE  IInv'
<1>1. CASE deque_push
  BY <1>1, PushLoadStep, PushGrowStep, PushStoreStep, PushPublishStep DEF deque_push
<1>2. CASE deque_pop
  BY <1>2, PopDecrementStep, PopLoadStep, PopEmptyStep, PopCasStep, PopRestoreStep, Zenon DEF deque_pop
<1>3. ASSUME NEW w \in Thieves, deque_steal(w) PROVE IInv'
  BY <1>3, StealLoadStep, StealTopStep, StealSlotsStep, StealItemStep, StealCasStep, SMTT(30) DEF deque_steal
<1>4. CASE UNCHANGED vars
  <2>1. /\ UNCHANGED <<top, bottom, bufVars, ownerVars, fresh, ran>>
        /\ UNCHANGED <<tpc, tb, tg, titem>>
    BY <1>4, SMTT(30) DEF vars, bufVars, ownerVars
  <2>2. \A w \in Thieves : ThiefInv(w)'
    BY <2>1, Zenon DEF IInv, ThiefInv, End, Live, bufVars, ownerVars
  <2>3. QED
    BY Scalars, <2>1, <2>2, ThiefLocal, Zenon DEF IInv
<1>5. QED
  BY <1>1, <1>2, <1>3, <1>4 DEF Next

(* What ties the cursors, the buffers, the owner and the thieves together    *)
(* holds in every state: the invariant the other theorems come from.         *)
THEOREM Inductive ==
    ASSUME SingleLoad = TRUE
    PROVE  Spec => []IInv
BY InitIInv, NextIInv, PTL DEF Spec

(* The variables keep their types: in particular no thief ever holds an      *)
(* index outside the buffer it reads.                                        *)
THEOREM TypeCorrect ==
    ASSUME SingleLoad = TRUE
    PROVE  Spec => []TypeOK
<1>1. IInv => TypeOK
  BY DEF IInv
<1>2. QED
  BY <1>1, InitIInv, NextIInv, PTL DEF Spec

(* fn(arg) is called at most once per submitted item, however the owner and  *)
(* any number of thieves interleave and however often the buffer grows.      *)
THEOREM AtMostOnce ==
    ASSUME SingleLoad = TRUE
    PROVE  Spec => []RunAtMostOnce
<1>1. IInv => RunAtMostOnce
  BY DEF IInv
<1>2. QED
  BY <1>1, InitIInv, NextIInv, PTL DEF Spec

(* An item that was pushed is in the deque until somebody runs it.           *)
THEOREM NoneLost ==
    ASSUME SingleLoad = TRUE
    PROVE  Spec => []NothingLost
<1>1. IInv => NothingLost
  BY Zenon DEF IInv
<1>2. QED
  BY <1>1, InitIInv, NextIInv, PTL DEF Spec

(* The circular buffer never overflows and never holds an item twice.        *)
THEOREM Exclusive ==
    ASSUME SingleLoad = TRUE
    PROVE  Spec => []NoOverwrite
<1>1. IInv => NoOverwrite
  BY DEF IInv
<1>2. QED
  BY <1>1, InitIInv, NextIInv, PTL DEF Spec

(* deque_pop returns NULL only from an empty deque, so a worker never goes   *)
(* to sleep on items of its own.                                             *)
THEOREM PopFindsItems ==
    ASSUME SingleLoad = TRUE
    PROVE  Spec => []NullMeansEmpty
<1>1. ASSUME IInv PROVE NullMeansEmpty
  <2> SUFFICES ASSUME opc = "empty" \/ opc = "restore" PROVE Contents = {}
    BY SMTT(30) DEF NullMeansEmpty
  <2>1. bottom = End /\ End \in Nat
    BY <1>1, WindowFacts, Zenon DEF IInv, OwnerInv, End
  <2>2. bottom .. End - 1 = {}
    BY <2>1
  <2>3. QED
    BY <2>2 DEF Contents
<1>2. QED
  BY <1>1, InitIInv, NextIInv, PTL DEF Spec

-----------------------------------------------------------------------------
(* What Append and Tail give, element by element.                            *)
LEMMA AppendTail ==
    ASSUME NEW S, NEW q \in Seq(S), NEW x \in S
    PROVE  /\ Append(q, x) = [k \in 1 .. Len(q) + 1 |-> IF k = Len(q) + 1 THEN x ELSE q[k]]
           /\ q # <<>> => /\ Tail(q) = [k \in 1 .. Len(q) - 1 |-> q[k + 1]]
                          /\ SubSeq(q, 1, Len(q) - 1) = [k \in 1 .. Len(q) - 1 |-> q[k]]
<1>1. DOMAIN q = 1 .. Len(q) /\ Len(q) \in Nat /\ \A k \in 1 .. Len(q) : q[k] \in S
  OBVIOUS
<1>2. Append(q, x) = [k \in 1 .. Len(q) + 1 |-> IF k = Len(q) + 1 THEN x ELSE q[k]]
  <2> DEFINE f == [k \in 1 .. Len(q) + 1 |-> IF k = Len(q) + 1 THEN x ELSE q[k]]
  <2>1. f \in Seq(S) /\ Len(f) = Len(q) + 1
    BY <1>1
  <2>2. /\ Append(q, x) \in Seq(S) /\ Len(Append(q, x)) = Len(q) + 1
        /\ \A k \in 1 .. Len(q) + 1 : Append(q, x)[k] = f[k]
    BY <1>1
  <2>3. QED
    BY <2>1, <2>2, SeqEqual, Zenon
<1>3. ASSUME q # <<>> PROVE Tail(q) = [k \in 1 .. Len(q) - 1 |-> q[k + 1]]
  <2> DEFINE f == [k \in 1 .. Len(q) - 1 |-> q[k + 1]]
  <2>0. Len(q) >= 1
    BY <1>1, <1>3, EmptySeq
  <2>1. f \in Seq(S) /\ Len(f) = Len(q) - 1
    BY <1>1, <2>0
  <2>2. /\ Tail(q) \in Seq(S) /\ Len(Tail(q)) = Len(q) - 1
        /\ \A k \in 1 .. Len(q) - 1 : Tail(q)[k] = f[k]
    BY <1>1, <1>3, <2>0
  <2>3. QED
    BY <2>1, <2>2, SeqEqual, Zenon
<1>4. ASSUME q # <<>> PROVE SubSeq(q, 1, Len(q) - 1) = [k \in 1 .. Len(q) - 1 |-> q[k]]
  <2> DEFINE f == [k \in 1 .. Len(q) - 1 |-> q[k]]
             g == SubSeq(q, 1, Len(q) - 1)
  <2>0. Len(q) >= 1
    BY <1>1, <1>4, EmptySeq
  <2>1. f \in Seq(S) /\ Len(f) = Len(q) - 1
    BY <1>1, <2>0
  <2>2. g \in Seq(S) /\ Len(g) = Len(q) - 1 /\ \A k \in 1 .. Len(q) - 1 : g[k] = f[k]
    BY <1>1, <2>0
  <2>3. QED
    BY <2>1, <2>2, SeqEqual, Zenon
<1>5. QED
  BY <1>2, <1>3, <1>4, Zenon

(* The abstract deque is a sequence as long as the window.                   *)
LEMMA QueueFacts ==
    ASSUME IInv
    PROVE  /\ AbstractQueue \in Seq(Items) /\ Len(AbstractQueue) = End - bottom
           /\ DOMAIN AbstractQueue = 1 .. End - bottom
           /\ \A k \in 1 .. End - bottom : AbstractQueue[k] = Live(bottom + k - 1)
<1>1. End - bottom \in Nat /\ bottom \in Nat
  BY WindowFacts
<1>2. \A k \in 1 .. End - bottom : Live(bottom + k - 1) \in Items
  <2> SUFFICES ASSUME NEW k \in 1 .. End - bottom PROVE Live(bottom + k - 1) \in Items
    BY Zenon
  <2>1. bottom + k - 1 \in bottom .. End - 1
    BY WindowFacts
  <2>2. QED
    BY <2>1, Zenon DEF IInv, NoOverwrite
<1>3. AbstractQueue \in [1 .. End - bottom -> Items]
  BY <1>2, Zenon DEF AbstractQueue
<1>4. QED
  BY <1>1, <1>3 DEF AbstractQueue

(* A step that moves neither end of the window and no item in it leaves the  *)
(* abstract deque as it is.                                                  *)
LEMMA QueueKept ==
    ASSUME IInv, End' = End, bottom' = bottom, \A i \in bottom .. End - 1 : Live(i)' = Live(i)
    PROVE  AbstractQueue' = AbstractQueue
<1>1. \A k \in 1 .. End - bottom : bottom + k - 1 \in bottom .. End - 1
  BY WindowFacts
<1>2. QED
  BY <1>1 DEF AbstractQueue

(* Nothing happens to the abstract deque while a steal is under way ...      *)
LEMMA StealMaps ==
    ASSUME IInv, IInv', NEW w \in Thieves, deque_steal(w)
    PROVE  [Atomic!Next]_Atomic!vars
<1>1. CASE StealLoad(w) \/ StealTop(w) \/ StealSlots(w) \/ StealItem(w) \/ (StealCas(w) /\ bottom # tb[w])
  <2>1. UNCHANGED <<top, bottom, buf, capacity, slots, opc, oitem, fresh, ran>>
    BY <1>1, Zenon DEF StealLoad, StealTop, StealSlots, StealItem, StealCas, bufVars, ownerVars
  <2>2. UNCHANGED <<AbstractFresh, AbstractQueue, AbstractOut>>
    BY <2>1, Zenon DEF AbstractFresh, AbstractQueue, AbstractOut, End, Live
  <2>3. QED
    BY <2>2, Zenon DEF Atomic!vars
(* ... until its compare-and-swap takes the item at `bottom`.                *)
<1>2. CASE StealCas(w) /\ bottom = tb[w]
  <2> DEFINE item == Live(bottom)
  <2>1. bottom < End /\ titem[w] = item
    BY <1>2, Zenon DEF IInv, ThiefInv, StealCas
  <2>2. bottom \in bottom .. End - 1
    BY <2>1, WindowFacts
  <2>3. item \in Items /\ item # NULL
    BY <2>2, Zenon DEF IInv, NoOverwrite
  <2>4. /\ bottom' = bottom + 1 /\ ran' = [ran EXCEPT ![item] = @ + 1]
        /\ UNCHANGED <<top, buf, capacity, slots, opc, oitem, fresh>>
    BY <1>2, <2>1, <2>3 DEF StealCas, Run, bufVars, ownerVars
  <2>5. End' = End /\ \A i : Live(i)' = Live(i)
    BY <2>4 DEF End, Live
  <2>6. AbstractFresh' = AbstractFresh
    BY <2>4, Zenon DEF AbstractFresh
  <2>7. AbstractOut' = AbstractOut \cup {item}
    BY Scalars, <2>3, <2>4 DEF AbstractOut
  <2>8. AbstractQueue # <<>> /\ Head(AbstractQueue) = item
    BY QueueFacts, WindowFacts, <2>1
  <2>9. AbstractQueue' = Tail(AbstractQueue)
    <3>1. Tail(AbstractQueue) = [k \in 1 .. End - bottom - 1 |-> AbstractQueue[k + 1]]
      BY QueueFacts, AppendTail, <2>3, <2>8
    <3>2. \A k \in 1 .. End - bottom - 1 : AbstractQueue[k + 1] = Live(bottom + 1 + k - 1)
      <4> SUFFICES ASSUME NEW k \in 1 .. End - bottom - 1
                   PROVE  AbstractQueue[k + 1] = Live(bottom + 1 + k - 1)
        OBVIOUS
      <4>1. k + 1 \in 1 .. End - bottom /\ bottom + (k + 1) - 1 = bottom + 1 + k - 1
        BY WindowFacts
      <4>2. QED
        BY <4>1, QueueFacts
    <3>3. AbstractQueue' = [k \in 1 .. End - bottom - 1 |-> Live(bottom + 1 + k - 1)]
      BY <2>4, <2>5, WindowFacts DEF AbstractQueue
    <3>4. QED
      BY <3>1, <3>2, <3>3
  <2>10. Atomic!Steal
    BY <2>6, <2>7, <2>8, <2>9 DEF Atomic!Steal
  <2>11. QED
    BY <2>10 DEF Atomic!Next
<1>3. QED
  BY <1>1, <1>2 DEF deque_steal, StealCas

(* A push is complete when `top` is published.                               *)
LEMMA PushMaps ==
    ASSUME IInv, IInv', deque_push
    PROVE  [Atomic!Next]_Atomic!vars
<1>1. CASE PushLoad
  <2> PICK i \in fresh : fresh' = fresh \ {i} /\ oitem' = i
    BY <1>1, Zenon DEF PushLoad
  <2>1. /\ opc = "idle" /\ opc' = "pushed" /\ UNCHANGED <<top, bottom, buf, capacity, slots, ran>>
    BY <1>1 DEF PushLoad, bufVars
  <2>2. UNCHANGED <<AbstractFresh, AbstractQueue, AbstractOut>>
    BY <2>1 DEF AbstractFresh, AbstractQueue, AbstractOut, End, Live
  <2>3. QED
    BY <2>2 DEF Atomic!vars
<1>2. CASE PushGrow \/ PushStore
  <2>1. KeepsWindow
    BY <1>2, PushGrowStep, PushStoreStep, Zenon
  <2>2. /\ opc \in {"pushed", "store"} /\ opc' \in {"store", "publish"}
        /\ UNCHANGED <<bottom, fresh, oitem, ran>>
    BY <1>2 DEF PushGrow, PushStore
  <2>3. AbstractQueue' = AbstractQueue
    BY <2>1, QueueKept, Zenon DEF KeepsWindow
  <2>4. UNCHANGED <<AbstractFresh, AbstractOut>>
    BY <2>2 DEF AbstractFresh, AbstractOut
  <2>5. QED
    BY <2>3, <2>4 DEF Atomic!vars
<1>3. CASE PushPublish
  <2>1. /\ End = top /\ End' = top + 1 /\ ot = top /\ bottom' = bottom
        /\ opc = "publish" /\ opc' = "idle"
        /\ UNCHANGED <<buf, capacity, slots, fresh, ran>> /\ \A i : Live(i)' = Live(i)
    <3>1. /\ opc = "publish" /\ opc' = "idle" /\ top' = ot + 1 /\ bottom' = bottom
          /\ UNCHANGED <<buf, capacity, slots, fresh, ran>>
      BY <1>3 DEF PushPublish, bufVars
    <3>2. End = top /\ End' = top + 1 /\ ot = top
      BY <3>1, OwnerOf, Zenon DEF OwnerInv, End
    <3>3. QED
      BY <3>1, <3>2, LiveKept
  <2>2. oitem \in Items /\ oitem \notin fresh /\ Live(top) = oitem
    BY <2>1, ZenonT(30) DEF IInv, OwnerInv
  <2>3. oitem \in AbstractFresh /\ AbstractFresh' = AbstractFresh \ {oitem}
    BY <2>1, <2>2 DEF AbstractFresh
  <2>4. AbstractOut' = AbstractOut
    BY <2>1, Zenon DEF AbstractOut
  <2>5. AbstractQueue' = Append(AbstractQueue, oitem)
    <3>1. Append(AbstractQueue, oitem) =
            [k \in 1 .. End - bottom + 1 |-> IF k = End - bottom + 1 THEN oitem ELSE AbstractQueue[k]]
      BY QueueFacts, AppendTail, <2>2
    <3>2. \A k \in 1 .. End - bottom + 1 :
            Live(bottom + k - 1) = IF k = End - bottom + 1 THEN oitem ELSE AbstractQueue[k]
      <4> SUFFICES ASSUME NEW k \in 1 .. End - bottom + 1
                   PROVE  Live(bottom + k - 1) = IF k = End - bottom + 1 THEN oitem ELSE AbstractQueue[k]
        BY Zenon
      <4>1. CASE k = End - bottom + 1
        <5>1. bottom + k - 1 = top
          BY <4>1, <2>1, WindowFacts
        <5>2. QED
          BY <4>1, <5>1, <2>2
      <4>2. CASE k # End - bottom + 1
        <5>1. k \in 1 .. End - bottom
          BY <4>2, WindowFacts
        <5>2. QED
          BY <4>2, <5>1, QueueFacts, Zenon
      <4>3. QED
        BY <4>1, <4>2
    <3>3. AbstractQueue' = [k \in 1 .. End - bottom + 1 |-> Live(bottom + k - 1)]
      <4>1. End' - bottom' = End - bottom + 1
        BY <2>1, WindowFacts
      <4>2. QED
        BY <4>1, <2>1 DEF AbstractQueue
    <3>4. QED
      BY <3>1, <3>2, <3>3, Zenon
  <2>6. Atomic!Push
    BY <2>3, <2>4, <2>5 DEF Atomic!Push
  <2>7. QED
    BY <2>6, Zenon DEF Atomic!Next
<1>4. QED
  BY <1>1, <1>2, <1>3 DEF deque_push

(* A pop counts when the owner has taken the last item, with or without a    *)
(* compare-and-swap.                                                         *)
LEMMA PopMaps ==
    ASSUME IInv, IInv', deque_pop
    PROVE  [Atomic!Next]_Atomic!vars
<1>0. top \in Int /\ bottom \in Nat
  BY Scalars
<1>1. CASE PopDecrement \/ (PopLoad /\ ot <= bottom) \/ (PopCas /\ bottom # ob)
  <2>1. /\ opc \in {"idle", "popb", "cas"} /\ opc' \in {"popb", "empty", "cas", "restore"}
        /\ opc' = "restore" => oitem' = NULL
        /\ UNCHANGED <<bottom, buf, capacity, slots, fresh, ran>>
    BY <1>1, Scalars DEF PopDecrement, PopLoad, PopCas, bufVars
  <2>2. End' = End
    BY <1>0, <1>1, Scalars DEF End, PopDecrement, PopLoad, PopCas
  <2>3. UNCHANGED <<AbstractFresh, AbstractQueue, AbstractOut>>
    BY <2>1, <2>2 DEF AbstractFresh, AbstractQueue, AbstractOut, Live
  <2>4. QED
    BY <2>3 DEF Atomic!vars
<1>2. CASE PopEmpty \/ PopRestore
  <2>1. /\ opc \in {"empty", "restore"} /\ opc' = "idle" /\ End' = End
        /\ UNCHANGED <<bottom, buf, capacity, slots, fresh>>
    BY <1>0, <1>2, ZenonT(30) DEF PopEmpty, PopRestore, IInv, OwnerInv, End, bufVars
  <2>2. AbstractFresh' = AbstractFresh /\ AbstractQueue' = AbstractQueue
    BY <2>1, Zenon DEF AbstractFresh, AbstractQueue, Live
  <2>3. AbstractOut' = AbstractOut
    <3>1. CASE PopEmpty
      BY <3>1 DEF PopEmpty, AbstractOut
    <3>2. CASE PopRestore
      BY <3>2, Scalars DEF PopRestore, Run, AbstractOut
    <3>3. QED
      BY <1>2, <3>1, <3>2
  <2>4. QED
    BY <2>2, <2>3 DEF Atomic!vars
<1>3. CASE (PopLoad /\ ot > bottom) \/ (PopCas /\ bottom = ob)
  <2> DEFINE item == Live(End - 1)
  <2>1. /\ End = top + 1 /\ bottom < End /\ End - 1 \in bottom .. End - 1
        /\ UNCHANGED <<buf, capacity, slots, fresh>>
        /\ opc \in {"popb", "cas"} /\ opc' \in {"idle", "restore"}
        /\ \A i : Live(i)' = Live(i)
    <3>1. /\ UNCHANGED <<buf, capacity, slots, fresh>>
          /\ \/ opc = "popb" /\ opc' = "idle" /\ ot > bottom
             \/ opc = "cas" /\ opc' = "restore" /\ bottom = ob
      BY <1>0, <1>3, Scalars DEF PopLoad, PopCas, bufVars
    <3>2. ot = top /\ End = top + 1 /\ bottom <= top
      BY <1>0, <3>1, OwnerOf DEF OwnerInv, End
    <3>3. bottom < End /\ End - 1 \in bottom .. End - 1
      BY <1>0, <3>2
    <3>4. QED
      BY <3>1, <3>2, <3>3, LiveKept
  <2>2. item \in Items /\ item # NULL
    BY <2>1, Zenon DEF IInv, NoOverwrite
  <2>3. AbstractFresh' = AbstractFresh
    BY <2>1 DEF AbstractFresh
  <2>4. AbstractOut' = AbstractOut \cup {item}
    <3>1. CASE PopLoad /\ ot > bottom
      <4>1. ran' = [ran EXCEPT ![item] = @ + 1] /\ opc = "popb" /\ opc' = "idle"
        BY <1>0, <2>1, <3>1, OwnerOf DEF PopLoad, Run, OwnerInv
      <4>2. QED
        BY Scalars, <2>2, <4>1 DEF AbstractOut
    <3>2. CASE PopCas /\ bottom = ob
      <4>1. ran' = ran /\ oitem' = item /\ opc = "cas" /\ opc' = "restore"
        BY <1>0, <2>1, <3>2, OwnerOf DEF PopCas, OwnerInv
      <4>2. QED
        BY <2>2, <4>1 DEF AbstractOut
    <3>3. QED
      BY <1>3, <3>1, <3>2
  <2>5. End' - bottom' = End - bottom - 1 /\ (bottom' = bottom \/ End = bottom + 1)
    <3>1. CASE PopLoad /\ ot > bottom
      <4>1. opc' = "idle" /\ top' = top /\ bottom' = bottom
        BY <3>1, Scalars DEF PopLoad
      <4>2. End' = top
        BY <4>1 DEF End
      <4>3. QED
        BY <1>0, <2>1, <4>1, <4>2
    <3>2. CASE PopCas /\ bottom = ob
      <4>1. opc' = "restore" /\ top' = top /\ bottom' = bottom + 1 /\ bottom = top
        BY <3>2, Zenon DEF PopCas, IInv, OwnerInv
      <4>2. End' = top + 1
        BY <4>1 DEF End
      <4>3. QED
        BY <1>0, <2>1, <4>1, <4>2
    <3>3. QED
      BY <1>3, <3>1, <3>2
  <2>6. AbstractQueue # <<>> /\ AbstractQueue[Len(AbstractQueue)] = item
    <3>1. End - bottom \in 1 .. End - bottom /\ bottom + (End - bottom) - 1 = End - 1
      BY WindowFacts, <2>1
    <3>2. QED
      BY QueueFacts, <3>1
  <2>7. AbstractQueue' = SubSeq(AbstractQueue, 1, Len(AbstractQueue) - 1)
    <3>1. SubSeq(AbstractQueue, 1, Len(AbstractQueue) - 1) = [k \in 1 .. End - bottom - 1 |-> AbstractQueue[k]]
      BY QueueFacts, AppendTail, <2>2, <2>6
    <3>2. \A k \in 1 .. End - bottom - 1 : AbstractQueue[k] = Live(bottom + k - 1)
      BY QueueFacts, WindowFacts
    <3>3. AbstractQueue' = [k \in 1 .. End - bottom - 1 |-> Live(bottom + k - 1)]
      <4>1. CASE bottom' = bottom
        BY <2>1, <2>5, <4>1 DEF AbstractQueue
      <4>2. CASE End = bottom + 1
        <5>1. End' - bottom' = 0 /\ End - bottom - 1 = 0
          BY <2>5, <4>2, WindowFacts
        <5>2. QED
          BY <5>1 DEF AbstractQueue
      <4>3. QED
        BY <2>5, <4>1, <4>2
    <3>4. QED
      BY <3>1, <3>2, <3>3
  <2>8. Atomic!Pop
    BY <2>3, <2>4, <2>6, <2>7 DEF Atomic!Pop
  <2>9. QED
    BY <2>8 DEF Atomic!Next
<1>4. QED
  BY <1>0, <1>1, <1>2, <1>3, Scalars DEF deque_pop, PopLoad

(* The lock-free deque is a deque with atomic operations: each push, pop     *)
(* and steal takes effect in one step, the others are invisible.             *)
THEOREM Implements ==
    ASSUME SingleLoad = TRUE
    PROVE  Spec => ImplementsAtomicDeque
<1>1. Init => Atomic!Init
  BY DEF Init, Atomic!Init, AbstractFresh, AbstractQueue, AbstractOut, End
<1>2. ASSUME IInv, IInv', [Next]_vars PROVE [Atomic!Next]_Atomic!vars
  <2>1. CASE UNCHANGED vars
    BY <2>1 DEF vars, Atomic!vars, AbstractFresh, AbstractQueue, AbstractOut, End, Live
  <2>2. QED
    BY <1>2, <2>1, PushMaps, PopMaps, StealMaps DEF Next
<1>3. QED
  BY <1>1, <1>2, InitIInv, NextIInv, PTL DEF Spec, ImplementsAtomicDeque, Atomic!Spec
=============================================================================
