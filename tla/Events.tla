------------------------------- MODULE Events -------------------------------
(***************************************************************************)
(* The event scheduler of src/event.c: a binary min-heap of ev_entry by     *)
(* `when`, run either by op_event_run from the main loop (op_lib_loop) or,  *)
(* when the I/O backend has native timers, by op_run_one_event: from each    *)
(* entry's timerfd (op_read_timerfd of src/epoll.c), or from a notification   *)
(* that carries the entry's address (the signals of src/epoll.c and          *)
(* src/sigio.c, the timers of src/kqueue.c and src/ports.c).                *)
(*                                                                          *)
(* Callbacks are user code: they may add, delete and update entries and     *)
(* purge modules.  Times are relative to op_current_time(), which moves     *)
(* only in op_select; op_set_back_events therefore changes no relative time. *)
(***************************************************************************)
EXTENDS Integers, Sequences, FiniteSets

CONSTANTS
    Entries,     \* the ev_entry objects op_malloc can return
    Owners,      \* modules; an entry's owner stands for its (func, arg) too
    Core,        \* the owner of entries that belong to no module
    None,
    Delays,      \* the delays of op_event_add and op_event_addonce
    Ish,         \* the arguments of op_event_addish
    Updates,     \* the frequencies given to op_event_update
    SelfPurge,   \* may a callback purge the module its own entry belongs to?
    Native,      \* the timers of the backend: "none", "timerfd" or "notified"
    SchedFails,  \* may the backend fail to create a timer, or to read it?
    Tidy,        \* TRUE: no module is purged while a notification of its entries waits
    MaxLate,     \* bound: how long handlers and callbacks take between two op_set_time
    MaxDelay,    \* bound on every deadline
    Keys         \* the keys of HeapNext

(* What the constants have to satisfy.                                      *)
EventsAssumption ==
    /\ Core \in Owners /\ None \notin Entries
    /\ Delays \subseteq Nat \ {0} /\ Ish \subseteq Nat /\ Updates \subseteq Int
    /\ {SelfPurge, SchedFails, Tidy} \subseteq BOOLEAN
    /\ Native \in {"none", "timerfd", "notified"}
    /\ MaxLate \in Nat /\ MaxDelay \in Nat /\ Keys \subseteq Int

VARIABLES
    heap, hidx,  \* heap[] as a sequence, and ev->hidx (from 1)
    when, freq,  \* ev->when - op_current_time(), ev->frequency
    dead, owner,
    alloc,       \* entries not freed
    timer,       \* the timer of ev->comm_ptr: <<>>, <<remaining, interval>>, or <<0>>,
                 \* one that has run out and has no interval
    fired,       \* entries a notification waits for, in the kernel or in a batch read
    pc,          \* "select", "run" (op_event_run's loop, or timers), "callback"
    cur          \* the entry whose callback runs

attrVars == <<freq, dead, owner>>
vars == <<heap, hidx, when, freq, dead, owner, alloc, timer, fired, pc, cur>>

Init ==
    /\ heap = <<>> /\ hidx = [e \in Entries |-> 1]
    /\ when = [e \in Entries |-> 0] /\ freq = [e \in Entries |-> 0]
    /\ dead = [e \in Entries |-> FALSE] /\ owner = [e \in Entries |-> Core]
    /\ alloc = {}
    /\ timer = [e \in Entries |-> <<>>] /\ fired = {}
    /\ pc = "select" /\ cur = None

-----------------------------------------------------------------------------
(* The heap primitives, on a pair H of the array and the hidx fields, with   *)
(* the keys w.                                                              *)

HeapNow == [arr |-> heap, ix |-> hidx]

heap_set(H, i, e) == [arr |-> [H.arr EXCEPT ![i] = e], ix |-> [H.ix EXCEPT ![e] = i]]

Swap(H, i, j) == heap_set(heap_set(H, i, H.arr[j]), j, H.arr[i])

RECURSIVE heap_sift_up(_, _, _)
heap_sift_up(H, i, w) ==
    LET parent == i \div 2
    IN  IF i = 1 \/ w[H.arr[parent]] <= w[H.arr[i]] THEN H
        ELSE heap_sift_up(Swap(H, parent, i), parent, w)

RECURSIVE heap_sift_down(_, _, _)
heap_sift_down(H, i, w) ==
    LET key(j) == w[H.arr[j]]
        left == IF 2 * i <= Len(H.arr) /\ key(2 * i) < key(i) THEN 2 * i ELSE i
        min == IF 2 * i + 1 <= Len(H.arr) /\ key(2 * i + 1) < key(left) THEN 2 * i + 1 ELSE left
    IN  IF min = i THEN H ELSE heap_sift_down(Swap(H, min, i), min, w)

heap_push(H, e, w) ==
    LET n == Len(H.arr) + 1
    IN  heap_sift_up([arr |-> Append(H.arr, e), ix |-> [H.ix EXCEPT ![e] = n]], n, w)

(* A bug for comparison: the moved entry is only sifted down.              *)
RemoveNoSiftUp(H, i, w) ==
    LET n == Len(H.arr)
        last == H.arr[n]
        cut == [H EXCEPT !.arr = SubSeq(@, 1, n - 1)]
    IN  IF i = n THEN cut ELSE heap_sift_down(heap_set(cut, i, last), i, w)

heap_remove(H, i, w) ==
    LET n == Len(H.arr)
        last == H.arr[n]
        cut == [H EXCEPT !.arr = SubSeq(@, 1, n - 1)]
        up == heap_sift_up(heap_set(cut, i, last), i, w)
    IN  IF i = n THEN cut ELSE heap_sift_down(up, up.ix[last], w)

(* Both directions from where e is now.                                     *)
Resift(H, e, w) ==
    LET up == heap_sift_up(H, H.ix[e], w) IN heap_sift_down(up, up.ix[e], w)

SetHeap(H) == heap' = H.arr /\ hidx' = H.ix

(* free(): what the entries held is forgotten, their timers are closed.      *)
Cleared(f, gone, zero) == [e \in Entries |-> IF e \in gone THEN zero ELSE f[e]]

Free(gone, H) ==
    /\ heap' = H.arr /\ hidx' = Cleared(H.ix, gone, 1)
    /\ alloc' = alloc \ gone
    /\ when' = Cleared(when, gone, 0) /\ freq' = Cleared(freq, gone, 0)
    /\ dead' = Cleared(dead, gone, FALSE) /\ owner' = Cleared(owner, gone, Core)
    /\ timer' = Cleared(timer, gone, <<>>)

-----------------------------------------------------------------------------
(* op_event_frequency: a negative frequency is spread over two thirds to     *)
(* four thirds of it.                                                       *)
op_event_frequency(f) ==
    IF f >= 0 THEN {f}
    ELSE LET third == (2 * (0 - f)) \div 3 IN third .. (IF third = 0 THEN 0 ELSE 2 * third - 1)

(* op_io_sched_event: what it may leave in ev->comm_ptr.  Nobody looks at     *)
(* what it returns.                                                         *)
Scheduled(delay, f) ==
    IF Native = "none" THEN {<<>>}
    ELSE {<<delay, IF f = 0 THEN 0 ELSE delay>>} \cup (IF SchedFails THEN {<<>>} ELSE {})

-----------------------------------------------------------------------------
(* User code: between the calls of op_select, or in a callback.              *)

UserCode == pc \in {"select", "callback"}

(* op_event_add_common                                                      *)
Add(delay, f) ==
    /\ UserCode
    /\ alloc # Entries
    /\ \E m \in Owners : LET e == CHOOSE x \in Entries : x \notin alloc IN
          /\ alloc' = alloc \cup {e}
          /\ when' = [when EXCEPT ![e] = delay]
          /\ freq' = [freq EXCEPT ![e] = f]
          /\ dead' = [dead EXCEPT ![e] = FALSE]
          /\ owner' = [owner EXCEPT ![e] = m]
          /\ \E tm \in Scheduled(delay, f) : timer' = [timer EXCEPT ![e] = tm]
          /\ SetHeap(heap_push(HeapNow, e, when'))
    /\ UNCHANGED <<fired, pc, cur>>

op_event_add == \E d \in Delays : Add(d, d)
op_event_addonce == \E d \in Delays : Add(d, 0)
op_event_addish ==
    \E d \in Ish : LET f == IF d >= 3 THEN 0 - d ELSE d
                   IN  \E delay \in op_event_frequency(f) : Add(delay, f)


(* op_event_delete: mark it, and stop its timer; it stays in the heap, and     *)
(* a notification that has been sent stays on its way.                       *)
Delete(e) ==
    /\ dead' = [dead EXCEPT ![e] = TRUE]
    /\ timer' = [timer EXCEPT ![e] = <<>>]
    /\ UNCHANGED <<heap, hidx, when, freq, owner, alloc, fired, pc, cur>>

op_event_delete == UserCode /\ \E e \in alloc : ~dead[e] /\ Delete(e)

(* op_event_find_delete: the first match in the array, dead or not.          *)
op_event_find_delete ==
    /\ UserCode
    /\ \E i \in DOMAIN heap :
          /\ \A j \in 1 .. i - 1 : owner[heap[j]] # owner[heap[i]]
          /\ Delete(heap[i])

op_event_update ==
    /\ UserCode
    /\ \E e \in alloc, f \in Updates : \E delay \in op_event_frequency(f) :
          /\ ~dead[e]
          /\ freq' = [freq EXCEPT ![e] = f]
          /\ when' = [when EXCEPT ![e] = delay]
          /\ SetHeap(Resift(HeapNow, e, when'))
    /\ UNCHANGED <<dead, owner, alloc, timer, fired, pc, cur>>

(* op_event_purge_module: drop the module's entries, keep the others in      *)
(* order, and rebuild the heap from the last parent down to the root.        *)
Kept(m) == SelectSeq(heap, LAMBDA e : owner[e] # m)

RECURSIVE Heapify(_, _, _)
Heapify(H, j, w) == IF j = 0 THEN H ELSE Heapify(heap_sift_down(H, j, w), j - 1, w)

Reindexed(arr) ==
    [e \in Entries |-> IF \E i \in DOMAIN arr : arr[i] = e
                       THEN CHOOSE i \in DOMAIN arr : arr[i] = e ELSE hidx[e]]

op_event_purge_module(m) ==
    LET kept == Kept(m)
        gone == {e \in alloc : owner[e] = m}
    IN  /\ UserCode /\ m # Core
        /\ Tidy => gone \cap fired = {}
        /\ pc = "callback" /\ owner[cur] = m => SelfPurge
        /\ Free(gone, Heapify([arr |-> kept, ix |-> Reindexed(kept)], Len(kept) \div 2, when))
        /\ UNCHANGED <<fired, pc, cur>>

-----------------------------------------------------------------------------
(* op_select: it sleeps, time passes (op_set_time), and the loop then calls    *)
(* op_event_run, or the backend dispatches the timers that are due.          *)

(* The timeout of op_lib_loop (with delay 0) and op_lib_loop_tick: until the  *)
(* root of the heap is due.  With an empty heap nothing depends on it.        *)
wait_ms == IF heap = <<>> \/ when[heap[1]] < 0 THEN 0 ELSE when[heap[1]]

(* The time from one op_set_time to the next.                                *)
Elapsed == IF Native = "none" THEN 0 .. wait_ms + MaxLate ELSE {0, 1}

(* What becomes of a timer that expires.                                    *)
Again(tm) == IF tm[2] = 0 THEN <<0>> ELSE <<tm[2], tm[2]>>

(* With native timers op_event_update moves `when` and not the timer.          *)
Clip(t) == IF Native # "none" /\ t < 0 - MaxLate THEN 0 - MaxLate ELSE t

Ticks(e) == Len(timer[e]) = 2
Expired(d) == {e \in Entries : Native = "notified" /\ Ticks(e) /\ timer[e][1] <= d}

Later(e, d) ==
    IF ~Ticks(e) THEN timer[e]
    ELSE IF e \notin Expired(d) THEN <<Clip(timer[e][1] - d), timer[e][2]>>
    ELSE Again(timer[e])

Select(d) ==
    /\ pc = "select"
    /\ pc' = "run"
    /\ when' = [e \in Entries |-> IF e \in alloc THEN Clip(when[e] - d) ELSE when[e]]
    /\ timer' = [e \in Entries |-> Later(e, d)]
    /\ fired' = fired \cup Expired(d)
    /\ UNCHANGED <<heap, hidx, attrVars, alloc, cur>>

(* op_event_run: reap a dead root, run a due root, or stop.                  *)
ReapRoot ==
    /\ pc = "run" /\ Native = "none" /\ heap # <<>> /\ dead[heap[1]]
    /\ Free({heap[1]}, heap_remove(HeapNow, 1, when))
    /\ UNCHANGED <<fired, pc, cur>>

RunRoot ==
    /\ pc = "run" /\ Native = "none" /\ heap # <<>>
    /\ ~dead[heap[1]] /\ when[heap[1]] <= 0
    /\ pc' = "callback" /\ cur' = heap[1]
    /\ UNCHANGED <<heap, hidx, when, attrVars, alloc, timer, fired>>

(* A bug for comparison: the loop stops at a deleted entry.                *)
StopsAtDead ==
    /\ pc = "run" /\ Native = "none"
    /\ heap # <<>> => dead[heap[1]] \/ when[heap[1]] > 0
    /\ pc' = "select"
    /\ UNCHANGED <<heap, hidx, when, attrVars, alloc, timer, fired, cur>>

RunReturns ==
    /\ pc = "run" /\ Native = "none"
    /\ heap # <<>> => ~dead[heap[1]] /\ when[heap[1]] > 0
    /\ pc' = "select"
    /\ UNCHANGED <<heap, hidx, when, attrVars, alloc, timer, fired, cur>>

(* op_read_timerfd: the descriptor of a recurring entry is armed again, that of  *)
(* a one-shot closed, before op_run_one_event; it is closed, too, when it       *)
(* cannot be read, and the entry is run all the same.                        *)
op_read_timerfd(e) ==
    /\ pc = "run" /\ Native = "timerfd"
    /\ Ticks(e) /\ timer[e][1] <= 0
    /\ \E tm \in {IF freq[e] # 0 THEN Again(timer[e]) ELSE <<>>} \cup (IF SchedFails THEN {<<>>} ELSE {}) :
          timer' = [timer EXCEPT ![e] = tm]
    /\ pc' = "callback" /\ cur' = e
    /\ UNCHANGED <<heap, hidx, when, attrVars, alloc, fired>>

(* The next notification, in the order the kernel chose: the signal read from   *)
(* the signalfd, or op_kqueue's, op_ports' or op_sigio's record.  Nothing asks   *)
(* whether the entry has been deleted since.                                 *)
signalfd_handler(e) ==
    /\ pc = "run" /\ e \in fired
    /\ fired' = fired \ {e}
    /\ pc' = "callback" /\ cur' = e
    /\ UNCHANGED <<heap, hidx, when, attrVars, alloc, timer>>

NoTimerDue ==
    /\ pc = "run" /\ Native # "none" /\ fired = {}
    /\ \A e \in Entries : Ticks(e) => timer[e][1] > 0
    /\ pc' = "select"
    /\ UNCHANGED <<heap, hidx, when, attrVars, alloc, timer, fired, cur>>

(* The callback returns, to op_event_run or op_run_one_event: a one-shot or   *)
(* deleted entry is removed where hidx says and freed, another rescheduled.   *)
CallbackReturns ==
    /\ pc = "callback"
    /\ pc' = "run" /\ cur' = None /\ UNCHANGED fired
    /\ IF freq[cur] = 0 \/ dead[cur]
       THEN Free({cur}, heap_remove(HeapNow, hidx[cur], when))
       ELSE /\ \E delay \in op_event_frequency(freq[cur]) :
                  when' = [when EXCEPT ![cur] = delay]
            /\ SetHeap(Resift(HeapNow, cur, when'))
            /\ UNCHANGED <<alloc, timer, attrVars>>

-----------------------------------------------------------------------------
User ==
    \/ op_event_add \/ op_event_addonce \/ op_event_addish
    \/ op_event_delete \/ op_event_find_delete \/ op_event_update
    \/ \E m \in Owners : op_event_purge_module(m)

Loop ==
    \/ \E d \in Elapsed : Select(d)
    \/ ReapRoot \/ RunRoot \/ RunReturns
    \/ \E e \in Entries : op_read_timerfd(e) \/ signalfd_handler(e)
    \/ NoTimerDue
    \/ CallbackReturns

Next == User \/ Loop

(* Time passes from one op_select to the next.                               *)
TimePasses == \E d \in Elapsed \ {0} : Select(d)

Spec == Init /\ [][Next]_vars

(* op_lib_loop goes on for ever, callbacks return, and time passes.          *)
FairSpec == Spec /\ WF_vars(Loop) /\ SF_vars(TimePasses)

-----------------------------------------------------------------------------
(* The heap on its own, deep enough that a removal moves the last entry into   *)
(* another subtree: entries are pushed, removed from anywhere, given new keys   *)
(* and purged, in any order.                                                *)

Push ==
    \E k \in Keys : \E e \in Entries \ alloc :
        /\ \A f \in Entries \ alloc : e <= f
        /\ when' = [when EXCEPT ![e] = k]
        /\ \E m \in Owners : owner' = [owner EXCEPT ![e] = m]
        /\ alloc' = alloc \cup {e}
        /\ SetHeap(heap_push(HeapNow, e, when'))

(* What a freed entry held is forgotten.                                      *)
Remove ==
    \E e \in alloc :
        LET H == heap_remove(HeapNow, hidx[e], when)
        IN  /\ heap' = H.arr /\ hidx' = [H.ix EXCEPT ![e] = 1]
            /\ when' = [when EXCEPT ![e] = 0] /\ owner' = [owner EXCEPT ![e] = Core]
            /\ alloc' = alloc \ {e}

Rekey ==
    \E e \in alloc, k \in Keys :
        /\ when' = [when EXCEPT ![e] = k]
        /\ SetHeap(Resift(HeapNow, e, when'))
        /\ UNCHANGED <<alloc, owner>>

HeapNext ==
    \/ /\ Push \/ Remove \/ Rekey
       /\ UNCHANGED <<freq, dead, timer, fired, pc, cur>>
    \/ \E m \in Owners : op_event_purge_module(m)

-----------------------------------------------------------------------------
(* PROPERTIES                                                               *)

TypeOK ==
    /\ heap \in Seq(Entries) /\ hidx \in [Entries -> 1 .. Cardinality(Entries)]
    /\ when \in [Entries -> (0 - MaxLate) .. MaxDelay] /\ freq \in [Entries -> Int]
    /\ dead \in [Entries -> BOOLEAN] /\ owner \in [Entries -> Owners]
    /\ alloc \subseteq Entries
    /\ fired \subseteq Entries /\ (Native # "notified" => fired = {})
    /\ \A e \in Entries : Ticks(e) => timer[e] \in (Int \X Nat)
    /\ pc \in {"select", "run", "callback"} /\ cur \in Entries \cup {None}

(* "The heap invariant": whatever callbacks and users do, every key is at     *)
(* least its parent's, and every hidx tells where its entry is, so that       *)
(* heap_remove(ev->hidx) removes that entry.                                 *)
HeapSound ==
    \A i \in DOMAIN heap :
        /\ hidx[heap[i]] = i
        /\ i > 1 => when[heap[i \div 2]] <= when[heap[i]]

(* The heap holds exactly the entries that are allocated: none is leaked, none *)
(* is freed and still reachable.                                             *)
HeapHoldsAllocated ==
    /\ alloc = {heap[i] : i \in DOMAIN heap}
    /\ Cardinality(alloc) = Len(heap)

(* An entry is not freed while its callback runs: op_event_run and             *)
(* op_run_one_event read it afterwards.                                      *)
RunningIsAllocated == pc = "callback" => cur \in alloc


(* op_event_run returns with nothing due left in the heap, callbacks that add  *)
(* entries included.                                                        *)
NothingDueLeft ==
    [][pc = "run" /\ pc' = "select" /\ Native = "none"
          => \A e \in alloc : dead[e] \/ when[e] > 0]_vars

(* op_lib_loop does not sleep past the deadline of an entry: when op_event_run  *)
(* begins, none is later than handlers and callbacks have delayed the loop.    *)
WokenInTime ==
    [][pc = "select" /\ pc' = "run" /\ Native = "none"
          => \A e \in alloc : dead[e] \/ when'[e] >= 0 - MaxLate]_vars

(* Every scheduled entry runs, unless it is deleted or purged.               *)
EventuallyRuns ==
    \A e \in Entries :
        (e \in alloc /\ ~dead[e]) ~> (e \notin alloc \/ dead[e] \/ (pc = "callback" /\ cur = e))

(* "Lazy removal: the dead entry will be reaped in op_event_run()."            *)
DeadIsReaped == \A e \in Entries : (e \in alloc /\ dead[e]) ~> (e \notin alloc)
=============================================================================
