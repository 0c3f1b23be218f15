------------------------------- MODULE Locks -------------------------------
(***************************************************************************)
(* The lock layer (include/op_lock.h, src/lock_debug.c): mutexes, reader-writer    *)
(* locks over Windows SRWLOCK or pthreads, and the debug build's macros, which     *)
(* check the lock order, record the holder, report a slow acquisition, and abort    *)
(* when an acquisition times out. Spinlocks behave as the mutexes do.               *)
(*                                                                          *)
(* The threads lock and unlock as they please. A thread never locks what it holds.     *)
(***************************************************************************)
EXTENDS Integers, FiniteSets, Sequences, SequencesExt, FiniteSetsExt

CONSTANTS
    Threads,
    Mutexes, RwLocks,  \* the locks
    Level,             \* [Mutexes \cup RwLocks -> Nat]
    Style,             \* the macros used: "ordered", "tracked" or "deadlock"
    Windows,           \* does unlock choose by the exclusive flag?
    Fatal,             \* op_lock_ordering_fatal
    MaxHeld,           \* OP_LOCK_MAX_HELD
    MaxNest            \* bound: locks a thread holds at once

Objects == Mutexes \cup RwLocks

(* What the constants have to satisfy.                                      *)
LocksAssumption ==
    /\ Level \in [Objects -> Nat] /\ Style \in {"ordered", "tracked", "deadlock"}
    /\ Windows \in BOOLEAN /\ Fatal \in BOOLEAN /\ MaxHeld \in Nat /\ MaxNest \in Nat
    /\ Mutexes \cap RwLocks = {}

VARIABLES
    lock,       \* lock[l]: the system lock: [x: exclusive owners, s: shared owners]
    exclusive,  \* exclusive[l]: the flag of the Windows rwlock
    holder,     \* holder[l]: the thread the companion op_lock_holder_t names, or None
    levels,     \* levels[t]: _held_levels of thread t
    pc,         \* pc[t]: [at, l, mode, by]
    reports,    \* ordering violations reported, as <<thread, lock>>
    named,      \* slow acquisitions reported so far name their holder
    dead        \* has the process aborted?

vars == <<lock, exclusive, holder, levels, pc, reports, named, dead>>

None == "none"
Modes(l) == IF l \in Mutexes THEN {"x"} ELSE {"x", "s"}
Idle == [at |-> "idle", l |-> None, mode |-> None, by |-> None]
OwnersOf(l) == lock[l].x \cup lock[l].s
Owned(t) == {l \in Objects : t \in OwnersOf(l)}
ModeOf(t, l) == IF t \in lock[l].x THEN "x" ELSE "s"
Grantable(l, mode) == lock[l].x = {} /\ (mode = "x" => lock[l].s = {})
_op_lock_holder_set(l, t) == holder' = [holder EXCEPT ![l] = t]
_op_lock_holder_clear(l) == holder' = [holder EXCEPT ![l] = None]
Go(t, at) == pc' = [pc EXCEPT ![t].at = at]

(* Before an acquisition the ordered macros compare the level with those recorded.       *)
_op_lock_check_order(t, l) ==
    IF \E i \in DOMAIN levels[t] : Level[l] <= levels[t][i]
    THEN reports' = reports \cup {<<t, l>>} /\ dead' = Fatal
    ELSE UNCHANGED <<reports, dead>>

OP_LOCK(t, l, mode) ==
    /\ ~dead /\ pc[t] = Idle /\ l \notin Owned(t) /\ Cardinality(Owned(t)) < MaxNest
    /\ IF Style = "ordered" THEN _op_lock_check_order(t, l) ELSE UNCHANGED <<reports, dead>>
    /\ pc' = [pc EXCEPT ![t] = [at |-> "wait", l |-> l, mode |-> mode, by |-> None]]
    /\ UNCHANGED <<lock, exclusive, holder, levels, named>>

(* The wait turns out slow while another thread is inside.                              *)
Contended(t) ==
    LET l == pc[t].l
        owners == IF lock[l].x # {} THEN lock[l].x ELSE lock[l].s
    IN  /\ ~dead /\ pc[t].at = "wait" /\ pc[t].by = None /\ ~Grantable(l, pc[t].mode)
        /\ pc' = [pc EXCEPT ![t].by = CHOOSE o \in owners : TRUE]
        /\ UNCHANGED <<lock, exclusive, holder, levels, reports, named, dead>>

(* EnterCriticalSection, AcquireSRWLock*, pthread_*_lock grant the lock.                 *)
Acquire(t) ==
    LET p == pc[t]
    IN  /\ ~dead /\ p.at = "wait" /\ Grantable(p.l, p.mode)
        /\ lock' = [lock EXCEPT ![p.l] = IF p.mode = "x" THEN [@ EXCEPT !.x = {t}]
                                                         ELSE [@ EXCEPT !.s = @ \cup {t}]]
        /\ Go(t, "flag")
        /\ UNCHANGED <<exclusive, holder, levels, reports, named, dead>>

(* A bug for comparison: a reader leaves the flag as the last writer set it.             *)
RdlockKeepsFlag(t) ==
    LET p == pc[t]
    IN  /\ ~dead /\ p.at = "flag"
        /\ exclusive' = IF p.mode = "x" THEN [exclusive EXCEPT ![p.l] = TRUE] ELSE exclusive
        /\ Go(t, "report")
        /\ UNCHANGED <<lock, holder, levels, reports, named, dead>>

op_rwlock_locked(t) ==
    LET p == pc[t]
    IN  /\ ~dead /\ p.at = "flag"
        /\ exclusive' = IF p.l \in RwLocks THEN [exclusive EXCEPT ![p.l] = (p.mode = "x")] ELSE exclusive
        /\ Go(t, "report")
        /\ UNCHANGED <<lock, holder, levels, reports, named, dead>>

(* The tail of the macro: the report of a slow wait (which names the holder recorded          *)
(* now), then the holder, or the level pushed. Read locks record no holder. The           *)
(* deadlock macro reports nothing.                                                 *)
_op_lock_report_slow_held(p) == p.by # None => holder[p.l] = p.by

_op_lock_push(t, l) ==
    levels' = IF Len(levels[t]) < MaxHeld THEN [levels EXCEPT ![t] = Append(@, Level[l])] ELSE levels

Locked(t) ==
    LET p == pc[t]
    IN  /\ ~dead /\ p.at = "report"
        /\ named' = (named /\ (Style = "tracked" => _op_lock_report_slow_held(p)))
        /\ IF Style # "ordered" /\ p.mode = "x" THEN _op_lock_holder_set(p.l, t) ELSE UNCHANGED holder
        /\ IF Style = "ordered" THEN _op_lock_push(t, p.l) ELSE UNCHANGED levels
        /\ pc' = [pc EXCEPT ![t] = Idle]
        /\ UNCHANGED <<lock, exclusive, reports, dead>>

(* OP_MUTEX_LOCK_DEADLOCK: pthread_mutex_timedlock timed out.                            *)
_op_lock_deadlock_die(t) ==
    /\ ~dead /\ Style = "deadlock" /\ pc[t].at = "wait" /\ pc[t].l \in Mutexes
    /\ ~Grantable(pc[t].l, "x")
    /\ dead' = TRUE
    /\ UNCHANGED <<lock, exclusive, holder, levels, pc, reports, named>>

(* Unlocking: the level is popped (the last one takes its place) or the holder cleared,         *)
(* and the Windows rwlock reads its flag to choose how to release.                        *)
_op_lock_pop(t, l) ==
    LET at == {i \in DOMAIN levels[t] : levels[t][i] = Level[l]}
        i == Max(at)
    IN  levels' = IF at = {} THEN levels
                  ELSE [levels EXCEPT ![t] = Front([@ EXCEPT ![i] = Last(levels[t])])]

OP_UNLOCK(t, l) ==
    /\ ~dead /\ pc[t] = Idle /\ l \in Owned(t)
    /\ IF Style = "ordered" THEN _op_lock_pop(t, l) /\ UNCHANGED holder
       ELSE _op_lock_holder_clear(l) /\ UNCHANGED levels
    /\ pc' = [pc EXCEPT ![t] = [at |-> "unlock", l |-> l, by |-> None, mode |->
                 IF ~Windows \/ l \in Mutexes THEN ModeOf(t, l) ELSE IF exclusive[l] THEN "x" ELSE "s"]]
    /\ UNCHANGED <<lock, exclusive, reports, named, dead>>

op_rwlock_unlock(t) ==
    LET p == pc[t]
    IN  /\ ~dead /\ p.at = "unlock"
        /\ lock' = [lock EXCEPT ![p.l] = [x |-> @.x \ {t}, s |-> @.s \ {t}]]
        /\ pc' = [pc EXCEPT ![t] = Idle]
        /\ UNCHANGED <<exclusive, holder, levels, reports, named, dead>>

-----------------------------------------------------------------------------
Init ==
    /\ lock = [l \in Objects |-> [x |-> {}, s |-> {}]]
    /\ exclusive = [l \in Objects |-> FALSE]
    /\ holder = [l \in Objects |-> None]
    /\ levels = [t \in Threads |-> <<>>]
    /\ pc = [t \in Threads |-> Idle]
    /\ reports = {} /\ named = TRUE /\ dead = FALSE

Next == \E t \in Threads :
    \/ \E l \in Objects : (\E mode \in Modes(l) : OP_LOCK(t, l, mode)) \/ OP_UNLOCK(t, l)
    \/ Contended(t) \/ Acquire(t) \/ op_rwlock_locked(t) \/ Locked(t)
    \/ op_rwlock_unlock(t) \/ _op_lock_deadlock_die(t)

Spec == Init /\ [][Next]_vars

(* A thread that runs goes on, and a timed wait ends. Which waiter a released lock goes to      *)
(* is left to the system, and nobody has to release a lock.                             *)
FairSpec == Spec /\ \A t \in Threads :
    /\ WF_vars(op_rwlock_locked(t) \/ Locked(t) \/ op_rwlock_unlock(t))
    /\ WF_vars(Acquire(t) \/ _op_lock_deadlock_die(t))

-----------------------------------------------------------------------------
(* The state is well formed.                                                  *)
TypeOK ==
    /\ \A l \in Objects : OwnersOf(l) \subseteq Threads /\ exclusive[l] \in BOOLEAN
    /\ \A t \in Threads : Len(levels[t]) <= MaxHeld
    /\ \A t \in Threads : pc[t].at \in {"idle", "wait", "flag", "report", "unlock"}

(* op_rwlock_unlock releases in the mode the thread holds the lock in, though on Windows          *)
(* it learns the mode from a flag that readers and writers write without a lock; and a lock          *)
(* held exclusively is held by one thread.                                                  *)
UnlockMatches ==
    /\ \A t \in Threads : pc[t].at = "unlock" => pc[t].mode = ModeOf(t, pc[t].l)
    /\ \A l \in Objects : lock[l].x # {} => lock[l].s = {} /\ Cardinality(lock[l].x) = 1

Waiting(S) == \A t \in S : pc[t].at = "wait" /\ \E o \in S \ {t} : o \in OwnersOf(pc[t].l)

(* Threads that wait for each other in a cycle of ordered locks were reported first                  *)
(* (_op_lock_check_order), and never get there when op_lock_ordering_fatal is set.                    *)
DeadlockReported ==
    Style = "ordered" =>
        /\ \A S \in SUBSET Threads : S # {} /\ Waiting(S) => reports # {}
        /\ Fatal => reports = {} \/ dead

(* A holder record names a thread that is inside the lock, and a thread that has finished         *)
(* locking exclusively is the one recorded: what _op_lock_deadlock_die prints is true.             *)
HolderTrue ==
    Style # "ordered" => \A l \in Objects :
        /\ holder[l] # None => lock[l].x = {holder[l]}
        /\ \A t \in lock[l].x : pc[t] = Idle => holder[l] = t

(* The report of a slow tracked acquisition names the thread that was waited for                     *)
(* (_op_lock_report_slow_held).                                                             *)
SlowNamesHolder == named

(* With OP_MUTEX_LOCK_DEADLOCK no wait for a mutex is for ever: it is granted or the process            *)
(* aborts.                                                                             *)
WaitEnds == \A t \in Threads : (pc[t].at = "wait") ~> (pc[t].at # "wait" \/ dead)
=============================================================================
