---------------------------- MODULE ThreadPool ----------------------------
(***************************************************************************)
(* src/thread_pool.c above the deque: submitters push onto a worker's inbox  *)
(* (a Treiber stack) and wake it through an eventfd unless it is already    *)
(* awake; a worker moves its inbox into its deque, pops from the deque or   *)
(* steals from a peer's, and sleeps in poll() when it finds nothing;        *)
(* op_tpool_shutdown stops, joins and drains.  Spec is the POSIX half of    *)
(* the file, WinSpec the Windows half on the same state.                    *)
(*                                                                          *)
(* A deque is the sequence of its items, `top` last: WorkDeque shows that   *)
(* deque_push, deque_pop and deque_steal behave like its atomic operations  *)
(* (AtomicDeque).  A submitted function may itself submit one more.         *)
(***************************************************************************)
EXTENDS Integers, Sequences, Functions

CONSTANTS
    N,            \* nthreads
    Items,        \* the work items: every submission is another one
    Roots,        \* the items the creating thread submits
    Spawn,        \* [Items -> Items \cup {None}]: what a running item submits
    None,
    StoreBuffer   \* TRUE: a plain store becomes visible to the other threads
                  \* some time after later loads (x86, ARM); FALSE: at once

ASSUME PoolAssumption ==
    /\ N \in Nat \ {0}
    /\ Roots \subseteq Items
    /\ Spawn \in [Items -> Items \cup {None}]
    /\ \A i, j \in Items : Spawn[i] = Spawn[j] /\ i # j => Spawn[i] = None
    /\ \A i \in Items : Spawn[i] \notin Roots
    /\ None \notin Items
    /\ StoreBuffer \in BOOLEAN

(* A deque's bottom and what is above it, and a stack from the other end: as   *)
(* in SequencesExt, whose many other definitions slow the prover down.         *)
Last(s) == s[Len(s)]
Front(s) == SubSeq(s, 1, Len(s) - 1)
Reverse(s) == [i \in 1 .. Len(s) |-> s[(Len(s) - i) + 1]]

Workers == 1 .. N
Threads == 0 .. N     \* 0: the thread that created the pool

VARIABLES
    inbox,    \* w->inbox, newest item first
    batch,    \* inbox_drain's `rev`: harvested, not yet in the deque
    deque,    \* w->deque
    awake,    \* w->awake, as the other threads see it
    pend,     \* the store to w->awake still in the worker's store buffer
    efd,      \* is the counter of w->wake non-zero?
    wpc,      \* where worker_entry is
    witem,    \* worker_entry's `item`
    sub,      \* each thread's call of submit_to_worker
    stop,     \* pool->stop
    mpc, mi,  \* thread 0: where it is in op_tpool_shutdown, and its `i`
    todo,     \* roots not yet submitted
    ran       \* how often each item has been run

workerVars == <<batch, wpc, witem>>
mainVars == <<stop, mpc, mi>>
wakeVars == <<awake, pend, efd>>
vars == <<inbox, batch, deque, awake, pend, efd, wpc, witem, sub,
          stop, mpc, mi, todo, ran>>

Init ==
    /\ inbox = [w \in Workers |-> <<>>]
    /\ batch = [w \in Workers |-> <<>>]
    /\ deque = [w \in Workers |-> <<>>]
    /\ awake = [w \in Workers |-> 0]
    /\ pend = [w \in Workers |-> None]
    /\ efd = [w \in Workers |-> FALSE]
    /\ wpc = [w \in Workers |-> "drain"]
    /\ witem = [w \in Workers |-> None]
    /\ sub = [t \in Threads |-> <<>>]
    /\ stop = FALSE /\ mpc = "open" /\ mi = 1
    /\ todo = Roots
    /\ ran = [i \in Items |-> 0]

Goto(w, pc) == wpc' = [wpc EXCEPT ![w] = pc]

-----------------------------------------------------------------------------
(* Plain stores to w->awake, by worker w.                                   *)

StoreAwake(w, v) ==
    IF StoreBuffer
    THEN pend' = [pend EXCEPT ![w] = v] /\ UNCHANGED awake
    ELSE awake' = [awake EXCEPT ![w] = v] /\ UNCHANGED pend

(* The store leaves the buffer: at any time, and at the latest at the       *)
(* thread's next atomic read-modify-write.                                  *)
Drained(w) ==
    IF w \in Workers /\ pend[w] # None
    THEN awake' = [awake EXCEPT ![w] = pend[w]] /\ pend' = [pend EXCEPT ![w] = None]
    ELSE UNCHANGED <<awake, pend>>

FlushStore(w) ==
    /\ pend[w] # None
    /\ Drained(w)
    /\ UNCHANGED <<inbox, deque, efd, workerVars, sub, mainVars, todo, ran>>

-----------------------------------------------------------------------------
(* submit_to_worker, by thread t: push, look at `awake`, signal.            *)

Submitting(t) == sub[t] # <<>>

(* The target is any worker: round robin in op_tpool_submit, the caller's   *)
(* key in op_tpool_submit_affinity.                                         *)
inbox_push(t) ==
    /\ Submitting(t) /\ sub[t][1] = "push"
    /\ \E w \in Workers :
          /\ inbox' = [inbox EXCEPT ![w] = <<sub[t][2]>> \o @]
          /\ sub' = [sub EXCEPT ![t] = <<"awake", w>>]
    /\ Drained(t)
    /\ UNCHANGED <<deque, efd, workerVars, mainVars, todo, ran>>

LoadAwake(t) ==
    /\ Submitting(t) /\ sub[t][1] = "awake"
    /\ LET w == sub[t][2]
           seen == IF t = w /\ pend[w] # None THEN pend[w] ELSE awake[w]
       IN  sub' = [sub EXCEPT ![t] = IF seen = 1 THEN <<>> ELSE <<"signal", w>>]
    /\ UNCHANGED <<inbox, deque, wakeVars, workerVars, mainVars, todo, ran>>

(* wake_fd_signal                                                           *)
SignalWake(t) ==
    /\ Submitting(t) /\ sub[t][1] = "signal"
    /\ efd' = [efd EXCEPT ![sub[t][2]] = TRUE]
    /\ sub' = [sub EXCEPT ![t] = <<>>]
    /\ UNCHANGED <<inbox, deque, awake, pend, workerVars, mainVars, todo, ran>>

submit_to_worker(t) == inbox_push(t) \/ LoadAwake(t) \/ SignalWake(t)

(* op_tpool_submit or op_tpool_submit_affinity by thread 0, which does not  *)
(* submit any more once it has called op_tpool_shutdown.                    *)
op_tpool_submit ==
    /\ mpc = "open" /\ ~Submitting(0)
    /\ \E i \in todo :
          /\ todo' = todo \ {i}
          /\ sub' = [sub EXCEPT ![0] = <<"push", i>>]
    /\ UNCHANGED <<inbox, deque, wakeVars, workerVars, mainVars, ran>>

(* work_item_run by thread t: the item is run, and may submit another.      *)
work_item_run(t, i) ==
    /\ ran' = [ran EXCEPT ![i] = @ + 1]
    /\ sub' = [sub EXCEPT ![t] = IF Spawn[i] = None THEN <<>> ELSE <<"push", Spawn[i]>>]

-----------------------------------------------------------------------------
(* worker_entry                                                             *)

At(w, pc) == wpc[w] = pc /\ ~Submitting(w)

(* A bug for comparison: the inbox is read but not emptied.                 *)
HarvestKeeps(w) ==
    /\ At(w, "drain")
    /\ batch' = [batch EXCEPT ![w] = Reverse(inbox[w])]
    /\ Drained(w)
    /\ Goto(w, "push")
    /\ UNCHANGED <<inbox, deque, efd, witem, sub, mainVars, todo, ran>>

(* inbox_drain: harvest the stack in one exchange, oldest item first ...    *)
Harvest(w) ==
    /\ At(w, "drain")
    /\ batch' = [batch EXCEPT ![w] = Reverse(inbox[w])]
    /\ inbox' = [inbox EXCEPT ![w] = <<>>]
    /\ Drained(w)
    /\ Goto(w, "push")
    /\ UNCHANGED <<deque, efd, witem, sub, mainVars, todo, ran>>

(* ... and push it item by item, while peers already steal.                 *)
PushBatch(w) ==
    /\ At(w, "push") /\ batch[w] # <<>>
    /\ deque' = [deque EXCEPT ![w] = Append(@, Head(batch[w]))]
    /\ batch' = [batch EXCEPT ![w] = Tail(@)]
    /\ UNCHANGED <<inbox, wakeVars, wpc, witem, sub, mainVars, todo, ran>>

Pop(w) ==
    /\ At(w, "push") /\ batch[w] = <<>>
    /\ IF deque[w] = <<>>
       THEN Goto(w, "steal") /\ UNCHANGED <<deque, witem>>
       ELSE /\ witem' = [witem EXCEPT ![w] = Last(deque[w])]
            /\ deque' = [deque EXCEPT ![w] = Front(@)]
            /\ Goto(w, "run")
    /\ UNCHANGED <<inbox, batch, wakeVars, sub, mainVars, todo, ran>>

(* 2 * nthreads attempts at random peers: any peer may be missed.           *)
Steal(w) ==
    /\ At(w, "steal")
    /\ \/ \E v \in Workers \ {w} :
             /\ deque[v] # <<>>
             /\ witem' = [witem EXCEPT ![w] = Head(deque[v])]
             /\ deque' = [deque EXCEPT ![v] = Tail(@)]
             /\ Goto(w, "run")
       \/ Goto(w, "clear") /\ UNCHANGED <<deque, witem>>
    /\ UNCHANGED <<inbox, batch, wakeVars, sub, mainVars, todo, ran>>

Dispatch(w) ==
    /\ At(w, "run")
    /\ StoreAwake(w, 1)
    /\ work_item_run(w, witem[w])
    /\ witem' = [witem EXCEPT ![w] = None]
    /\ Goto(w, "drain")
    /\ UNCHANGED <<inbox, batch, deque, efd, mainVars, todo>>

ClearAwake(w) ==
    /\ At(w, "clear")
    /\ StoreAwake(w, 0)
    /\ Goto(w, "recheck")
    /\ UNCHANGED <<inbox, deque, efd, batch, witem, sub, mainVars, todo, ran>>

(* A bug for comparison: no second look at the inbox.                       *)
NoRecheck(w) ==
    /\ At(w, "recheck")
    /\ Goto(w, "stop")
    /\ UNCHANGED <<inbox, deque, wakeVars, batch, witem, sub, mainVars, todo, ran>>

(* The inbox again, then pool->stop.                                        *)
Recheck(w) ==
    /\ At(w, "recheck")
    /\ Goto(w, IF inbox[w] # <<>> THEN "drain" ELSE "stop")
    /\ UNCHANGED <<inbox, deque, wakeVars, batch, witem, sub, mainVars, todo, ran>>

(* A bug for comparison: the loop never looks at pool->stop.                *)
StopUntested(w) ==
    /\ At(w, "stop")
    /\ Goto(w, "poll")
    /\ UNCHANGED <<inbox, deque, wakeVars, batch, witem, sub, mainVars, todo, ran>>

TestStop(w) ==
    /\ At(w, "stop")
    /\ Goto(w, IF stop THEN "exit" ELSE "poll")
    /\ UNCHANGED <<inbox, deque, wakeVars, batch, witem, sub, mainVars, todo, ran>>

(* poll() returns because the eventfd is readable, or after 100 ms; either  *)
(* way wake_fd_drain resets the counter.                                    *)
PollWake(w) ==
    /\ At(w, "poll") /\ efd[w]
    /\ efd' = [efd EXCEPT ![w] = FALSE]
    /\ Goto(w, "drain")
    /\ UNCHANGED <<inbox, deque, awake, pend, batch, witem, sub, mainVars, todo, ran>>

(* A bug for comparison: poll() without a timeout.                          *)
PollForever(w) == FALSE

PollTimeout(w) ==
    /\ At(w, "poll") /\ ~efd[w]
    /\ Goto(w, "drain")
    /\ UNCHANGED <<inbox, deque, wakeVars, batch, witem, sub, mainVars, todo, ran>>

worker_entry(w) ==
    \/ Harvest(w) \/ PushBatch(w) \/ Pop(w) \/ Steal(w) \/ Dispatch(w)
    \/ ClearAwake(w) \/ Recheck(w) \/ TestStop(w) \/ PollWake(w)

-----------------------------------------------------------------------------
(* op_tpool_shutdown, by thread 0.                                          *)

MainAt(pc) == mpc = pc /\ ~Submitting(0)

(* A bug for comparison: the shutdown leaves the inboxes alone.             *)
SkipInbox ==
    /\ mpc = "drain"
    /\ mpc' = "pop"
    /\ UNCHANGED <<inbox, deque, wakeVars, workerVars, sub, stop, mi, todo, ran>>

(* The loops over the workers: next index, or on to the next loop.          *)
Advance(pc, next) ==
    IF mi < N THEN mi' = mi + 1 /\ mpc' = pc ELSE mi' = 1 /\ mpc' = next

SetStop ==
    /\ MainAt("open")
    /\ stop' = TRUE /\ mpc' = "signal"
    /\ UNCHANGED <<inbox, deque, wakeVars, workerVars, sub, mi, todo, ran>>

SignalAll ==
    /\ mpc = "signal"
    /\ efd' = [efd EXCEPT ![mi] = TRUE]
    /\ Advance("signal", "join")
    /\ UNCHANGED <<inbox, deque, awake, pend, workerVars, sub, stop, todo, ran>>

Join ==
    /\ mpc = "join" /\ wpc[mi] = "exit"
    /\ Advance("join", "drain")
    /\ UNCHANGED <<inbox, deque, wakeVars, workerVars, sub, stop, todo, ran>>

(* inbox_drain by thread 0: no worker is left to steal.                     *)
DrainInbox ==
    /\ mpc = "drain"
    /\ deque' = [deque EXCEPT ![mi] = @ \o Reverse(inbox[mi])]
    /\ inbox' = [inbox EXCEPT ![mi] = <<>>]
    /\ mpc' = "pop"
    /\ UNCHANGED <<wakeVars, workerVars, sub, stop, mi, todo, ran>>

RunLeftover ==
    /\ MainAt("pop") /\ deque[mi] # <<>>
    /\ work_item_run(0, Last(deque[mi]))
    /\ deque' = [deque EXCEPT ![mi] = Front(@)]
    /\ UNCHANGED <<inbox, wakeVars, workerVars, mainVars, todo>>

(* deque_destroy and wake_fd_destroy: nobody looks at this worker again.    *)
Destroy ==
    /\ MainAt("pop") /\ deque[mi] = <<>>
    /\ Advance("drain", "done")
    /\ UNCHANGED <<inbox, deque, wakeVars, workerVars, sub, stop, todo, ran>>

op_tpool_shutdown == SetStop \/ SignalAll \/ Join \/ DrainInbox \/ RunLeftover \/ Destroy

(* The pool is gone.                                                        *)
Done ==
    /\ mpc = "done"
    /\ UNCHANGED vars

Next ==
    \/ op_tpool_submit \/ op_tpool_shutdown \/ Done
    \/ \E t \in Threads : submit_to_worker(t)
    \/ \E w \in Workers : worker_entry(w) \/ PollTimeout(w) \/ FlushStore(w)

Spec == Init /\ [][Next]_vars

-----------------------------------------------------------------------------
(* The Windows half: the same deques and inboxes, but no `awake` flag: every *)
(* submission sets the worker's auto-reset event (efd), which a worker with  *)
(* nothing to do waits on for at most a millisecond.  op_tpool_create starts *)
(* each worker before it sets up the next, whose zeroed deque a thief finds  *)
(* empty.                                                                   *)

aside == <<awake, pend, todo>>

WinInit ==
    /\ inbox = [w \in Workers |-> <<>>] /\ batch = [w \in Workers |-> <<>>]
    /\ deque = [w \in Workers |-> <<>>]
    /\ awake = [w \in Workers |-> 0] /\ pend = [w \in Workers |-> None]
    /\ efd = [w \in Workers |-> FALSE]
    /\ wpc = [w \in Workers |-> "unborn"] /\ witem = [w \in Workers |-> None]
    /\ sub = [t \in Threads |-> <<>>]
    /\ stop = FALSE /\ mpc = "create" /\ mi = 1
    /\ todo = Roots /\ ran = [i \in Items |-> 0]

(* op_tpool_create: the event, the deque and the thread of worker mi. *)
op_tpool_create ==
    /\ mpc = "create"
    /\ Goto(mi, "drain")
    /\ Advance("create", "open")
    /\ UNCHANGED <<inbox, batch, deque, efd, witem, sub, stop, ran, aside>>

inbox_push_w32(t) ==
    /\ Submitting(t) /\ sub[t][1] = "push"
    /\ \E w \in Workers :
          /\ inbox' = [inbox EXCEPT ![w] = <<sub[t][2]>> \o @]
          /\ sub' = [sub EXCEPT ![t] = <<"signal", w>>]
    /\ UNCHANGED <<deque, efd, workerVars, mainVars, ran, aside>>

submit_to_worker_w32(t) == inbox_push_w32(t) \/ SignalWake(t)

(* inbox_drain_w32: the whole stack in one exchange, oldest first ... *)
HarvestW32(w) ==
    /\ At(w, "drain")
    /\ batch' = [batch EXCEPT ![w] = Reverse(inbox[w])]
    /\ inbox' = [inbox EXCEPT ![w] = <<>>]
    /\ Goto(w, "push")
    /\ UNCHANGED <<deque, efd, witem, sub, mainVars, ran, aside>>

(* ... then into the deque; deque_pop; and 2 * nthreads tries at random peers. *)
inbox_drain_w32(w) == HarvestW32(w) \/ PushBatch(w)

StealW32(w) ==
    /\ At(w, "steal")
    /\ \/ \E v \in Workers \ {w} :
             /\ deque[v] # <<>>
             /\ witem' = [witem EXCEPT ![w] = Head(deque[v])]
             /\ deque' = [deque EXCEPT ![v] = Tail(@)]
             /\ Goto(w, "run")
       \/ Goto(w, "stop") /\ UNCHANGED <<deque, witem>>
    /\ UNCHANGED <<inbox, batch, efd, sub, mainVars, ran, aside>>

work_item_run_w32(w) ==
    /\ At(w, "run")
    /\ work_item_run(w, witem[w])
    /\ witem' = [witem EXCEPT ![w] = None]
    /\ Goto(w, "drain")
    /\ UNCHANGED <<inbox, batch, deque, efd, mainVars, aside>>

(* WaitForSingleObject: the event was set, and is reset, or the millisecond is over. *)
WaitEvent(w) ==
    /\ At(w, "poll")
    /\ efd' = [efd EXCEPT ![w] = FALSE]
    /\ Goto(w, "drain")
    /\ UNCHANGED <<inbox, deque, batch, witem, sub, mainVars, ran, aside>>

worker_entry_w32(w) ==
    \/ inbox_drain_w32(w) \/ Pop(w) \/ StealW32(w) \/ work_item_run_w32(w)
    \/ TestStop(w) \/ WaitEvent(w)

(* op_tpool_shutdown closes the handles of worker mi and drains it; what it runs may submit. *)
op_tpool_shutdown_w32 == SetStop \/ SignalAll \/ Join \/ DrainInbox \/ RunLeftover \/ Destroy

WinNext ==
    \/ op_tpool_create \/ op_tpool_submit \/ op_tpool_shutdown_w32 \/ Done
    \/ \E t \in Threads : submit_to_worker_w32(t)
    \/ \E w \in Workers : worker_entry_w32(w)

WinSpec == WinInit /\ [][WinNext]_vars

-----------------------------------------------------------------------------
TypeOK ==
    /\ inbox \in [Workers -> Seq(Items)]
    /\ batch \in [Workers -> Seq(Items)]
    /\ deque \in [Workers -> Seq(Items)]
    /\ awake \in [Workers -> {0, 1}]
    /\ pend \in [Workers -> {0, 1, None}]
    /\ efd \in [Workers -> BOOLEAN]
    /\ wpc \in [Workers -> {"drain", "push", "steal", "run", "clear", "recheck",
                            "stop", "poll", "exit", "unborn"}]
    /\ witem \in [Workers -> Items \cup {None}]
    /\ sub \in [Threads -> {<<>>} \cup ({"push"} \X Items) \cup ({"awake", "signal"} \X Workers)]
    /\ stop \in BOOLEAN
    /\ mpc \in {"create", "open", "signal", "join", "drain", "pop", "done"} /\ mi \in Workers
    /\ todo \subseteq Items
    /\ ran \in [Items -> Nat]

(* The items some thread has handed, or is about to hand, to the pool.      *)
Submitted == (Roots \ todo) \cup ({Spawn[i] : i \in {j \in Items : ran[j] > 0}} \ {None})

(* The items the pool or a submitter holds.                                 *)
Held ==
    (UNION {Range(inbox[w]) \cup Range(batch[w]) \cup Range(deque[w]) \cup {witem[w]} : w \in Workers})
      \cup {sub[t][2] : t \in {u \in Threads : Submitting(u) /\ sub[u][1] = "push"}}

(* fn(arg) is called at most once, and until then the item is somewhere a   *)
(* worker or the shutdown looks: harvesting an inbox, stealing and          *)
(* cross-submitting neither drop nor duplicate it (op_thread_pool.h: "will  *)
(* be called exactly once").                                                *)
ExactlyOnce ==
    \A i \in Submitted : ran[i] = 1 \/ (ran[i] = 0 /\ i \in Held)

(* An item that was submitted is in exactly one place or has been run once  *)
(* (submit_to_worker, inbox_drain, worker_entry, op_tpool_shutdown).        *)
Consistent == TypeOK /\ ExactlyOnce

(* A worker does not sleep on work: when its inbox is not empty, either its *)
(* eventfd is readable or the submitter is still about to write it.  This   *)
(* is what clearing `awake` before the second look at the inbox is for.     *)
NoMissedWakeup ==
    \A w \in Workers :
        wpc[w] = "poll" /\ inbox[w] # <<>> /\ ~efd[w] =>
            \E t \in Threads : sub[t] \in {<<"awake", w>>, <<"signal", w>>}

(* op_tpool_shutdown returns only when every item that was submitted before  *)
(* it was called has been run (op_thread_pool.h: "Blocks until all queued    *)
(* work items have completed").  Follow-ups submitted while it drains are    *)
(* another matter: one may reach an inbox that has already been drained.     *)
ShutdownDrains == mpc = "done" => \A i \in Roots \ todo : ran[i] = 1

(* As long as nobody shuts the pool down it keeps up: again and again every  *)
(* item submitted so far, follow-ups included, has been run.                 *)
RunsWhileOpen == []<>(stop \/ \A i \in Submitted : ran[i] = 1)

(* op_tpool_shutdown returns: every worker sees `stop` and exits.  The pool  *)
(* stays stopped, so []<> says the same as ~> here.                          *)
ShutdownReturns == []<>(~stop \/ mpc = "done")
=============================================================================
