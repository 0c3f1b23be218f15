------------------------------ MODULE AsyncLog ------------------------------
(***************************************************************************)
(* src/async_log.c: while the asynchronous log is on, op_lib_log pushes the  *)
(* message on a Treiber stack and, for the first push since the writer last  *)
(* looked, writes the wakeup eventfd; the writer thread polls the eventfd,   *)
(* detaches the stack, reverses it and calls the log callback.               *)
(* op_stop_async_log removes the hook, stops the writer and joins it.        *)
(*                                                                          *)
(* A message is <<p, i>>: the i-th call of op_lib_log by thread p.  A push   *)
(* is one step: its compare-and-exchange succeeds only on the top it read,   *)
(* and the writer never takes less than the whole stack.                     *)
(***************************************************************************)
EXTENDS Integers, Sequences, SequencesExt

CONSTANTS
    Producers,   \* threads that call op_lib_log
    PerProducer, \* bound: calls by each of them
    MaxStarts,   \* bound: calls of op_start_async_log
    InFlight,    \* may op_stop_async_log run while op_lib_log calls are under way?
    Timeout,     \* does poll() time out?
    Weak         \* TRUE: the relaxed store log_pending = 0 may become visible
                 \* after the exchange that follows it

(* What the constants have to satisfy.                                      *)
AsyncLogAssumption ==
    /\ PerProducer \in Nat \ {0} /\ MaxStarts \in Nat \ {0}
    /\ InFlight \in BOOLEAN /\ Timeout \in BOOLEAN /\ Weak \in BOOLEAN

VARIABLES
    stack,    \* log_stack_top, newest first
    pending,  \* log_pending
    cleared,  \* the writer's store log_pending = 0 is not yet visible
    efd,      \* the wakeup descriptor is readable
    hook,     \* op_log_hook # NULL
    stop,     \* log_stop
    wpc,      \* where log_writer_fn is
    batch,    \* drain_stack's `reversed`
    mpc,      \* where the main thread is in op_start/op_stop_async_log
    starts,
    ppc,      \* where each producer is in op_lib_log
    sent,     \* its calls so far
    pushed,   \* history: messages in the order of their pushes
    out,      \* history: messages the writer has passed to the callback
    sync      \* history: messages delivered synchronously

writerVars == <<wpc, batch, out, cleared>>
mainVars == <<hook, stop, mpc, starts>>
prodVars == <<ppc, sent, pushed, sync>>
vars == <<stack, pending, cleared, efd, hook, stop, wpc, batch, mpc, starts,
          ppc, sent, pushed, out, sync>>

Init ==
    /\ stack = <<>> /\ pending = 0 /\ cleared = FALSE /\ efd = FALSE
    /\ hook = FALSE /\ stop = FALSE
    /\ wpc = "none" /\ batch = <<>>
    /\ mpc = "off" /\ starts = 0
    /\ ppc = [p \in Producers |-> "idle"]
    /\ sent = [p \in Producers |-> 0]
    /\ pushed = <<>> /\ out = <<>> /\ sync = {}

Msg(p) == <<p, sent[p]>>

-----------------------------------------------------------------------------
(* op_lib_log and op_async_log_enqueue, by thread p                          *)

(* Load the hook: NULL means the callback is called at once.                 *)
op_lib_log(p) ==
    /\ ppc[p] = "idle" /\ sent[p] < PerProducer
    /\ sent' = [sent EXCEPT ![p] = @ + 1]
    /\ IF hook
       THEN ppc' = [ppc EXCEPT ![p] = "push"] /\ UNCHANGED sync
       ELSE sync' = sync \cup {<<p, sent[p] + 1>>} /\ UNCHANGED ppc
    /\ UNCHANGED <<stack, pending, efd, writerVars, mainVars, pushed>>

PushEntry(p) ==
    /\ ppc[p] = "push"
    /\ stack' = <<Msg(p)>> \o stack
    /\ pushed' = Append(pushed, Msg(p))
    /\ ppc' = [ppc EXCEPT ![p] = "mark"]
    /\ UNCHANGED <<pending, efd, writerVars, mainVars, sent, sync>>

(* atomic_exchange(&log_pending, 1): the first of a burst signals.           *)
MarkPending(p) ==
    /\ ppc[p] = "mark"
    /\ ppc' = [ppc EXCEPT ![p] = IF pending = 0 THEN "signal" ELSE "idle"]
    /\ pending' = 1
    /\ UNCHANGED <<stack, efd, writerVars, mainVars, sent, pushed, sync>>

log_wake_signal(p) ==
    /\ ppc[p] = "signal"
    /\ efd' = TRUE
    /\ ppc' = [ppc EXCEPT ![p] = "idle"]
    /\ UNCHANGED <<stack, pending, writerVars, mainVars, sent, pushed, sync>>

op_async_log_enqueue(p) == PushEntry(p) \/ MarkPending(p) \/ log_wake_signal(p)

-----------------------------------------------------------------------------
(* log_writer_fn                                                             *)

(* while (!log_stop)                                                         *)
TestStop ==
    /\ wpc = "test"
    /\ wpc' = IF stop THEN "final" ELSE "poll"
    /\ UNCHANGED <<stack, pending, efd, batch, out, cleared, mainVars, prodVars>>

(* poll(), then log_wake_drain.                                              *)
PollWake ==
    /\ wpc = "poll" /\ (efd \/ Timeout)
    /\ efd' = FALSE
    /\ wpc' = "clear"
    /\ UNCHANGED <<stack, pending, batch, out, cleared, mainVars, prodVars>>

(* log_pending = 0                                                           *)
ClearPending ==
    /\ wpc = "clear" /\ ~cleared
    /\ IF Weak THEN cleared' = TRUE /\ UNCHANGED pending
               ELSE pending' = 0 /\ UNCHANGED cleared
    /\ wpc' = "drain"
    /\ UNCHANGED <<stack, efd, batch, out, mainVars, prodVars>>

StoreVisible ==
    /\ cleared
    /\ pending' = 0 /\ cleared' = FALSE
    /\ UNCHANGED <<stack, efd, wpc, batch, out, mainVars, prodVars>>

(* A bug for comparison: the detached list is delivered newest first.        *)
DetachUnreversed ==
    /\ wpc \in {"drain", "final"}
    /\ batch' = stack
    /\ stack' = <<>>
    /\ wpc' = IF wpc = "drain" THEN "deliver" ELSE "last"
    /\ UNCHANGED <<pending, efd, out, cleared, mainVars, prodVars>>

(* drain_stack: detach the whole stack and reverse it ...                    *)
DetachStack ==
    /\ wpc \in {"drain", "final"}
    /\ batch' = Reverse(stack)
    /\ stack' = <<>>
    /\ wpc' = IF wpc = "drain" THEN "deliver" ELSE "last"
    /\ UNCHANGED <<pending, efd, out, cleared, mainVars, prodVars>>

(* ... then call the callback on each entry and free it.                     *)
DeliverEntry ==
    /\ wpc \in {"deliver", "last"} /\ batch # <<>>
    /\ out' = Append(out, Head(batch))
    /\ batch' = Tail(batch)
    /\ UNCHANGED <<stack, pending, efd, wpc, cleared, mainVars, prodVars>>

DrainReturns ==
    /\ wpc \in {"deliver", "last"} /\ batch = <<>>
    /\ wpc' = IF wpc = "deliver" THEN "test" ELSE "exited"
    /\ UNCHANGED <<stack, pending, efd, batch, out, cleared, mainVars, prodVars>>

drain_stack == DetachStack \/ DeliverEntry \/ DrainReturns

(* A bug for comparison: log_pending is reset after the drain.               *)
DrainThenClear ==
    \/ /\ wpc = "clear"
       /\ batch' = Reverse(stack) /\ stack' = <<>>
       /\ wpc' = "drain"
       /\ UNCHANGED <<pending, efd, out, cleared, mainVars, prodVars>>
    \/ /\ wpc = "drain"
       /\ pending' = 0
       /\ wpc' = "deliver"
       /\ UNCHANGED <<stack, efd, batch, out, cleared, mainVars, prodVars>>
    \/ wpc = "final" /\ DetachStack
    \/ DeliverEntry
    \/ DrainReturns
    \/ TestStop
    \/ PollWake

log_writer_fn == TestStop \/ PollWake \/ ClearPending \/ drain_stack

-----------------------------------------------------------------------------
(* op_start_async_log and op_stop_async_log, on the main thread              *)

(* log_wake_init or pthread_create fails: nothing is left behind but the     *)
(* resets, and log_active stays 0.                                           *)
StartFails ==
    /\ mpc = "off" /\ starts < MaxStarts
    /\ starts' = starts + 1
    /\ stop' = FALSE /\ pending' = 0
    /\ UNCHANGED <<stack, efd, writerVars, hook, mpc, prodVars>>

(* Reset the flags, open the wakeup descriptor, create the writer ...        *)
StartWriter ==
    /\ mpc = "off" /\ starts < MaxStarts
    /\ starts' = starts + 1
    /\ stop' = FALSE /\ pending' = 0 /\ efd' = FALSE
    /\ wpc' = "test" /\ mpc' = "started"
    /\ UNCHANGED <<stack, batch, out, cleared, hook, prodVars>>

(* ... and install the hook.                                                 *)
InstallHook ==
    /\ mpc = "started"
    /\ hook' = TRUE /\ mpc' = "on"
    /\ UNCHANGED <<stack, pending, efd, writerVars, stop, starts, prodVars>>

op_start_async_log == StartFails \/ StartWriter \/ InstallHook

(* op_lib_set_log_hook(NULL)                                                 *)
RemoveHook ==
    /\ mpc = "on"
    /\ InFlight \/ \A p \in Producers : ppc[p] = "idle"
    /\ hook' = FALSE /\ mpc' = "stop"
    /\ UNCHANGED <<stack, pending, efd, writerVars, stop, starts, prodVars>>

(* log_stop = 1; log_active = 0; log_wake_signal()                           *)
StopWriter ==
    /\ mpc = "stop"
    /\ stop' = TRUE /\ efd' = TRUE /\ mpc' = "join"
    /\ UNCHANGED <<stack, pending, writerVars, hook, starts, prodVars>>

(* pthread_join, log_writer_cb = NULL, log_wake_destroy                      *)
JoinWriter ==
    /\ mpc = "join" /\ wpc = "exited"
    /\ wpc' = "none" /\ mpc' = "off" /\ efd' = FALSE
    /\ UNCHANGED <<stack, pending, batch, out, cleared, hook, stop, starts, prodVars>>

op_stop_async_log == RemoveHook \/ StopWriter \/ JoinWriter

-----------------------------------------------------------------------------
Next ==
    \/ \E p \in Producers : op_lib_log(p) \/ op_async_log_enqueue(p)
    \/ log_writer_fn \/ StoreVisible
    \/ op_start_async_log \/ op_stop_async_log

Spec == Init /\ [][Next]_vars

(* Every thread is scheduled and a stop that has begun goes on; nobody has   *)
(* to log, start or stop.                                                    *)
MainStep == InstallHook \/ StopWriter \/ JoinWriter

Fairness ==
    /\ \A p \in Producers : WF_vars(op_async_log_enqueue(p))
    /\ WF_vars(log_writer_fn) /\ WF_vars(StoreVisible) /\ WF_vars(MainStep)

LiveSpec == Spec /\ Fairness

-----------------------------------------------------------------------------
Messages == Producers \X (1 .. PerProducer)

TypeOK ==
    /\ stack \in Seq(Messages) /\ batch \in Seq(Messages)
    /\ pushed \in Seq(Messages) /\ out \in Seq(Messages)
    /\ sync \subseteq Messages
    /\ pending \in {0, 1} /\ cleared \in BOOLEAN
    /\ efd \in BOOLEAN /\ hook \in BOOLEAN /\ stop \in BOOLEAN
    /\ wpc \in {"none", "test", "poll", "clear", "drain", "deliver", "final", "last", "exited"}
    /\ mpc \in {"off", "started", "on", "stop", "join"}
    /\ starts \in 0 .. MaxStarts
    /\ ppc \in [Producers -> {"idle", "push", "mark", "signal"}]
    /\ sent \in [Producers -> 0 .. PerProducer]

(* The writer delivers the queued messages in the order of their pushes,     *)
(* each exactly once, across batches: delivered, being delivered and still   *)
(* stacked make up everything pushed.                                        *)
Chronological == pushed = out \o batch \o Reverse(stack)

(* A writer that is about to sleep on messages has been or will be woken:    *)
(* the "signal once per burst" test never skips the signal that matters.     *)
WakeupNotLost ==
    wpc = "poll" /\ stack # <<>> =>
        efd \/ \E p \in Producers : ppc[p] \in {"mark", "signal"}

(* op_stop_async_log returns with nothing left in the queue.                 *)
StopDrains == mpc = "off" => stack = <<>> /\ batch = <<>>

(* Every op_lib_log call ends in a call of the callback.                     *)
Unwritten(p, i) ==
    sent[p] >= i /\ <<p, i>> \notin sync /\ \A k \in DOMAIN out : out[k] # <<p, i>>
EveryMessageDelivered ==
    \A p \in Producers : \A i \in 1 .. PerProducer : Unwritten(p, i) ~> ~Unwritten(p, i)

(* op_stop_async_log returns.                                                *)
Stopping == mpc \in {"stop", "join"}
StopReturns == Stopping ~> ~Stopping
=============================================================================
