------------------------------ MODULE Timeouts ------------------------------
(***************************************************************************)
(* The socket timeouts of src/commio.c: op_settimeout keeps at most one      *)
(* timeout_data per FDE in sharded lists, counts them in                     *)
(* timeout_total_count and keeps one periodic event, op_timeout_ev, alive    *)
(* while there are any; the event runs op_checktimeouts on the I/O thread,   *)
(* which collects what has expired shard by shard and then calls the         *)
(* handlers.  Worker threads call op_settimeout too.                         *)
(*                                                                          *)
(* Every FDE is in a shard of its own.  A handler is user code: it may set    *)
(* and remove timeouts and close FDEs before it returns.                     *)
(***************************************************************************)
EXTENDS Integers, FiniteSets

CONSTANTS
    Fdes,
    Workers,     \* threads other than the I/O thread that call op_settimeout
    Io,          \* the I/O thread
    Evs,         \* the ev_entry objects that op_event_add can return
    None

(* What the constants have to satisfy.                                      *)
TimeoutsAssumption ==
    /\ Io \notin Workers
    /\ None \notin Evs /\ None \notin Fdes

Threads == Workers \cup {Io}

VARIABLES
    open,      \* IsFDOpen
    set,       \* F->timeout # NULL
    due,       \* td->timeout < now
    total,     \* timeout_total_count
    tev,       \* op_timeout_ev
    live,      \* the events that are scheduled with op_checktimeouts
    call,      \* where each thread is in op_settimeout
    iopc,      \* where the I/O thread is
    scan,      \* op_checktimeouts: shards still to be looked at
    dispatch   \* op_checktimeouts: collected, handler not yet called

vars == <<open, set, due, total, tev, live, call, iopc, scan, dispatch>>
callVars == <<total, tev, live, call>>
checkVars == <<iopc, scan, dispatch>>

Init ==
    /\ open = [f \in Fdes |-> TRUE]
    /\ set = [f \in Fdes |-> FALSE]
    /\ due = [f \in Fdes |-> FALSE]
    /\ total = 0 /\ tev = None /\ live = {}
    /\ call = [t \in Threads |-> <<"none">>]
    /\ iopc = "user" /\ scan = {} /\ dispatch = {}

Idle(t) == call[t] = <<"none">>
Goto(t, where) == call' = [call EXCEPT ![t] = where]

(* A thread may call op_settimeout: a worker at any time, the I/O thread      *)
(* between two events and in a handler.                                      *)
MayCall(t) == Idle(t) /\ (t = Io => iopc \in {"user", "handler"})

-----------------------------------------------------------------------------
(* op_settimeout(F, 0, NULL, NULL)                                           *)

(* Under the shard's lock: unlink and free.                                  *)
Unlink(t, f) ==
    /\ set' = [set EXCEPT ![f] = FALSE]
    /\ due' = [due EXCEPT ![f] = FALSE]
    /\ Goto(t, IF set[f] THEN <<"uncount">> ELSE <<"none">>)
    /\ UNCHANGED <<total, tev, live, checkVars>>

RemoveTimeout(t, f) ==
    /\ MayCall(t) /\ open[f]
    /\ Unlink(t, f)
    /\ UNCHANGED open

(* atomic_fetch_sub: the last one goes on to delete the event.               *)
Uncount(t) ==
    /\ call[t] = <<"uncount">>
    /\ total' = total - 1
    /\ Goto(t, IF total = 1 THEN <<"take">> ELSE <<"none">>)
    /\ UNCHANGED <<open, set, due, tev, live, checkVars>>

(* ev = op_timeout_ev; op_timeout_ev = NULL;                                 *)
TakeEvent(t) ==
    /\ call[t] = <<"take">>
    /\ tev' = None
    /\ Goto(t, IF tev = None THEN <<"none">> ELSE <<"delete", tev>>)
    /\ UNCHANGED <<open, set, due, total, live, checkVars>>

DeleteEvent(t) ==
    /\ call[t][1] = "delete"
    /\ live' = live \ {call[t][2]}
    /\ Goto(t, <<"none">>)
    /\ UNCHANGED <<open, set, due, total, tev, checkVars>>

-----------------------------------------------------------------------------
(* op_settimeout(F, timeout, callback, data)                                 *)

(* Under the shard's lock: link a new timeout_data, or update the old one.    *)
AddTimeout(t, f) ==
    /\ MayCall(t) /\ open[f]
    /\ set' = [set EXCEPT ![f] = TRUE]
    /\ due' = [due EXCEPT ![f] = FALSE]
    /\ Goto(t, IF set[f] THEN <<"none">> ELSE <<"count">>)
    /\ UNCHANGED <<open, total, tev, live, checkVars>>

(* A bug for comparison: the second one makes the event.                   *)
CountOffByOne(t) ==
    /\ call[t] = <<"count">>
    /\ total' = total + 1
    /\ Goto(t, IF total = 1 THEN <<"look">> ELSE <<"none">>)
    /\ UNCHANGED <<open, set, due, tev, live, checkVars>>

(* atomic_fetch_add: the first one goes on to create the event.              *)
Count(t) ==
    /\ call[t] = <<"count">>
    /\ total' = total + 1
    /\ Goto(t, IF total = 0 THEN <<"look">> ELSE <<"none">>)
    /\ UNCHANGED <<open, set, due, tev, live, checkVars>>

LookAtEvent(t) ==
    /\ call[t] = <<"look">>
    /\ Goto(t, IF tev = None THEN <<"create">> ELSE <<"none">>)
    /\ UNCHANGED <<open, set, due, total, tev, live, checkVars>>

CreateEvent(t) ==
    /\ call[t] = <<"create">>
    /\ \E e \in Evs \ live : live' = live \cup {e} /\ tev' = e
    /\ Goto(t, <<"none">>)
    /\ UNCHANGED <<open, set, due, total, checkVars>>

op_settimeout(t) ==
    \/ Uncount(t) \/ TakeEvent(t) \/ DeleteEvent(t)
    \/ Count(t) \/ LookAtEvent(t) \/ CreateEvent(t)
    \/ \E f \in Fdes : RemoveTimeout(t, f) \/ AddTimeout(t, f)

-----------------------------------------------------------------------------
(* op_close on the I/O thread: its op_settimeout(F, 0, NULL, NULL) runs to    *)
(* its end before the thread does anything else.  The open flag is cleared     *)
(* after that call, at the end of op_close; no thread uses an FDE once its     *)
(* op_close has begun, and the I/O thread reads the flag only in the next      *)
(* op_checktimeouts, so clearing it at the unlink is the same.                 *)
op_close(f) ==
    /\ MayCall(Io) /\ open[f]
    /\ open' = [open EXCEPT ![f] = FALSE]
    /\ Unlink(Io, f)

(* op_open takes a recycled slot: two op_selects after its op_close, so after *)
(* the op_checktimeouts that may have been running.                          *)
op_open(f) ==
    /\ MayCall(Io) /\ iopc = "user" /\ ~open[f]
    /\ open' = [open EXCEPT ![f] = TRUE]
    /\ UNCHANGED <<set, due, callVars, checkVars>>

(* Time passes.                                                             *)
Expire(f) ==
    /\ set[f] /\ ~due[f]
    /\ due' = [due EXCEPT ![f] = TRUE]
    /\ UNCHANGED <<open, set, callVars, checkVars>>

-----------------------------------------------------------------------------
(* op_checktimeouts, called by a scheduled event on the I/O thread.           *)

(* A bug for comparison: the loop over the shards misses the first one.       *)
CheckMissesOne ==
    /\ iopc = "user" /\ Idle(Io) /\ live # {}
    /\ iopc' = "collect" /\ scan' = Fdes \ {CHOOSE f \in Fdes : TRUE}
    /\ UNCHANGED <<open, set, due, callVars, dispatch>>

BeginCheck ==
    /\ iopc = "user" /\ Idle(Io) /\ live # {}
    /\ iopc' = "collect" /\ scan' = Fdes
    /\ UNCHANGED <<open, set, due, callVars, dispatch>>

(* One shard, under its lock: what is due is unlinked and moved.              *)
Collect(f) ==
    /\ iopc = "collect" /\ f \in scan
    /\ scan' = scan \ {f}
    /\ IF set[f] /\ open[f] /\ due[f]
       THEN /\ dispatch' = dispatch \cup {f}
            /\ set' = [set EXCEPT ![f] = FALSE]
            /\ due' = [due EXCEPT ![f] = FALSE]
       ELSE UNCHANGED <<dispatch, set, due>>
    /\ UNCHANGED <<open, callVars, iopc>>

UncountExpired ==
    /\ iopc = "collect" /\ scan = {}
    /\ total' = total - Cardinality(dispatch)
    /\ iopc' = "dispatch"
    /\ UNCHANGED <<open, set, due, tev, live, call, scan, dispatch>>

CallHandler(f) ==
    /\ iopc = "dispatch" /\ f \in dispatch
    /\ dispatch' = dispatch \ {f}
    /\ iopc' = "handler"
    /\ UNCHANGED <<open, set, due, callVars, scan>>

HandlerReturns ==
    /\ iopc = "handler" /\ Idle(Io)
    /\ iopc' = "dispatch"
    /\ UNCHANGED <<open, set, due, callVars, scan, dispatch>>

CheckReturns ==
    /\ iopc = "dispatch" /\ dispatch = {}
    /\ iopc' = "user"
    /\ UNCHANGED <<open, set, due, callVars, scan, dispatch>>

op_checktimeouts ==
    \/ BeginCheck
    \/ \E f \in Fdes : Collect(f) \/ CallHandler(f)
    \/ UncountExpired \/ HandlerReturns \/ CheckReturns

-----------------------------------------------------------------------------
Next ==
    \/ \E t \in Threads : op_settimeout(t)
    \/ \E f \in Fdes : op_close(f) \/ op_open(f) \/ Expire(f)
    \/ op_checktimeouts

Spec == Init /\ [][Next]_vars

InCall(t) ==
    \/ Uncount(t) \/ TakeEvent(t) \/ DeleteEvent(t)
    \/ Count(t) \/ LookAtEvent(t) \/ CreateEvent(t)

(* Calls end, handlers return after finitely many calls, and the scheduled    *)
(* event runs again and again.                                               *)
FairSpec ==
    /\ Spec
    /\ \A t \in Threads : WF_vars(InCall(t))
    /\ SF_vars(BeginCheck) /\ SF_vars(HandlerReturns)
    /\ WF_vars(op_checktimeouts /\ iopc # "user")

-----------------------------------------------------------------------------
(* PROPERTIES                                                               *)

TypeOK ==
    /\ open \in [Fdes -> BOOLEAN] /\ set \in [Fdes -> BOOLEAN] /\ due \in [Fdes -> BOOLEAN]
    /\ total \in (0 - Cardinality(Threads)) .. (Cardinality(Fdes) + Cardinality(Threads))
    /\ tev \in Evs \cup {None} /\ live \subseteq Evs
    /\ \A t \in Threads : call[t][1] \in {"none", "uncount", "take", "delete", "count", "look", "create"}
    /\ iopc \in {"user", "collect", "dispatch", "handler"}
    /\ scan \subseteq Fdes /\ dispatch \subseteq Fdes

Quiet == \A t \in Threads : Idle(t)

(* timeout_total_count counts the linked timeouts: it is exact whenever no    *)
(* call is under way and no collected entry is still to be subtracted.        *)
CountIsExact ==
    Quiet /\ iopc # "collect" => total = Cardinality({f \in Fdes : set[f]})

(* While there is a timeout there is a scheduled event to check it, and       *)
(* op_timeout_ev is that event, once the calls in progress have ended.        *)
TimerCoversTimeouts ==
    Quiet /\ (\E f \in Fdes : set[f]) => tev \in live

(* No event is leaked: op_timeout_ev is the only one that is scheduled.       *)
NoSecondTimer == Quiet => live \subseteq {tev}

(* A timeout that has expired is handled: its handler is taken for a call, or  *)
(* it is removed, set anew or its FDE closed.                                 *)
ExpiredIsHandled == \A f \in Fdes : due[f] ~> ~due[f]
=============================================================================
