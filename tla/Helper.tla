------------------------------- MODULE Helper -------------------------------
(***************************************************************************)
(* Helper processes (src/helper.c): threads that start helpers at the same time        *)
(* through pipes and the environment, and the life of one running helper with its     *)
(* read and error callbacks. posix_spawn and the kernel's pipes are external: a        *)
(* child inherits every open descriptor (op_pipe does not set O_CLOEXEC) and a        *)
(* reader sees end of file when nobody holds the write end.                       *)
(***************************************************************************)
EXTENDS Integers, FiniteSets, Sequences, FiniteSetsExt

CONSTANTS
    Starters,     \* threads in op_helper_start ({}: only the running helper)
    Base,         \* descriptors the parent has open already: 0..Base-1
    MaxFd,        \* HELPER_CHILD_MAXFD (256 in the code)
    ErrorCloses,  \* does error_cb call op_helper_close at once ("inside") or later?
    MaxLines      \* bound: lines in each direction

(* What the constants have to satisfy.                                      *)
HelperAssumption ==
    /\ {Base, MaxFd, MaxLines} \subseteq Nat /\ ErrorCloses \in {"inside", "later"}

VARIABLES
    st,      \* [Starters -> where a thread is in op_helper_start, and its four pipe ends]
    env,     \* IFD and OFD in the environment, and the holder of spawn_env_lock
    child,   \* [Starters -> the process it spawned: state, its two ends, what it holds]
    h,       \* the running helper
    pc       \* which of its callbacks is on the stack

vars == <<st, env, child, h, pc>>

None == "none"
NoEnds == [rd |-> 0, cwr |-> 0, crd |-> 0, wr |-> 0]
EndsOf(e) == {e.rd, e.cwr, e.crd, e.wr}

Init ==
    /\ st = [t \in Starters |-> [pc |-> "idle", ends |-> NoEnds]]
    /\ env = [IFD |-> 0, OFD |-> 0, lock |-> None]
    /\ child = [t \in Starters |-> [state |-> None, IFD |-> 0, OFD |-> 0, held |-> {}]]
    /\ h = [life |-> "live", closing |-> FALSE, rh |-> FALSE, wh |-> FALSE, sendq |-> 0, flushed |-> TRUE,
            errors |-> 0, in |-> 0, made |-> 0, peer |-> "alive", freedIn |-> None, touched |-> FALSE]
    /\ pc = IF Starters = {} THEN "run" ELSE "idle"

-----------------------------------------------------------------------------
(* op_helper_start.                                                         *)

ParentHolds(s) == (0..Base - 1) \cup UNION {IF s[t].pc = "idle" THEN {}
                                           ELSE IF s[t].pc = "up" THEN {s[t].ends.rd, s[t].ends.wr}
                                           ELSE EndsOf(s[t].ends) : t \in Starters}

(* The two op_pipe calls: the lowest free descriptors.                       *)
OpenPipes(t) ==
    /\ st[t].pc = "idle"
    /\ LET free == (0..Base + 4 * Cardinality(Starters)) \ ParentHolds(st)
           nth(i) == CHOOSE f \in free : Cardinality({g \in free : g < f}) = i
       IN  st' = [st EXCEPT ![t] = [pc |-> "piped", ends |-> [rd |-> nth(0), cwr |-> nth(1),
                                                              crd |-> nth(2), wr |-> nth(3)]]]
    /\ UNCHANGED <<env, child, h, pc>>

(* spawn_env_lock, and the first op_setenv.                                  *)
SetEnvIfd(t) ==
    /\ st[t].pc = "piped" /\ env.lock = None
    /\ st' = [st EXCEPT ![t].pc = "ifd"]
    /\ env' = [env EXCEPT !.lock = t, !.IFD = st[t].ends.crd]
    /\ UNCHANGED <<child, h, pc>>

SetEnvOfd(t) ==
    /\ st[t].pc = "ifd"
    /\ st' = [st EXCEPT ![t].pc = "ofd"] /\ env' = [env EXCEPT !.OFD = st[t].ends.cwr]
    /\ UNCHANGED <<child, h, pc>>

(* op_spawn_process: the child has the environment and all open descriptors.    *)
Spawn(t) ==
    /\ st[t].pc = "ofd"
    /\ \/ /\ st' = [st EXCEPT ![t].pc = "spawned"]
          /\ child' = [child EXCEPT ![t] = [state |-> "new", IFD |-> env.IFD, OFD |-> env.OFD,
                                            held |-> ParentHolds(st)]]
       \/ st' = [st EXCEPT ![t].pc = "failed"] /\ UNCHANGED child
    /\ UNCHANGED <<env, h, pc>>

(* helper_clear_env and the unlock; the child's ends (or all four) are closed.   *)
ClearEnv(t) ==
    /\ st[t].pc \in {"spawned", "failed"}
    /\ env' = [IFD |-> 0, OFD |-> 0, lock |-> None]
    /\ st' = [st EXCEPT ![t] = [@ EXCEPT !.pc = IF @ = "spawned" THEN "up" ELSE "idle"]]
    /\ UNCHANGED <<child, h, pc>>

(* op_helper_child: reads the environment and closes what it does not need; it     *)
(* gives up on descriptors that are not below MAXFD.                           *)
op_helper_child(t) ==
    LET c == child[t]
    IN  /\ c.state = "new"
        /\ child' = [child EXCEPT ![t] =
              IF c.IFD >= MaxFd \/ c.OFD >= MaxFd THEN [c EXCEPT !.state = "gaveup", !.held = {}]
              ELSE [c EXCEPT !.state = "up",
                             !.held = {f \in @ : f >= MaxFd \/ f \in {c.IFD, c.OFD}}]]
        /\ UNCHANGED <<st, env, h, pc>>

ChildDies(t) ==
    /\ child[t].state \in {"new", "up"}
    /\ child' = [child EXCEPT ![t].state = "dead", ![t].held = {}]
    /\ UNCHANGED <<st, env, h, pc>>

-----------------------------------------------------------------------------
(* One running helper. Its callbacks run on one thread; pc says which of them is     *)
(* on the stack.                                                            *)

op_helper_close(x) ==
    [x EXCEPT !.life = "freed", !.rh = FALSE, !.wh = FALSE, !.sendq = 0, !.freedIn = pc]

(* op_helper_restart: error_cb, once.                                       *)
op_helper_restart(x) ==
    IF x.closing THEN x
    ELSE LET y == [x EXCEPT !.closing = TRUE, !.errors = @ + 1]
         IN  IF ErrorCloses = "inside" THEN op_helper_close(y) ELSE y

(* op_helper_write_sendq: everything leaves, or the socket is full, or it failed.   *)
op_helper_write_sendq(x) ==
    IF x.sendq = 0 THEN {[x EXCEPT !.flushed = TRUE]}
    ELSE IF x.peer = "dead" THEN {op_helper_restart(x)}
    ELSE {[x EXCEPT !.sendq = 0, !.flushed = TRUE], [x EXCEPT !.wh = TRUE, !.flushed = TRUE]}

op_helper_write_queue(x) == [x EXCEPT !.sendq = @ + 1, !.made = @ + 1, !.flushed = FALSE]

(* op_helper_write: queue and flush.                                         *)
op_helper_write(x) == op_helper_write_sendq(op_helper_write_queue(x))

CanWrite == h.life = "live" /\ h.made < MaxLines

(* op_helper_run, or the read event: the handler was taken off by the loop.      *)
op_helper_read_cb ==
    /\ pc = "run" \/ (pc = "idle" /\ h.rh)
    /\ pc' = "reading" /\ h' = [h EXCEPT !.rh = FALSE] /\ UNCHANGED <<st, env, child>>

(* One turn of its loop: it looks at the helper again after every callback.      *)
ReadTurn ==
    /\ pc = "reading"
    /\ IF h.life = "freed" THEN h' = [h EXCEPT !.touched = TRUE] /\ pc' = "idle"
       ELSE IF h.in > 0 THEN h' = [h EXCEPT !.in = 0] /\ pc' = "callback"
       ELSE /\ pc' = "idle"
            /\ h' = IF h.peer = "dead" THEN op_helper_restart(h) ELSE [h EXCEPT !.rh = TRUE]
    /\ UNCHANGED <<st, env, child>>

(* read_cb: the user may answer.                                             *)
UserReadCb ==
    /\ pc = "callback" /\ pc' = "reading"
    /\ \/ UNCHANGED h
       \/ CanWrite /\ h' = op_helper_write_queue(h)
       \/ CanWrite /\ \E x \in op_helper_write(h) : h' = x
    /\ UNCHANGED <<st, env, child>>

WriteEvent ==
    /\ pc = "idle" /\ h.wh
    /\ \E x \in op_helper_write_sendq([h EXCEPT !.wh = FALSE]) : h' = x
    /\ UNCHANGED <<st, env, child, pc>>

UserWrites ==
    /\ pc = "idle" /\ CanWrite
    /\ \/ h' = op_helper_write_queue(h)
       \/ \E x \in op_helper_write(h) : h' = x
    /\ UNCHANGED <<st, env, child, pc>>

(* The user closes a helper whose error it was told, from its own event.         *)
UserCloses ==
    /\ pc = "idle" /\ h.life = "live" /\ h.closing
    /\ h' = op_helper_close(h) /\ UNCHANGED <<st, env, child, pc>>

PeerWrites == /\ h.life = "live" /\ h.peer = "alive" /\ h.in < MaxLines
              /\ h' = [h EXCEPT !.in = @ + 1] /\ UNCHANGED <<st, env, child, pc>>
PeerDies == /\ h.peer = "alive" /\ h' = [h EXCEPT !.peer = "dead"] /\ UNCHANGED <<st, env, child, pc>>

Loop == op_helper_read_cb \/ ReadTurn \/ UserReadCb

Next ==
    \/ \E t \in Starters : \/ OpenPipes(t) \/ SetEnvIfd(t) \/ SetEnvOfd(t) \/ Spawn(t) \/ ClearEnv(t)
                           \/ op_helper_child(t) \/ ChildDies(t)
    \/ /\ Starters = {}
       /\ Loop \/ WriteEvent \/ UserWrites \/ UserCloses \/ PeerWrites \/ PeerDies

Spec == Init /\ [][Next]_vars

(* The I/O loop reports a readable pipe, and a handler runs to its end.         *)
FairSpec == Spec /\ WF_vars(Starters = {} /\ Loop)

-----------------------------------------------------------------------------
(* Properties.                                                              *)

TypeOK ==
    /\ h.sendq \in 0..MaxLines /\ h.in \in 0..MaxLines /\ pc \in {"run", "idle", "reading", "callback"}
    /\ \A t \in Starters : child[t].held \subseteq 0..Base + 4 * Cardinality(Starters)

(* However the starts interleave, a child is told its own helper's pipe ends, and   *)
(* it starts exactly if they are below the MAXFD it closes up to.               *)
ChildHasItsPipes ==
    \A t \in Starters : child[t].state # None =>
        /\ (child[t].state # "dead" /\ st[t].pc = "up") =>
               <<child[t].IFD, child[t].OFD>> = <<st[t].ends.crd, st[t].ends.cwr>>
        /\ child[t].state \in {"gaveup", "up"} =>
               (child[t].state = "up" <=> {child[t].IFD, child[t].OFD} \subseteq 0..MaxFd - 1)

(* A dead helper is noticed: once the other children have started, none of them      *)
(* holds the write end that would keep the parent's read from ending (op_pipe lets     *)
(* every child inherit it, op_helper_child closes it), if it is below MAXFD.         *)
DeathVisible ==
    \A t \in Starters : (st[t].pc = "up" /\ child[t].state \in {"dead", "gaveup"}) =>
        \A u \in Starters \ {t} : child[u].state = "up" =>
            \/ st[t].ends.cwr \notin child[u].held
            \/ st[t].ends.cwr \in EndsOf(st[u].ends)
            \/ st[t].ends.cwr >= MaxFd

(* error_cb is told once, and while it has not been told, the helper's read handler   *)
(* is registered or running, and what a flush left is waited for.              *)
HelperAttended ==
    /\ h.errors <= 1
    /\ (h.life = "live" /\ ~h.closing /\ pc = "idle") =>
           (h.rh \/ Starters # {}) /\ (h.sendq > 0 /\ h.flushed => h.wh)

(* error_cb may close the helper ("eliminates the resulting use-after-free when       *)
(* error_cb frees the helper"): no callback looks at it afterwards.  The comment is     *)
(* wrong where error_cb is called by an op_helper_write inside read_cb: the loop of      *)
(* op_helper_read_cb below it goes on with the freed helper.                       *)
NoTouchAfterClose == h.touched => h.freedIn = "callback"

(* A helper whose process died is reported.                                  *)
DeathUnreported == Starters = {} /\ h.peer # "alive" /\ h.errors # 1
DeathReported == []<>~DeathUnreported
=============================================================================
