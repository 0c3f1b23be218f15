------------------------------- MODULE Uring -------------------------------
(***************************************************************************)
(* The io_uring backend (src/io_uring.c).                                    *)
(*                                                                          *)
(* op_setselect only stores the handlers, marks the FDE dirty and pushes it    *)
(* on a lock-free stack; the I/O thread drains the stack and decides there      *)
(* whether to arm a poll request, to cancel one or to leave it.  Completions    *)
(* carry (fd, generation); one whose generation is not the FDE's is stale.      *)
(* A periodic sweep repairs polls that went silent.  In threaded mode a CQ      *)
(* thread hands completions over in a bounded ring.                           *)
(*                                                                          *)
(* The slot f stands for the FDE and its number; `file` tells one opening of    *)
(* the number from the next.                                                 *)
(***************************************************************************)
EXTENDS Integers, FiniteSets, Sequences, SequencesExt

CONSTANTS
    Fds,        \* the FDEs
    Dirs,       \* the interests users register: "r", "w"
    Multishot,  \* uring_has_multishot
    Ktls,       \* are the sockets kTLS (F->ktls)?
    Threaded,   \* uring_thread_active
    RingCap,    \* URING_RING_CAP
    CqCap,      \* the completion queue's size; what does not fit waits in the kernel
    Workers,    \* do worker threads call op_setselect?
    Timed,      \* is op_select given a timeout?
    SqFull,     \* may the submission queue stay full after a submit?
    Again,      \* does a read handler called by the sweep always register again?
    Outlive,    \* may an FDE be closed while a worker is inside op_setselect?
    GenMod,     \* uring_gen wraps here (2^32 in the code)
    MaxFile     \* bound: how often a number is opened

(* What the constants have to satisfy.                                      *)
UringAssumption ==
    /\ Fds # {} /\ Dirs # {} /\ Dirs \subseteq {"r", "w"}
    /\ {Multishot, Ktls, Threaded, Workers, Timed, SqFull, Again, Outlive} \subseteq BOOLEAN
    /\ {RingCap, CqCap} \subseteq Nat \ {0} /\ MaxFile \in Nat /\ GenMod \in Nat \ {0}

VARIABLES
    fde,     \* life, handlers, the flags in pflags, uring_gen, uring_dirty, file
    ready,   \* conditions that hold: directions, and "hup"
    inbox,   \* uring_dirty_inbox, top first
    list,    \* the reversed list uring_flush_dirty is working on
    cur,     \* the FDE it is at
    reqs,    \* poll and peek requests the kernel holds
    cq,      \* the completion queue
    ring,    \* uring_cq_ring
    notify,  \* uring_notify_fd has been written
    iopc,    \* where the I/O thread is
    worker   \* a worker inside op_setselect_uring: its FDE and its next step

vars == <<fde, ready, inbox, list, cur, reqs, cq, ring, notify, iopc, worker>>

None == "none"
Blank(life, file) ==
    [life |-> life, h |-> {}, pending |-> FALSE, multi |-> FALSE, peek |-> FALSE,
     armed |-> {}, gen |-> 0, dirty |-> FALSE, file |-> file]
Idle == [pc |-> "idle", f |-> None]

Init ==
    /\ fde = [f \in Fds |-> Blank("open", 0)]
    /\ ready = [f \in Fds |-> {}]
    /\ inbox = <<>> /\ list = <<>> /\ cur = None /\ reqs = {} /\ cq = <<>> /\ ring = <<>>
    /\ notify = FALSE /\ iopc = "user" /\ worker = Idle

Bump(gen) == (gen + 1) % GenMod
IsFDOpen(f) == fde[f].life = "open"
UserCode == iopc \in {"user", "dispatch"}

-----------------------------------------------------------------------------
(* Registration.                                                            *)

Register(f, ds, on) ==
    [fde EXCEPT ![f].h = IF on THEN @ \cup ds ELSE @ \ ds]

(* A bug for comparison: the flag is set without looking at it first.       *)
MarkAgain(F, box, f) ==
    IF F[f].life # "open" THEN <<F, box>> ELSE <<[F EXCEPT ![f].dirty = TRUE], <<f>> \o box>>

(* uring_mark_dirty by the I/O thread.                                      *)
uring_mark_dirty(F, box, f) ==
    IF F[f].life # "open" \/ F[f].dirty THEN <<F, box>>
    ELSE <<[F EXCEPT ![f].dirty = TRUE], <<f>> \o box>>

op_setselect_uring(f, ds, on) ==
    /\ UserCode /\ IsFDOpen(f)
    /\ LET m == uring_mark_dirty(Register(f, ds, on), inbox, f)
       IN  fde' = m[1] /\ inbox' = m[2]
    /\ notify' = (notify \/ Threaded)
    /\ UNCHANGED <<ready, list, cur, reqs, cq, ring, iopc, worker>>

(* The same on a worker: handlers under the lock, ...                       *)
WorkerRegisters(f, ds, on) ==
    /\ Workers /\ worker = Idle /\ IsFDOpen(f)
    /\ fde' = Register(f, ds, on)
    /\ worker' = [pc |-> "mark", f |-> f]
    /\ UNCHANGED <<ready, inbox, list, cur, reqs, cq, ring, notify, iopc>>

(* ... the exchange of uring_dirty, ...                                     *)
WorkerMarks ==
    /\ worker.pc = "mark"
    /\ LET f == worker.f
       IN  IF ~IsFDOpen(f) \/ fde[f].dirty
           THEN worker' = [worker EXCEPT !.pc = "wake"] /\ UNCHANGED fde
           ELSE worker' = [worker EXCEPT !.pc = "push"] /\ fde' = [fde EXCEPT ![f].dirty = TRUE]
    /\ UNCHANGED <<ready, inbox, list, cur, reqs, cq, ring, notify, iopc>>

(* ... the push, ...                                                        *)
WorkerPushes ==
    /\ worker.pc = "push"
    /\ inbox' = <<worker.f>> \o inbox
    /\ worker' = [worker EXCEPT !.pc = "wake"]
    /\ UNCHANGED <<fde, ready, list, cur, reqs, cq, ring, notify, iopc>>

(* ... and the wake-up.                                                     *)
WorkerWakes ==
    /\ worker.pc = "wake"
    /\ notify' = TRUE /\ worker' = Idle
    /\ UNCHANGED <<fde, ready, inbox, list, cur, reqs, cq, ring, iopc>>

(* op_close: interest cleared and marked dirty, the generation bumped; the     *)
(* poll request stays with the kernel.                                       *)
op_close(f) ==
    /\ UserCode /\ IsFDOpen(f) /\ (Outlive \/ worker.f # f)
    /\ LET m == uring_mark_dirty(Register(f, Dirs, FALSE), inbox, f)
       IN  /\ fde' = [m[1] EXCEPT ![f].life = "closed", ![f].gen = Bump(@)]
           /\ inbox' = m[2]
    /\ UNCHANGED <<ready, list, cur, reqs, cq, ring, notify, iopc, worker>>

(* add_fd and op_open: a cleared FDE for the next file of the number.        *)
op_open(f) ==
    /\ UserCode /\ fde[f].life = "recycled" /\ fde[f].file < MaxFile
    /\ fde' = [fde EXCEPT ![f] = Blank("open", fde[f].file + 1)]
    /\ ready' = [ready EXCEPT ![f] = {}]
    /\ UNCHANGED <<inbox, list, cur, reqs, cq, ring, notify, iopc, worker>>

-----------------------------------------------------------------------------
(* Arming and cancelling: the FDE and the requests afterwards.               *)

Request(f, mask, peek) ==
    [fd |-> f, gen |-> Bump(fde[f].gen), mask |-> mask, peek |-> peek,
     multi |-> Multishot /\ ~peek, seen |-> {}, file |-> fde[f].file]

(* Does op_arm_uring take the recv(MSG_PEEK) path?                           *)
ByPeek(f) == Ktls /\ ~Multishot /\ "r" \in fde[f].h

NewRequests(f) ==
    IF ByPeek(f)
    THEN {Request(f, {"r"}, TRUE)}
         \cup {Request(f, {"w"}, FALSE) : x \in {y \in {1} : "w" \in fde[f].h}}
    ELSE {Request(f, fde[f].h, FALSE)}

op_arm_uring(x, f) ==
    [x EXCEPT !.gen = Bump(@), !.pending = TRUE, !.armed = fde[f].h, !.peek = ByPeek(f),
              !.multi = Multishot /\ ~ByPeek(f)]

(* The request of the present generation is taken back, unless it completed   *)
(* already; the generation moves on.                                        *)
op_cancel_uring(x) == [x EXCEPT !.gen = Bump(@), !.pending = FALSE]
Without(f) == {q \in reqs : ~(q.fd = f /\ q.gen = fde[f].gen)}

-----------------------------------------------------------------------------
(* uring_flush_dirty: take the stack, and for each FDE clear the flag, look    *)
(* at it under the locks, arm or cancel.                                     *)

Flush == [pre |-> "flushpre", woken |-> "flushwoken", post |-> "flushpost", post2 |-> "flushpost2"]
AfterFlush == [pre |-> "wait", woken |-> "dispatch", post |-> "sweep", post2 |-> "return"]
Flushing == iopc \in DOMAIN Flush
InFlush == iopc \in Range(Flush)

FlushTake ==
    /\ Flushing
    /\ list' = Reverse(inbox) /\ inbox' = <<>>
    /\ iopc' = IF inbox = <<>> THEN AfterFlush[iopc] ELSE Flush[iopc]
    /\ UNCHANGED <<fde, ready, cur, reqs, cq, ring, notify, worker>>

FlushEnds(pc) ==
    /\ iopc = Flush[pc] /\ list = <<>> /\ cur = None
    /\ iopc' = AfterFlush[pc]
    /\ UNCHANGED <<fde, ready, inbox, list, cur, reqs, cq, ring, notify, worker>>

FlushClear ==
    /\ InFlush /\ list # <<>> /\ cur = None
    /\ cur' = Head(list) /\ list' = Tail(list)
    /\ fde' = [fde EXCEPT ![Head(list)].dirty = FALSE]
    /\ UNCHANGED <<ready, inbox, reqs, cq, ring, notify, iopc, worker>>

(* What a request reports: a poll its conditions and a hang-up; a peek that     *)
(* data, an end of file or an error is there.  The peer of a file that was closed here     *)
(* may still send to it.                                                     *)
Report(q) ==
    IF q.file # fde[q.fd].file \/ fde[q.fd].life \in {"aged", "recycled"} THEN {q.mask \ q.seen} \ {{}}
    ELSE LET on == (ready[q.fd] \cap (q.mask \cup {"hup"})) \ q.seen
         IN  IF on = {} THEN {}
             ELSE IF ~q.peek THEN {on}
             ELSE IF "r" \in on THEN {{"r"}} ELSE {{"eof"}, {"err"}}

(* No completion for seconds: the kernel has reported all it had to, and that   *)
(* has been dispatched.                                                     *)
Stale(f) ==
    /\ IsFDOpen(f) /\ fde[f].pending /\ fde[f].h # {} /\ ~fde[f].peek
    /\ \A q \in reqs : (q.fd = f /\ q.gen = fde[f].gen) => Report(q) = {}
    /\ \A c \in Range(cq) \cup Range(ring) : ~(c.fd = f /\ c.gen = fde[f].gen)

(* What the locked section may do with an open FDE.  A one-shot poll that is    *)
(* pending is left alone, whatever its mask; a multishot poll that was silent     *)
(* for long is armed anew.                                                    *)
FlushDecision(f) ==
    LET x == fde[f]
    IN  CASE x.h # {} /\ ~x.pending -> {"arm"}
          [] x.h = {} /\ x.pending -> {"cancel"}
          [] x.h # {} /\ x.pending /\ (x.peek \/ x.multi) /\ x.armed # x.h -> {"rearm"}
          [] x.multi /\ x.armed = x.h /\ Stale(f) -> {"leave", "rearm"}
          [] OTHER -> {"leave"}

(* arm fails when the submission queue stays full: the FDE is dirty again.    *)
FlushArm ==
    /\ cur # None /\ cur' = None
    /\ \E did \in FlushDecision(cur) :
       LET f == cur
           x == [fde[f] EXCEPT !.peek = FALSE]
           gone == op_cancel_uring(x)
       IN  IF ~IsFDOpen(f) \/ did = "leave" THEN UNCHANGED <<fde, inbox, reqs>>
           ELSE IF did = "cancel"
                THEN fde' = [fde EXCEPT ![f] = gone] /\ reqs' = Without(f) /\ UNCHANGED inbox
           ELSE LET base == IF did = "rearm" THEN gone ELSE x
                    kept == IF did = "rearm" THEN Without(f) ELSE reqs
                IN  \/ /\ fde' = [fde EXCEPT ![f] = op_arm_uring(base, f)]
                       /\ reqs' = kept \cup {[q EXCEPT !.gen = Bump(base.gen)] : q \in NewRequests(f)}
                       /\ UNCHANGED inbox
                    \/ /\ SqFull
                       /\ LET m == uring_mark_dirty([fde EXCEPT ![f] = base], inbox, f)
                          IN  fde' = m[1] /\ inbox' = m[2]
                       /\ reqs' = kept
    /\ UNCHANGED <<ready, list, cq, ring, notify, iopc, worker>>

-----------------------------------------------------------------------------
(* The kernel.                                                              *)

BecomeReady(f, c) ==
    /\ fde[f].life \in {"open", "closed"} /\ c \notin ready[f]
    /\ ready' = [ready EXCEPT ![f] = @ \cup {c}]
    /\ UNCHANGED <<fde, inbox, list, cur, reqs, cq, ring, notify, iopc, worker>>

(* A completion: a multishot poll stays, and reports a condition again after    *)
(* it went away and came back.                                              *)
KernelCompletes ==
    /\ Len(cq) < CqCap
    /\ \E q \in reqs, more \in BOOLEAN : \E res \in Report(q) :
        /\ more => q.multi
        /\ reqs' = (reqs \ {q}) \cup
              (IF more THEN {[q EXCEPT !.seen = @ \cup res]} ELSE {})
        /\ cq' = Append(cq, [fd |-> q.fd, gen |-> q.gen, res |-> res, more |-> more,
                             file |-> q.file])
    /\ UNCHANGED <<fde, ready, inbox, list, cur, ring, notify, iopc, worker>>

-----------------------------------------------------------------------------
(* op_select_uring.                                                         *)

EnterSelect ==
    /\ iopc = "user" /\ iopc' = "pre"
    /\ UNCHANGED <<fde, ready, inbox, list, cur, reqs, cq, ring, notify, worker>>

(* The wait is over with a completion, a wake-up or a timeout, which the inline  *)
(* mode has always when there is no multishot poll.  An EINTR ends it at any     *)
(* time.                                                                    *)
WaitOver == Timed \/ notify \/ (~Threaded /\ (cq # <<>> \/ ~Multishot))

(* The threaded mode flushes once more before it dispatches.                 *)
WaitEnds ==
    /\ iopc = "wait" /\ iopc' = IF Threaded THEN "woken" ELSE "dispatch"
    /\ notify' = FALSE
    /\ UNCHANGED <<fde, ready, inbox, list, cur, reqs, cq, ring, worker>>

(* uring_cq_poll_thread_fn: completions go to the ring while it has room.     *)
uring_cq_poll_thread_fn ==
    /\ Threaded /\ cq # <<>> /\ Len(ring) < RingCap
    /\ ring' = Append(ring, Head(cq)) /\ cq' = Tail(cq)
    /\ notify' = TRUE
    /\ UNCHANGED <<fde, ready, inbox, list, cur, reqs, iopc, worker>>

(* The directions whose handler a completion calls.  Only the inline path      *)
(* knows the result of a peek; for the other an end of file is the empty mask.  *)
Called(res) ==
    IF res \cap {"hup", "err"} # {} THEN {"r", "w"}
    ELSE IF "eof" \in res THEN (IF Threaded THEN {} ELSE {"r"})
    ELSE res

(* The conditions a called handler uses up, and what multishot polls then      *)
(* report again.                                                            *)
Drained(f, ds) == [ready EXCEPT ![f] = @ \ ds]
Forget(rs, f, ds) ==
    {IF q.fd = f THEN [q EXCEPT !.seen = @ \ ds] ELSE q : q \in rs}

(* The FDE a completion is for: open, and of the completion's generation.    *)
Current(c) == fde[c.fd].life = "open" /\ fde[c.fd].gen = c.gen

CqDispatch(c) ==
    LET f == c.fd
        ds == Called(c.res) \cap fde[f].h
        x == IF c.more THEN fde[f] ELSE [fde[f] EXCEPT !.pending = FALSE, !.multi = FALSE,
                                                   !.peek = @ /\ (Threaded \/ c.res \cap {"eof", "err"} = {})]
        after == [fde EXCEPT ![f] = [x EXCEPT !.h = @ \ ds]]
        m == IF c.more THEN <<after, inbox>> ELSE uring_mark_dirty(after, inbox, f)
    IN  IF ~Current(c) THEN UNCHANGED <<fde, inbox, ready, reqs>>
        ELSE /\ fde' = m[1] /\ inbox' = m[2]
             /\ \E left \in SUBSET ds :
                   /\ ready' = Drained(f, ds \ left)
                   /\ reqs' = Forget(reqs, f, ds \ left)

(* The inline loop over the completion queue, and uring_dispatch_from_ring.   *)
DispatchInline ==
    /\ ~Threaded /\ iopc = "dispatch" /\ cq # <<>>
    /\ CqDispatch(Head(cq)) /\ cq' = Tail(cq)
    /\ UNCHANGED <<list, cur, ring, notify, iopc, worker>>

uring_dispatch_from_ring ==
    /\ Threaded /\ iopc = "dispatch" /\ ring # <<>>
    /\ CqDispatch(Head(ring)) /\ ring' = Tail(ring)
    /\ UNCHANGED <<list, cur, cq, notify, iopc, worker>>

DispatchEnds ==
    /\ iopc = "dispatch" /\ (IF Threaded THEN ring ELSE cq) = <<>>
    /\ iopc' = "post"
    /\ UNCHANGED <<fde, ready, inbox, list, cur, reqs, cq, ring, notify, worker>>

(* uring_sweep_stale_polls finds f's poll silent for too long.  With data      *)
(* waiting the read handler is called; else the poll is armed anew.           *)
uring_sweep_stale_polls(f) ==
    /\ iopc = "sweep" /\ Stale(f)
    /\ LET x == [op_cancel_uring(fde[f]) EXCEPT !.multi = FALSE, !.armed = {}]
           data == "r" \in ready[f] /\ "r" \in fde[f].h
           m == uring_mark_dirty([fde EXCEPT ![f] = x], inbox, f)
       IN  IF data
           THEN /\ IF Again THEN fde' = m[1] /\ inbox' = m[2]
                   ELSE fde' = [fde EXCEPT ![f] = [x EXCEPT !.h = @ \ {"r"}]] /\ UNCHANGED inbox
                /\ \E left \in SUBSET {"r"} : ready' = Drained(f, {"r"} \ left)
           ELSE fde' = m[1] /\ inbox' = m[2] /\ UNCHANGED ready
    /\ reqs' = Without(f)
    /\ UNCHANGED <<list, cur, cq, ring, notify, iopc, worker>>

SweepEnds ==
    /\ iopc = "sweep" /\ iopc' = "post2"
    /\ UNCHANGED <<fde, ready, inbox, list, cur, reqs, cq, ring, notify, worker>>

(* op_close_pending_fds: aged FDEs are recycled, dirty or not; closed ones give  *)
(* their number back and age.                                                *)
op_close_pending_fds ==
    fde' = [f \in Fds |->
        CASE fde[f].life = "aged" -> [fde[f] EXCEPT !.life = "recycled", !.dirty = FALSE]
          [] fde[f].life = "closed" -> [fde[f] EXCEPT !.life = "aged"]
          [] OTHER -> fde[f]]

(* op_select closes what is pending after op_select_uring returns.            *)
SelectReturns ==
    /\ iopc = "return" /\ iopc' = "user"
    /\ op_close_pending_fds
    /\ UNCHANGED <<ready, inbox, list, cur, reqs, cq, ring, notify, worker>>

-----------------------------------------------------------------------------
WorkerStep == WorkerMarks \/ WorkerPushes \/ WorkerWakes
FlushStep == FlushTake \/ FlushClear \/ FlushArm \/ \E pc \in DOMAIN AfterFlush : FlushEnds(pc)
Dispatching == DispatchInline \/ uring_dispatch_from_ring \/ DispatchEnds
IoStep ==
    \/ EnterSelect \/ (WaitOver /\ WaitEnds) \/ Dispatching \/ SweepEnds \/ FlushStep \/ SelectReturns
    \/ \E f \in Fds : uring_sweep_stale_polls(f)

Next ==
    \/ \E f \in Fds, ds \in SUBSET Dirs \ {{}}, on \in BOOLEAN :
          op_setselect_uring(f, ds, on) \/ WorkerRegisters(f, ds, on)
    \/ \E f \in Fds : op_close(f) \/ op_open(f)
    \/ \E f \in Fds, c \in Dirs \cup {"hup"} : BecomeReady(f, c)
    \/ KernelCompletes \/ uring_cq_poll_thread_fn \/ WorkerStep \/ IoStep \/ WaitEnds

Spec == Init /\ [][Next]_vars

(* The I/O thread, the CQ thread, the kernel and a worker inside op_setselect   *)
(* go on; a poll that stays silent is swept in the end, as op_select_uring      *)
(* looks every second or every ten.                                          *)
FairSpec ==
    /\ Spec /\ WF_vars(IoStep) /\ WF_vars(KernelCompletes) /\ WF_vars(WorkerStep)
    /\ WF_vars(uring_cq_poll_thread_fn)
    /\ \A f \in Fds : SF_vars(uring_sweep_stale_polls(f))

-----------------------------------------------------------------------------
(* Properties.                                                              *)

TypeOK ==
    /\ \A f \in Fds : /\ fde[f].life \in {"open", "closed", "aged", "recycled"}
                      /\ fde[f].h \subseteq Dirs /\ fde[f].armed \subseteq Dirs
    /\ Range(inbox) \cup Range(list) \subseteq Fds
    /\ Len(ring) <= RingCap /\ worker.f \in Fds \cup {None}

(* Will the I/O thread look at f again?                                     *)
Queued(f) ==
    \/ f \in Range(inbox) \cup Range(list) \cup {cur}
    \/ worker.f = f /\ worker.pc \in {"mark", "push"}

(* No interest is forgotten: an open FDE with a handler is on its way to the    *)
(* flush, or has a request or a completion of its present generation, or a      *)
(* poll the sweep will find (PENDING set).                                   *)
InterestKept ==
    \A f \in Fds : (IsFDOpen(f) /\ fde[f].h # {}) =>
        \/ Queued(f)
        \/ \E q \in reqs : q.fd = f /\ q.gen = fde[f].gen
        \/ \E c \in Range(cq) \cup Range(ring) : c.fd = f /\ c.gen = fde[f].gen
        \/ fde[f].pending /\ ~fde[f].peek

(* The stack of dirty FDEs is a list: no FDE is on it twice, or the next        *)
(* pointers form a ring and uring_flush_dirty never ends.  uring_mark_dirty       *)
(* says so of stale workers too: "the worst case is a benign push of a           *)
(* closed-but-not-yet-freed FDE".                                            *)
InboxSimple == IsInjective(inbox)

(* The I/O thread never sleeps on a filled stack: whoever pushed has written to   *)
(* the eventfd it waits on, or is about to (op_setselect_uring).               *)
InboxAnnounced ==
    (iopc = "wait" /\ inbox # <<>>) => notify \/ worker.pc = "wake" \/ SqFull

(* A stale completion never reaches a handler: what is dispatched was armed     *)
(* for the file that is open now.                                           *)
FreshDispatch ==
    iopc = "dispatch" =>
        \A c \in Range(cq) \cup Range(ring) : Current(c) => c.file = fde[c.fd].file

(* An interest that waits for a condition that holds.                         *)
Unserved(f, d) == IsFDOpen(f) /\ d \in fde[f].h /\ {d, "hup"} \cap ready[f] # {}

(* An interest whose condition holds is served, by the completion or by the     *)
(* sweep.                                                                   *)
InterestServed == \A f \in Fds, d \in Dirs : []<>~Unserved(f, d)
=============================================================================
