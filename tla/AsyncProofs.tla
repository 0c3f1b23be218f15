---------------------------- MODULE AsyncProofs ----------------------------
(* The task port of src/async.c, for any number of tasks and workers: every   *)
(* done_fn is called at most once and after its work_fn, no freed node is      *)
(* used, no completion waits without a wakeup, op_async_pending is exact and    *)
(* op_async_shutdown leaves nothing behind.                                   *)
EXTENDS Async, FiniteSetTheorems, TLAPS

-----------------------------------------------------------------------------
(* The calls of op_async_drain that are under way, as a sequence.             *)

(* The innermost op_async_drain turns to another node.                       *)
LEMMA SetHead ==
    ASSUME NEW S, NEW s \in Seq(S), s # <<>>, NEW x \in S
    PROVE  LET t == [s EXCEPT ![1] = x]
           IN  /\ t \in Seq(S) /\ Len(t) = Len(s) /\ t # <<>> /\ Head(t) = x
               /\ t[1] = x /\ \A i \in 2 .. Len(s) : t[i] = s[i]
  OBVIOUS

(* A done_fn calls op_async_drain.                                           *)
LEMMA PushNone ==
    ASSUME NEW S, NEW s \in Seq(S), NEW x \in S
    PROVE  LET t == <<x>> \o s
           IN  /\ t \in Seq(S) /\ Len(t) = Len(s) + 1 /\ t # <<>> /\ Head(t) = x
               /\ t[1] = x /\ \A i \in 1 .. Len(s) : t[i + 1] = s[i]
  OBVIOUS

(* The innermost op_async_drain returns.                                     *)
LEMMA DropHead ==
    ASSUME NEW S, NEW s \in Seq(S), s # <<>>
    PROVE  /\ Tail(s) \in Seq(S) /\ Len(Tail(s)) = Len(s) - 1
           /\ \A i \in 1 .. Len(s) - 1 : Tail(s)[i] = s[i + 1]
           /\ IF Len(s) > 1 THEN Tail(s) # <<>> ELSE Tail(s) = <<>> /\ Len(s) = 1
<1>1. /\ Tail(s) \in Seq(S) /\ Len(Tail(s)) = Len(s) - 1
      /\ \A i \in 1 .. Len(s) - 1 : Tail(s)[i] = s[i + 1]
  OBVIOUS
<1>2. Len(s) \in Nat \ {0}
  OBVIOUS
<1>3. Tail(s) = <<>> <=> Len(Tail(s)) = 0
  BY <1>1, SMTT(30)
<1>4. CASE Len(s) > 1
  BY <1>1, <1>3
<1>5. CASE Len(s) = 1
  BY <1>3
<1>6. Len(s) > 1 \/ Len(s) = 1
  <2>1. \A n \in Nat \ {0} : n > 1 \/ n = 1
    OBVIOUS
  <2>2. QED
    BY <1>2, <2>1, Zenon
<1>7. QED
  BY <1>4, <1>6

-----------------------------------------------------------------------------
(* The inductive invariant.                                                   *)

(* TypeOK without the limit of the count, which PendingIsExact gives.          *)
Types ==
    /\ todo \subseteq Tasks /\ pool \subseteq Tasks
    /\ up \in BOOLEAN /\ shut \in BOOLEAN /\ fails \in 0 .. MaxFail
    /\ sub \in [Threads -> Tasks \cup {None}]
    /\ pending \in Int
    /\ wpc \in [Threads -> {"idle", "work", "link", "notify", "exited"}]
    /\ wtask \in [Threads -> Tasks \cup {None}]
    /\ wold \in [Threads -> Nodes \cup {None}]
    /\ alive \subseteq Nodes /\ next \in [Nodes -> Nodes \cup {None}]
    /\ head \in Nodes \cup {None} /\ tail \in Nodes \cup {None}
    /\ efd \in BOOLEAN /\ armed \in BOOLEAN
    /\ mpc \in {"loop", "tick", "handler", "join", "shutdrain", "close"}
    /\ drains \in Seq(Tasks \cup {None})
    /\ called \in [Tasks -> Nat]
    /\ nfd \in Fds \cup {None} /\ kopen \subseteq Fds /\ closing \subseteq Fds /\ aged \subseteq Fds

(* The queue exists: from op_async_init to the end of op_async_shutdown.       *)
Live == up \/ mpc \in {"shutdrain", "close"}

(* Where the threads can be in each phase of the main thread.                  *)
Phase ==
    /\ mpc \in {"tick", "handler", "join"} => up
    /\ mpc \in {"shutdrain", "close"} => ~up
    /\ Live => ~shut /\ nfd # None
    /\ armed => Live
    /\ \A t \in Threads : wpc[t] \in {"work", "link", "notify"} => up /\ (t = Main => mpc = "join")
    /\ wpc[Main] # "exited"
    /\ ~up => pool = {}
    /\ \A w \in Workers : sub[w] # None => wpc[w] = "work"

(* When op_async_drain is under way, and when the main thread may be inside     *)
(* op_async_submit.                                                           *)
Calls ==
    /\ drains = <<>> <=> mpc \in {"loop", "join", "close"}
    /\ sub[Main] # None => InDone \/ (mpc = "loop" /\ up)

(* A task is in one place at a time: not submitted, on its way to the pool, in  *)
(* the pool, with a thread that runs its work_fn, or posted.                   *)
Owned ==
    /\ todo \cap pool = {}
    /\ \A t \in Threads : sub[t] # None => sub[t] \notin todo \cup pool
    /\ \A t \in Threads : wpc[t] = "work" => wtask[t] \in Tasks \ (todo \cup pool)
    /\ \A t, u \in Threads : t # u /\ sub[t] # None => sub[t] # sub[u]
    /\ \A t, u \in Threads : t # u /\ wpc[t] = "work" /\ wpc[u] = "work" => wtask[t] # wtask[u]
    /\ \A t, u \in Threads : sub[t] # None /\ wpc[u] = "work" => sub[t] # wtask[u]
    /\ \A k \in Tasks : k \in alive \/ called[k] # 0 => k \notin todo \cup pool /\ ~InHand(k)
    /\ \A k \in Tasks : called[k] \in {0, 1}

(* The nodes from the head to the tail carry consecutive numbers r.  A node     *)
(* that is not the tail is linked to its successor, or the thread that posted   *)
(* the successor is about to link it.                                         *)
Chain(r) ==
    /\ head \in alive /\ tail \in alive
    /\ \A n \in alive : r[head] <= r[n] /\ r[n] <= r[tail]
    /\ \A m, n \in alive : r[m] = r[n] => m = n
    /\ \A n \in alive : next[n] # None => next[n] \in alive /\ r[next[n]] = r[n] + 1
    /\ \A t \in Threads : wpc[t] = "link" =>
          /\ wold[t] \in alive /\ next[wold[t]] = None
          /\ wtask[t] \in alive /\ r[wtask[t]] = r[wold[t]] + 1
    /\ \A n \in alive : n # tail /\ next[n] = None =>
          \E t \in Threads : wpc[t] = "link" /\ wold[t] = n

Linked == IF Live THEN \E r \in [Nodes -> Int] : Chain(r) ELSE alive = {}

(* The head is the last node delivered, or op_async_init's sentinel; the nodes  *)
(* behind it are not delivered yet.                                           *)
Posted ==
    /\ \A k \in Tasks : k \in alive => called[k] = (IF k = head THEN 1 ELSE 0)
    /\ Sentinel \in alive => head = Sentinel
    /\ mpc = "close" => head = tail
    /\ \A t \in Threads : wpc[t] # "link" => wold[t] = None
    /\ \A t, u \in Threads : t # u /\ wpc[t] = "link" /\ wpc[u] = "link" => wtask[t] # wtask[u]

(* No two calls of op_async_drain deliver the same node.                       *)
Delivered ==
    /\ \A i \in 1 .. Len(drains) : drains[i] # None => called[drains[i]] = 1
    /\ \A i, j \in 1 .. Len(drains) : drains[i] # None /\ i # j => drains[i] # drains[j]

IInv == Types /\ Phase /\ Calls /\ Owned /\ Linked /\ Posted /\ Delivered

(* The invariant holds before op_async_init.                                 *)
LEMMA InitIInv == ASSUME AsyncAssumption PROVE Init => IInv
<1> SUFFICES ASSUME Init PROVE IInv
  BY Zenon
<1> USE AsyncAssumption
<1>1. Types
  <2>1. drains \in Seq(Tasks \cup {None}) /\ fails \in 0 .. MaxFail /\ pending \in Int
    BY DEF Init, AsyncAssumption
  <2>2. up \in BOOLEAN /\ shut \in BOOLEAN /\ efd \in BOOLEAN /\ armed \in BOOLEAN
    BY Zenon DEF Init
  <2>3. /\ {sub, wtask} \subseteq [Threads -> Tasks \cup {None}] /\ wold \in [Threads -> Nodes \cup {None}]
        /\ wpc \in [Threads -> {"idle", "work", "link", "notify", "exited"}]
        /\ next \in [Nodes -> Nodes \cup {None}] /\ called \in [Tasks -> Nat]
    BY Zenon DEF Init
  <2>4. QED
    BY <2>1, <2>2, Zenon DEF Init, Types
<1>2. Phase
  BY Zenon DEF Init, Phase, Live, Threads
<1>3. Calls
  BY Zenon DEF Init, Calls, Threads
<1>4. Owned
  BY Zenon DEF Init, Owned
<1>5. Linked
  BY Zenon DEF Init, Linked, Live
<1>6. Posted
  BY Zenon DEF Init, Posted
<1>7. Delivered
  BY DEF Init, Delivered
<1>8. QED
  BY <1>1, <1>2, <1>3, <1>4, <1>5, <1>6, <1>7, Zenon DEF IInv

-----------------------------------------------------------------------------
(* What the chain says about its ends.                                        *)

(* The successor of the head is a task's node that has not been delivered.      *)
LEMMA HeadNext ==
    ASSUME AsyncAssumption, IInv, Live, next[head] # None
    PROVE  /\ next[head] \in alive /\ next[head] \in Tasks /\ next[head] # head
           /\ called[next[head]] = 0 /\ head # tail
<1>1. PICK r \in [Nodes -> Int] : Chain(r)
  BY Zenon DEF IInv, Linked
<1>2. alive \subseteq Nodes /\ head \in alive /\ tail \in alive
  BY <1>1, Zenon DEF IInv, Types, Chain
<1>3. next[head] \in alive /\ r[next[head]] = r[head] + 1
  BY <1>1, Zenon DEF Chain
<1>4. r[head] \in Int /\ r[tail] \in Int /\ r[next[head]] \in Int /\ r[next[head]] <= r[tail]
  BY <1>1, <1>2, Zenon DEF Chain
<1>5. next[head] # head /\ head # tail
  BY <1>3, <1>4
<1>6. next[head] # Sentinel
  BY <1>3, <1>5, Zenon DEF IInv, Posted
<1>7. next[head] \in Tasks
  BY <1>2, <1>3, <1>6, Zenon DEF Nodes
<1>8. QED
  BY <1>3, <1>5, <1>7, Zenon DEF IInv, Posted

(* A queue that has no more than its sentinel.                                 *)
LEMMA OnlyHead ==
    ASSUME IInv, Live, head = tail
    PROVE  alive = {head}
<1>1. PICK r \in [Nodes -> Int] : Chain(r)
  BY Zenon DEF IInv, Linked
<1>2. alive \subseteq Nodes /\ head \in alive
  BY <1>1, Zenon DEF IInv, Types, Chain
<1>3. ASSUME NEW n \in alive PROVE n = head
  <2>1. r[n] \in Int /\ r[head] \in Int /\ r[head] <= r[n] /\ r[n] <= r[head]
    BY <1>1, <1>2, Zenon DEF Chain
  <2>2. r[n] = r[head]
    BY <2>1
  <2>3. QED
    BY <1>1, <2>2, Zenon DEF Chain
<1>4. QED
  BY <1>2, <1>3, Zenon

(* An empty queue, as op_async_drain sees it, is one whose only node is the     *)
(* sentinel, or a thread is about to link the next one.                        *)
LEMMA LooksEmpty ==
    ASSUME IInv, Live, next[head] = None, \A t \in Threads : wpc[t] # "link"
    PROVE  head = tail
<1>1. PICK r \in [Nodes -> Int] : Chain(r)
  BY Zenon DEF IInv, Linked
<1>2. QED
  BY <1>1, Zenon DEF Chain

(* The list exists for as long as neither the pool nor the phase changes.    *)
LEMMA SameLive == ASSUME UNCHANGED <<up, mpc>> PROVE Live' = Live
  BY Zenon DEF Live

(* op_async_drain runs while the list exists.                                *)
LEMMA Draining == ASSUME IInv, drains # <<>> PROVE Live /\ mpc \in {"tick", "handler", "shutdrain"}
<1>1. Phase /\ Calls /\ mpc \in {"loop", "tick", "handler", "join", "shutdrain", "close"}
  BY Zenon DEF IInv, Types
<1>2. QED
  BY <1>1, Zenon DEF Phase, Calls, Live

(* The task whose work_fn a thread runs has no node yet, and the port is up.  *)
LEMMA Working ==
    ASSUME IInv, NEW t \in Threads, wpc[t] = "work"
    PROVE  /\ wtask[t] \in Tasks /\ wtask[t] \notin alive /\ called[wtask[t]] = 0 /\ InHand(wtask[t])
           /\ up /\ Live /\ mpc # "close"
<1>1. Owned /\ Phase
  BY Zenon DEF IInv
<1>2. wtask[t] \in Tasks /\ InHand(wtask[t])
  BY <1>1, Zenon DEF Owned, InHand
<1>3. wtask[t] \notin alive /\ called[wtask[t]] = 0
  BY <1>1, <1>2, Zenon DEF Owned
<1>4. QED
  BY <1>1, <1>2, <1>3, Zenon DEF Phase, Live

-----------------------------------------------------------------------------
(* Every step keeps the invariant: one lemma per conjunct, one case per action  *)
(* that changes what the conjunct is about.                                    *)

(* What a submitting thread and a thread in async_worker_fn leave to the main *)
(* thread.                                                                   *)
ThreadStep(t) == op_async_submit(t) \/ async_worker_fn(t) \/ (t \in Workers /\ WorkerExits(t))

(* A thread of the pool changes neither the port's life nor its deliveries.  *)
LEMMA ThreadFrame ==
    ASSUME NEW t, ThreadStep(t)
    PROVE  UNCHANGED <<up, fails, shut, head, armed, mpc, drains, called, nfd, kopen, closing, aged>>
  BY Zenon DEF ThreadStep, op_async_submit, CountTask, SubmitTask, async_worker_fn, RunTask, FinishSilent,
     async_post_completion, SwingTail, LinkNode, NotifyMain, WorkerExits, lifeVars, fdVars

(* The main thread's steps that leave the tasks and the list as they are.    *)
MainQuiet ==
    \/ async_notify_handler \/ TickDrains \/ DoneDrains \/ DoneReturns \/ DrainReturns
    \/ BeginShutdown \/ JoinReturns \/ op_close_pending_fds

(* They change where op_async_drain is, the count and the descriptors.       *)
LEMMA QuietFrame ==
    ASSUME MainQuiet
    PROVE  UNCHANGED <<todo, pool, sub, wpc, wtask, wold, alive, next, head, tail, called, fails, shut>>
  BY Zenon DEF MainQuiet, async_notify_handler, TickDrains, DoneDrains, DoneReturns, DrainReturns,
     BeginShutdown, JoinReturns, op_close_pending_fds, lifeVars, workVars, queueVars

(* The steps of Next.                                                        *)
LEMMA NextCases ==
    ASSUME Next
    PROVE  \/ MainQuiet \/ Deliver \/ InitFails \/ op_async_init \/ FinishShutdown
           \/ \E t \in Threads : ThreadStep(t)
  BY Zenon DEF Next, MainNext, op_async_drain, op_async_shutdown, MainQuiet, ThreadStep, Threads

(* A step that changes neither the list nor who is about to link it.         *)
LEMMA LinkedFrame ==
    ASSUME Linked, UNCHANGED <<alive, next, head, tail>>, Live' = Live,
           \A u \in Threads : /\ wpc'[u] = "link" <=> wpc[u] = "link"
                              /\ wpc[u] = "link" => wold'[u] = wold[u] /\ wtask'[u] = wtask[u]
    PROVE  Linked'
<1>1. CASE Live
  <2>1. PICK r \in [Nodes -> Int] : Chain(r)
    BY <1>1, Zenon DEF Linked
  <2>2. Chain(r)'
    BY <2>1, SMTT(30) DEF Chain
  <2>3. QED
    BY <1>1, <2>2, Zenon DEF Linked
<1>2. CASE ~Live
  BY <1>2, Zenon DEF Linked
<1>3. QED
  BY <1>1, <1>2, Zenon

(* Every step keeps the completion list one chain, up to a late link.        *)
LEMMA LinkedStep == ASSUME AsyncAssumption, IInv, Next PROVE Linked'
<1> USE DEF lifeVars, workVars, queueVars, fdVars
<1>0. Types /\ Linked /\ Posted /\ Phase /\ None \notin Tasks /\ Sentinel \notin Tasks /\ None \notin Nodes
  BY Zenon DEF IInv, AsyncAssumption, Nodes
<1>99. ASSUME UNCHANGED <<alive, next, head, tail, wpc, wold, wtask>>, Live' = Live PROVE Linked'
  BY <1>0, <1>99, LinkedFrame, Zenon
<1>1. ASSUME NEW t \in Threads, op_async_submit(t) PROVE Linked'
  <2>1. Live' = Live
    BY <1>1, ThreadFrame, SameLive, Zenon DEF ThreadStep
  <2>2. UNCHANGED <<alive, next, head, tail, wpc, wold, wtask>>
    BY <1>1, Zenon DEF op_async_submit, CountTask, SubmitTask
  <2>3. QED
    BY <2>1, <2>2, <1>99, Zenon
<1>3. ASSUME NEW t \in Threads, RunTask(t) \/ FinishSilent(t) \/ NotifyMain(t) \/ (t \in Workers /\ WorkerExits(t))
      PROVE  Linked'
  <2>1. Live' = Live
    BY <1>3, ThreadFrame, SameLive, Zenon DEF ThreadStep, async_worker_fn, async_post_completion
  <2>2. UNCHANGED <<alive, next, head, tail>>
    BY <1>3, Zenon DEF RunTask, FinishSilent, NotifyMain, WorkerExits
  <2>3. \A u \in Threads : /\ wpc'[u] = "link" <=> wpc[u] = "link"
                           /\ wpc[u] = "link" => wold'[u] = wold[u] /\ wtask'[u] = wtask[u]
    BY <1>0, <1>3, Zenon DEF RunTask, FinishSilent, NotifyMain, WorkerExits, Goto, Types
  <2>4. QED
    BY <1>0, <2>1, <2>2, <2>3, LinkedFrame, Zenon
<1>5. ASSUME NEW t \in Threads, SwingTail(t) PROVE Linked'
  <2>1. up /\ Live /\ Live'
    BY <1>0, <1>5, Zenon DEF SwingTail, Phase, Live
  <2>2. PICK r \in [Nodes -> Int] : Chain(r)
    BY <2>1, Zenon DEF IInv, Linked
  <2> DEFINE k == wtask[t]
  <2>3. k \in Tasks /\ k \in Nodes /\ k \notin alive
    BY <1>5, Working, Zenon DEF SwingTail, Nodes
  <2>4. alive \subseteq Nodes /\ head \in alive /\ tail \in alive /\ r[tail] \in Int
    BY <1>0, <2>2, Zenon DEF Types, Chain
  <2>5. PICK q \in [Nodes -> Int] : q[k] = r[tail] + 1 /\ \A n \in alive : q[n] = r[n] /\ r[n] \in Int
    <3>1. LET q == [r EXCEPT ![k] = r[tail] + 1]
          IN  q \in [Nodes -> Int] /\ q[k] = r[tail] + 1 /\ \A n \in alive : q[n] = r[n] /\ r[n] \in Int
      BY <2>3, <2>4
    <3>2. QED
      BY <3>1, Zenon
  <2>6. /\ alive' = alive \cup {k} /\ tail' = k /\ head' = head
        /\ next'[k] = None /\ \A n \in alive : next'[n] = next[n]
        /\ wpc'[t] = "link" /\ wold'[t] = tail /\ wtask' = wtask
        /\ \A u \in Threads : u # t => wpc'[u] = wpc[u] /\ wold'[u] = wold[u]
    BY <1>0, <1>5, <2>3, Zenon DEF SwingTail, Goto, Types
  <2> HIDE DEF k
  <2>7. k = wtask[t] /\ wpc[t] # "link"
    BY <1>5, Zenon DEF SwingTail, k
  <2>8. next[tail] = None
    BY <2>2, <2>5, SMTT(30) DEF Chain
  <2>9. Chain(q)'
    <3>1. /\ head' \in alive' /\ tail' \in alive'
          /\ \A n \in alive' : q[head'] <= q[n] /\ q[n] <= q[tail']
      BY <2>2, <2>5, <2>6, SMTT(30) DEF Chain
    <3>2. \A m, n \in alive' : q[m] = q[n] => m = n
      BY <2>2, <2>5, <2>6, SMTT(30) DEF Chain
    <3>3. \A n \in alive' : next'[n] # None => next'[n] \in alive' /\ q[next'[n]] = q[n] + 1
      BY <2>2, <2>5, <2>6, SMTT(30) DEF Chain
    <3>4. ASSUME NEW u \in Threads, wpc'[u] = "link"
          PROVE  /\ wold'[u] \in alive' /\ next'[wold'[u]] = None
                 /\ wtask'[u] \in alive' /\ q[wtask'[u]] = q[wold'[u]] + 1
      BY <2>2, <2>5, <2>6, <2>7, <3>4, SMTT(30) DEF Chain
    <3>5. ASSUME NEW n \in alive', n # tail', next'[n] = None
          PROVE  \E u \in Threads : wpc'[u] = "link" /\ wold'[u] = n
      BY <2>2, <2>6, <2>7, <3>5, SMTT(30) DEF Chain
    <3>6. QED
      BY <3>1, <3>2, <3>3, <3>4, <3>5, Zenon DEF Chain
  <2>10. QED
    BY <2>1, <2>9, Zenon DEF Linked
<1>6. ASSUME NEW t \in Threads, LinkNode(t) PROVE Linked'
  <2>1. up /\ Live /\ Live'
    BY <1>0, <1>6, Zenon DEF LinkNode, Phase, Live
  <2>2. PICK r \in [Nodes -> Int] : Chain(r)
    BY <2>1, Zenon DEF IInv, Linked
  <2> DEFINE k == wtask[t]
             p == wold[t]
  <2>3. /\ k \in alive /\ p \in alive /\ r[k] = r[p] + 1 /\ next[p] = None /\ wpc[t] = "link"
        /\ alive \subseteq Nodes
    BY <1>0, <1>6, <2>2, Zenon DEF Chain, LinkNode, Types
  <2>4. /\ UNCHANGED <<alive, head, tail, wtask>>
        /\ next'[p] = k /\ \A n \in alive : n # p => next'[n] = next[n]
        /\ wpc'[t] = "notify"
        /\ \A u \in Threads : u # t => wpc'[u] = wpc[u] /\ wold'[u] = wold[u]
    BY <1>0, <1>6, <2>3, Zenon DEF LinkNode, Goto, Types
  <2>5. ASSUME NEW u \in Threads, u # t, wpc[u] = "link" PROVE wold[u] # p
    <3>1. wtask[u] \in alive /\ r[wtask[u]] = r[wold[u]] + 1 /\ wtask[u] # k
      BY <1>0, <2>2, <2>3, <2>5, Zenon DEF Chain, Posted
    <3>2. QED
      BY <2>2, <2>3, <3>1, SMTT(30) DEF Chain
  <2> HIDE DEF k, p
  <2>6. p = wold[t]
    BY Zenon DEF p
  <2>7. Chain(r)'
    <3>1. /\ head' \in alive' /\ tail' \in alive'
          /\ \A n \in alive' : r[head'] <= r[n] /\ r[n] <= r[tail']
          /\ \A m, n \in alive' : r[m] = r[n] => m = n
      BY <2>2, <2>4, Zenon DEF Chain
    <3>2. \A n \in alive' : next'[n] # None => next'[n] \in alive' /\ r[next'[n]] = r[n] + 1
      BY <2>2, <2>3, <2>4, SMTT(30) DEF Chain
    <3>3. ASSUME NEW u \in Threads, wpc'[u] = "link"
          PROVE  /\ wold'[u] \in alive' /\ next'[wold'[u]] = None
                 /\ wtask'[u] \in alive' /\ r[wtask'[u]] = r[wold'[u]] + 1
      BY <2>2, <2>4, <2>5, <3>3, SMTT(30) DEF Chain
    <3>4. ASSUME NEW n \in alive', n # tail', next'[n] = None
          PROVE  \E u \in Threads : wpc'[u] = "link" /\ wold'[u] = n
      <4>1. n # p /\ next[n] = None
        BY <1>0, <2>3, <2>4, <3>4, Zenon
      <4>2. PICK u \in Threads : wpc[u] = "link" /\ wold[u] = n
        BY <2>2, <2>4, <3>4, <4>1, Zenon DEF Chain
      <4>3. QED
        BY <2>4, <2>6, <4>1, <4>2, Zenon
    <3>5. QED
      BY <3>1, <3>2, <3>3, <3>4, Zenon DEF Chain
  <2>8. QED
    BY <2>1, <2>7, Zenon DEF Linked
<1>9. CASE MainQuiet
  <2>1. ASSUME async_notify_handler \/ TickDrains \/ BeginShutdown \/ JoinReturns PROVE Live' = Live
    BY <1>0, <2>1, Zenon
       DEF async_notify_handler, TickDrains, BeginShutdown, JoinReturns, MainIdle, Live, Phase
  <2>2. ASSUME DoneDrains \/ DoneReturns \/ op_close_pending_fds PROVE Live' = Live
    BY <2>2, SameLive, Zenon DEF DoneDrains, DoneReturns, op_close_pending_fds
  <2>3. ASSUME DrainReturns PROVE Live' = Live
    BY <2>3, Draining, Zenon DEF DrainReturns, Live
  <2>4. QED
    BY <1>9, <1>99, <2>1, <2>2, <2>3, QuietFrame, Zenon DEF MainQuiet
<1>12. CASE Deliver
  <2>1. Live /\ Live'
    BY <1>12, Draining, SameLive, Zenon DEF Deliver
  <2>2. PICK r \in [Nodes -> Int] : Chain(r)
    BY <2>1, Zenon DEF IInv, Linked
  <2>3. /\ next[head] # None /\ head' = next[head] /\ alive' = alive \ {head}
        /\ UNCHANGED <<next, tail, wpc, wold, wtask>>
    BY <1>12, Zenon DEF Deliver
  <2>4. next[head] \in alive /\ r[next[head]] = r[head] + 1 /\ head \in alive /\ tail \in alive
    BY <2>2, <2>3, Zenon DEF Chain
  <2>5. \A n \in alive : r[n] \in Int
    BY <1>0, Zenon DEF Types
  <2>6. \A n \in alive' : n \in alive /\ n # head /\ r[n] >= r[head] + 1
    BY <2>2, <2>3, <2>5, SMTT(30) DEF Chain
  <2>7. \A n \in alive : r[n] >= r[head] + 1 => n \in alive'
    BY <2>3, <2>5, SMTT(30)
  <2>8. Chain(r)'
    <3>1. /\ head' \in alive' /\ tail' \in alive'
          /\ \A n \in alive' : r[head'] <= r[n] /\ r[n] <= r[tail']
          /\ \A m, n \in alive' : r[m] = r[n] => m = n
      BY <2>2, <2>3, <2>6, <2>7, SMTT(30) DEF Chain
    <3>2. \A n \in alive' : next'[n] # None => next'[n] \in alive' /\ r[next'[n]] = r[n] + 1
      BY <2>2, <2>3, <2>5, SMTT(30) DEF Chain
    <3>3. ASSUME NEW u \in Threads, wpc'[u] = "link"
          PROVE  /\ wold'[u] \in alive' /\ next'[wold'[u]] = None
                 /\ wtask'[u] \in alive' /\ r[wtask'[u]] = r[wold'[u]] + 1
      <4>1. /\ wold[u] \in alive /\ next[wold[u]] = None
            /\ wtask[u] \in alive /\ r[wtask[u]] = r[wold[u]] + 1
        BY <2>2, <2>3, <3>3, Zenon DEF Chain
      <4>2. wold[u] \in alive'
        BY <2>3, <4>1, Zenon
      <4>3. QED
        BY <2>3, <2>5, <2>6, <4>1, SMTT(30)
    <3>4. ASSUME NEW n \in alive', n # tail', next'[n] = None
          PROVE  \E u \in Threads : wpc'[u] = "link" /\ wold'[u] = n
      BY <2>2, <2>3, <3>4, Zenon DEF Chain
    <3>5. QED
      BY <3>1, <3>2, <3>3, <3>4, Zenon DEF Chain
  <2>9. QED
    BY <2>1, <2>8, Zenon DEF Linked
<1>15. CASE InitFails
  BY <1>15, Zenon DEF InitFails, MainIdle, IInv, Linked, Live
<1>16. CASE op_async_init
  <2>1. alive = {} /\ \A t \in Threads : wpc'[t] = "idle"
    BY <1>16, Zenon DEF op_async_init, MainIdle, IInv, Linked, Live
  <2>2. PICK r \in [Nodes -> Int] : Sentinel \in Nodes /\ r[Sentinel] = 0
    <3>1. [n \in Nodes |-> 0] \in [Nodes -> Int]
      OBVIOUS
    <3>2. Sentinel \in Nodes /\ [n \in Nodes |-> 0][Sentinel] = 0
      BY Zenon DEF Nodes
    <3>3. QED
      BY <3>1, <3>2, Zenon
  <2>3. alive' = {Sentinel} /\ head' = Sentinel /\ tail' = Sentinel /\ next'[Sentinel] = None
    BY <1>0, <1>16, <2>1, <2>2, Zenon DEF op_async_init, Types
  <2>4. Chain(r)'
    BY <2>1, <2>2, <2>3, SMTT(30) DEF Chain
  <2>5. QED
    BY <1>16, <2>4, Zenon DEF op_async_init, Linked, Live
<1>19. CASE FinishShutdown
  <2>1. alive' = {}
    BY <1>0, <1>19, OnlyHead, Zenon DEF FinishShutdown, Posted, Live
  <2>2. ~Live'
    BY <1>0, <1>19, Zenon DEF FinishShutdown, Live, Phase
  <2>3. QED
    BY <2>1, <2>2, Zenon DEF Linked
<1>21. QED
  BY <1>1, <1>3, <1>5, <1>6, <1>9, <1>12, <1>15, <1>16, <1>19, NextCases, ZenonT(30)
     DEF ThreadStep, async_worker_fn, async_post_completion

(* Every step leaves a task with one owner.                                  *)
LEMMA OwnedStep == ASSUME AsyncAssumption, IInv, Next PROVE Owned'
<1> USE DEF lifeVars, workVars, queueVars, fdVars
<1>0. Types /\ Owned /\ None \notin Tasks /\ Sentinel \notin Tasks
  BY Zenon DEF IInv, AsyncAssumption
<1>99. UNCHANGED <<todo, pool, sub, wpc, wtask, alive, called>> => Owned'
  BY <1>0, SMTT(30) DEF Owned, InHand
<1>1. ASSUME NEW t \in Threads, CountTask(t) PROVE Owned'
  BY <1>0, <1>1, SMTT(30) DEF CountTask, Owned, InHand
<1>2. ASSUME NEW t \in Threads, SubmitTask(t) PROVE Owned'
  BY <1>0, <1>2, SMTT(30) DEF SubmitTask, Types, Owned, InHand
<1>3. ASSUME NEW t \in Threads, RunTask(t) PROVE Owned'
  BY <1>0, <1>3, SMTT(30) DEF RunTask, Goto, Types, Owned, InHand
<1>4. ASSUME NEW t \in Threads, FinishSilent(t) PROVE Owned'
  BY <1>0, <1>4, SMTT(30) DEF FinishSilent, Goto, Types, Owned, InHand
<1>5. ASSUME NEW t \in Threads, SwingTail(t) PROVE Owned'
  BY <1>0, <1>5, SMTT(30) DEF SwingTail, Goto, Types, Owned, InHand
<1>6. ASSUME NEW t \in Threads, LinkNode(t) PROVE Owned'
  BY <1>0, <1>6, SMTT(30) DEF LinkNode, Goto, Owned, InHand
<1>7. ASSUME NEW t \in Threads, NotifyMain(t) PROVE Owned'
  BY <1>0, <1>7, SMTT(30) DEF NotifyMain, Goto, Owned, InHand
<1>8. ASSUME NEW w \in Workers, WorkerExits(w) PROVE Owned'
  BY <1>0, <1>8, SMTT(30) DEF WorkerExits, Goto, Owned, InHand
<1>9. CASE MainQuiet \/ InitFails
  BY <1>9, <1>99, QuietFrame, Zenon DEF InitFails
<1>12. CASE Deliver
  <2>1. Live
    BY <1>12, Draining, Zenon DEF Deliver
  <2>2. next[head] \in alive /\ next[head] \in Tasks /\ called[next[head]] = 0
    BY <1>12, <2>1, HeadNext, Zenon DEF Deliver
  <2>3. QED
    BY <1>0, <1>12, <2>2, SMTT(30) DEF Deliver, Owned, InHand
<1>16. CASE op_async_init
  BY <1>0, <1>16, Zenon DEF op_async_init, Owned, InHand
<1>19. CASE FinishShutdown
  BY <1>0, <1>19, Zenon DEF FinishShutdown, Owned, InHand
<1>21. QED
  BY <1>1, <1>2, <1>3, <1>4, <1>5, <1>6, <1>7, <1>8, <1>9, <1>12, <1>16, <1>19, NextCases, ZenonT(30)
     DEF ThreadStep, op_async_submit, async_worker_fn, async_post_completion

(* Every step keeps the nodes' deliveries in the order of the list.          *)
LEMMA PostedStep == ASSUME AsyncAssumption, IInv, Next PROVE Posted'
<1> USE DEF lifeVars, workVars, queueVars, fdVars
<1>0. Types /\ Posted /\ None \notin Tasks /\ Sentinel \notin Tasks
  BY Zenon DEF IInv, AsyncAssumption
<1>99. UNCHANGED <<alive, called, head, tail, wpc, wold, wtask>> /\ (mpc' = "close" => mpc = "close") => Posted'
  BY <1>0, Zenon DEF Posted
<1>1. ASSUME NEW t \in Threads, op_async_submit(t) PROVE Posted'
  BY <1>1, <1>99, Zenon DEF op_async_submit, CountTask, SubmitTask
<1>3. ASSUME NEW t \in Threads, RunTask(t) PROVE Posted'
  BY <1>0, <1>3, SMTT(30) DEF RunTask, Goto, Posted
<1>4. ASSUME NEW t \in Threads, FinishSilent(t) PROVE Posted'
  BY <1>0, <1>4, SMTT(30) DEF FinishSilent, Goto, Posted
<1>5. ASSUME NEW t \in Threads, SwingTail(t) PROVE Posted'
  <2>1. wtask[t] \in Tasks /\ wtask[t] \notin alive /\ called[wtask[t]] = 0
    BY <1>5, Working, Zenon DEF SwingTail
  <2>2. up /\ mpc # "close"
    BY <1>5, Working, Zenon DEF SwingTail
  <2>3. head \in alive /\ \A u \in Threads : wpc[u] = "link" => wtask[u] \in alive
    BY <2>2, Zenon DEF IInv, Linked, Live, Chain
  <2>4. QED
    BY <1>0, <1>5, <2>1, <2>2, <2>3, SMTT(30) DEF SwingTail, Goto, Types, Posted
<1>6. ASSUME NEW t \in Threads, LinkNode(t) PROVE Posted'
  BY <1>0, <1>6, Zenon DEF LinkNode, Goto, Types, Posted
<1>7. ASSUME NEW t \in Threads, NotifyMain(t) PROVE Posted'
  BY <1>0, <1>7, SMTT(30) DEF NotifyMain, Goto, Posted
<1>8. ASSUME NEW w \in Workers, WorkerExits(w) PROVE Posted'
  BY <1>0, <1>8, SMTT(30) DEF WorkerExits, Goto, Posted
<1>9. CASE MainQuiet /\ ~DrainReturns
  <2>1. mpc' = "close" => mpc = "close"
    BY <1>9, Zenon DEF MainQuiet, async_notify_handler, TickDrains, DoneDrains, DoneReturns,
       BeginShutdown, JoinReturns, op_close_pending_fds
  <2>2. QED
    BY <1>9, <1>99, <2>1, QuietFrame, Zenon
<1>12. CASE Deliver
  <2>1. Live /\ mpc # "close"
    BY <1>12, Draining, Zenon DEF Deliver
  <2>2. next[head] \in alive /\ next[head] \in Tasks /\ called[next[head]] = 0 /\ next[head] # head
    BY <1>12, <2>1, HeadNext, Zenon DEF Deliver
  <2>3. QED
    BY <1>0, <1>12, <2>1, SMTT(30) DEF Deliver, Types, Posted
<1>14. CASE DrainReturns
  <2>1. mpc' = "close" => head = tail
    <3>1. SUFFICES ASSUME mpc = "shutdrain" PROVE head = tail
      BY <1>14, Zenon DEF DrainReturns, IInv, Posted
    <3>2. Live /\ \A t \in Threads : wpc[t] # "link"
      BY <3>1, Zenon DEF IInv, Phase, Live
    <3>3. QED
      BY <1>14, <3>2, LooksEmpty, Zenon DEF DrainReturns
  <2>2. QED
    BY <1>0, <1>14, <2>1, Zenon DEF DrainReturns, Posted
<1>15. CASE InitFails
  <2>1. alive = {} /\ mpc # "close"
    BY <1>15, Zenon DEF InitFails, MainIdle, IInv, Linked, Live
  <2>2. QED
    BY <1>0, <1>15, <2>1, Zenon DEF InitFails, Posted
<1>16. CASE op_async_init
  <2>1. alive = {} /\ mpc # "close"
    BY <1>16, Zenon DEF op_async_init, MainIdle, IInv, Linked, Live
  <2>2. \A t \in Threads : wpc[t] # "link"
    BY <1>16, Zenon DEF op_async_init, IInv, Phase
  <2>3. QED
    BY <1>0, <1>16, <2>1, <2>2, Zenon DEF op_async_init, Posted
<1>19. CASE FinishShutdown
  <2>1. alive' = {}
    BY <1>19, OnlyHead, Zenon DEF FinishShutdown, IInv, Posted, Live
  <2>2. QED
    BY <1>0, <1>19, Zenon DEF FinishShutdown, Posted
<1>21. QED
  BY <1>1, <1>3, <1>4, <1>5, <1>6, <1>7, <1>8, <1>9, <1>12, <1>14, <1>15, <1>16, <1>19, NextCases, ZenonT(30)
     DEF ThreadStep, async_worker_fn, async_post_completion

(* Every step keeps the types.                                               *)
LEMMA TypesStep == ASSUME AsyncAssumption, IInv, Next PROVE Types'
<1> USE AsyncAssumption DEF lifeVars, workVars, queueVars, fdVars
<1>0. /\ Types /\ Main \in Threads /\ Workers \subseteq Threads /\ Tasks \subseteq Nodes /\ Sentinel \in Nodes
      /\ <<None>> \in Seq(Tasks \cup {None})
  BY DEF IInv, Threads, Nodes
<1>1. ASSUME NEW t \in Threads, CountTask(t) PROVE Types'
  BY <1>0, <1>1 DEF CountTask, Types
<1>2. ASSUME NEW t \in Threads, SubmitTask(t) PROVE Types'
  BY <1>0, <1>2 DEF SubmitTask, Types
<1>3. ASSUME NEW t \in Threads, RunTask(t) PROVE Types'
  BY <1>0, <1>3, SMTT(30) DEF RunTask, Goto, Types
<1>4. ASSUME NEW t \in Threads, FinishSilent(t) PROVE Types'
  BY <1>0, <1>4 DEF FinishSilent, Goto, Types
<1>5. ASSUME NEW t \in Threads, SwingTail(t) PROVE Types'
  <2>1. wtask[t] \in Tasks
    BY <1>5, Working, Zenon DEF SwingTail
  <2>2. QED
    BY <1>0, <1>5, <2>1, SMTT(30) DEF SwingTail, Goto, Types
<1>6. ASSUME NEW t \in Threads, LinkNode(t) PROVE Types'
  BY <1>0, <1>6, ZenonT(30) DEF LinkNode, Goto, Types
<1>7. ASSUME NEW t \in Threads, NotifyMain(t) PROVE Types'
  BY <1>0, <1>7 DEF NotifyMain, Goto, Types
<1>8. ASSUME NEW w \in Workers, WorkerExits(w) PROVE Types'
  BY <1>0, <1>8, Zenon DEF WorkerExits, Goto, Types
<1>9. CASE async_notify_handler
  BY <1>0, <1>9, Zenon DEF async_notify_handler, Types
<1>10. CASE TickDrains
  BY <1>0, <1>10, Zenon DEF TickDrains, Types
<1>11. CASE DoneDrains
  <2>1. drains' \in Seq(Tasks \cup {None}) /\ drains' # <<>> /\ Head(drains') = None
    BY <1>0, <1>11 DEF DoneDrains, Types
  <2>2. QED
    BY <1>0, <1>11, SMTT(30) DEF DoneDrains, Types
<1>12. CASE Deliver
  <2>1. Live
    BY <1>12, Draining, Zenon DEF Deliver
  <2>2. next[head] \in Tasks /\ called[next[head]] + 1 \in Nat
    BY <1>12, <2>1, HeadNext DEF Deliver
  <2>3. drains' \in Seq(Tasks \cup {None})
    BY <1>0, <1>12, <2>2 DEF Deliver, Delivering, Types
  <2>4. QED
    BY <1>0, <1>12, <2>2, <2>3, Zenon DEF Deliver, Types
<1>13. CASE DoneReturns
  <2>1. drains' \in Seq(Tasks \cup {None})
    BY <1>0, <1>13 DEF DoneReturns, Delivering, InDone, Types
  <2>2. QED
    BY <1>0, <1>13, <2>1 DEF DoneReturns, Types
<1>14. CASE DrainReturns
  <2>1. drains' \in Seq(Tasks \cup {None})
    BY <1>0, <1>14 DEF DrainReturns, Types
  <2>2. QED
    BY <1>0, <1>14, SMTT(30) DEF DrainReturns, Types
<1>15. CASE InitFails
  BY <1>0, <1>15 DEF InitFails, AsyncAssumption, Types
<1>16. CASE op_async_init
  <2>1. nfd' \in Fds /\ kopen' \subseteq Fds
    BY <1>0, <1>16, Zenon DEF op_async_init, Types
  <2>2. up' \in BOOLEAN /\ shut' \in BOOLEAN /\ efd' \in BOOLEAN /\ armed' \in BOOLEAN
    BY <1>16, Zenon DEF op_async_init
  <2>3. pending' \in Int
    BY <1>16 DEF op_async_init
  <2>4. QED
    BY <1>0, <1>16, <2>2 DEF op_async_init, Types
<1>17. CASE BeginShutdown
  BY <1>0, <1>17, Zenon DEF BeginShutdown, Types
<1>18. CASE JoinReturns
  BY <1>0, <1>18, Zenon DEF JoinReturns, Types
<1>19. CASE FinishShutdown
  <2>1. nfd \in Fds
    BY <1>19, Zenon DEF IInv, Phase, Live, FinishShutdown, Types
  <2>2. QED
    BY <1>0, <1>19, <2>1, Zenon DEF FinishShutdown, Types
<1>20. CASE op_close_pending_fds
  BY <1>0, <1>20, SMTT(30) DEF op_close_pending_fds, Types
<1>21. QED
  BY <1>1, <1>2, <1>3, <1>4, <1>5, <1>6, <1>7, <1>8, <1>9, <1>10, <1>11, <1>12, <1>13, <1>14,
     <1>15, <1>16, <1>17, <1>18, <1>19, <1>20, ZenonT(30)
     DEF Next, MainNext, op_async_drain, op_async_shutdown, op_async_submit, async_worker_fn,
         async_post_completion

(* Every step keeps what each phase of the port's life promises.             *)
LEMMA PhaseStep == ASSUME AsyncAssumption, IInv, Next PROVE Phase'
<1> USE AsyncAssumption DEF lifeVars, workVars, queueVars, fdVars
<1>0. Types /\ Phase /\ Main \in Threads /\ Workers \subseteq Threads /\ Main \notin Workers
  BY Zenon DEF IInv, Threads, AsyncAssumption
<1>1. ASSUME NEW t \in Threads, CountTask(t) PROVE Phase'
  BY <1>0, <1>1, SMTT(30) DEF CountTask, MaySubmit, Phase, Live
<1>2. ASSUME NEW t \in Threads, SubmitTask(t) PROVE Phase'
  BY <1>0, <1>2 DEF SubmitTask, Phase, Live
<1>3. ASSUME NEW t \in Threads, RunTask(t) PROVE Phase'
  BY <1>0, <1>3, SMTT(30) DEF RunTask, Goto, Phase, Live
<1>4. ASSUME NEW t \in Threads, FinishSilent(t) PROVE Phase'
  BY <1>0, <1>4, SMTT(30) DEF FinishSilent, Goto, Phase, Live
<1>5. ASSUME NEW t \in Threads, SwingTail(t) PROVE Phase'
  BY <1>0, <1>5 DEF SwingTail, Goto, Phase, Live
<1>6. ASSUME NEW t \in Threads, LinkNode(t) PROVE Phase'
  BY <1>0, <1>6 DEF LinkNode, Goto, Phase, Live
<1>7. ASSUME NEW t \in Threads, NotifyMain(t) PROVE Phase'
  BY <1>0, <1>7, SMTT(30) DEF NotifyMain, Goto, Phase, Live
<1>8. ASSUME NEW w \in Workers, WorkerExits(w) PROVE Phase'
  BY <1>0, <1>8 DEF WorkerExits, Goto, Phase, Live
<1>9. CASE async_notify_handler
  BY <1>0, <1>9, Zenon DEF async_notify_handler, MainIdle, Phase, Live
<1>10. CASE TickDrains
  BY <1>0, <1>10, Zenon DEF TickDrains, MainIdle, Phase, Live
<1>14. CASE DrainReturns
  <2>1. drains # <<>> /\ Live /\ mpc \in {"tick", "handler", "shutdrain"}
    BY <1>14, Draining, Zenon DEF DrainReturns
  <2>2. QED
    BY <1>0, <1>14, <2>1, Zenon DEF DrainReturns, Phase, Live
<1>16. CASE op_async_init
  BY <1>0, <1>16, Zenon DEF op_async_init, MainIdle, AsyncAssumption, Phase, Live
<1>17. CASE BeginShutdown
  BY <1>0, <1>17, Zenon DEF BeginShutdown, Phase, Live
<1>18. CASE JoinReturns
  BY <1>0, <1>18, Zenon DEF JoinReturns, Threads, Phase, Live
<1>19. CASE FinishShutdown
  BY <1>0, <1>19, Zenon DEF FinishShutdown, Phase, Live
<1>20. CASE DoneDrains \/ Deliver \/ DoneReturns \/ InitFails \/ op_close_pending_fds
  <2>1. UNCHANGED <<up, shut, nfd, armed, wpc, pool, sub, mpc>>
    BY <1>20, Zenon DEF DoneDrains, Deliver, DoneReturns, InitFails, op_close_pending_fds
  <2>2. QED
    BY <1>0, <2>1, Zenon DEF Phase, Live
<1>21. QED
  BY <1>1, <1>2, <1>3, <1>4, <1>5, <1>6, <1>7, <1>8, <1>9, <1>10, <1>14, <1>16, <1>17, <1>18, <1>19, <1>20,
     NextCases, ZenonT(30)
     DEF MainQuiet, ThreadStep, op_async_submit, async_worker_fn, async_post_completion

(* Every step keeps the drains under way where they can be.                  *)
LEMMA CallsStep == ASSUME AsyncAssumption, IInv, Next PROVE Calls'
<1> USE DEF lifeVars, workVars, queueVars, fdVars
<1>0. /\ Types /\ Calls /\ Main \in Threads /\ Main \notin Workers /\ None \notin Tasks
      /\ drains \in Seq(Tasks \cup {None})
  BY Zenon DEF IInv, Threads, AsyncAssumption, Types
<1>99. UNCHANGED <<mpc, up, drains>> /\ (sub'[Main] # None => sub[Main] # None) => Calls'
  BY <1>0 DEF Calls, InDone
<1>1. ASSUME NEW t \in Threads, CountTask(t) PROVE Calls'
  <2>1. sub' = [sub EXCEPT ![t] = sub'[t]] /\ UNCHANGED <<mpc, up, drains>>
    BY <1>0, <1>1, Zenon DEF CountTask, Types
  <2>2. t = Main => InDone \/ (mpc = "loop" /\ up)
    BY <1>0, <1>1, Zenon DEF CountTask, MaySubmit
  <2>3. QED
    BY <1>0, <2>1, <2>2, Zenon DEF Types, Calls, InDone
<1>2. ASSUME NEW t \in Threads, SubmitTask(t) \/ async_worker_fn(t) \/ (t \in Workers /\ WorkerExits(t)) PROVE Calls'
  <2>1. sub'[Main] # None => sub[Main] # None
    <3>1. CASE SubmitTask(t)
      BY <1>0, <3>1, Zenon DEF SubmitTask, Types
    <3>2. CASE async_worker_fn(t) \/ WorkerExits(t)
      BY <3>2, Zenon DEF async_worker_fn, RunTask, FinishSilent, async_post_completion, SwingTail,
         LinkNode, NotifyMain, WorkerExits
    <3>3. QED
      BY <1>2, <3>1, <3>2, Zenon
  <2>2. QED
    BY <1>2, <1>99, <2>1, ThreadFrame, Zenon DEF ThreadStep, op_async_submit
<1>9. CASE async_notify_handler
  BY <1>9, Zenon DEF async_notify_handler, MainIdle, Calls
<1>10. CASE TickDrains
  BY <1>10, Zenon DEF TickDrains, MainIdle, Calls
<1>11. CASE DoneDrains
  <2>1. drains' \in Seq(Tasks \cup {None}) /\ drains' # <<>> /\ Head(drains') = None
    BY <1>0, <1>11 DEF DoneDrains
  <2>2. QED
    BY <1>0, <1>11 DEF DoneDrains, Calls, InDone
<1>12. CASE Deliver
  <2>1. drains # <<>> /\ sub'[Main] = None
    BY <1>0, <1>12, Zenon DEF Deliver, Calls, InDone
  <2>2. Live
    BY <2>1, Zenon DEF IInv, Phase, Live, Types, Calls
  <2>3. drains' # <<>>
    BY <1>12, SMTT(30) DEF Deliver, Delivering
  <2>4. QED
    BY <1>0, <1>12, <2>1, <2>3, Zenon DEF Deliver, Calls
<1>13. CASE DoneReturns
  <2>1. drains' # <<>>
    BY <1>13 DEF DoneReturns, Delivering, InDone
  <2>2. QED
    BY <1>0, <1>13, <2>1, Zenon DEF DoneReturns, Calls, InDone
<1>14. CASE DrainReturns
  <2>1. sub'[Main] = None
    BY <1>0, <1>14, Zenon DEF DrainReturns, Calls, InDone
  <2>2. IF Len(drains) > 1 THEN drains' # <<>> ELSE drains' = <<>>
    BY <1>0, <1>14, DropHead, Zenon DEF DrainReturns
  <2>3. QED
    BY <1>0, <1>14, <2>1, <2>2, Zenon DEF DrainReturns, Calls
<1>15. CASE InitFails \/ op_close_pending_fds
  BY <1>15, <1>99, Zenon DEF InitFails, op_close_pending_fds, lifeVars
<1>16. CASE op_async_init
  BY <1>0, <1>16, Zenon DEF op_async_init, Calls, InDone
<1>17. CASE BeginShutdown
  BY <1>0, <1>17, Zenon DEF BeginShutdown, MainIdle, Calls
<1>18. CASE JoinReturns
  BY <1>0, <1>18, Zenon DEF JoinReturns, Calls, InDone
<1>19. CASE FinishShutdown
  BY <1>0, <1>19, Zenon DEF FinishShutdown, Calls, InDone
<1>21. QED
  BY <1>1, <1>2, <1>9, <1>10, <1>11, <1>12, <1>13, <1>14, <1>15, <1>16, <1>17, <1>18, <1>19, NextCases,
     ZenonT(30) DEF MainQuiet, ThreadStep, op_async_submit

(* Every step keeps the nodes that are being delivered apart.                *)
LEMMA DeliveredStep == ASSUME AsyncAssumption, IInv, Next PROVE Delivered'
<1> USE DEF lifeVars, workVars, queueVars, fdVars
<1>0. /\ Delivered /\ None \notin Tasks /\ called \in [Tasks -> Nat]
      /\ drains \in Seq(Tasks \cup {None}) /\ drains' \in Seq(Tasks \cup {None})
  BY TypesStep, Zenon DEF IInv, AsyncAssumption, Types
<1>99. UNCHANGED <<drains, called>> => Delivered'
  BY <1>0, Zenon DEF Delivered
<1>1. ASSUME NEW t \in Threads, ThreadStep(t) PROVE Delivered'
  BY <1>1, <1>99, ThreadFrame, Zenon
<1>9. CASE async_notify_handler \/ TickDrains \/ JoinReturns
  <2>1. drains' = <<None>>
    BY <1>9, Zenon DEF async_notify_handler, TickDrains, JoinReturns
  <2>2. QED
    BY <2>1 DEF Delivered
<1>11. CASE DoneDrains
  <2>1. /\ Len(drains') = Len(drains) + 1 /\ drains'[1] = None
        /\ \A i \in 1 .. Len(drains) : drains'[i + 1] = drains[i]
    BY <1>11, SMTT(30) DEF DoneDrains
  <2>2. \A i \in 1 .. Len(drains') : i # 1 => i - 1 \in 1 .. Len(drains) /\ drains'[i] = drains[i - 1]
    BY <2>1, SMTT(30)
  <2>3. called' = called
    BY <1>11, Zenon DEF DoneDrains
  <2>4. \A i \in 1 .. Len(drains') : drains'[i] # None =>
            i # 1 /\ i - 1 \in 1 .. Len(drains) /\ drains'[i] = drains[i - 1]
    BY <2>1
  <2>5. \A i \in 1 .. Len(drains') : drains'[i] # None => called'[drains'[i]] = 1
    BY <1>0, <2>3, <2>4, SMTT(30) DEF Delivered
  <2>6. ASSUME NEW i \in 1 .. Len(drains'), NEW j \in 1 .. Len(drains'), drains'[i] # None, i # j
        PROVE  drains'[i] # drains'[j]
    <3>1. CASE drains'[j] = None
      BY <2>6, <3>1, Zenon
    <3>2. CASE drains'[j] # None
      <4>1. /\ drains'[i] = drains[i - 1] /\ i - 1 \in 1 .. Len(drains)
            /\ drains'[j] = drains[j - 1] /\ j - 1 \in 1 .. Len(drains)
        BY <2>4, <2>6, <3>2, Zenon
      <4>2. i - 1 # j - 1
        BY <2>6
      <4>3. drains[i - 1] # None
        BY <4>1, <2>6, Zenon
      <4>4. QED
        BY <1>0, <4>1, <4>2, <4>3, Zenon DEF Delivered
    <3>3. QED
      BY <3>1, <3>2, Zenon
  <2>7. QED
    BY <2>5, <2>6, Zenon DEF Delivered
<1>12. CASE Deliver
  <2>1. Live
    BY <1>12, Draining, Zenon DEF Deliver
  <2>2. next[head] \in Tasks /\ called[next[head]] = 0
    BY <1>12, <2>1, HeadNext, Zenon DEF Deliver
  <2>3. /\ Len(drains') = Len(drains) /\ drains'[1] = next[head]
        /\ \A i \in 2 .. Len(drains) : drains'[i] = drains[i]
    BY <1>12, SMTT(30) DEF Deliver, Delivering
  <2>4. \A i \in 1 .. Len(drains) : drains[i] # None => drains[i] \in Tasks /\ drains[i] # next[head]
    BY <1>0, <2>2, SMTT(30) DEF Delivered
  <2>5. \A i \in 1 .. Len(drains) : i # 1 => i \in 2 .. Len(drains)
    BY SMTT(30)
  <2>6. called' = [called EXCEPT ![next[head]] = @ + 1]
    BY <1>12, Zenon DEF Deliver
  <2>7. QED
    BY <1>0, <2>2, <2>3, <2>4, <2>5, <2>6, SMTT(30) DEF Delivered
<1>13. CASE DoneReturns
  <2>1. /\ Len(drains') = Len(drains) /\ drains'[1] = None
        /\ \A i \in 2 .. Len(drains) : drains'[i] = drains[i]
    BY <1>0, <1>13, SMTT(30) DEF DoneReturns, Delivering
  <2>2. \A i \in 1 .. Len(drains) : i # 1 => i \in 2 .. Len(drains)
    OBVIOUS
  <2>3. called' = called
    BY <1>13, Zenon DEF DoneReturns
  <2>4. QED
    BY <1>0, <2>1, <2>3, SMTT(30) DEF Delivered
<1>14. CASE DrainReturns
  <2>1. Len(drains') = Len(drains) - 1 /\ \A i \in 1 .. Len(drains) - 1 : drains'[i] = drains[i + 1]
    BY <1>14, SMTT(30) DEF DrainReturns
  <2>2. \A i \in 1 .. Len(drains') : i + 1 \in 1 .. Len(drains) /\ drains'[i] = drains[i + 1]
    BY <2>1, SMTT(30)
  <2>3. QED
    BY <1>0, <1>14, SMTT(30) DEF DrainReturns, Delivered
<1>15. CASE InitFails \/ op_async_init \/ BeginShutdown \/ FinishShutdown \/ op_close_pending_fds
  BY <1>15, <1>99, Zenon DEF InitFails, op_async_init, BeginShutdown, FinishShutdown, op_close_pending_fds
<1>21. QED
  BY <1>1, <1>9, <1>11, <1>12, <1>13, <1>14, <1>15, NextCases, ZenonT(30) DEF MainQuiet

-----------------------------------------------------------------------------
(* IInv is inductive.                                                        *)
LEMMA NextIInv == ASSUME AsyncAssumption PROVE IInv /\ [Next]_vars => IInv'
<1> SUFFICES ASSUME IInv, [Next]_vars PROVE IInv'
  BY Zenon
<1>1. CASE Next
  BY <1>1, TypesStep, PhaseStep, CallsStep, OwnedStep, LinkedStep, PostedStep, DeliveredStep, Zenon DEF IInv
<1>2. CASE UNCHANGED vars
  <2>1. UNCHANGED <<todo, up, pool, sub, pending, wpc, wtask, wold, alive, next, head, tail,
                    efd, armed, mpc, drains, called, nfd, kopen, closing, aged, fails, shut>>
    BY <1>2, Zenon DEF vars
  <2>2. Types' /\ Phase' /\ Calls'
    BY <2>1, ZenonT(30) DEF IInv, Types, Phase, Live, Calls, InDone
  <2>3. Owned' /\ Posted' /\ Delivered'
    BY <2>1, ZenonT(30) DEF IInv, Owned, InHand, Posted, Delivered
  <2>4. Linked'
    <3>1. Linked /\ Live' = Live
      BY <2>1, SameLive, Zenon DEF IInv
    <3>2. QED
      BY <2>1, <3>1, LinkedFrame, Zenon
  <2>5. QED
    BY <2>2, <2>3, <2>4, Zenon DEF IInv
<1>3. QED
  BY <1>1, <1>2, Zenon

-----------------------------------------------------------------------------
(* The tasks that op_async_pending counts.                                      *)
Counts(k) == k \in pool \/ InHand(k) \/ Undelivered(k) \/ BeingDelivered(k)
Counted == {k \in Tasks : Counts(k)}

(* A step counts one task more, one task less, the same ones, or none.            *)
Recounts ==
    \/ pending' = pending /\ Counted' = Counted
    \/ pending' = pending + 1 /\ \E k \in Tasks \ Counted : Counted' = Counted \cup {k}
    \/ pending' = pending - 1 /\ \E k \in Counted : Counted' = Counted \ {k}
    \/ pending' = 0 /\ Counted' = {}

(* op_async_pending and the tasks under way change together.                 *)
LEMMA NextRecounts == ASSUME AsyncAssumption, IInv, [Next]_vars PROVE Recounts
<1> USE DEF lifeVars, workVars, queueVars, fdVars
<1>0. /\ Types /\ Owned /\ Delivered /\ Posted /\ None \notin Tasks /\ Sentinel \notin Tasks
      /\ drains \in Seq(Tasks \cup {None}) /\ DOMAIN drains = 1 .. Len(drains)
  BY SMTT(30) DEF IInv, Types, AsyncAssumption
<1>1. ASSUME pending' = pending, \A k \in Tasks : Counts(k)' = Counts(k) PROVE Recounts
  BY <1>1, Zenon DEF Recounts, Counted
<1>2. ASSUME pending' = pending, UNCHANGED <<pool, sub, wtask, wpc, alive, called, drains>> PROVE Recounts
  BY <1>1, <1>2, Zenon DEF Counts, InHand, Undelivered, BeingDelivered
<1>3. ASSUME NEW t \in Threads, CountTask(t) PROVE Recounts
  <2>1. PICK k \in todo : sub' = [sub EXCEPT ![t] = k]
    BY <1>3, Zenon DEF CountTask
  <2>2. k \in Tasks /\ ~Counts(k)
    <3>1. k \in Tasks /\ k \notin pool /\ k \notin alive /\ called[k] = 0
      BY <1>0, Zenon DEF Owned, Types
    <3>2. ASSUME NEW u \in Threads PROVE sub[u] # k /\ ~(wtask[u] = k /\ wpc[u] = "work")
      <4>1. k \in todo /\ k # None
        BY <1>0, ZenonT(30) DEF Types
      <4>2. QED
        BY <1>0, <4>1, Zenon DEF Owned
    <3>3. ~BeingDelivered(k)
      BY <1>0, <3>1, SMTT(30) DEF Delivered, BeingDelivered
    <3>4. QED
      BY <3>1, <3>2, <3>3, Zenon DEF Counts, Undelivered, InHand
  <2>3. sub[t] = None /\ UNCHANGED <<pool, wtask, wpc, alive, called, drains>> /\ pending' = pending + 1
    BY <1>3, Zenon DEF CountTask, MaySubmit
  <2>4. \A j \in Tasks : InHand(j)' <=> InHand(j) \/ j = k
    BY <1>0, <2>1, <2>3, Zenon DEF InHand, Types
  <2>5. \A j \in Tasks : Counts(j)' <=> Counts(j) \/ j = k
    BY <2>3, <2>4, Zenon DEF Counts, Undelivered, BeingDelivered
  <2>6. Counted' = Counted \cup {k}
    BY <2>2, <2>5, Zenon DEF Counted
  <2>7. QED
    BY <2>2, <2>3, <2>6, Zenon DEF Recounts, Counted
<1>4. ASSUME NEW t \in Threads, SubmitTask(t) PROVE Recounts
  <2>1. sub[t] \in Tasks /\ pool' = pool \cup {sub[t]} /\ sub' = [sub EXCEPT ![t] = None]
    BY <1>0, <1>4, Zenon DEF SubmitTask, Types
  <2>2. UNCHANGED <<wtask, wpc, alive, called, drains, pending>>
    BY <1>4, Zenon DEF SubmitTask
  <2>3. \A k \in Tasks : k \in pool' \/ InHand(k)' <=> k \in pool \/ InHand(k)
    BY <1>0, <2>1, <2>2, SMTT(30) DEF InHand
  <2>4. QED
    BY <1>1, <2>2, <2>3, Zenon DEF Counts, Undelivered, BeingDelivered
<1>5. ASSUME NEW t \in Threads, RunTask(t) PROVE Recounts
  <2>1. PICK k \in pool : pool' = pool \ {k} /\ wtask' = [wtask EXCEPT ![t] = k]
    BY <1>5, Zenon DEF RunTask
  <2>2. wpc[t] = "idle" /\ wpc' = [wpc EXCEPT ![t] = "work"] /\ UNCHANGED <<sub, alive, called, drains, pending>>
    BY <1>5, Zenon DEF RunTask, Goto
  <2>3. \A j \in Tasks : j \in pool' \/ InHand(j)' <=> j \in pool \/ InHand(j)
    BY <1>0, <2>1, <2>2, Zenon DEF InHand, Types
  <2>4. QED
    BY <1>1, <2>2, <2>3, Zenon DEF Counts, Undelivered, BeingDelivered
<1>6. ASSUME NEW t \in Threads, FinishSilent(t) PROVE Recounts
  <2> DEFINE k == wtask[t]
  <2>1. /\ wpc[t] = "work" /\ wpc' = [wpc EXCEPT ![t] = "idle"] /\ wtask' = [wtask EXCEPT ![t] = None]
        /\ UNCHANGED <<pool, sub, alive, called, drains>> /\ pending' = pending - 1
    BY <1>6, Zenon DEF FinishSilent, Goto
  <2>2. k \in Tasks /\ InHand(k)
    BY <1>0, <2>1, Zenon DEF Owned, InHand
  <2>3. k \notin pool /\ ~Undelivered(k) /\ ~BeingDelivered(k)
    BY <1>0, <2>1, <2>2, SMTT(30) DEF Owned, Undelivered, BeingDelivered, Delivered
  <2>4. \A j \in Tasks : InHand(j)' <=> InHand(j) /\ j # k
    BY <1>0, <2>1, SMTT(30) DEF InHand, Owned, Types
  <2> HIDE DEF k
  <2>5. \A j \in Tasks : Counts(j)' <=> Counts(j) /\ j # k
    BY <2>1, <2>3, <2>4, Zenon DEF Counts, Undelivered, BeingDelivered
  <2>6. k \in Counted /\ Counted' = Counted \ {k}
    BY <2>2, <2>5, Zenon DEF Counted, Counts
  <2>7. QED
    BY <2>1, <2>6, Zenon DEF Recounts
<1>7. ASSUME NEW t \in Threads, SwingTail(t) PROVE Recounts
  <2> DEFINE k == wtask[t]
  <2>1. /\ wpc[t] = "work" /\ wpc' = [wpc EXCEPT ![t] = "link"] /\ alive' = alive \cup {k}
        /\ UNCHANGED <<pool, sub, wtask, called, drains, pending>>
    BY <1>7, Zenon DEF SwingTail, Goto
  <2>2. k \in Tasks /\ InHand(k) /\ called[k] = 0
    BY <1>0, <2>1, Zenon DEF Owned, InHand
  <2>3. \A j \in Tasks : InHand(j)' <=> InHand(j) /\ j # k
    BY <1>0, <2>1, SMTT(30) DEF InHand, Owned, Types
  <2>4. \A j \in Tasks : Undelivered(j)' <=> Undelivered(j) \/ j = k
    BY <2>1, <2>2, Zenon DEF Undelivered
  <2> HIDE DEF k
  <2>5. QED
    BY <1>1, <2>1, <2>2, <2>3, <2>4, Zenon DEF Counts, BeingDelivered
<1>8. ASSUME NEW t \in Threads, LinkNode(t) \/ NotifyMain(t) \/ WorkerExits(t) PROVE Recounts
  <2>1. UNCHANGED <<pool, sub, alive, called, drains, pending>>
    BY <1>8, Zenon DEF LinkNode, NotifyMain, WorkerExits
  <2>2. \A u \in Threads : /\ wpc'[u] = "work" <=> wpc[u] = "work"
                           /\ wpc[u] = "work" => wtask'[u] = wtask[u]
    BY <1>0, <1>8, Zenon DEF LinkNode, NotifyMain, WorkerExits, Goto, Types
  <2>3. \A k \in Tasks : InHand(k)' = InHand(k)
    BY <2>1, <2>2, Zenon DEF InHand
  <2>4. QED
    BY <1>1, <2>1, <2>3, Zenon DEF Counts, Undelivered, BeingDelivered
<1>9. CASE async_notify_handler \/ TickDrains \/ JoinReturns
  <2>1. drains = <<>> /\ drains' = <<None>> /\ UNCHANGED <<pool, sub, wtask, wpc, alive, called, pending>>
    BY <1>9, Zenon DEF async_notify_handler, TickDrains, JoinReturns, MainIdle, IInv, Calls
  <2>2. \A k \in Tasks : ~BeingDelivered(k)' /\ ~BeingDelivered(k)
    BY <1>0, <2>1, SMTT(30) DEF BeingDelivered
  <2>3. QED
    BY <1>1, <2>1, <2>2, Zenon DEF Counts, InHand, Undelivered
<1>10. CASE DoneDrains
  <2>1. UNCHANGED <<pool, sub, wtask, wpc, alive, called, pending>> /\ drains' = <<None>> \o drains
    BY <1>10, Zenon DEF DoneDrains
  <2>2. /\ drains' \in Seq(Tasks \cup {None}) /\ Len(drains') = Len(drains) + 1 /\ drains'[1] = None
        /\ \A i \in 1 .. Len(drains) : drains'[i + 1] = drains[i]
    BY <1>0, <2>1, SMTT(30)
  <2>3. DOMAIN drains' = 1 .. Len(drains) + 1
    BY <2>2, SMTT(30)
  <2>4. \A i \in DOMAIN drains' : i = 1 \/ (i - 1 \in DOMAIN drains /\ drains'[i] = drains[i - 1])
    BY <2>2, SMTT(30)
  <2>5. \A i \in DOMAIN drains : i + 1 \in DOMAIN drains' /\ drains'[i + 1] = drains[i]
    BY <2>2, SMTT(30)
  <2>6. \A k \in Tasks : BeingDelivered(k)' = BeingDelivered(k)
    BY <1>0, <2>2, <2>4, <2>5, Zenon DEF BeingDelivered
  <2>7. QED
    BY <1>1, <2>1, <2>6, Zenon DEF Counts, InHand, Undelivered
<1>11. CASE Deliver
  <2>1. Live
    BY <1>11, Draining, Zenon DEF Deliver
  <2> DEFINE k == next[head]
  <2>2. k \in alive /\ k \in Tasks /\ k # head /\ called[k] = 0
    BY <1>11, <2>1, HeadNext, Zenon DEF Deliver
  <2>3. /\ alive' = alive \ {head} /\ called' = [called EXCEPT ![k] = @ + 1]
        /\ drains # <<>> /\ drains[1] = None /\ UNCHANGED <<pool, sub, wtask, wpc, pending>>
    BY <1>11, SMTT(30) DEF Deliver
  <2>4. /\ drains' \in Seq(Tasks \cup {None}) /\ Len(drains') = Len(drains) /\ drains'[1] = k
        /\ \A i \in 2 .. Len(drains) : drains'[i] = drains[i]
    BY <1>0, <1>11, <2>2, SMTT(30) DEF Deliver, Delivering
  <2>5. 1 \in DOMAIN drains /\ DOMAIN drains' = DOMAIN drains
    BY <2>3, <2>4, SMTT(30)
  <2>6. \A i \in DOMAIN drains : i # 1 => drains'[i] = drains[i]
    BY <2>4, SMTT(30)
  <2> HIDE DEF k
  <2>7. \A j \in Tasks : BeingDelivered(j)' <=> BeingDelivered(j) \/ j = k
    BY <1>0, <2>3, <2>4, <2>6, SMTT(30) DEF BeingDelivered
  <2>8. \A j \in Tasks : Undelivered(j)' <=> Undelivered(j) /\ j # k
    BY <1>0, <2>3, SMTT(30) DEF Undelivered, Posted, Types
  <2>9. Undelivered(k)
    BY <2>2, Zenon DEF Undelivered
  <2>10. QED
    BY <1>1, <2>3, <2>7, <2>8, <2>9, Zenon DEF Counts, InHand
<1>12. CASE DoneReturns
  <2> DEFINE k == drains[1]
  <2>1. drains # <<>> /\ k # None /\ UNCHANGED <<pool, sub, wtask, wpc, alive, called>> /\ pending' = pending - 1
    BY <1>12, SMTT(30) DEF DoneReturns, InDone
  <2>2. /\ drains' \in Seq(Tasks \cup {None}) /\ Len(drains') = Len(drains) /\ drains'[1] = None
        /\ \A i \in 2 .. Len(drains) : drains'[i] = drains[i]
    BY <1>0, <1>12, SMTT(30) DEF DoneReturns, Delivering, InDone
  <2>3. 1 \in DOMAIN drains /\ DOMAIN drains' = DOMAIN drains
    BY <2>1, <2>2, SMTT(30)
  <2>4. \A i \in DOMAIN drains : i # 1 => drains'[i] = drains[i] /\ drains[i] # k
    BY <1>0, <2>1, <2>2, SMTT(30) DEF Delivered
  <2>5. k \in Tasks /\ called[k] = 1 /\ BeingDelivered(k)
    BY <1>0, <2>1, SMTT(30) DEF Delivered, BeingDelivered
  <2>6. k \notin pool /\ ~InHand(k) /\ ~Undelivered(k)
    BY <1>0, <2>5, SMTT(30) DEF Owned, Undelivered
  <2>7. \A j \in Tasks : BeingDelivered(j)' <=> BeingDelivered(j) /\ j # k
    BY <1>0, <2>2, <2>4, SMTT(30) DEF BeingDelivered
  <2> HIDE DEF k
  <2>8. \A j \in Tasks : Counts(j)' <=> Counts(j) /\ j # k
    BY <2>1, <2>6, <2>7, Zenon DEF Counts, InHand, Undelivered
  <2>9. k \in Counted /\ Counted' = Counted \ {k}
    BY <2>5, <2>8, Zenon DEF Counted, Counts
  <2>10. QED
    BY <2>1, <2>9, Zenon DEF Recounts
<1>13. CASE DrainReturns
  <2>1. /\ drains # <<>> /\ drains[1] = None /\ drains' = Tail(drains)
        /\ UNCHANGED <<pool, sub, wtask, wpc, alive, called, pending>>
    BY <1>13, SMTT(30) DEF DrainReturns
  <2>2. /\ drains' \in Seq(Tasks \cup {None}) /\ Len(drains') = Len(drains) - 1
        /\ \A i \in 1 .. Len(drains) - 1 : drains'[i] = drains[i + 1]
    BY <1>0, <2>1, SMTT(30)
  <2>3. \A i \in DOMAIN drains' : i + 1 \in DOMAIN drains /\ drains'[i] = drains[i + 1]
    BY <2>2, SMTT(30)
  <2>4. \A i \in DOMAIN drains : i = 1 \/ (i - 1 \in DOMAIN drains' /\ drains'[i - 1] = drains[i])
    BY <2>2, SMTT(30)
  <2>5. \A k \in Tasks : BeingDelivered(k)' = BeingDelivered(k)
    BY <1>0, <2>1, <2>4, SMTT(30) DEF BeingDelivered
  <2>6. QED
    BY <1>1, <2>1, <2>5, Zenon DEF Counts, InHand, Undelivered
<1>14. CASE op_async_init
  <2>1. /\ pending' = 0 /\ alive' = alive \cup {Sentinel} /\ UNCHANGED <<pool, sub, drains>>
        /\ \A t \in Threads : wpc'[t] = "idle"
    BY <1>14, Zenon DEF op_async_init
  <2>2. pool = {} /\ alive = {} /\ drains = <<>>
    BY <1>14, Zenon DEF op_async_init, MainIdle, IInv, Phase, Calls, Linked, Live
  <2>3. \A t \in Threads : sub[t] = None
    BY <1>14, Zenon DEF op_async_init, MainIdle, IInv, Phase, Threads
  <2>4. \A k \in Tasks : ~Counts(k)'
    BY <1>0, <2>1, <2>2, <2>3, SMTT(30) DEF Counts, InHand, Undelivered, BeingDelivered
  <2>5. QED
    BY <2>1, <2>4, Zenon DEF Recounts, Counted
<1>15. CASE FinishShutdown
  <2>1. UNCHANGED <<pool, sub, wtask, wpc, called, drains, pending>> /\ alive' = alive \ {head}
    BY <1>15, Zenon DEF FinishShutdown
  <2>2. \A k \in Tasks : Undelivered(k)' = Undelivered(k)
    BY <1>0, <2>1, SMTT(30) DEF Undelivered, Posted
  <2>3. QED
    BY <1>1, <2>1, <2>2, Zenon DEF Counts, InHand, BeingDelivered
<1>16. CASE InitFails \/ BeginShutdown \/ op_close_pending_fds
  BY <1>2, <1>16, Zenon DEF InitFails, BeginShutdown, op_close_pending_fds
<1>17. CASE UNCHANGED vars
  BY <1>2, <1>17, Zenon DEF vars
<1>18. QED
  BY <1>3, <1>4, <1>5, <1>6, <1>7, <1>8, <1>9, <1>10, <1>11, <1>12, <1>13, <1>14, <1>15, <1>16,
     <1>17, Zenon
     DEF Next, MainNext, op_async_drain, op_async_shutdown, op_async_submit, async_worker_fn,
         async_post_completion, Threads

-----------------------------------------------------------------------------
(* What some uses of the port keep besides.                                    *)

(* Where a done_fn does not call op_async_drain, the node that the one          *)
(* op_async_drain delivers is the head.                                        *)
OneDrain == Len(drains) <= 1 /\ (drains # <<>> => drains[1] \in {None, head})

(* A done_fn that may not call op_async_drain leaves one call under way.     *)
LEMMA NextOneDrain ==
    ASSUME AsyncAssumption, Reenter = 0, IInv, OneDrain, [Next]_vars
    PROVE  OneDrain'
<1> USE DEF lifeVars, workVars, queueVars, fdVars
<1>0. OneDrain /\ drains \in Seq(Tasks \cup {None}) /\ None \notin Tasks
  BY Zenon DEF IInv, Types, AsyncAssumption
<1>1. ASSUME UNCHANGED <<drains, head>> PROVE OneDrain'
  BY <1>1, Zenon DEF OneDrain
<1>2. ASSUME drains' = <<None>> PROVE OneDrain'
  BY <1>2 DEF OneDrain
<1>3. ASSUME drains = <<>>, drains' = drains PROVE OneDrain'
  BY <1>3, Zenon DEF OneDrain
<1>4. CASE async_notify_handler \/ TickDrains \/ JoinReturns
  BY <1>2, <1>4, Zenon DEF async_notify_handler, TickDrains, JoinReturns
<1>5. CASE InitFails \/ op_async_init \/ FinishShutdown
  BY <1>3, <1>5, Zenon DEF InitFails, op_async_init, FinishShutdown, MainIdle, IInv, Calls
<1>6. CASE DoneDrains
  BY <1>6, SMTT(30) DEF DoneDrains, OneDrain
<1>7. CASE Deliver
  <2>1. Live
    BY <1>7, Draining, Zenon DEF Deliver
  <2>2. next[head] \in Tasks
    BY <1>7, <2>1, HeadNext, Zenon DEF Deliver
  <2>3. Len(drains') = Len(drains) /\ drains'[1] = next[head] /\ head' = next[head]
    BY <1>7, SMTT(30) DEF Deliver, Delivering
  <2>4. QED
    BY <2>3, Zenon DEF OneDrain
<1>8. CASE DoneReturns
  <2>1. Len(drains') = Len(drains) /\ drains'[1] = None
    BY <1>8, SMTT(30) DEF DoneReturns, Delivering, InDone
  <2>2. QED
    BY <2>1, Zenon DEF OneDrain
<1>9. CASE DrainReturns
  <2>1. drains' = Tail(drains) /\ drains # <<>>
    BY <1>9, Zenon DEF DrainReturns
  <2>2. IF Len(drains) > 1 THEN Tail(drains) # <<>> ELSE Tail(drains) = <<>> /\ Len(drains) = 1
    BY <1>0, <2>1, DropHead, Zenon
  <2>3. ~(Len(drains) > 1)
    BY DEF OneDrain
  <2>4. QED
    BY <2>1 DEF OneDrain
<1>10. CASE BeginShutdown \/ op_close_pending_fds
  BY <1>1, <1>10, Zenon DEF BeginShutdown, op_close_pending_fds
<1>11. ASSUME NEW t \in Threads, ThreadStep(t) PROVE OneDrain'
  BY <1>1, <1>11, ThreadFrame, Zenon
<1>13. CASE UNCHANGED vars
  BY <1>1, <1>13, Zenon DEF vars
<1>14. QED
  BY <1>4, <1>5, <1>6, <1>7, <1>8, <1>9, <1>10, <1>11, <1>13, NextCases, Zenon DEF MainQuiet

(* The handler is registered whenever it is not running, and a main thread that *)
(* waits on nodes behind the head has a wakeup to come.                        *)
Signalled ==
    /\ up /\ mpc # "handler" => armed
    /\ mpc = "loop" /\ up /\ head # tail => efd \/ \E t \in Threads : wpc[t] \in {"link", "notify"}

(* Every step keeps the eventfd readable while the list is not drained.      *)
LEMMA NextSignalled ==
    ASSUME AsyncAssumption, IInv, Signalled, [Next]_vars
    PROVE  Signalled'
<1> USE DEF lifeVars, workVars, queueVars, fdVars
<1>0. Signalled /\ Types /\ Calls
  BY Zenon DEF IInv
<1>1. ASSUME UNCHANGED <<up, mpc, armed, head, tail, efd, wpc>> PROVE Signalled'
  BY <1>1, Zenon DEF Signalled
<1>2. ASSUME NEW t \in Threads, CountTask(t) \/ SubmitTask(t) PROVE Signalled'
  BY <1>1, <1>2, Zenon DEF CountTask, SubmitTask
<1>3. ASSUME NEW t \in Threads, RunTask(t) \/ FinishSilent(t) \/ WorkerExits(t) PROVE Signalled'
  <2>1. UNCHANGED <<up, mpc, armed, head, tail, efd>>
    BY <1>3, Zenon DEF RunTask, FinishSilent, WorkerExits
  <2>2. \A u \in Threads : wpc[u] \in {"link", "notify"} => wpc'[u] = wpc[u]
    BY <1>0, <1>3, ZenonT(30) DEF RunTask, FinishSilent, WorkerExits, Goto, Types
  <2>3. QED
    BY <2>1, <2>2, Zenon DEF Signalled
<1>4. ASSUME NEW t \in Threads, async_post_completion(t) PROVE Signalled'
  BY <1>0, <1>4, SMTT(30) DEF async_post_completion, SwingTail, LinkNode, NotifyMain, Goto, Types, Signalled
<1>5. CASE async_notify_handler \/ TickDrains \/ BeginShutdown
  BY <1>5, Zenon DEF async_notify_handler, TickDrains, BeginShutdown, MainIdle, Signalled
<1>6. CASE DoneDrains \/ Deliver \/ DoneReturns
  <2>1. mpc # "loop" /\ UNCHANGED <<up, mpc, armed>>
    BY <1>0, <1>6, Zenon DEF DoneDrains, Deliver, DoneReturns, Calls, InDone
  <2>2. QED
    BY <2>1, Zenon DEF Signalled
<1>7. CASE DrainReturns
  <2>1. head = tail \/ \E t \in Threads : wpc[t] = "link"
    <3>1. Live
      BY <1>7, Draining, Zenon DEF DrainReturns
    <3>2. QED
      BY <1>7, <3>1, LooksEmpty, Zenon DEF DrainReturns
  <2>2. up' /\ mpc' # "handler" => armed'
    <3>1. drains # <<>> /\ drains \in Seq(Tasks \cup {None})
      BY <1>7, Zenon DEF DrainReturns, IInv, Types
    <3>2. IF Len(drains) > 1 THEN TRUE ELSE Len(drains) = 1
      BY <3>1, DropHead, ZenonT(30)
    <3>3. QED
      BY <1>7, <3>2, Zenon DEF DrainReturns, Signalled
  <2>3. QED
    BY <1>7, <2>1, <2>2, Zenon DEF DrainReturns, Signalled
<1>8. CASE InitFails \/ op_async_init \/ JoinReturns \/ FinishShutdown
  BY <1>8, SMTT(30) DEF InitFails, op_async_init, JoinReturns, FinishShutdown, IInv, Phase, Signalled
<1>9. CASE op_close_pending_fds
  BY <1>1, <1>9, Zenon DEF op_close_pending_fds
<1>10. CASE UNCHANGED vars
  BY <1>1, <1>10, Zenon DEF vars
<1>11. QED
  BY <1>2, <1>3, <1>4, <1>5, <1>6, <1>7, <1>8, <1>9, <1>10, Zenon
     DEF Next, MainNext, op_async_drain, op_async_shutdown, op_async_submit, async_worker_fn, Threads

(* Where no done_fn submits during op_async_shutdown's last drain, no            *)
(* op_async_submit that has counted its task finds async_pool gone.             *)
NoLate == sub[Main] # None => mpc # "shutdrain"

(* No step of the last drain begins a submission.                            *)
LEMMA NextNoLate ==
    ASSUME AsyncAssumption, LateSubmit = FALSE, IInv, NoLate, [Next]_vars
    PROVE  NoLate'
<1> USE DEF lifeVars, workVars, queueVars, fdVars
<1>0. NoLate /\ Main \in Threads /\ Main \notin Workers /\ sub \in [Threads -> Tasks \cup {None}]
  BY Zenon DEF IInv, Types, Threads, AsyncAssumption
<1>1. ASSUME UNCHANGED mpc, sub'[Main] # None => sub[Main] # None PROVE NoLate'
  BY <1>1, Zenon DEF NoLate
<1>2. ASSUME NEW t \in Threads, CountTask(t) PROVE NoLate'
  <2>1. CASE t = Main
    <3>1. mpc # "shutdrain"
      BY <1>2, Zenon DEF CountTask, MaySubmit, IInv, Phase
    <3>2. QED
      BY <1>2, <3>1, Zenon DEF CountTask, NoLate
  <2>2. CASE t # Main
    BY <1>1, <1>2, <2>2, SMTT(30) DEF CountTask
  <2>3. QED
    BY <2>1, <2>2, Zenon
<1>3. ASSUME NEW t \in Threads, SubmitTask(t) PROVE NoLate'
  BY <1>1, <1>3, SMTT(30) DEF SubmitTask
<1>4. ASSUME NEW t \in Threads, async_worker_fn(t) \/ (t \in Workers /\ WorkerExits(t)) PROVE NoLate'
  BY <1>1, <1>4, Zenon
     DEF async_worker_fn, RunTask, FinishSilent, async_post_completion, SwingTail, LinkNode, NotifyMain, WorkerExits
<1>6. CASE JoinReturns
  BY <1>6, Zenon DEF JoinReturns, IInv, Calls, InDone, NoLate
<1>7. CASE async_notify_handler \/ TickDrains \/ BeginShutdown \/ FinishShutdown
  BY <1>7, Zenon DEF async_notify_handler, TickDrains, BeginShutdown, FinishShutdown, NoLate
<1>8. CASE DoneDrains \/ Deliver \/ DoneReturns
  BY <1>1, <1>8, ZenonT(30) DEF DoneDrains, Deliver, DoneReturns
<1>9. CASE DrainReturns
  <2>1. sub' = sub /\ (mpc' = "shutdrain" => mpc = "shutdrain")
    BY <1>9, ZenonT(30) DEF DrainReturns
  <2>2. QED
    BY <2>1, Zenon DEF NoLate
<1>10. CASE InitFails \/ op_async_init \/ op_close_pending_fds
  BY <1>1, <1>10, Zenon DEF InitFails, op_async_init, op_close_pending_fds
<1>11. CASE UNCHANGED vars
  BY <1>1, <1>11, Zenon DEF vars
<1>12. QED
  BY <1>2, <1>3, <1>4, <1>6, <1>7, <1>8, <1>9, <1>10, <1>11, NextCases, Zenon
     DEF MainQuiet, ThreadStep, op_async_submit

(* The port has its eventfd, and no close of that number is still to come: op_close   *)
(* puts a number on closed_list, op_close_pending_fds moves it on and closes it.       *)
FdSafe == Live /\ nfd \in kopen \ (closing \cup aged)

(* Once it is so, it stays so until the port is gone.                         *)
LEMMA NextFdSafe ==
    ASSUME IInv, FdSafe, [Next]_vars, Live'
    PROVE  FdSafe'
<1> USE DEF lifeVars, workVars, queueVars, fdVars
<1>0. Types /\ Phase
  BY Zenon DEF IInv
<1>1. ASSUME UNCHANGED <<closing, aged, nfd, kopen>> PROVE FdSafe'
  BY <1>1, Zenon DEF FdSafe
<1>2. ASSUME NEW t \in Threads, ThreadStep(t) PROVE FdSafe'
  BY <1>1, <1>2, ThreadFrame, Zenon
<1>3. CASE async_notify_handler \/ TickDrains \/ BeginShutdown \/ JoinReturns \/ DrainReturns
  BY <1>1, <1>3, Zenon DEF async_notify_handler, TickDrains, BeginShutdown, JoinReturns, DrainReturns
<1>4. CASE DoneDrains \/ Deliver \/ DoneReturns \/ InitFails
  BY <1>1, <1>4, Zenon DEF DoneDrains, Deliver, DoneReturns, InitFails
<1>5. CASE op_async_init
  BY <1>5, Zenon DEF op_async_init, MainIdle, FdSafe, Live
<1>6. CASE FinishShutdown
  BY <1>0, <1>6, Zenon DEF FinishShutdown, Live, Phase
<1>7. CASE op_close_pending_fds
  BY <1>7, Zenon DEF op_close_pending_fds, FdSafe
<1>8. CASE UNCHANGED vars
  BY <1>1, <1>8, Zenon DEF vars
<1>9. QED
  BY <1>2, <1>3, <1>4, <1>5, <1>6, <1>7, <1>8, NextCases, Zenon DEF MainQuiet

-----------------------------------------------------------------------------
(* What follows from it.                                                      *)

(* op_async_drain calls the done_fn of a task at most once, and not before      *)
(* async_worker_fn has run its work_fn, however deep a done_fn calls            *)
(* op_async_drain again and whenever the port is shut down and started again.  *)
THEOREM CalledOnce == ASSUME AsyncAssumption PROVE Spec => []DeliveredOnce
<1>1. Init => IInv
  BY InitIInv, Zenon
<1>2. IInv /\ [Next]_vars => IInv'
  BY NextIInv, Zenon
<1>3. IInv => DeliveredOnce
  <2>1. SUFFICES ASSUME Owned PROVE DeliveredOnce
    BY Zenon DEF IInv
  <2>2. QED
    BY <2>1 DEF Owned, DeliveredOnce
<1>4. QED
  BY <1>1, <1>2, <1>3, PTL DEF Spec

(* No node is used after op_async_drain has freed it: the head, the tail, the   *)
(* old tail that a producer in async_post_completion is about to link and the   *)
(* node op_async_drain is about to clear are all allocated.                    *)
THEOREM NodesAllocated ==
    ASSUME AsyncAssumption, Reenter = 0
    PROVE  Spec => []HeldNodesAllocated
<1>1. Init => IInv /\ OneDrain
  <2>1. Init => OneDrain
    BY SMTT(30) DEF Init, OneDrain
  <2>2. QED
    BY <2>1, InitIInv, Zenon
<1>2. IInv /\ OneDrain /\ [Next]_vars => IInv' /\ OneDrain'
  BY NextIInv, NextOneDrain, Zenon
<1>3. IInv /\ OneDrain => HeldNodesAllocated
  <2> SUFFICES ASSUME IInv, OneDrain PROVE HeldNodesAllocated
    BY Zenon
  <2>1. Live => head \in alive /\ tail \in alive /\ \A t \in Threads : wpc[t] = "link" => wold[t] \in alive
    BY Zenon DEF IInv, Linked, Chain
  <2>2. \A t \in Threads : wold[t] # None => wold[t] \in alive
    BY <2>1, Zenon DEF IInv, Posted, Phase, Live
  <2>3. ASSUME NEW i \in DOMAIN drains, drains[i] # None PROVE drains[i] \in alive
    <3>1. i = 1 /\ drains # <<>>
      BY SMTT(30) DEF OneDrain
    <3>2. Live /\ drains[i] = head
      BY <2>3, SMTT(30) DEF IInv, Phase, Calls, Live, OneDrain, Types
    <3>3. QED
      BY <2>1, <3>2, Zenon
  <2>4. QED
    BY <2>1, <2>2, <2>3, Zenon DEF HeldNodesAllocated, Live
<1>4. QED
  BY <1>1, <1>2, <1>3, PTL DEF Spec

(* The main thread never waits in its event loop while a completion waits for   *)
(* it: async_notify_handler registers itself again, and a worker that has        *)
(* posted a node writes the eventfd after the main thread has read it.          *)
THEOREM Wakes == ASSUME AsyncAssumption PROVE Spec => []WakeupNotLost
<1>1. Init => IInv /\ Signalled
  <2>1. Init => Signalled
    BY Zenon DEF Init, Signalled
  <2>2. QED
    BY <2>1, InitIInv, Zenon
<1>2. IInv /\ Signalled /\ [Next]_vars => IInv' /\ Signalled'
  BY NextIInv, NextSignalled, Zenon
<1>3. IInv /\ Signalled => WakeupNotLost
  <2> SUFFICES ASSUME IInv, Signalled, mpc = "loop", up, NEW k \in Tasks, Undelivered(k)
               PROVE  armed /\ (efd \/ \E t \in Threads : wpc[t] \in {"link", "notify"})
    BY Zenon DEF WakeupNotLost
  <2>1. k # head
    BY SMTT(30) DEF Undelivered, IInv, Posted
  <2>2. head # tail
    BY <2>1, OnlyHead, Zenon DEF Undelivered, Live
  <2>3. QED
    BY <2>2, Zenon DEF Signalled
<1>4. QED
  BY <1>1, <1>2, <1>3, PTL DEF Spec

(* Where no done_fn submits during op_async_shutdown's last drain, the       *)
(* pool is there whenever op_async_submit hands it a task.                   *)
THEOREM PoolThere ==
    ASSUME AsyncAssumption, LateSubmit = FALSE
    PROVE  Spec => []SubmitHasPool
<1>1. Init => IInv /\ NoLate
  <2>1. Init => NoLate
    BY Zenon DEF Init, NoLate
  <2>2. QED
    BY <2>1, InitIInv, Zenon
<1>2. IInv /\ NoLate /\ [Next]_vars => IInv' /\ NoLate'
  BY NextIInv, NextNoLate, Zenon
<1>3. IInv /\ NoLate => SubmitHasPool
  BY Zenon DEF IInv, NoLate, SubmitHasPool, Phase, Calls, InDone, Types, Threads
<1>4. QED
  BY <1>1, <1>2, <1>3, PTL DEF Spec

(* Whenever the port is started again: its eventfd is open, and from the first moment     *)
(* at which no close of its number is pending it stays open until op_async_shutdown        *)
(* closes it. A port that is started when nothing is pending is in that state at once; one   *)
(* that gets the number op_async_shutdown has closed and op_close has queued as well          *)
(* (async.c:251-258) is not, and op_close_pending_fds closes its eventfd.                    *)
THEOREM EventfdKept ==
    ASSUME AsyncAssumption
    PROVE  Spec => [][/\ op_async_init => nfd' \in kopen' /\ (nfd' \notin closing \cup aged => FdSafe')
                      /\ FdSafe /\ Live' => FdSafe']_vars
<1>1. Init => IInv
  BY InitIInv, Zenon
<1>2. IInv /\ [Next]_vars => IInv'
  BY NextIInv, Zenon
<1>3. op_async_init => nfd' \in kopen' /\ (nfd' \notin closing \cup aged => FdSafe')
  BY Zenon DEF op_async_init, FdSafe, Live
<1>4. IInv /\ [Next]_vars => (FdSafe /\ Live' => FdSafe')
  BY NextFdSafe, Zenon
<1>5. QED
  BY <1>1, <1>2, <1>3, <1>4, PTL DEF Spec

(* Hence op_async_pending stays their number.                                *)
LEMMA NextExact ==
    ASSUME AsyncAssumption, IsFiniteSet(Tasks), IInv, PendingIsExact, [Next]_vars
    PROVE  PendingIsExact'
<1>1. PendingIsExact <=> pending = Cardinality(Counted)
  BY Zenon DEF PendingIsExact, Counted, Counts
<1>2. PendingIsExact' <=> pending' = Cardinality(Counted')
  BY Zenon DEF PendingIsExact, Counted, Counts
<1>3. IsFiniteSet(Counted)
  BY FS_Subset, Zenon DEF Counted
<1>4. CASE pending' = pending /\ Counted' = Counted
  BY <1>1, <1>2, <1>4, Zenon
<1>5. ASSUME NEW k \in Tasks \ Counted, Counted' = Counted \cup {k}, pending' = pending + 1 PROVE PendingIsExact'
  BY <1>1, <1>2, <1>3, <1>5, FS_AddElement, Zenon
<1>6. ASSUME NEW k \in Counted, Counted' = Counted \ {k}, pending' = pending - 1 PROVE PendingIsExact'
  BY <1>1, <1>2, <1>3, <1>6, FS_RemoveElement, Zenon
<1>7. CASE pending' = 0 /\ Counted' = {}
  BY <1>2, <1>7, FS_EmptySet, Zenon
<1>8. QED
  BY <1>4, <1>5, <1>6, <1>7, NextRecounts, Zenon DEF Recounts

(* op_async_pending counts exactly the tasks that have been submitted and         *)
(* neither finished without a done_fn nor been delivered, in every state of every  *)
(* interleaving; with it the types, the count included.                         *)
THEOREM CountExact ==
    ASSUME AsyncAssumption, IsFiniteSet(Tasks)
    PROVE  Spec => [](TypeOK /\ PendingIsExact)
<1>1. Init => IInv /\ PendingIsExact
  <2>1. Init => PendingIsExact
    <3> SUFFICES ASSUME Init PROVE PendingIsExact
      BY Zenon
    <3>1. {k \in Tasks : k \in pool \/ InHand(k) \/ Undelivered(k) \/ BeingDelivered(k)} = {}
      BY SMTT(30) DEF Init, InHand, Undelivered, BeingDelivered, AsyncAssumption
    <3>2. QED
      BY <3>1, FS_EmptySet, Zenon DEF Init, PendingIsExact
  <2>2. QED
    BY <2>1, InitIInv, Zenon
<1>2. IInv /\ PendingIsExact /\ [Next]_vars => IInv' /\ PendingIsExact'
  BY NextIInv, NextExact, Zenon
<1>3. IInv /\ PendingIsExact => TypeOK
  <2> SUFFICES ASSUME IInv, PendingIsExact PROVE TypeOK
    BY Zenon
  <2>1. pending = Cardinality(Counted) /\ Counted \subseteq Tasks
    BY Zenon DEF PendingIsExact, Counted, Counts
  <2>2. Cardinality(Counted) \in Nat /\ Cardinality(Tasks) \in Nat /\ Cardinality(Counted) <= Cardinality(Tasks)
    BY <2>1, FS_Subset, FS_CardinalityType, Zenon
  <2>3. pending \in 0 .. Cardinality(Tasks)
    BY <2>1, <2>2
  <2>4. \A i \in DOMAIN drains : drains[i] \in Tasks \cup {None}
    BY SMTT(30) DEF IInv, Types
  <2>5. QED
    BY <2>3, <2>4, Zenon DEF IInv, Types, TypeOK
<1>4. QED
  BY <1>1, <1>2, <1>3, PTL DEF Spec

(* op_async_shutdown returns with every completion delivered, every node freed     *)
(* and nothing left in the pool.                                                *)
THEOREM CleanShutdown ==
    ASSUME AsyncAssumption, IsFiniteSet(Tasks)
    PROVE  Spec => []ShutdownIsClean
<1>1. Spec => []IInv
  <2>1. Init => IInv
    BY InitIInv, Zenon
  <2>2. IInv /\ [Next]_vars => IInv'
    BY NextIInv, Zenon
  <2>3. QED
    BY <2>1, <2>2, PTL DEF Spec
<1>2. Spec => []PendingIsExact
  BY CountExact, PTL
<1>3. IInv /\ PendingIsExact => ShutdownIsClean
  <2> SUFFICES ASSUME IInv, PendingIsExact, shut, mpc = "loop" PROVE alive = {} /\ pending = 0 /\ pool = {}
    BY Zenon DEF ShutdownIsClean
  <2>1. ~up /\ ~Live /\ alive = {} /\ pool = {} /\ drains = <<>>
    BY Zenon DEF IInv, Phase, Live, Linked, Calls
  <2>2. \A t \in Threads : sub[t] = None /\ wpc[t] # "work"
    BY <2>1, Zenon DEF IInv, Phase, Calls, InDone, Threads
  <2>3. {k \in Tasks : k \in pool \/ InHand(k) \/ Undelivered(k) \/ BeingDelivered(k)} = {}
    BY <2>1, <2>2, SMTT(30) DEF InHand, Undelivered, BeingDelivered, AsyncAssumption
  <2>4. QED
    BY <2>1, <2>3, FS_EmptySet, Zenon DEF PendingIsExact
<1>4. QED
  BY <1>1, <1>2, <1>3, PTL
=============================================================================
