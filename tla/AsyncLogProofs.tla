--------------------------- MODULE AsyncLogProofs ---------------------------
(* The asynchronous log hands every queued message to the callback once, in   *)
(* the order of the pushes, for any number of threads, calls and restarts; it  *)
(* stops with nothing left and never sleeps on a message where no call is      *)
(* under way as op_stop_async_log begins.                                     *)
EXTENDS AsyncLog, SequenceTheorems, TLAPS

(* A push is the last of the reversed stack.                                   *)
LEMMA ReversePush ==
    ASSUME NEW S, NEW s \in Seq(S), NEW x \in S
    PROVE  /\ Reverse(s) \in Seq(S) /\ <<x>> \o s \in Seq(S)
           /\ Reverse(<<x>> \o s) = Append(Reverse(s), x)
<1> DEFINE t == <<x>> \o s
           n == Len(s)
           r == [i \in 1 .. n |-> s[(n - i) + 1]]
           q == [i \in 1 .. n + 1 |-> t[((n + 1) - i) + 1]]
<1>1. n \in Nat /\ t \in Seq(S) /\ Len(t) = n + 1 /\ t[1] = x /\ \A i \in 1 .. n : t[i + 1] = s[i]
  OBVIOUS
<1>2. r \in Seq(S) /\ Len(r) = n
  <2>1. \A i \in 1 .. n : (n - i) + 1 \in 1 .. n /\ s[(n - i) + 1] \in S
    BY <1>1
  <2>2. r \in [1 .. n -> S]
    BY <2>1, Zenon
  <2>3. QED
    BY <1>1, <2>2
<1>3. q = Append(r, x)
  <2>1. \A i \in 1 .. n : q[i] = r[i]
    <3>1. ASSUME NEW i \in 1 .. n PROVE t[((n + 1) - i) + 1] = s[(n - i) + 1]
      <4>1. (n - i) + 1 \in 1 .. n /\ ((n + 1) - i) + 1 = ((n - i) + 1) + 1
        BY <1>1
      <4>2. QED
        BY <1>1, <4>1
    <3>2. QED
      BY <1>1, <3>1
  <2>2. q[n + 1] = x
    BY <1>1
  <2>3. q = [i \in 1 .. n + 1 |-> q[i]]
    BY Zenon
  <2>4. Append(r, x) = [i \in 1 .. n + 1 |-> IF i = n + 1 THEN x ELSE r[i]]
    BY <1>1, <1>2
  <2>5. \A i \in 1 .. n + 1 : q[i] = IF i = n + 1 THEN x ELSE r[i]
    BY <1>1, <2>1, <2>2
  <2> HIDE DEF q, r
  <2>6. QED
    BY <2>3, <2>4, <2>5, Zenon
<1>4. QED
  BY <1>1, <1>2, <1>3, Zenon DEF Reverse

LEMMA ReverseType ==
    ASSUME NEW S, NEW s \in Seq(S)
    PROVE  Reverse(s) \in Seq(S)
<1>1. Len(s) \in Nat /\ \A i \in 1 .. Len(s) : (Len(s) - i) + 1 \in 1 .. Len(s)
  OBVIOUS
<1>2. [i \in 1 .. Len(s) |-> s[(Len(s) - i) + 1]] \in [1 .. Len(s) -> S]
  BY <1>1
<1>3. QED
  BY <1>1, <1>2 DEF Reverse

LEMMA ReverseEmpty == Reverse(<<>>) = <<>>
BY DEF Reverse

-----------------------------------------------------------------------------
(* Where the main thread and the writer can be at the same time.               *)
Stages ==
    /\ hook <=> mpc = "on"
    /\ mpc = "off" <=> wpc = "none"
    /\ wpc \in {"final", "last", "exited"} => mpc = "join"
    /\ mpc \in {"started", "on", "stop"} => ~stop
    /\ wpc \notin {"deliver", "last"} => batch = <<>>

(* A call that is under way has its number.                                    *)
Numbered == \A p \in Producers : ppc[p] # "idle" => sent[p] > 0

IInv == TypeOK /\ Stages /\ Numbered /\ Chronological

(* The sequence s is a, b and c one after the other.                           *)
Joined(s, a, b, c) == s = a \o b \o c

(* Appending at the end, and moving the head of the middle part to the front.   *)
LEMMA JoinLast ==
    ASSUME NEW S, NEW a \in Seq(S), NEW b \in Seq(S), NEW c \in Seq(S), NEW x \in S,
           NEW s, Joined(s, a, b, c)
    PROVE  Joined(Append(s, x), a, b, Append(c, x))
<1>1. a \o b \in Seq(S) /\ (a \o b) \o c \in Seq(S) /\ <<x>> \in Seq(S)
  OBVIOUS
<1>2. Append((a \o b) \o c, x) = ((a \o b) \o c) \o <<x>> /\ Append(c, x) = c \o <<x>>
  BY <1>1
<1>3. ((a \o b) \o c) \o <<x>> = (a \o b) \o (c \o <<x>>)
  BY <1>1, ConcatAssociative, SMTT(30)
<1>4. QED
  BY <1>2, <1>3, Zenon DEF Joined

LEMMA JoinHead ==
    ASSUME NEW S, NEW a \in Seq(S), NEW b \in Seq(S), NEW c, b # <<>>,
           NEW s, Joined(s, a, b, c)
    PROVE  Joined(s, Append(a, Head(b)), Tail(b), c)
<1>1. <<Head(b)>> \in Seq(S) /\ Tail(b) \in Seq(S)
  OBVIOUS
<1>2. Append(a, Head(b)) = a \o <<Head(b)>> /\ b = <<Head(b)>> \o Tail(b)
  OBVIOUS
<1>3. (a \o <<Head(b)>>) \o Tail(b) = a \o (<<Head(b)>> \o Tail(b))
  BY <1>1, ConcatAssociative
<1>4. QED
  BY <1>2, <1>3, Zenon DEF Joined

LEMMA JoinEmpty ==
    ASSUME NEW S, NEW a \in Seq(S), NEW b \in Seq(S)
    PROVE  a \o <<>> \o b = a \o b \o <<>>
OBVIOUS

LEMMA InitIInv == ASSUME AsyncLogAssumption, Init PROVE IInv
<1>1. TypeOK
  <2>1. <<>> \in Seq(Messages) /\ 0 \in 0 .. MaxStarts /\ 0 \in 0 .. PerProducer
    BY DEF AsyncLogAssumption
  <2>2. QED
    BY <2>1, Zenon DEF Init, TypeOK
<1>2. Stages
  BY Zenon DEF Init, Stages
<1>3. Chronological
  BY ReverseEmpty DEF Init, Chronological
<1>4. Numbered
  BY Zenon DEF Init, Numbered
<1>5. QED
  BY <1>1, <1>2, <1>3, <1>4 DEF IInv

(* The producers: op_lib_log and op_async_log_enqueue.                          *)
LEMMA ProducerStep ==
    ASSUME AsyncLogAssumption, IInv, NEW p \in Producers, op_lib_log(p) \/ op_async_log_enqueue(p)
    PROVE  IInv'
<1>0. TypeOK /\ Stages /\ Numbered /\ Chronological
  BY DEF IInv
<1>1. UNCHANGED <<wpc, batch, out, cleared, hook, stop, mpc, starts>>
  BY Zenon
     DEF op_lib_log, op_async_log_enqueue, PushEntry, MarkPending, log_wake_signal, writerVars, mainVars
<1>2. Stages'
  BY <1>0, <1>1 DEF Stages
<1>3. CASE op_lib_log(p)
  <2>1. UNCHANGED <<stack, pushed, pending, efd>> /\ sent[p] < PerProducer
    BY <1>3 DEF op_lib_log
  <2>2. sent[p] \in 0 .. PerProducer /\ sent[p] + 1 \in 1 .. PerProducer /\ sent[p] + 1 \in 0 .. PerProducer
    BY <1>0, <2>1 DEF TypeOK, AsyncLogAssumption
  <2>3. sent' = [sent EXCEPT ![p] = sent[p] + 1] /\ sent' \in [Producers -> 0 .. PerProducer]
    BY <1>0, <1>3, <2>2 DEF op_lib_log, TypeOK
  <2>4. ppc' \in [Producers -> {"idle", "push", "mark", "signal"}]
    BY <1>0, <1>3 DEF op_lib_log, TypeOK
  <2>5. sync' \subseteq Messages
    BY <1>0, <1>3, <2>2 DEF op_lib_log, TypeOK, Messages
  <2>6. TypeOK'
    BY <1>0, <1>1, <2>1, <2>3, <2>4, <2>5, ZenonT(30) DEF TypeOK
  <2>7. Chronological'
    BY <1>0, <1>1, <2>1 DEF Chronological
  <2>8. Numbered'
    BY <1>0, <1>3, <2>2, <2>3 DEF op_lib_log, Numbered, TypeOK
  <2>9. QED
    BY <1>2, <2>6, <2>7, <2>8 DEF IInv
<1>4. CASE PushEntry(p)
  <2>1. /\ ppc[p] = "push" /\ ppc' = [ppc EXCEPT ![p] = "mark"] /\ UNCHANGED <<pending, efd, sent, sync>>
        /\ stack' = <<Msg(p)>> \o stack /\ pushed' = Append(pushed, Msg(p))
    BY <1>4 DEF PushEntry
  <2>2. Msg(p) \in Messages
    <3>1. sent[p] \in 0 .. PerProducer /\ sent[p] > 0 /\ PerProducer \in Nat
      BY <1>0, <2>1 DEF Numbered, TypeOK, AsyncLogAssumption
    <3>2. sent[p] \in 1 .. PerProducer
      BY <3>1
    <3>3. QED
      BY <3>2 DEF Msg, Messages
  <2>3. TypeOK'
    BY <1>0, <1>1, <2>1, <2>2 DEF TypeOK
  <2>4. Chronological'
    <3>1. /\ out \in Seq(Messages) /\ batch \in Seq(Messages) /\ stack \in Seq(Messages)
          /\ pushed = out \o batch \o Reverse(stack)
      BY <1>0 DEF Chronological, TypeOK
    <3>2. Reverse(stack) \in Seq(Messages) /\ Reverse(stack') = Append(Reverse(stack), Msg(p))
      BY <2>1, <2>2, <3>1, ReversePush
    <3>3. Joined(Append(pushed, Msg(p)), out, batch, Append(Reverse(stack), Msg(p)))
      <4>1. Joined(pushed, out, batch, Reverse(stack))
        BY <3>1 DEF Joined
      <4>2. QED
        BY <2>2, <3>1, <3>2, <4>1, JoinLast, ZenonT(30)
    <3>4. QED
      BY <1>1, <2>1, <3>2, <3>3, Zenon DEF Chronological, Joined
  <2>5. Numbered'
    BY <1>0, <2>1, SMTT(30) DEF Numbered, TypeOK
  <2>6. QED
    BY <1>2, <2>3, <2>4, <2>5, Zenon DEF IInv
<1>5. CASE MarkPending(p) \/ log_wake_signal(p)
  <2>1. UNCHANGED <<stack, sent, pushed, sync>>
    BY <1>5 DEF MarkPending, log_wake_signal
  <2>2. /\ ppc' \in [Producers -> {"idle", "push", "mark", "signal"}]
        /\ pending' \in {0, 1} /\ efd' \in BOOLEAN
    BY <1>0, <1>5, Zenon DEF MarkPending, log_wake_signal, TypeOK
  <2>3. TypeOK'
    BY <1>0, <1>1, <2>1, <2>2 DEF TypeOK
  <2>4. Chronological'
    BY <1>0, <1>1, <2>1 DEF Chronological
  <2>5. Numbered'
    BY <1>0, <1>5, <2>1 DEF MarkPending, log_wake_signal, Numbered, TypeOK
  <2>6. QED
    BY <1>2, <2>3, <2>4, <2>5, Zenon DEF IInv
<1>6. QED
  BY <1>3, <1>4, <1>5 DEF op_async_log_enqueue

(* The writer: log_writer_fn and drain_stack.                                   *)
LEMMA WriterStep ==
    ASSUME IInv, log_writer_fn \/ StoreVisible
    PROVE  IInv'
<1>0. TypeOK /\ Stages /\ Numbered /\ Chronological
  BY DEF IInv
<1>1. UNCHANGED <<hook, stop, mpc, starts, ppc, sent, pushed, sync>>
  BY DEF log_writer_fn, drain_stack, TestStop, PollWake, ClearPending, StoreVisible, DetachStack,
      DeliverEntry, DrainReturns, mainVars, prodVars
<1>2. Numbered'
  BY <1>0, <1>1 DEF Numbered
<1>3. CASE TestStop \/ PollWake \/ ClearPending \/ StoreVisible \/ DrainReturns
  <2>1. UNCHANGED <<stack, batch, out>>
    BY <1>3 DEF TestStop, PollWake, ClearPending, StoreVisible, DrainReturns
  <2>2. pending' \in {0, 1} /\ cleared' \in BOOLEAN /\ efd' \in BOOLEAN
    BY <1>0, <1>3, Zenon DEF TestStop, PollWake, ClearPending, StoreVisible, DrainReturns, TypeOK
  <2>3. wpc' \in {"none", "test", "poll", "clear", "drain", "deliver", "final", "last", "exited"}
    BY <1>0, <1>3 DEF TestStop, PollWake, ClearPending, StoreVisible, DrainReturns, TypeOK
  <2>4. TypeOK'
    BY <1>0, <1>1, <2>1, <2>2, <2>3 DEF TypeOK
  <2>5. Stages'
    <3>1. CASE TestStop
      BY <1>0, <1>1, <3>1 DEF TestStop, Stages, TypeOK
    <3>2. CASE PollWake \/ ClearPending \/ StoreVisible
      BY <1>0, <1>1, <2>1, <3>2 DEF PollWake, ClearPending, StoreVisible, Stages
    <3>3. CASE DrainReturns
      BY <1>0, <1>1, <3>3 DEF DrainReturns, Stages
    <3>4. QED
      BY <1>3, <3>1, <3>2, <3>3
  <2>6. Chronological'
    BY <1>0, <1>1, <2>1 DEF Chronological
  <2>7. QED
    BY <1>2, <2>4, <2>5, <2>6 DEF IInv
<1>4. CASE DetachStack
  <2>1. /\ wpc \in {"drain", "final"} /\ wpc' = (IF wpc = "drain" THEN "deliver" ELSE "last")
        /\ batch' = Reverse(stack) /\ stack' = <<>> /\ UNCHANGED <<pending, efd, out, cleared>>
    BY <1>4 DEF DetachStack
  <2>2. out \in Seq(Messages) /\ Reverse(stack) \in Seq(Messages) /\ batch = <<>>
    <3>1. stack \in Seq(Messages) /\ out \in Seq(Messages)
      BY <1>0 DEF TypeOK
    <3>2. Reverse(stack) \in Seq(Messages)
      BY <3>1, ReverseType, Zenon
    <3>3. QED
      BY <1>0, <2>1, <3>1, <3>2, Zenon DEF Stages
  <2>3. TypeOK'
    BY <1>0, <1>1, <2>1, <2>2 DEF TypeOK
  <2>4. Stages'
    BY <1>0, <1>1, <2>1 DEF Stages
  <2>5. Chronological'
    BY <1>0, <1>1, <2>1, <2>2, ReverseEmpty, JoinEmpty, SMTT(30) DEF Chronological
  <2>6. QED
    BY <1>2, <2>3, <2>4, <2>5, Zenon DEF IInv
<1>5. CASE DeliverEntry
  <2>1. /\ wpc \in {"deliver", "last"} /\ batch # <<>> /\ UNCHANGED <<stack, pending, efd, wpc, cleared>>
        /\ out' = Append(out, Head(batch)) /\ batch' = Tail(batch)
    BY <1>5 DEF DeliverEntry
  <2>2. out' \in Seq(Messages) /\ batch' \in Seq(Messages)
    BY <1>0, <2>1 DEF TypeOK
  <2>3. TypeOK'
    BY <1>0, <1>1, <2>1, <2>2 DEF TypeOK
  <2>4. Stages'
    BY <1>0, <1>1, <2>1 DEF Stages
  <2>5. Chronological'
    <3>1. out \in Seq(Messages) /\ batch \in Seq(Messages) /\ Reverse(stack) \in Seq(Messages)
      BY <1>0, ReverseType DEF TypeOK
    <3>2. Joined(pushed, out, batch, Reverse(stack))
      BY <1>0, Zenon DEF Joined, Chronological
    <3>3. Joined(pushed, Append(out, Head(batch)), Tail(batch), Reverse(stack))
      BY <2>1, <3>1, <3>2, JoinHead, Zenon
    <3>4. QED
      BY <1>1, <2>1, <3>3, Zenon DEF Chronological, Joined
  <2>6. QED
    BY <1>2, <2>3, <2>4, <2>5, Zenon DEF IInv
<1>6. QED
  BY <1>3, <1>4, <1>5 DEF log_writer_fn, drain_stack

(* The main thread: op_start_async_log and op_stop_async_log.                    *)
LEMMA MainThreadStep ==
    ASSUME AsyncLogAssumption, IInv, op_start_async_log \/ op_stop_async_log
    PROVE  IInv'
<1>0. TypeOK /\ Stages /\ Numbered /\ Chronological
  BY DEF IInv
<1>1. UNCHANGED <<stack, batch, out, cleared, ppc, sent, pushed, sync>>
  BY Zenon
     DEF op_start_async_log, op_stop_async_log, StartFails, StartWriter, InstallHook, RemoveHook,
         StopWriter, JoinWriter, writerVars, prodVars
<1>2. Numbered' /\ Chronological'
  BY <1>0, <1>1 DEF Numbered, Chronological
<1>3. starts' \in 0 .. MaxStarts
  BY <1>0 DEF op_start_async_log, op_stop_async_log, StartFails, StartWriter, InstallHook, RemoveHook,
      StopWriter, JoinWriter, TypeOK, AsyncLogAssumption
<1>4. /\ pending' \in {0, 1} /\ efd' \in BOOLEAN /\ hook' \in BOOLEAN /\ stop' \in BOOLEAN
      /\ wpc' \in {"none", "test", "poll", "clear", "drain", "deliver", "final", "last", "exited"}
      /\ mpc' \in {"off", "started", "on", "stop", "join"}
  <2>1. CASE StartFails \/ StartWriter \/ InstallHook
    BY <1>0, <2>1, Zenon DEF StartFails, StartWriter, InstallHook, writerVars, TypeOK
  <2>2. CASE RemoveHook \/ StopWriter \/ JoinWriter
    BY <1>0, <2>2, Zenon DEF RemoveHook, StopWriter, JoinWriter, writerVars, TypeOK
  <2>3. QED
    BY <2>1, <2>2, Zenon DEF op_start_async_log, op_stop_async_log
<1>5. TypeOK'
  BY <1>0, <1>1, <1>3, <1>4 DEF TypeOK
<1>6. Stages'
  <2>1. CASE StartFails \/ StartWriter \/ InstallHook
    BY <1>0, <1>1, <2>1 DEF StartFails, StartWriter, InstallHook, writerVars, Stages
  <2>2. CASE RemoveHook \/ StopWriter \/ JoinWriter
    BY <1>0, <1>1, <2>2 DEF RemoveHook, StopWriter, JoinWriter, writerVars, Stages
  <2>3. QED
    BY <2>1, <2>2 DEF op_start_async_log, op_stop_async_log
<1>7. QED
  BY <1>2, <1>5, <1>6 DEF IInv

LEMMA NextIInv == ASSUME AsyncLogAssumption, IInv, [Next]_vars PROVE IInv'
<1>1. CASE UNCHANGED vars
  BY <1>1 DEF vars, IInv, TypeOK, Stages, Numbered, Chronological
<1>2. CASE Next
  BY <1>2, ProducerStep, WriterStep, MainThreadStep, Zenon DEF Next
<1>3. QED
  BY <1>1, <1>2

(* However its threads, the writer and restarts interleave, and even where the   *)
(* writer's reset of log_pending is seen late, the log hands each queued message  *)
(* to the callback exactly once and in the order of the pushes                    *)
(* (op_async_log_enqueue, drain_stack).                                          *)
THEOREM InOrder == ASSUME AsyncLogAssumption PROVE Spec => [](TypeOK /\ Chronological)
<1>1. Init => IInv
  BY InitIInv
<1>2. IInv /\ [Next]_vars => IInv'
  BY NextIInv, Zenon
<1>3. IInv => TypeOK /\ Chronological
  BY DEF IInv
<1>4. QED
  BY <1>1, <1>2, <1>3, PTL DEF Spec

-----------------------------------------------------------------------------
(* Where op_stop_async_log begins only once no op_lib_log call is under way, a   *)
(* queued message finds the writer before its last drain.                        *)
Quiet ==
    /\ mpc # "on" => \A p \in Producers : ppc[p] = "idle"
    /\ wpc \in {"last", "exited", "none"} => stack = <<>>

(* Why one signal per burst is enough: while log_pending is set and the writer    *)
(* has not come to reset it, a wakeup is under way; so a message stacked behind   *)
(* the writer's back has one, or its own thread will still look.                 *)
Signals ==
    /\ ~cleared
    /\ pending = 1 /\ wpc \notin {"clear", "none"} =>
           efd \/ \E p \in Producers : ppc[p] = "signal"
    /\ stack # <<>> /\ wpc \in {"test", "poll", "deliver"} =>
           efd \/ \E p \in Producers : ppc[p] \in {"mark", "signal"}

LEMMA NextQuiet ==
    ASSUME InFlight = FALSE, IInv, Quiet, [Next]_vars
    PROVE  Quiet'
<1>0. TypeOK /\ Stages
  BY DEF IInv
<1>1. CASE UNCHANGED vars
  BY <1>1, Zenon DEF vars, Quiet
<1>2. ASSUME NEW p \in Producers, op_lib_log(p) \/ op_async_log_enqueue(p) PROVE Quiet'
  <2>1. UNCHANGED <<mpc, wpc>>
    BY <1>2 DEF op_lib_log, op_async_log_enqueue, PushEntry, MarkPending, log_wake_signal, writerVars, mainVars
  <2>2. mpc # "on" => UNCHANGED <<ppc, stack>>
    <3>1. CASE op_lib_log(p)
      BY <1>0, <3>1 DEF op_lib_log, Stages
    <3>2. CASE op_async_log_enqueue(p)
      BY <1>0, <3>2 DEF op_async_log_enqueue, PushEntry, MarkPending, log_wake_signal, Quiet
    <3>3. QED
      BY <1>2, <3>1, <3>2
  <2>3. wpc \in {"last", "exited", "none"} => mpc # "on"
    BY <1>0 DEF Stages
  <2>4. QED
    BY <2>1, <2>2, <2>3, ZenonT(30) DEF Quiet
<1>3. CASE log_writer_fn \/ StoreVisible
  <2>1. UNCHANGED <<mpc, ppc>>
    BY <1>3 DEF log_writer_fn, drain_stack, TestStop, PollWake, ClearPending, DetachStack, DeliverEntry,
        DrainReturns, StoreVisible, mainVars, prodVars
  <2>2. wpc' \in {"last", "exited", "none"} => stack' = <<>>
    <3>1. CASE TestStop \/ PollWake \/ ClearPending \/ StoreVisible
      BY <3>1 DEF TestStop, PollWake, ClearPending, StoreVisible, Quiet
    <3>2. CASE drain_stack
      BY <3>2 DEF drain_stack, DetachStack, DeliverEntry, DrainReturns, Quiet
    <3>3. QED
      BY <1>3, <3>1, <3>2, Zenon DEF log_writer_fn
  <2>3. QED
    BY <2>1, <2>2, ZenonT(30) DEF Quiet
<1>4. CASE op_start_async_log
  BY <1>0, <1>4, Zenon
     DEF op_start_async_log, StartFails, StartWriter, InstallHook, writerVars, prodVars, Quiet
<1>5. CASE op_stop_async_log
  <2>1. UNCHANGED <<stack, ppc>>
    BY <1>5 DEF op_stop_async_log, RemoveHook, StopWriter, JoinWriter, prodVars
  <2>2. mpc' # "on" => \A p \in Producers : ppc[p] = "idle"
    BY <1>5, Zenon DEF op_stop_async_log, RemoveHook, StopWriter, JoinWriter, Quiet
  <2>3. wpc' \in {"last", "exited", "none"} => stack = <<>>
    BY <1>5 DEF op_stop_async_log, RemoveHook, StopWriter, JoinWriter, writerVars, Quiet
  <2>4. QED
    BY <2>1, <2>2, <2>3 DEF Quiet
<1>6. QED
  BY <1>1, <1>2, <1>3, <1>4, <1>5, ZenonT(30) DEF Next

(* op_stop_async_log returns with nothing left in the queue when no op_lib_log    *)
(* call is under way as it begins: the writer's last drain comes after every      *)
(* push.                                                                         *)
THEOREM StopsDrained ==
    ASSUME AsyncLogAssumption, InFlight = FALSE
    PROVE  Spec => []StopDrains
<1>1. Init => IInv /\ Quiet
  BY InitIInv, Zenon DEF Init, Quiet
<1>2. IInv /\ Quiet /\ [Next]_vars => IInv' /\ Quiet'
  BY NextIInv, NextQuiet, Zenon
<1>3. IInv /\ Quiet => StopDrains
  BY DEF IInv, Stages, Quiet, StopDrains
<1>4. QED
  BY <1>1, <1>2, <1>3, PTL DEF Spec

-----------------------------------------------------------------------------
(* A step of op_lib_log keeps the wakeup that is under way or is one itself.      *)
LEMMA SignalsKept ==
    ASSUME IInv, Signals, Quiet, NEW p \in Producers, op_lib_log(p) \/ op_async_log_enqueue(p)
    PROVE  Signals'
<1>0. TypeOK /\ Stages
  BY DEF IInv
<1>1. ppc \in [Producers -> {"idle", "push", "mark", "signal"}]
  BY <1>0, Zenon DEF TypeOK
<1>2. UNCHANGED <<mpc, wpc, cleared>>
  BY DEF op_lib_log, op_async_log_enqueue, PushEntry, MarkPending, log_wake_signal, writerVars, mainVars
<1>3. CASE op_lib_log(p)
  <2>1. UNCHANGED <<stack, pending, efd>>
    BY <1>3 DEF op_lib_log
  <2>2. \A q \in Producers : ppc[q] \in {"mark", "signal"} => ppc'[q] = ppc[q]
    BY <1>1, <1>3, Zenon DEF op_lib_log
  <2>3. QED
    BY <1>2, <2>1, <2>2, Zenon DEF Signals
<1>4. CASE PushEntry(p)
  <2>1. UNCHANGED <<pending, efd>>
    BY <1>4 DEF PushEntry
  <2>2. ppc'[p] = "mark" /\ \A q \in Producers : ppc[q] \in {"mark", "signal"} => ppc'[q] = ppc[q]
    BY <1>1, <1>4, Zenon DEF PushEntry
  <2>3. QED
    BY <1>2, <2>1, <2>2 DEF Signals
<1>5. CASE MarkPending(p)
  <2>1. UNCHANGED <<stack, efd>> /\ ppc[p] = "mark"
    BY <1>5 DEF MarkPending
  <2>2. mpc = "on" \/ wpc # "none"
    BY <2>1 DEF Quiet
  <2>3. wpc # "none"
    BY <1>0, <2>2 DEF Stages
  <2>4. \A q \in Producers : ppc[q] = "signal" => ppc'[q] = "signal"
    BY <1>1, <1>5 DEF MarkPending
  <2>5. pending = 0 => ppc'[p] = "signal"
    BY <1>1, <1>5 DEF MarkPending
  <2>6. pending # 0 /\ wpc # "clear" => efd \/ \E q \in Producers : ppc[q] = "signal"
    BY <1>0, <2>3 DEF Signals, TypeOK
  <2>7. wpc # "clear" => efd \/ \E q \in Producers : ppc'[q] = "signal"
    BY <2>4, <2>5, <2>6
  <2>8. QED
    BY <1>2, <2>1, <2>7 DEF Signals
<1>6. CASE log_wake_signal(p)
  BY <1>2, <1>6 DEF log_wake_signal, Signals
<1>7. QED
  BY <1>3, <1>4, <1>5, <1>6, Zenon DEF op_async_log_enqueue

LEMMA NextSignals ==
    ASSUME AsyncLogAssumption, Weak = FALSE, IInv, Quiet, Signals, [Next]_vars
    PROVE  Signals'
<1>0. TypeOK /\ Stages
  BY DEF IInv
<1>1. CASE UNCHANGED vars
  BY <1>1, Zenon DEF vars, Signals
<1>2. ASSUME NEW p \in Producers, op_lib_log(p) \/ op_async_log_enqueue(p) PROVE Signals'
  BY <1>2, SignalsKept
<1>3. CASE TestStop \/ PollWake \/ ClearPending \/ StoreVisible
  <2>1. CASE TestStop
    BY <2>1 DEF TestStop, Signals, prodVars
  <2>2. CASE PollWake
    BY <2>2, Zenon DEF PollWake, Signals, prodVars
  <2>3. CASE ClearPending
    BY <2>3 DEF ClearPending, Signals, prodVars
  <2>4. CASE StoreVisible
    BY <2>4, Zenon DEF StoreVisible, Signals
  <2>5. QED
    BY <1>3, <2>1, <2>2, <2>3, <2>4, SMTT(30)
<1>4. CASE drain_stack
  <2>1. CASE DetachStack
    BY <2>1 DEF DetachStack, Signals, prodVars
  <2>2. CASE DeliverEntry
    BY <2>2, Zenon DEF DeliverEntry, Signals, prodVars
  <2>3. CASE DrainReturns
    BY <2>3 DEF DrainReturns, Signals, prodVars
  <2>4. QED
    BY <1>4, <2>1, <2>2, <2>3 DEF drain_stack
<1>5. CASE op_start_async_log
  <2>1. CASE StartFails
    BY <1>0, <2>1 DEF StartFails, Signals, Stages, writerVars, prodVars
  <2>2. CASE StartWriter
    BY <1>0, <2>2 DEF StartWriter, Signals, Quiet, Stages, prodVars
  <2>3. CASE InstallHook
    BY <2>3 DEF InstallHook, Signals, writerVars, prodVars
  <2>4. QED
    BY <1>5, <2>1, <2>2, <2>3, ZenonT(30) DEF op_start_async_log
<1>6. CASE op_stop_async_log
  BY <1>6 DEF op_stop_async_log, RemoveHook, StopWriter, JoinWriter, Signals, writerVars, prodVars
<1>7. QED
  BY <1>1, <1>2, <1>3, <1>4, <1>5, <1>6, SMTT(30) DEF Next, log_writer_fn

(* The writer never sleeps in poll() on a queued message with no wakeup under     *)
(* way, on a machine where its reset of log_pending is visible before it detaches *)
(* the stack: the test that signals only the first push of a burst never skips    *)
(* the signal that matters (op_async_log_enqueue, log_writer_fn).                 *)
THEOREM Wakes ==
    ASSUME AsyncLogAssumption, InFlight = FALSE, Weak = FALSE
    PROVE  Spec => []WakeupNotLost
<1>1. Init => IInv /\ Quiet /\ Signals
  BY InitIInv, Zenon DEF Init, Quiet, Signals
<1>2. IInv /\ Quiet /\ Signals /\ [Next]_vars => IInv' /\ Quiet' /\ Signals'
  BY NextIInv, NextQuiet, NextSignals, Zenon
<1>3. Signals => WakeupNotLost
  BY Zenon DEF Signals, WakeupNotLost
<1>4. QED
  BY <1>1, <1>2, <1>3, PTL DEF Spec

=============================================================================
