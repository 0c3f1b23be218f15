---------------------------- MODULE EpollProofs ----------------------------
(***************************************************************************)
(* What holds of src/epoll.c for every number of FDEs and workers, every       *)
(* size of the ring and of a batch, and every way of calling it:               *)
(*   Consistent     pflags is exact, and the ring stays within its bounds;     *)
(*   Announced      the I/O thread never sleeps on a filled ring;              *)
(*   Fresh          inline, a handler is called for the descriptor it was      *)
(*                  registered for;                                           *)
(*   Armed          inline, with one kind of interest, none is lost.           *)
(***************************************************************************)
EXTENDS Epoll, TLAPS

(* The kernel's side of an FDE.                                               *)
KernTypes == [Fdes -> [in : BOOLEAN, mask : SUBSET Kinds]]

(* The variables are well typed, and the I/O thread dispatches an event while    *)
(* it is in ep_dispatch_event.                                                *)
Types == TypeOK /\ (iopc \in Dispatching => cur \in Events)

-----------------------------------------------------------------------------
(* The operators the actions are made of.                                     *)

(* ep_ctl leaves the kernel with a set of the kinds of interest.                *)
LEMMA EpCtlTypes ==
    ASSUME NEW op, NEW f \in Fdes, NEW mask \in SUBSET Kinds, kern \in KernTypes
    PROVE  ep_ctl(op, f, mask) \in KernTypes
BY SMTT(30) DEF ep_ctl, KernTypes, Registered, Unregistered

(* op_setselect_epoll keeps the types of what it changes.                        *)
LEMMA SetselectTypes ==
    ASSUME Types, NEW f \in Fdes, NEW type \in SUBSET Kinds, NEW on \in BOOLEAN,
           op_setselect(f, type, on)
    PROVE  /\ handler' \in [Fdes -> SUBSET Kinds] /\ pflags' \in [Fdes -> SUBSET Kinds]
           /\ kern' \in KernTypes
<1> DEFINE old == pflags[f]
           new == Apply(old, type, on)
           op == IF new = {} THEN "DEL" ELSE IF old = {} THEN "ADD" ELSE "MOD"
<1>1. handler \in [Fdes -> SUBSET Kinds] /\ pflags \in [Fdes -> SUBSET Kinds] /\ kern \in KernTypes
  BY Zenon DEF Types, TypeOK, KernTypes
<1>2. Apply(handler[f], type, on) \in SUBSET Kinds /\ new \in SUBSET Kinds
  BY <1>1, Zenon DEF Apply
<1>3. ep_ctl(op, f, new) \in KernTypes
  <2> HIDE DEF op, new
  <2>1. QED
    BY <1>1, <1>2, EpCtlTypes, Zenon
<1>4. kern' = IF new = old THEN kern ELSE ep_ctl(op, f, new)
  BY Zenon DEF op_setselect
<1>5. /\ handler' = [handler EXCEPT ![f] = Apply(handler[f], type, on)]
      /\ pflags' = [pflags EXCEPT ![f] = new]
  BY Zenon DEF op_setselect
<1> HIDE DEF op, new
<1>6. QED
  BY <1>1, <1>2, <1>3, <1>4, <1>5, Zenon

(* What epoll_wait reports is about FDEs of the table that have something to      *)
(* report, as events, and they are silenced.                                   *)
LEMMA BatchTypes ==
    ASSUME EpollAssumption, Types, NEW b \in Batches
    PROVE  /\ \A f \in b : f \in Fdes /\ Firing(f) # {}
           /\ EventsOf(b) \subseteq Events /\ Silenced(b) \in KernTypes
<1> DEFINE firing == {f \in Fdes : Firing(f) # {}}
<1>1. b \subseteq firing
  BY Zenon DEF Batches
<1>2. \A f \in b : f \in Fdes /\ Firing(f) # {}
  BY <1>1, Zenon
<1>3. \A f \in Fdes : Firing(f) \in SUBSET Conditions
  BY Zenon DEF Firing, Types, TypeOK, Conditions
<1>4. EventsOf(b) \subseteq Events
  <2>1. gen \in [Fdes -> 0 .. MaxGen]
    BY Zenon DEF Types, TypeOK
  <2>2. SUFFICES ASSUME NEW e \in EventsOf(b) PROVE e \in Events
    BY Zenon
  <2>3. PICK f \in b : e = [fde |-> f, evs |-> Firing(f), gen |-> gen[f]]
    BY Zenon DEF EventsOf
  <2>4. f \in Fdes /\ Firing(f) \in (SUBSET Conditions) \ {{}} /\ gen[f] \in 0 .. MaxGen
    BY <1>2, <1>3, <2>1, Zenon
  <2>5. QED
    BY <2>3, <2>4, Zenon DEF Events
<1>5. Silenced(b) \in KernTypes
  BY Zenon DEF Silenced, KernTypes, Types, TypeOK, Registered
<1>6. QED
  BY <1>2, <1>4, <1>5, Zenon

-----------------------------------------------------------------------------
(* Every step keeps the types.                                               *)
LEMMA TypesStep == ASSUME EpollAssumption, Types, Next PROVE Types'
<1> USE DEF Types, fdVars, pollVars, modeVars, ioVars, KernTypes, Dispatching
<1>0. /\ MaxGen \in Nat /\ RingCap \in Nat \ {0} /\ Registers \subseteq BOOLEAN
      /\ None \notin Fdes /\ Kinds \subseteq {"r", "w"}
  BY Zenon DEF EpollAssumption
<1>1. CASE EpollWait
  <2>1. PICK b \in Batches : iobatch' = EventsOf(b) /\ kern' = Silenced(b)
    BY <1>1, Zenon DEF EpollWait
  <2>2. iobatch' \subseteq Events /\ kern' \in KernTypes
    BY <2>1, BatchTypes, Zenon
  <2>3. QED
    BY <1>1, <2>2, Zenon DEF EpollWait, TypeOK
<1>2. CASE WakeUp
  <2>1. {active, stopping, any, notify}' \subseteq BOOLEAN
    BY <1>2, Zenon DEF WakeUp, TypeOK
  <2>2. iopc' = "next" /\ UNCHANGED <<fdVars, ppc, pbatch, ring, iobatch, cur, held>>
    BY <1>2, Zenon DEF WakeUp
  <2>3. QED
    BY <2>1, <2>2, Zenon DEF TypeOK
<1>3. CASE NextInline
  BY <1>3, Zenon DEF NextInline, BeginEvent, TypeOK
<1>4. CASE ep_ring_pop
  <2>1. ring \in Seq(Events) /\ ring # <<>> /\ Len(ring) <= RingCap
    BY <1>4, Zenon DEF ep_ring_pop, TypeOK
  <2>2. Head(ring) \in Events /\ Tail(ring) \in Seq(Events) /\ Len(Tail(ring)) <= RingCap
    BY <2>1, <1>0, SMTT(30)
  <2>3. QED
    BY <1>4, <2>2, Zenon DEF ep_ring_pop, BeginEvent, TypeOK
<1>5. CASE DispatchRead
  BY <1>5, SMTT(30) DEF DispatchRead, ep_dispatch, TypeOK, Events
<1>6. CASE DispatchWrite
  BY <1>6, SMTT(30) DEF DispatchWrite, ep_dispatch, TypeOK, Events
<1>7. CASE HandlerReturns
  BY <1>7, Zenon DEF HandlerReturns, TypeOK
<1>8. CASE ep_rearm
  <2> DEFINE f == cur.fde
             new == handler[f]
             op == IF new = {} THEN "DEL" ELSE "MOD"
  <2>1. f \in Fdes /\ new \in SUBSET Kinds /\ kern \in KernTypes
    BY <1>8, Zenon DEF ep_rearm, TypeOK, Events
  <2>2. ep_ctl(op, f, new) \in KernTypes
    <3> HIDE DEF op, new, f
    <3>1. QED
      BY <2>1, EpCtlTypes, Zenon
  <2>3. kern' \in KernTypes
    BY <1>8, <2>1, <2>2, Zenon DEF ep_rearm
  <2>4. QED
    BY <1>8, <2>1, <2>3, Zenon DEF ep_rearm, TypeOK
<1>9. CASE SelectReturns
  BY <1>9, Zenon DEF SelectReturns, AfterDispatch, op_close_pending_fds, Unregistered, TypeOK
<1>10. CASE JoinPollThread
  <2>1. {active, stopping, any, notify}' \subseteq BOOLEAN
    BY <1>10, Zenon DEF JoinPollThread, TypeOK
  <2>2. iopc' = "idle" /\ UNCHANGED <<fdVars, ppc, pbatch, ring, iobatch, cur, held>>
    BY <1>10, Zenon DEF JoinPollThread
  <2>3. QED
    BY <2>1, <2>2, Zenon DEF TypeOK
<1>11. CASE PollWait
  <2>1. PICK b \in Batches : pbatch' = EventsOf(b) /\ kern' = Silenced(b)
    BY <1>11, Zenon DEF PollWait
  <2>2. pbatch' \subseteq Events /\ kern' \in KernTypes
    BY <2>1, BatchTypes, Zenon
  <2>3. {active, stopping, any, notify}' \subseteq BOOLEAN
    BY <1>11, Zenon DEF PollWait, TypeOK
  <2>4. ppc' = "push" /\ UNCHANGED <<handler, pflags, ready, life, gen, ring, ioVars, held>>
    BY <1>11, Zenon DEF PollWait
  <2>5. QED
    BY <2>2, <2>3, <2>4, Zenon DEF TypeOK
<1>12. CASE ep_ring_push
  <2>1. PICK e \in pbatch : /\ pbatch' = pbatch \ {e}
                            /\ ring' = IF Len(ring) >= RingCap THEN ring ELSE Append(ring, e)
    BY <1>12, Zenon DEF ep_ring_push
  <2>2. ring' \in Seq(Events) /\ Len(ring') <= RingCap
    BY <2>1, <1>0, SMTT(30) DEF TypeOK
  <2>3. any' \in BOOLEAN
    BY <1>12, Zenon DEF ep_ring_push
  <2>4. QED
    BY <1>12, <2>1, <2>2, <2>3, Zenon DEF ep_ring_push, TypeOK
<1>13. CASE SignalMain
  <2>1. notify' \in BOOLEAN
    BY <1>13, Zenon DEF SignalMain
  <2>2. QED
    BY <1>13, <2>1, Zenon DEF SignalMain, TypeOK
<1>14. CASE PollExit
  BY <1>14, Zenon DEF PollExit, TypeOK
<1>15. ASSUME NEW f \in Fdes, NEW type \in (SUBSET Kinds) \ {{}}, NEW on \in Registers,
              UserSetselect(f, type, on)
       PROVE  Types'
  <2>1. handler' \in [Fdes -> SUBSET Kinds] /\ pflags' \in [Fdes -> SUBSET Kinds] /\ kern' \in KernTypes
    BY <1>0, <1>15, SetselectTypes, Zenon DEF UserSetselect
  <2>2. QED
    BY <1>15, <2>1, Zenon DEF UserSetselect, TypeOK
<1>16. ASSUME NEW f \in Fdes, op_close(f) PROVE Types'
  <2>1. handler' \in [Fdes -> SUBSET Kinds] /\ pflags' \in [Fdes -> SUBSET Kinds] /\ kern' \in KernTypes
    <3>1. Kinds \in SUBSET Kinds /\ FALSE \in BOOLEAN /\ op_setselect(f, Kinds, FALSE)
      BY <1>16, Zenon DEF op_close
    <3>2. QED
      BY <3>1, SetselectTypes, Zenon
  <2>2. /\ life' = [life EXCEPT ![f] = "closed"]
        /\ UNCHANGED <<ready, gen, modeVars, pollVars, ioVars, held>>
    BY <1>16, Zenon DEF op_close
  <2>3. QED
    BY <2>1, <2>2, Zenon DEF TypeOK
<1>17. ASSUME NEW f \in Fdes, op_open(f) PROVE Types'
  BY <1>0, <1>17, SMTT(30) DEF op_open, TypeOK
<1>18. CASE op_epoll_start_pollthread
  <2>1. {active, stopping, any, notify}' \subseteq BOOLEAN
    BY <1>18, Zenon DEF op_epoll_start_pollthread, TypeOK
  <2>2. ring' = <<>> /\ ppc' = "wait" /\ UNCHANGED <<fdVars, pbatch, ioVars, held>>
    BY <1>18, Zenon DEF op_epoll_start_pollthread
  <2>3. QED
    BY <1>0, <2>1, <2>2, SMTT(30) DEF TypeOK
<1>19. CASE op_epoll_stop_pollthread
  <2>1. {active, stopping, any, notify}' \subseteq BOOLEAN
    BY <1>19, Zenon DEF op_epoll_stop_pollthread, TypeOK
  <2>2. iopc' = "join" /\ UNCHANGED <<fdVars, ppc, pbatch, ring, iobatch, cur, held>>
    BY <1>19, Zenon DEF op_epoll_stop_pollthread
  <2>3. QED
    BY <2>1, <2>2, Zenon DEF TypeOK
<1>20. ASSUME NEW w \in Workers, NEW f \in Fdes, WorkerTake(w, f) PROVE Types'
  BY <1>20, Zenon DEF WorkerTake, TypeOK
<1>21. ASSUME NEW w \in Workers, NEW type \in (SUBSET Kinds) \ {{}}, NEW on \in Registers,
              WorkerSetselect(w, type, on)
       PROVE  Types'
  <2>1. held[w] \in Fdes /\ on \in BOOLEAN /\ type \in SUBSET Kinds
    BY <1>0, <1>21, Zenon DEF WorkerSetselect, TypeOK
  <2>2. handler' \in [Fdes -> SUBSET Kinds] /\ pflags' \in [Fdes -> SUBSET Kinds] /\ kern' \in KernTypes
    BY <1>21, <2>1, SetselectTypes, Zenon DEF WorkerSetselect
  <2>3. QED
    BY <1>21, <2>2, Zenon DEF WorkerSetselect, TypeOK
<1>22. ASSUME NEW f \in Fdes, NEW c \in Conditions, BecomeReady(f, c) PROVE Types'
  BY <1>22, Zenon DEF BecomeReady, TypeOK
<1>23. QED
  BY <1>1, <1>2, <1>3, <1>4, <1>5, <1>6, <1>7, <1>8, <1>9, <1>10, <1>11, <1>12, <1>13, <1>14,
     <1>15, <1>16, <1>17, <1>18, <1>19, <1>20, <1>21, <1>22, ZenonT(30)
     DEF Next, IoThread, PollThread, User, Kernel
-----------------------------------------------------------------------------
(* pflags is exact.                                                          *)

(* op_setselect_epoll treats pflags and the handlers alike.                    *)
LEMMA SetselectFlags ==
    ASSUME Types, FlagsMatchHandlers, NEW f \in Fdes, NEW type, NEW on, op_setselect(f, type, on)
    PROVE  FlagsMatchHandlers'
BY SMTT(30) DEF Types, TypeOK, FlagsMatchHandlers, op_setselect

(* Every step keeps the flags and the handlers together.                        *)
LEMMA FlagsStep == ASSUME EpollAssumption, Types, FlagsMatchHandlers, Next PROVE FlagsMatchHandlers'
<1> USE DEF fdVars, pollVars, modeVars, ioVars
<1>0. UNCHANGED <<handler, pflags>> => FlagsMatchHandlers'
  BY Zenon DEF FlagsMatchHandlers
<1>99. handler \in [Fdes -> SUBSET Kinds] /\ pflags \in [Fdes -> SUBSET Kinds]
  BY Zenon DEF Types, TypeOK
<1>1. CASE EpollWait
  BY <1>1, <1>0, Zenon DEF EpollWait
<1>2. CASE WakeUp
  BY <1>2, <1>0, Zenon DEF WakeUp
<1>3. CASE NextInline
  BY <1>3, <1>0, Zenon DEF NextInline
<1>4. CASE ep_ring_pop
  BY <1>4, <1>0, Zenon DEF ep_ring_pop
<1>5. CASE DispatchRead
  <2> DEFINE f == cur.fde
             fires == cur.evs \cap {"r", "hup"} # {}
  <2>1. /\ handler' = [handler EXCEPT ![f] = IF fires THEN @ \ {"r"} ELSE @]
        /\ pflags' = [pflags EXCEPT ![f] = IF fires THEN @ \ {"r"} ELSE @]
    BY <1>5, Zenon DEF DispatchRead, ep_dispatch
  <2> HIDE DEF fires
  <2>2. QED
    BY <1>99, <2>1, Zenon DEF FlagsMatchHandlers
<1>6. CASE DispatchWrite
  <2> DEFINE f == cur.fde
             fires == cur.evs \cap {"w", "hup"} # {}
  <2>1. /\ handler' = [handler EXCEPT ![f] = IF fires THEN @ \ {"w"} ELSE @]
        /\ pflags' = [pflags EXCEPT ![f] = IF fires THEN @ \ {"w"} ELSE @]
    BY <1>6, Zenon DEF DispatchWrite, ep_dispatch
  <2> HIDE DEF fires
  <2>2. QED
    BY <1>99, <2>1, Zenon DEF FlagsMatchHandlers
<1>7. CASE HandlerReturns
  BY <1>7, <1>0, Zenon DEF HandlerReturns
<1>8. CASE ep_rearm
  BY <1>8, <1>99, Zenon DEF ep_rearm, FlagsMatchHandlers
<1>9. CASE SelectReturns
  BY <1>9, <1>0, Zenon DEF SelectReturns
<1>10. CASE JoinPollThread
  BY <1>10, <1>0, Zenon DEF JoinPollThread
<1>11. CASE PollWait
  BY <1>11, <1>0, Zenon DEF PollWait
<1>12. CASE ep_ring_push
  BY <1>12, <1>0, Zenon DEF ep_ring_push
<1>13. CASE SignalMain
  BY <1>13, <1>0, Zenon DEF SignalMain
<1>14. CASE PollExit
  BY <1>14, <1>0, Zenon DEF PollExit
<1>15. ASSUME NEW f \in Fdes, NEW type \in (SUBSET Kinds) \ {{}}, NEW on \in Registers,
              UserSetselect(f, type, on)
       PROVE  FlagsMatchHandlers'
  <2>1. op_setselect(f, type, on)
    BY <1>15, Zenon DEF UserSetselect
  <2>2. QED
    BY <2>1, SetselectFlags, Zenon
<1>16. ASSUME NEW f \in Fdes, op_close(f) PROVE FlagsMatchHandlers'
  <2>1. op_setselect(f, Kinds, FALSE)
    BY <1>16, Zenon DEF op_close
  <2>2. QED
    BY <2>1, SetselectFlags, Zenon
<1>17. ASSUME NEW f \in Fdes, op_open(f) PROVE FlagsMatchHandlers'
  BY <1>17, <1>99, Zenon DEF op_open, FlagsMatchHandlers
<1>18. CASE op_epoll_start_pollthread
  BY <1>18, <1>0, Zenon DEF op_epoll_start_pollthread
<1>19. CASE op_epoll_stop_pollthread
  BY <1>19, <1>0, Zenon DEF op_epoll_stop_pollthread
<1>20. ASSUME NEW w \in Workers, NEW f \in Fdes, WorkerTake(w, f) PROVE FlagsMatchHandlers'
  BY <1>20, <1>0, Zenon DEF WorkerTake
<1>21. ASSUME NEW w \in Workers, NEW type \in (SUBSET Kinds) \ {{}}, NEW on \in Registers,
              WorkerSetselect(w, type, on)
       PROVE  FlagsMatchHandlers'
  <2>1. held[w] \in Fdes
    BY <1>21, Zenon DEF WorkerSetselect, Types, TypeOK
  <2>2. QED
    BY <1>21, <2>1, SetselectFlags, Zenon DEF WorkerSetselect
<1>22. ASSUME NEW f \in Fdes, NEW c \in Conditions, BecomeReady(f, c) PROVE FlagsMatchHandlers'
  BY <1>22, <1>0, Zenon DEF BecomeReady
<1>23. QED
  BY <1>1, <1>2, <1>3, <1>4, <1>5, <1>6, <1>7, <1>8, <1>9, <1>10, <1>11, <1>12, <1>13, <1>14,
     <1>15, <1>16, <1>17, <1>18, <1>19, <1>20, <1>21, <1>22, ZenonT(30)
     DEF Next, IoThread, PollThread, User, Kernel

(* Types and flags, for the theorems that rest on them.                         *)
LEMMA TypesAlways == ASSUME EpollAssumption PROVE Spec => [](Types /\ FlagsMatchHandlers)
<1> DEFINE Inv == Types /\ FlagsMatchHandlers
<1>1. Init => Inv
  <2>1. ASSUME Init PROVE Types
    <3>1. {active, stopping, any, notify} \subseteq BOOLEAN
      BY <2>1, Zenon DEF Init
    <3>2. MaxGen \in Nat /\ RingCap \in Nat \ {0}
      BY Zenon DEF EpollAssumption
    <3>3. kern \in [Fdes -> [in : BOOLEAN, mask : SUBSET Kinds]]
      BY <2>1, Zenon DEF Init, Unregistered
    <3>4. /\ handler = [f \in Fdes |-> {}] /\ pflags = [f \in Fdes |-> {}]
          /\ ready = [f \in Fdes |-> {}] /\ life = [f \in Fdes |-> "open"] /\ gen = [f \in Fdes |-> 0]
          /\ ppc = "off" /\ pbatch = {} /\ ring = <<>> /\ iopc = "idle" /\ iobatch = {} /\ cur = None
          /\ held = [w \in Workers |-> None]
      BY <2>1, Zenon DEF Init
    <3>5. QED
      BY <3>1, <3>2, <3>3, <3>4, SMTT(30) DEF Types, TypeOK, Dispatching
  <2>2. ASSUME Init PROVE FlagsMatchHandlers
    BY <2>2, Zenon DEF Init, FlagsMatchHandlers
  <2>3. QED
    BY <2>1, <2>2, Zenon
<1>2. ASSUME Inv, [Next]_vars PROVE Inv'
  <2>1. CASE Next
    BY <1>2, <2>1, TypesStep, FlagsStep, Zenon
  <2>2. CASE UNCHANGED vars
    BY <1>2, <2>2, Zenon DEF vars, Types, TypeOK, FlagsMatchHandlers
  <2>3. QED
    BY <1>2, <2>1, <2>2, Zenon
<1>3. QED
  BY <1>1, <1>2, PTL DEF Spec

(* "F->pflags reflects actual state at all times" (op_setselect_epoll,          *)
(* ep_dispatch, ep_rearm): whatever handlers, workers and the dispatcher do, a    *)
(* bit is set exactly when its handler is; and ep_ring_push keeps the ring within  *)
(* EP_RING_CAP.                                                               *)
THEOREM Consistent == ASSUME EpollAssumption PROVE Spec => [](TypeOK /\ FlagsMatchHandlers)
<1>1. Types /\ FlagsMatchHandlers => TypeOK /\ FlagsMatchHandlers
  BY Zenon DEF Types
<1>2. QED
  BY <1>1, TypesAlways, PTL

-----------------------------------------------------------------------------
(* The ring is announced.                                                     *)

(* While the I/O thread may sleep, ring entries mean that ep_notify_fd is set or    *)
(* about to be: the poll thread has pushed one of them in the batch it is in.      *)
RingHeard ==
    /\ active /\ iopc = "idle" /\ ring # <<>> => notify \/ (ppc = "push" /\ any)
    /\ iopc = "join" => ~active

(* Every step keeps it.                                                      *)
LEMMA HeardStep == ASSUME EpollAssumption, Types, RingHeard, Next PROVE RingHeard'
<1> USE DEF fdVars, pollVars, modeVars, ioVars
<1>0. ASSUME UNCHANGED <<active, iopc, ring, notify, ppc, any>> PROVE RingHeard'
  BY <1>0, Zenon DEF RingHeard
<1>99. ASSUME iopc' \notin {"idle", "join"} PROVE RingHeard'
  BY <1>99, Zenon DEF RingHeard
<1>1. CASE EpollWait
  <2>1. iopc' \notin {"idle", "join"}
    BY <1>1, Zenon DEF EpollWait
  <2>2. QED
    BY <2>1, <1>99, Zenon
<1>2. CASE WakeUp
  <2>1. iopc' \notin {"idle", "join"}
    BY <1>2, Zenon DEF WakeUp
  <2>2. QED
    BY <2>1, <1>99, Zenon
<1>3. CASE NextInline
  <2>1. iopc' \notin {"idle", "join"}
    BY <1>3, Zenon DEF NextInline, BeginEvent
  <2>2. QED
    BY <2>1, <1>99, Zenon
<1>4. CASE ep_ring_pop
  <2>1. iopc' \notin {"idle", "join"}
    BY <1>4, Zenon DEF ep_ring_pop, BeginEvent
  <2>2. QED
    BY <2>1, <1>99, Zenon
<1>5. CASE DispatchRead
  <2>1. iopc' \notin {"idle", "join"}
    BY <1>5, Zenon DEF DispatchRead, ep_dispatch
  <2>2. QED
    BY <2>1, <1>99, Zenon
<1>6. CASE DispatchWrite
  <2>1. iopc' \notin {"idle", "join"}
    BY <1>6, Zenon DEF DispatchWrite, ep_dispatch
  <2>2. QED
    BY <2>1, <1>99, Zenon
<1>7. CASE HandlerReturns
  <2>1. iopc' \notin {"idle", "join"}
    BY <1>7, Zenon DEF HandlerReturns
  <2>2. QED
    BY <2>1, <1>99, Zenon
<1>8. CASE ep_rearm
  <2>1. iopc' \notin {"idle", "join"}
    BY <1>8, Zenon DEF ep_rearm
  <2>2. QED
    BY <2>1, <1>99, Zenon
<1>9. CASE SelectReturns
  <2>1. active => ring = <<>>
    BY <1>9, Zenon DEF SelectReturns, AfterDispatch
  <2>2. iopc' = "idle" /\ UNCHANGED <<active, ring>>
    BY <1>9, Zenon DEF SelectReturns, AfterDispatch
  <2>3. QED
    BY <2>1, <2>2, Zenon DEF RingHeard
<1>10. CASE JoinPollThread
  BY <1>10, Zenon DEF JoinPollThread, RingHeard
<1>11. CASE PollWait
  <2>1. ppc = "wait" /\ UNCHANGED <<active, iopc, ring, notify>>
    BY <1>11, Zenon DEF PollWait
  <2>2. ppc # "push"
    BY <2>1, Zenon
  <2>3. QED
    BY <2>1, <2>2, Zenon DEF RingHeard
<1>12. CASE ep_ring_push
  <2>1. ppc = "push" /\ UNCHANGED <<active, iopc, notify, ppc>> /\ (any => any')
    BY <1>12, Zenon DEF ep_ring_push
  <2>2. ring' # <<>> => any' \/ ring # <<>>
    <3>1. Len(ring) < RingCap => any'
      BY <1>12, Zenon DEF ep_ring_push
    <3>2. Len(ring) >= RingCap => ring' = ring
      BY <1>12, Zenon DEF ep_ring_push
    <3>3. Len(ring) \in Nat /\ RingCap \in Nat
      BY SMTT(30) DEF Types, TypeOK, EpollAssumption
    <3>4. Len(ring) < RingCap \/ Len(ring) >= RingCap
      BY <3>3, SMTT(30)
    <3>5. QED
      BY <3>1, <3>2, <3>4, Zenon
  <2>3. QED
    BY <2>1, <2>2, Zenon DEF RingHeard
<1>13. CASE SignalMain
  BY <1>13, Zenon DEF SignalMain, RingHeard
<1>14. CASE PollExit
  <2>1. ppc = "wait" /\ UNCHANGED <<active, iopc, ring, notify>>
    BY <1>14, Zenon DEF PollExit
  <2>2. ppc # "push"
    BY <2>1, Zenon
  <2>3. QED
    BY <2>1, <2>2, Zenon DEF RingHeard
<1>15. ASSUME NEW f \in Fdes, NEW type \in (SUBSET Kinds) \ {{}}, NEW on \in Registers,
              UserSetselect(f, type, on)
       PROVE  RingHeard'
  BY <1>15, <1>0, Zenon DEF UserSetselect
<1>16. ASSUME NEW f \in Fdes, op_close(f) PROVE RingHeard'
  BY <1>16, <1>0, Zenon DEF op_close
<1>17. ASSUME NEW f \in Fdes, op_open(f) PROVE RingHeard'
  BY <1>17, <1>0, Zenon DEF op_open
<1>18. CASE op_epoll_start_pollthread
  <2>1. ring' = <<>> /\ iopc = "idle" /\ iopc' = iopc
    BY <1>18, Zenon DEF op_epoll_start_pollthread
  <2>2. iopc' # "join"
    BY <2>1, Zenon
  <2>3. QED
    BY <2>1, <2>2, Zenon DEF RingHeard
<1>19. CASE op_epoll_stop_pollthread
  BY <1>19, Zenon DEF op_epoll_stop_pollthread, RingHeard
<1>20. ASSUME NEW w \in Workers, NEW f \in Fdes, WorkerTake(w, f) PROVE RingHeard'
  BY <1>20, <1>0, Zenon DEF WorkerTake
<1>21. ASSUME NEW w \in Workers, NEW type \in (SUBSET Kinds) \ {{}}, NEW on \in Registers,
              WorkerSetselect(w, type, on)
       PROVE  RingHeard'
  BY <1>21, <1>0, Zenon DEF WorkerSetselect
<1>22. ASSUME NEW f \in Fdes, NEW c \in Conditions, BecomeReady(f, c) PROVE RingHeard'
  BY <1>22, <1>0, Zenon DEF BecomeReady
<1>23. QED
  BY <1>1, <1>2, <1>3, <1>4, <1>5, <1>6, <1>7, <1>8, <1>9, <1>10, <1>11, <1>12, <1>13, <1>14,
     <1>15, <1>16, <1>17, <1>18, <1>19, <1>20, <1>21, <1>22, ZenonT(30)
     DEF Next, IoThread, PollThread, User, Kernel

(* The I/O thread never sleeps on a filled ring (ep_poll_thread_fn,              *)
(* ep_select_threaded): whatever the size of the ring, also when it overflows, is  *)
(* drained while it is filled, or the poll thread is stopped and started again.     *)
THEOREM Announced == ASSUME EpollAssumption PROVE Spec => []RingIsAnnounced
<1>1. Init => RingHeard
  <2>1. ASSUME Init PROVE ring = <<>> /\ iopc = "idle"
    BY <2>1, Zenon DEF Init
  <2>2. ASSUME Init PROVE iopc # "join"
    BY <2>1, <2>2, Zenon
  <2>3. QED
    BY <2>1, <2>2, Zenon DEF RingHeard
<1>2. ASSUME Types, RingHeard, [Next]_vars PROVE RingHeard'
  <2>1. CASE Next
    BY <1>2, <2>1, HeardStep, Zenon
  <2>2. CASE UNCHANGED vars
    BY <1>2, <2>2, Zenon DEF vars, RingHeard
  <2>3. QED
    BY <1>2, <2>1, <2>2, Zenon
<1>3. RingHeard => RingIsAnnounced
  <2>1. ppc = "wait" => ppc # "push"
    BY Zenon
  <2>2. QED
    BY <2>1, Zenon DEF RingHeard, RingIsAnnounced
<1>4. QED
  BY <1>1, <1>2, <1>3, TypesAlways, PTL DEF Spec
-----------------------------------------------------------------------------
(* Inline, a handler is called for the descriptor it was registered for.         *)

Usable(f) == life[f] \in {"open", "closed"}     \* its descriptor is not closed yet

(* No poll thread was ever started.                                            *)
Alone == ~active /\ ppc = "off" /\ iopc # "join"

(* The kernel reports nothing of an FDE whose descriptor is closed, and an event     *)
(* is dispatched before op_close_pending_fds gives its FDE away, so that it is about  *)
(* the descriptor the FDE still stands for.                                     *)
EventsFresh ==
    /\ \A f \in Fdes : kern[f].mask # {} => Usable(f)
    /\ iopc = "idle" => iobatch = {}
    /\ \A e \in iobatch : Usable(e.fde) /\ e.gen = gen[e.fde]
    /\ iopc \in Dispatching => Usable(cur.fde) /\ cur.gen = gen[cur.fde]

(* Without op_epoll_start_pollthread there is no poll thread.                     *)
LEMMA AloneStep == ASSUME MayThread = FALSE, Alone, Next PROVE Alone'
<1> USE DEF fdVars, pollVars, modeVars, ioVars
<1>0. ~active /\ ppc = "off" /\ iopc # "join"
  BY Zenon DEF Alone
<1>97. ppc # "wait" /\ ppc # "push"
  BY <1>0, Zenon
<1>98. ASSUME UNCHANGED <<active, ppc, iopc>> PROVE Alone'
  BY <1>0, <1>98, Zenon DEF Alone
<1>99. ASSUME UNCHANGED <<active, ppc>>, iopc' # "join" PROVE Alone'
  BY <1>0, <1>99, Zenon DEF Alone
<1>1. CASE EpollWait
  <2>1. iopc' # "join"
    BY <1>1, Zenon DEF EpollWait
  <2>2. UNCHANGED <<active, ppc>>
    BY <1>1, Zenon DEF EpollWait
  <2>3. QED
    BY <2>1, <2>2, <1>99, Zenon
<1>2. CASE WakeUp
  BY <1>2, <1>0, Zenon DEF WakeUp
<1>3. CASE NextInline
  <2>1. iopc' # "join"
    BY <1>3, Zenon DEF NextInline, BeginEvent
  <2>2. UNCHANGED <<active, ppc>>
    BY <1>3, Zenon DEF NextInline, BeginEvent
  <2>3. QED
    BY <2>1, <2>2, <1>99, Zenon
<1>4. CASE ep_ring_pop
  BY <1>4, <1>0, Zenon DEF ep_ring_pop
<1>5. CASE DispatchRead
  <2>1. iopc' # "join"
    BY <1>5, Zenon DEF DispatchRead, ep_dispatch
  <2>2. UNCHANGED <<active, ppc>>
    BY <1>5, Zenon DEF DispatchRead, ep_dispatch
  <2>3. QED
    BY <2>1, <2>2, <1>99, Zenon
<1>6. CASE DispatchWrite
  <2>1. iopc' # "join"
    BY <1>6, Zenon DEF DispatchWrite, ep_dispatch
  <2>2. UNCHANGED <<active, ppc>>
    BY <1>6, Zenon DEF DispatchWrite, ep_dispatch
  <2>3. QED
    BY <2>1, <2>2, <1>99, Zenon
<1>7. CASE HandlerReturns
  <2>1. iopc' # "join"
    BY <1>7, Zenon DEF HandlerReturns
  <2>2. UNCHANGED <<active, ppc>>
    BY <1>7, Zenon DEF HandlerReturns
  <2>3. QED
    BY <2>1, <2>2, <1>99, Zenon
<1>8. CASE ep_rearm
  <2>1. iopc' # "join"
    BY <1>8, Zenon DEF ep_rearm
  <2>2. UNCHANGED <<active, ppc>>
    BY <1>8, Zenon DEF ep_rearm
  <2>3. QED
    BY <2>1, <2>2, <1>99, Zenon
<1>9. CASE SelectReturns
  <2>1. iopc' # "join"
    BY <1>9, Zenon DEF SelectReturns, AfterDispatch
  <2>2. UNCHANGED <<active, ppc>>
    BY <1>9, Zenon DEF SelectReturns, AfterDispatch
  <2>3. QED
    BY <2>1, <2>2, <1>99, Zenon
<1>10. CASE JoinPollThread
  BY <1>10, <1>0, Zenon DEF JoinPollThread
<1>11. CASE PollWait
  BY <1>11, <1>97, Zenon DEF PollWait
<1>12. CASE ep_ring_push
  BY <1>12, <1>97, Zenon DEF ep_ring_push
<1>13. CASE SignalMain
  BY <1>13, <1>97, Zenon DEF SignalMain
<1>14. CASE PollExit
  BY <1>14, <1>97, Zenon DEF PollExit
<1>15. ASSUME NEW f \in Fdes, NEW type \in (SUBSET Kinds) \ {{}}, NEW on \in Registers,
              UserSetselect(f, type, on)
       PROVE  Alone'
  BY <1>15, <1>98, Zenon DEF UserSetselect
<1>16. ASSUME NEW f \in Fdes, op_close(f) PROVE Alone'
  BY <1>16, <1>98, Zenon DEF op_close
<1>17. ASSUME NEW f \in Fdes, op_open(f) PROVE Alone'
  BY <1>17, <1>98, Zenon DEF op_open
<1>18. CASE op_epoll_start_pollthread
  <2>1. MayThread
    BY <1>18, Zenon DEF op_epoll_start_pollthread
  <2>2. QED
    BY <2>1, Zenon
<1>19. CASE op_epoll_stop_pollthread
  BY <1>19, <1>0, Zenon DEF op_epoll_stop_pollthread
<1>20. ASSUME NEW w \in Workers, NEW f \in Fdes, WorkerTake(w, f) PROVE Alone'
  BY <1>20, <1>98, Zenon DEF WorkerTake
<1>21. ASSUME NEW w \in Workers, NEW type \in (SUBSET Kinds) \ {{}}, NEW on \in Registers,
              WorkerSetselect(w, type, on)
       PROVE  Alone'
  BY <1>21, <1>98, Zenon DEF WorkerSetselect
<1>22. ASSUME NEW f \in Fdes, NEW c \in Conditions, BecomeReady(f, c) PROVE Alone'
  BY <1>22, <1>98, Zenon DEF BecomeReady
<1>23. QED
  BY <1>1, <1>2, <1>3, <1>4, <1>5, <1>6, <1>7, <1>8, <1>9, <1>10, <1>11, <1>12, <1>13, <1>14,
     <1>15, <1>16, <1>17, <1>18, <1>19, <1>20, <1>21, <1>22, ZenonT(30)
     DEF Next, IoThread, PollThread, User, Kernel

(* op_setselect_epoll arms no FDE whose descriptor is closed.                     *)
LEMMA SetselectKern ==
    ASSUME Types, NEW f \in Fdes, NEW type, NEW on, op_setselect(f, type, on), NEW g \in Fdes
    PROVE  /\ kern'[g].mask # kern[g].mask => g = f /\ Usable(f)
           /\ g # f => pflags'[g] = pflags[g]
<1> DEFINE old == pflags[f]
           new == Apply(old, type, on)
           op == IF new = {} THEN "DEL" ELSE IF old = {} THEN "ADD" ELSE "MOD"
<1>1. kern' = kern \/ kern' = ep_ctl(op, f, new)
  BY Zenon DEF op_setselect
<1>2. pflags' = [pflags EXCEPT ![f] = new]
  BY Zenon DEF op_setselect
<1>3. kern \in KernTypes /\ pflags \in [Fdes -> SUBSET Kinds]
  BY Zenon DEF Types, TypeOK, KernTypes
<1> HIDE DEF op, new
<1>4. QED
  BY <1>1, <1>2, <1>3, Zenon DEF ep_ctl, KernTypes, Usable

(* Every step keeps the events fresh.                                           *)
LEMMA FreshStep ==
    ASSUME EpollAssumption, MayThread = FALSE, Alone, Types, EventsFresh, Next
    PROVE  EventsFresh'
<1> USE DEF fdVars, pollVars, modeVars, ioVars
<1>0. ~active /\ ppc # "wait" /\ ppc # "push" /\ iopc # "join"
  BY Zenon DEF Alone
<1>97. /\ kern \in KernTypes /\ gen \in [Fdes -> 0 .. MaxGen] /\ iobatch \subseteq Events
       /\ life \in [Fdes -> {"open", "closed", "aged", "recycled"}]
       /\ pflags \in [Fdes -> SUBSET Kinds] /\ handler \in [Fdes -> SUBSET Kinds]
       /\ (iopc \in Dispatching => cur \in Events)
  BY Zenon DEF Types, TypeOK, KernTypes
<1>98. ASSUME UNCHANGED <<kern, life, gen, iopc, iobatch, cur>> PROVE EventsFresh'
  BY <1>98, Zenon DEF EventsFresh, Usable
<1>99. ASSUME UNCHANGED <<life, gen, iopc, iobatch, cur>>,
              \A g \in Fdes : kern'[g].mask # kern[g].mask => Usable(g)
       PROVE  EventsFresh'
  BY <1>99, Zenon DEF EventsFresh, Usable
<1>1. CASE EpollWait
  <2>1. PICK b \in Batches : iobatch' = EventsOf(b) /\ kern' = Silenced(b)
    BY <1>1, Zenon DEF EpollWait
  <2>2. \A f \in b : f \in Fdes /\ Firing(f) # {}
    BY BatchTypes, Zenon
  <2>3. iopc' = "next" /\ UNCHANGED <<life, gen, cur>>
    BY <1>1, Zenon DEF EpollWait
  <2>4. \A f \in Fdes : kern'[f].mask # {} => Usable(f)
    BY <2>1, Zenon DEF Silenced, Registered, EventsFresh
  <2>5. \A f \in b : Usable(f)
    BY <2>2, Zenon DEF Firing, EventsFresh
  <2>6. \A e \in iobatch' : Usable(e.fde) /\ e.gen = gen[e.fde]
    BY <2>1, <2>5, SMTT(30) DEF EventsOf
  <2>7. QED
    BY <2>3, <2>4, <2>6, Zenon DEF EventsFresh, Usable, Dispatching
<1>2. CASE WakeUp
  BY <1>2, <1>0, Zenon DEF WakeUp
<1>3. CASE NextInline
  <2>1. PICK e \in iobatch : iobatch' = iobatch \ {e} /\ cur' = e
    BY <1>3, Zenon DEF NextInline, BeginEvent
  <2>2. iopc' # "idle" /\ UNCHANGED <<kern, life, gen>>
    BY <1>3, Zenon DEF NextInline, BeginEvent
  <2>3. QED
    BY <2>1, <2>2, Zenon DEF EventsFresh, Usable
<1>4. CASE ep_ring_pop
  BY <1>4, <1>0, Zenon DEF ep_ring_pop
<1>5. CASE DispatchRead
  <2>1. iopc \in Dispatching /\ iopc' # "idle" /\ UNCHANGED <<kern, life, gen, iobatch, cur>>
    BY <1>5, Zenon DEF DispatchRead, ep_dispatch, Dispatching
  <2>2. QED
    BY <2>1, Zenon DEF EventsFresh, Usable
<1>6. CASE DispatchWrite
  <2>1. iopc \in Dispatching /\ iopc' # "idle" /\ UNCHANGED <<kern, life, gen, iobatch, cur>>
    BY <1>6, Zenon DEF DispatchWrite, ep_dispatch, Dispatching
  <2>2. QED
    BY <2>1, Zenon DEF EventsFresh, Usable
<1>7. CASE HandlerReturns
  <2>1. iopc \in Dispatching /\ iopc' # "idle" /\ UNCHANGED <<kern, life, gen, iobatch, cur>>
    BY <1>7, Zenon DEF HandlerReturns, Dispatching
  <2>2. QED
    BY <2>1, Zenon DEF EventsFresh, Usable
<1>8. CASE ep_rearm
  <2> DEFINE f == cur.fde
             op == IF handler[f] = {} THEN "DEL" ELSE "MOD"
  <2>1. kern' = kern \/ kern' = ep_ctl(op, f, handler[f])
    BY <1>8, Zenon DEF ep_rearm
  <2>2. f \in Fdes
    BY <1>8, <1>97, Zenon DEF ep_rearm, Dispatching, Events
  <2>3. iopc' = "next" /\ UNCHANGED <<life, gen, iobatch, cur>>
    BY <1>8, Zenon DEF ep_rearm
  <2> HIDE DEF op, f
  <2>4. \A g \in Fdes : kern'[g].mask # {} => Usable(g)
    BY <1>97, <2>1, <2>2, Zenon DEF ep_ctl, EventsFresh, Usable, KernTypes
  <2>5. QED
    BY <2>3, <2>4, Zenon DEF EventsFresh, Usable, Dispatching
<1>9. CASE SelectReturns
  <2>1. iobatch = {} /\ iobatch' = {} /\ iopc' = "idle"
    BY <1>9, <1>0, Zenon DEF SelectReturns, AfterDispatch
  <2>2. \A f \in Fdes : kern'[f].mask # {} => Usable(f)'
    BY <1>9, <1>97, Zenon DEF SelectReturns, op_close_pending_fds, Unregistered, EventsFresh, Usable
  <2>3. QED
    BY <2>1, <2>2, Zenon DEF EventsFresh, Dispatching
<1>10. CASE JoinPollThread
  BY <1>10, <1>0, Zenon DEF JoinPollThread
<1>11. CASE PollWait
  BY <1>11, <1>0, Zenon DEF PollWait
<1>12. CASE ep_ring_push
  BY <1>12, <1>0, Zenon DEF ep_ring_push
<1>13. CASE SignalMain
  BY <1>13, <1>0, Zenon DEF SignalMain
<1>14. CASE PollExit
  BY <1>14, <1>0, Zenon DEF PollExit
<1>15. ASSUME NEW f \in Fdes, NEW type \in (SUBSET Kinds) \ {{}}, NEW on \in Registers,
              UserSetselect(f, type, on)
       PROVE  EventsFresh'
  <2>1. \A g \in Fdes : kern'[g].mask # kern[g].mask => Usable(g)
    BY <1>15, SetselectKern, Zenon DEF UserSetselect
  <2>2. QED
    BY <1>15, <2>1, <1>99, Zenon DEF UserSetselect
<1>16. ASSUME NEW f \in Fdes, op_close(f) PROVE EventsFresh'
  <2>1. op_setselect(f, Kinds, FALSE) /\ life[f] = "open" /\ life' = [life EXCEPT ![f] = "closed"]
    BY <1>16, Zenon DEF op_close, IsFDOpen
  <2>2. \A g \in Fdes : kern'[g].mask # kern[g].mask => Usable(g)
    BY <2>1, SetselectKern, Zenon
  <2>3. \A g \in Fdes : Usable(g) => Usable(g)'
    BY <2>1, <1>97, Zenon DEF Usable
  <2>4. UNCHANGED <<gen, iopc, iobatch, cur>>
    BY <1>16, Zenon DEF op_close
  <2>5. \A e \in Events : e.fde \in Fdes
    BY Zenon DEF Events
  <2>6. QED
    BY <1>97, <2>2, <2>3, <2>4, <2>5, Zenon DEF EventsFresh
<1>17. ASSUME NEW f \in Fdes, op_open(f) PROVE EventsFresh'
  <2>1. life[f] = "recycled" /\ ~Usable(f)
    BY <1>17, Zenon DEF op_open, Usable
  <2>2. /\ life' = [life EXCEPT ![f] = "open"] /\ gen' = [gen EXCEPT ![f] = @ + 1]
        /\ UNCHANGED <<kern, iopc, iobatch, cur>>
    BY <1>17, Zenon DEF op_open
  <2>3. \A g \in Fdes : Usable(g) => Usable(g)' /\ gen'[g] = gen[g]
    BY <2>1, <2>2, <1>97, Zenon DEF Usable
  <2>4. \A e \in Events : e.fde \in Fdes
    BY Zenon DEF Events
  <2>5. QED
    BY <1>97, <2>2, <2>3, <2>4, Zenon DEF EventsFresh
<1>18. CASE op_epoll_start_pollthread
  <2>1. MayThread
    BY <1>18, Zenon DEF op_epoll_start_pollthread
  <2>2. QED
    BY <2>1, Zenon
<1>19. CASE op_epoll_stop_pollthread
  BY <1>19, <1>0, Zenon DEF op_epoll_stop_pollthread
<1>20. ASSUME NEW w \in Workers, NEW f \in Fdes, WorkerTake(w, f) PROVE EventsFresh'
  BY <1>20, <1>98, Zenon DEF WorkerTake
<1>21. ASSUME NEW w \in Workers, NEW type \in (SUBSET Kinds) \ {{}}, NEW on \in Registers,
              WorkerSetselect(w, type, on)
       PROVE  EventsFresh'
  <2>1. held[w] \in Fdes /\ op_setselect(held[w], type, on)
    BY <1>21, Zenon DEF WorkerSetselect, Types, TypeOK
  <2>2. \A g \in Fdes : kern'[g].mask # kern[g].mask => Usable(g)
    BY <2>1, SetselectKern, Zenon
  <2>3. QED
    BY <1>21, <2>2, <1>99, Zenon DEF WorkerSetselect
<1>22. ASSUME NEW f \in Fdes, NEW c \in Conditions, BecomeReady(f, c) PROVE EventsFresh'
  BY <1>22, <1>98, Zenon DEF BecomeReady
<1>23. QED
  BY <1>1, <1>2, <1>3, <1>4, <1>5, <1>6, <1>7, <1>8, <1>9, <1>10, <1>11, <1>12, <1>13, <1>14,
     <1>15, <1>16, <1>17, <1>18, <1>19, <1>20, <1>21, <1>22, ZenonT(30)
     DEF Next, IoThread, PollThread, User, Kernel

(* No poll thread and fresh events, for the theorems that rest on them.              *)
LEMMA FreshAlways ==
    ASSUME EpollAssumption, MayThread = FALSE PROVE Spec => [](Alone /\ EventsFresh)
<1> DEFINE Inv == Alone /\ EventsFresh
<1>1. Init => Inv
  <2>1. ASSUME Init PROVE Alone
    <3>1. ~active /\ ppc = "off" /\ iopc = "idle"
      BY <2>1, Zenon DEF Init
    <3>2. iopc # "join"
      BY <3>1, Zenon
    <3>3. QED
      BY <3>1, <3>2, Zenon DEF Alone
  <2>2. ASSUME Init PROVE EventsFresh
    <3>1. kern = [f \in Fdes |-> Unregistered] /\ iopc = "idle" /\ iobatch = {}
      BY <2>2, Zenon DEF Init
    <3>2. QED
      BY <3>1, Zenon DEF EventsFresh, Unregistered, Dispatching
  <2>3. QED
    BY <2>1, <2>2, Zenon
<1>2. ASSUME Types, Inv, [Next]_vars PROVE Inv'
  <2>1. CASE Next
    BY <1>2, <2>1, AloneStep, FreshStep, Zenon
  <2>2. CASE UNCHANGED vars
    <3>1. Alone'
      BY <1>2, <2>2, Zenon DEF vars, Alone
    <3>2. EventsFresh'
      BY <1>2, <2>2, Zenon DEF vars, EventsFresh, Usable
    <3>3. QED
      BY <3>1, <3>2, Zenon
  <2>3. QED
    BY <1>2, <2>1, <2>2, Zenon
<1>3. QED
  BY <1>1, <1>2, TypesAlways, PTL DEF Spec

(* Inline, a handler is called for an event of the descriptor the FDE stands for,    *)
(* never for one reported of an earlier descriptor of a recycled FDE                *)
(* (op_close_pending_fds runs after the batch), whatever workers do with the FDE     *)
(* pointers they hold.                                                         *)
THEOREM Fresh == ASSUME EpollAssumption, MayThread = FALSE PROVE Spec => []FreshDispatch
<1>1. EventsFresh => FreshDispatch
  BY Zenon DEF EventsFresh, FreshDispatch, Dispatching
<1>2. QED
  BY <1>1, FreshAlways, PTL

-----------------------------------------------------------------------------
(* Inline, with one kind of interest, none is lost.                              *)

(* The steps of a dispatch that come before the handler of kind k is taken.        *)
Before(k) == IF k = "r" THEN {"read"} ELSE {"read", "in_read", "write"}

(* An event of f is still to reach the handler of kind k.                         *)
Due(f, k) ==
    \/ \E e \in iobatch : e.fde = f
    \/ iopc \in Before(k) /\ cur.fde = f

(* InterestArmed, with events that have passed the handler no longer counting as    *)
(* under way: a handler that asks again has armed its fd by then.                *)
ArmedOrDue(k) ==
    \A f \in Fdes : IsFDOpen(f) /\ pflags[f] # {} /\ ~Due(f, k) => pflags[f] \subseteq kern[f].mask

(* op_setselect_epoll arms an open FDE for the interest it has just registered.     *)
LEMMA SetselectArms ==
    ASSUME Types, NEW k, Kinds = {k}, NEW f \in Fdes, NEW type \in (SUBSET Kinds) \ {{}},
           NEW on \in BOOLEAN, op_setselect(f, type, on), IsFDOpen(f), pflags[f] = {}
    PROVE  pflags'[f] \subseteq kern'[f].mask
<1> DEFINE new == Apply(pflags[f], type, on)
           op == IF new = {} THEN "DEL" ELSE "ADD"
<1>1. kern \in KernTypes /\ pflags \in [Fdes -> SUBSET Kinds]
  BY Zenon DEF Types, TypeOK, KernTypes
<1>2. pflags' = [pflags EXCEPT ![f] = new]
  BY Zenon DEF op_setselect
<1>3. CASE new = {}
  BY <1>1, <1>2, <1>3, Zenon
<1>4. CASE new # {}
  <2>1. kern' = ep_ctl("ADD", f, new)
    BY <1>4, Zenon DEF op_setselect
  <2> HIDE DEF new
  <2>2. QED
    BY <1>1, <1>2, <1>4, <2>1, Zenon DEF ep_ctl, IsFDOpen, Registered, KernTypes
<1>5. QED
  BY <1>3, <1>4, Zenon

(* op_setselect_epoll leaves an FDE that has interest as armed as it was, or without   *)
(* interest.                                                                  *)
LEMMA SetselectKeeps ==
    ASSUME Types, NEW k, Kinds = {k}, NEW f \in Fdes, NEW type \in (SUBSET Kinds) \ {{}},
           NEW on \in BOOLEAN, op_setselect(f, type, on), pflags[f] # {}
    PROVE  pflags'[f] = {} \/ (pflags'[f] = pflags[f] /\ kern' = kern)
<1> DEFINE new == Apply(pflags[f], type, on)
<1>1. pflags \in [Fdes -> SUBSET Kinds]
  BY Zenon DEF Types, TypeOK
<1>2. pflags' = [pflags EXCEPT ![f] = new]
  BY Zenon DEF op_setselect
<1>3. type = {k} /\ pflags[f] = {k}
  BY <1>1, Zenon
<1>4. CASE on
  <2>1. new = pflags[f]
    BY <1>3, <1>4, Zenon DEF Apply
  <2>2. kern' = kern
    BY <2>1, Zenon DEF op_setselect
  <2>3. QED
    BY <1>1, <1>2, <2>1, <2>2, Zenon
<1>5. CASE ~on
  <2>1. new = {}
    BY <1>3, <1>5, Zenon DEF Apply
  <2>2. QED
    BY <1>1, <1>2, <2>1, Zenon
<1>6. QED
  BY <1>4, <1>5, Zenon

(* A call of op_setselect_epoll, whoever makes it, loses no interest.                *)
LEMMA SetselectArmed ==
    ASSUME Types, NEW k, Kinds = {k}, ArmedOrDue(k), NEW f \in Fdes,
           NEW type \in (SUBSET Kinds) \ {{}}, NEW on \in BOOLEAN, op_setselect(f, type, on),
           UNCHANGED <<iopc, iobatch, cur>>, \A g \in Fdes : IsFDOpen(g)' => IsFDOpen(g)
    PROVE  ArmedOrDue(k)'
<1>1. SUFFICES ASSUME NEW g \in Fdes, IsFDOpen(g)', pflags'[g] # {}, ~Due(g, k)'
               PROVE  pflags'[g] \subseteq kern'[g].mask
  BY Zenon DEF ArmedOrDue
<1>2. IsFDOpen(g) /\ ~Due(g, k)
  BY <1>1, Zenon DEF Due
<1>3. CASE g # f
  <2>1. pflags'[g] = pflags[g] /\ kern'[g].mask = kern[g].mask
    BY <1>3, SetselectKern, Zenon
  <2>2. QED
    BY <1>1, <1>2, <2>1, Zenon DEF ArmedOrDue
<1>4. CASE g = f /\ pflags[f] = {}
  BY <1>2, <1>4, SetselectArms, Zenon
<1>5. CASE g = f /\ pflags[f] # {}
  <2>1. pflags'[f] = pflags[f] /\ kern' = kern
    BY <1>1, <1>5, SetselectKeeps
  <2>2. QED
    BY <1>1, <1>2, <1>5, <2>1, Zenon DEF ArmedOrDue
<1>6. QED
  BY <1>3, <1>4, <1>5, Zenon

(* Every step keeps the interest armed or due.                                    *)
LEMMA ArmedStep ==
    ASSUME EpollAssumption, MayThread = FALSE, NEW k \in {"r", "w"}, Kinds = {k},
           Alone, Types, FlagsMatchHandlers, EventsFresh, ArmedOrDue(k), Next
    PROVE  ArmedOrDue(k)'
<1> USE DEF fdVars, pollVars, modeVars, ioVars
<1>0. ~active /\ ppc # "wait" /\ ppc # "push" /\ iopc # "join"
  BY Zenon DEF Alone
<1>96. Registers \subseteq BOOLEAN
  BY Zenon DEF EpollAssumption
<1>97. /\ kern \in KernTypes /\ iobatch \subseteq Events
       /\ pflags \in [Fdes -> SUBSET Kinds] /\ handler \in [Fdes -> SUBSET Kinds]
       /\ (iopc \in Dispatching => cur \in Events)
  BY Zenon DEF Types, TypeOK, KernTypes
<1>98. ASSUME UNCHANGED <<pflags, kern, life, iopc, iobatch, cur>> PROVE ArmedOrDue(k)'
  BY <1>98, Zenon DEF ArmedOrDue, Due, IsFDOpen
<1>99. ASSUME UNCHANGED <<pflags, kern>>,
              \A g \in Fdes : IsFDOpen(g)' => IsFDOpen(g) /\ (Due(g, k) => Due(g, k)')
       PROVE  ArmedOrDue(k)'
  BY <1>99, Zenon DEF ArmedOrDue
<1>1. CASE EpollWait
  <2>1. PICK b \in Batches : iobatch' = EventsOf(b) /\ kern' = Silenced(b)
    BY <1>1, Zenon DEF EpollWait
  <2>2. iopc = "idle" /\ iopc' = "next" /\ UNCHANGED <<pflags, life>>
    BY <1>1, Zenon DEF EpollWait
  <2>3. \A g \in b : Due(g, k)'
    <3>1. ASSUME NEW g \in b PROVE \E e \in iobatch' : e.fde = g
      <4>1. [fde |-> g, evs |-> Firing(g), gen |-> gen[g]] \in iobatch'
        BY <2>1, Zenon DEF EventsOf
      <4>2. [fde |-> g, evs |-> Firing(g), gen |-> gen[g]].fde = g
        BY Zenon
      <4>3. QED
        BY <4>1, <4>2, Zenon
    <3>2. QED
      BY <3>1, Zenon DEF Due
  <2>4. \A g \in Fdes : g \notin b => kern'[g] = kern[g]
    BY <2>1, Zenon DEF Silenced
  <2>5. \A g \in Fdes : ~Due(g, k)
    BY <2>2, Zenon DEF Due, Before, EventsFresh
  <2>6. QED
    BY <2>2, <2>3, <2>4, <2>5, Zenon DEF ArmedOrDue, IsFDOpen
<1>2. CASE WakeUp
  BY <1>2, <1>0, Zenon DEF WakeUp
<1>3. CASE NextInline
  <2>1. PICK e \in iobatch : iobatch' = iobatch \ {e} /\ BeginEvent(e)
    BY <1>3, Zenon DEF NextInline
  <2>2. iopc = "next" /\ UNCHANGED <<pflags, kern, life>>
    BY <1>3, Zenon DEF NextInline
  <2>3. \A g \in Fdes : IsFDOpen(g) /\ Due(g, k) => Due(g, k)'
    BY <2>1, <2>2, Zenon DEF Due, Before, BeginEvent
  <2>4. QED
    BY <2>2, <2>3, Zenon DEF ArmedOrDue, IsFDOpen
<1>4. CASE ep_ring_pop
  BY <1>4, <1>0, Zenon DEF ep_ring_pop
<1>5. CASE DispatchRead
  <2> DEFINE f == cur.fde
             fires == cur.evs \cap {"r", "hup"} # {}
  <2>1. /\ pflags' = [pflags EXCEPT ![f] = IF fires THEN @ \ {"r"} ELSE @]
        /\ UNCHANGED <<kern, life, iobatch, cur>>
    BY <1>5, Zenon DEF DispatchRead, ep_dispatch
  <2>2. iopc = "read" /\ iopc' \in {"in_read", "write"}
    BY <1>5, Zenon DEF DispatchRead, ep_dispatch
  <2>3. cur \in Events
    BY <1>97, <2>2, Zenon DEF Dispatching
  <2>4. f \in Fdes /\ (k = "r" => fires)
    BY <2>3, Zenon DEF Events, Conditions
  <2> HIDE DEF fires, f
  <2>5. CASE k = "r"
    <3>1. pflags'[f] = {} /\ \A g \in Fdes : g # f => pflags'[g] = pflags[g]
      BY <1>97, <2>1, <2>4, <2>5, Zenon
    <3>2. \A g \in Fdes : g # f => (Due(g, k) => Due(g, k)')
      BY <2>1, <2>2, Zenon DEF Due, f
    <3>3. QED
      BY <2>1, <3>1, <3>2, Zenon DEF ArmedOrDue, IsFDOpen
  <2>6. CASE k # "r"
    <3>1. \A g \in Fdes : pflags'[g] = pflags[g]
      BY <1>97, <2>1, <2>6, Zenon
    <3>2. \A g \in Fdes : Due(g, k) => Due(g, k)'
      BY <2>1, <2>2, <2>6, Zenon DEF Due, Before
    <3>3. QED
      BY <2>1, <3>1, <3>2, Zenon DEF ArmedOrDue, IsFDOpen
  <2>7. QED
    BY <2>5, <2>6, Zenon
<1>6. CASE DispatchWrite
  <2> DEFINE f == cur.fde
             fires == cur.evs \cap {"w", "hup"} # {}
  <2>1. /\ pflags' = [pflags EXCEPT ![f] = IF fires THEN @ \ {"w"} ELSE @]
        /\ UNCHANGED <<kern, life, iobatch, cur>>
    BY <1>6, Zenon DEF DispatchWrite, ep_dispatch
  <2>2. iopc = "write" /\ iopc' \in {"in_write", "rearm"}
    BY <1>6, Zenon DEF DispatchWrite, ep_dispatch
  <2>3. cur \in Events
    BY <1>97, <2>2, Zenon DEF Dispatching
  <2>4. f \in Fdes /\ (k = "w" => fires)
    BY <2>3, Zenon DEF Events, Conditions
  <2> HIDE DEF fires, f
  <2>5. CASE k = "w"
    <3>1. pflags'[f] = {} /\ \A g \in Fdes : g # f => pflags'[g] = pflags[g]
      BY <1>97, <2>1, <2>4, <2>5, Zenon
    <3>2. \A g \in Fdes : g # f => (Due(g, k) => Due(g, k)')
      BY <2>1, <2>2, Zenon DEF Due, f
    <3>3. QED
      BY <2>1, <3>1, <3>2, Zenon DEF ArmedOrDue, IsFDOpen
  <2>6. CASE k # "w"
    <3>1. \A g \in Fdes : pflags'[g] = pflags[g]
      BY <1>97, <2>1, <2>6, Zenon
    <3>2. \A g \in Fdes : Due(g, k) => Due(g, k)'
      BY <2>1, <2>2, <2>6, Zenon DEF Due, Before
    <3>3. QED
      BY <2>1, <3>1, <3>2, Zenon DEF ArmedOrDue, IsFDOpen
  <2>7. QED
    BY <2>5, <2>6, Zenon
<1>7. CASE HandlerReturns
  <2>1. UNCHANGED <<pflags, kern, life, iobatch, cur>>
    BY <1>7, Zenon DEF HandlerReturns
  <2>2. \A g \in Fdes : IsFDOpen(g) /\ Due(g, k) => Due(g, k)'
    BY <1>7, <2>1, Zenon DEF HandlerReturns, Due, Before
  <2>3. QED
    BY <2>1, <2>2, Zenon DEF ArmedOrDue, IsFDOpen
<1>8. CASE ep_rearm
  <2> DEFINE f == cur.fde
  <2>1. f \in Fdes
    BY <1>8, <1>97, Zenon DEF ep_rearm, Dispatching, Events
  <2>2. pflags[f] = handler[f]
    BY <2>1, Zenon DEF FlagsMatchHandlers
  <2>3. iopc = "rearm" /\ kern' = kern /\ UNCHANGED <<life, iobatch, cur>>
    BY <1>8, <2>2, Zenon DEF ep_rearm
  <2>4. pflags' = [pflags EXCEPT ![f] = handler[f]]
    BY <1>8, Zenon DEF ep_rearm
  <2>5. pflags' = pflags
    BY <1>97, <2>1, <2>2, <2>4, Zenon
  <2>6. \A g \in Fdes : Due(g, k) => Due(g, k)'
    BY <2>3, Zenon DEF Due, Before
  <2>7. QED
    BY <2>3, <2>5, <2>6, Zenon DEF ArmedOrDue, IsFDOpen
<1>9. CASE SelectReturns
  <2>1. iopc = "next" /\ iobatch = {} /\ UNCHANGED pflags
    BY <1>9, <1>0, Zenon DEF SelectReturns, AfterDispatch
  <2>2. \A g \in Fdes : ~Due(g, k)
    BY <2>1, Zenon DEF Due, Before
  <2>3. \A g \in Fdes : IsFDOpen(g)' => IsFDOpen(g) /\ kern'[g] = kern[g]
    BY <1>9, Zenon DEF SelectReturns, op_close_pending_fds, IsFDOpen
  <2>4. QED
    BY <2>1, <2>2, <2>3, Zenon DEF ArmedOrDue
<1>10. CASE JoinPollThread
  BY <1>10, <1>0, Zenon DEF JoinPollThread
<1>11. CASE PollWait
  BY <1>11, <1>0, Zenon DEF PollWait
<1>12. CASE ep_ring_push
  BY <1>12, <1>0, Zenon DEF ep_ring_push
<1>13. CASE SignalMain
  BY <1>13, <1>0, Zenon DEF SignalMain
<1>14. CASE PollExit
  BY <1>14, <1>0, Zenon DEF PollExit
<1>15. ASSUME NEW f \in Fdes, NEW type \in (SUBSET Kinds) \ {{}}, NEW on \in Registers,
              UserSetselect(f, type, on)
       PROVE  ArmedOrDue(k)'
  <2>1. on \in BOOLEAN /\ op_setselect(f, type, on) /\ UNCHANGED <<life, iopc, iobatch, cur>>
    BY <1>15, <1>96, Zenon DEF UserSetselect
  <2>2. \A g \in Fdes : IsFDOpen(g)' => IsFDOpen(g)
    BY <2>1, Zenon DEF IsFDOpen
  <2>3. QED
    BY <2>1, <2>2, SetselectArmed, Zenon
<1>16. ASSUME NEW f \in Fdes, op_close(f) PROVE ArmedOrDue(k)'
  <2>1. Kinds \in (SUBSET Kinds) \ {{}} /\ FALSE \in BOOLEAN
    BY Zenon
  <2>2. op_setselect(f, Kinds, FALSE) /\ life' = [life EXCEPT ![f] = "closed"]
    BY <1>16, Zenon DEF op_close
  <2>3. UNCHANGED <<iopc, iobatch, cur>>
    BY <1>16, Zenon DEF op_close
  <2>4. \A g \in Fdes : IsFDOpen(g)' => IsFDOpen(g)
    BY <2>2, Zenon DEF IsFDOpen, Types, TypeOK
  <2>5. QED
    BY <2>1, <2>2, <2>3, <2>4, SetselectArmed, Zenon
<1>17. ASSUME NEW f \in Fdes, op_open(f) PROVE ArmedOrDue(k)'
  <2>1. /\ pflags' = [pflags EXCEPT ![f] = {}] /\ life' = [life EXCEPT ![f] = "open"]
        /\ UNCHANGED <<kern, iopc, iobatch, cur>>
    BY <1>17, Zenon DEF op_open
  <2>2. \A g \in Fdes : Due(g, k) => Due(g, k)'
    BY <2>1, Zenon DEF Due
  <2>3. \A g \in Fdes : g # f => pflags'[g] = pflags[g] /\ (IsFDOpen(g)' => IsFDOpen(g))
    BY <1>97, <2>1, Zenon DEF IsFDOpen, Types, TypeOK
  <2>4. QED
    BY <1>97, <2>1, <2>2, <2>3, Zenon DEF ArmedOrDue
<1>18. CASE op_epoll_start_pollthread
  <2>1. MayThread
    BY <1>18, Zenon DEF op_epoll_start_pollthread
  <2>2. QED
    BY <2>1, Zenon
<1>19. CASE op_epoll_stop_pollthread
  BY <1>19, <1>0, Zenon DEF op_epoll_stop_pollthread
<1>20. ASSUME NEW w \in Workers, NEW f \in Fdes, WorkerTake(w, f) PROVE ArmedOrDue(k)'
  BY <1>20, <1>98, Zenon DEF WorkerTake
<1>21. ASSUME NEW w \in Workers, NEW type \in (SUBSET Kinds) \ {{}}, NEW on \in Registers,
              WorkerSetselect(w, type, on)
       PROVE  ArmedOrDue(k)'
  <2>1. held[w] \in Fdes /\ on \in BOOLEAN
    BY <1>21, <1>96, Zenon DEF WorkerSetselect, Types, TypeOK
  <2>2. op_setselect(held[w], type, on) /\ UNCHANGED <<life, iopc, iobatch, cur>>
    BY <1>21, Zenon DEF WorkerSetselect
  <2>3. \A g \in Fdes : IsFDOpen(g)' => IsFDOpen(g)
    BY <2>2, Zenon DEF IsFDOpen
  <2>4. QED
    BY <2>1, <2>2, <2>3, SetselectArmed, Zenon
<1>22. ASSUME NEW f \in Fdes, NEW c \in Conditions, BecomeReady(f, c) PROVE ArmedOrDue(k)'
  BY <1>22, <1>98, Zenon DEF BecomeReady
<1>23. QED
  BY <1>1, <1>2, <1>3, <1>4, <1>5, <1>6, <1>7, <1>8, <1>9, <1>10, <1>11, <1>12, <1>13, <1>14,
     <1>15, <1>16, <1>17, <1>18, <1>19, <1>20, <1>21, <1>22, ZenonT(30)
     DEF Next, IoThread, PollThread, User, Kernel

(* Inline, interest of one kind is never lost: an open fd with a handler registered is   *)
(* armed in the kernel for it unless an event of the fd is still to be dispatched          *)
(* (op_setselect_epoll, ep_ctl, ep_dispatch), though epoll_wait silences what it reports     *)
(* and workers call op_setselect between any two steps of the dispatch.                *)
THEOREM Armed ==
    ASSUME EpollAssumption, MayThread = FALSE, NEW k \in {"r", "w"}, Kinds = {k}
    PROVE  Spec => []InterestArmed
<1>1. Init => ArmedOrDue(k)
  BY Zenon DEF Init, ArmedOrDue
<1>2. ASSUME Types /\ FlagsMatchHandlers, Alone /\ EventsFresh, ArmedOrDue(k), [Next]_vars
      PROVE  ArmedOrDue(k)'
  <2>1. CASE Next
    BY <1>2, <2>1, ArmedStep, Zenon
  <2>2. CASE UNCHANGED vars
    BY <1>2, <2>2, Zenon DEF vars, ArmedOrDue, Due, IsFDOpen
  <2>3. QED
    BY <1>2, <2>1, <2>2, Zenon
<1>3. ArmedOrDue(k) => InterestArmed
  <2>1. \A f \in Fdes : Due(f, k) => InFlight(f)
    BY Zenon DEF Due, Before, InFlight, Dispatching
  <2>2. QED
    BY <2>1, Zenon DEF ArmedOrDue, InterestArmed
<1>4. QED
  BY <1>1, <1>2, <1>3, TypesAlways, FreshAlways, PTL DEF Spec
=============================================================================
