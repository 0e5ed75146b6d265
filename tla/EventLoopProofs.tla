-------------------------- MODULE EventLoopProofs ---------------------------
(***************************************************************************)
(* The event loop, for any numbers of descriptors, registrations and        *)
(* timers, in both builds: a removed descriptor is not called, and the      *)
(* loop does not sleep past a timer.                                        *)
(***************************************************************************)
EXTENDS EventLoop, WellFoundedInduction, TLAPS

(* A set of naturals has a least element, as Lowest and Deadline ask for.    *)
LEMMA LeastOf ==
  ASSUME NEW S, S \subseteq Nat, S # {}
  PROVE  \E least \in S : \A n \in S : least <= n
<1>1. \E least \in S : \A n \in S : <<n, least>> \notin OpToRel(<, Nat)
  BY NatLessThanWellFounded, WFMin, Zenon
<1>2. PICK least \in S : \A n \in S : <<n, least>> \notin OpToRel(<, Nat)
  BY <1>1, Zenon
<1>3. ASSUME NEW n \in S, n < least PROVE <<n, least>> \in OpToRel(<, Nat)
  BY <1>3 DEF OpToRel
<1>4. \A n \in S : ~(n < least)
  BY <1>2, <1>3, Zenon
<1>5. \A n \in S : least <= n
  BY <1>4
<1> QED BY <1>5

LEMMA LowestIsIn ==
  ASSUME NEW S, S \subseteq Nat, S # {}
  PROVE  Lowest(S) \in S
BY LeastOf DEF Lowest

-----------------------------------------------------------------------------
(* The slots in use are the descriptors registered, one slot for each.      *)
Registry ==
  /\ fds \in Seq(FdNode)
  /\ i \in Nat \ {0}
  /\ \A fd \in registered : \E s \in DOMAIN fds : fds[s].active /\ fds[s].fd = fd
  /\ \A s \in DOMAIN fds : fds[s].active => fds[s].fd \in registered
  /\ \A s, u \in DOMAIN fds : fds[s].active /\ fds[u].active /\ fds[s].fd = fds[u].fd => s = u

(* A sleep that was given a timeout cannot outlast any timer there is.      *)
Sleeping == at \in {"select", "long", "event"}

Awaited ==
  /\ clock \in Nat
  /\ \A t \in pending : t.due \in Nat
  /\ Sleeping => \A t \in pending :
       wake_at \in Nat /\ (wake_at <= t.due \/ wake_at <= clock)

-----------------------------------------------------------------------------
(* A node written to one slot.                                              *)
LEMMA RegistryInit == Init => Registry
BY DEF Init, Registry, FdNode

LEMMA AwaitedInit == Init => Awaited
BY DEF Init, Awaited, Sleeping, Timer!Init

(* Steps other than adding, changing and removing leave the registry alone. *)
LEMMA RegistryKept ==
  ASSUME Registry, UNCHANGED <<fds, registered>>, i' \in Nat \ {0}
  PROVE  Registry'
BY DEF Registry

LEMMA AddStep ==
  ASSUME Registry, NEW fd \in Fds, NEW events \in Masks, http_loop_add_fd(fd, events)
  PROVE  Registry'
<1> DEFINE node == [fd |-> fd, events |-> events, active |-> TRUE]
<1>1. /\ node \in FdNode /\ node.active /\ node.fd = fd
      /\ registered' = registered \cup {fd} /\ i' = i /\ i \in Nat \ {0}
      /\ fds \in Seq(FdNode)
  BY LoopAssumption DEF http_loop_add_fd, loopVars, FdNode, Registry
<1>2. \A s \in DOMAIN fds : ~(fds[s].active /\ fds[s].fd = fd)
  BY DEF http_loop_add_fd, Slots
<1> HIDE DEF node
<1>3. CASE FreeSlots = {}
  <2>1. fds' = Append(fds, node)
    BY <1>3 DEF http_loop_add_fd, PlaceFd, node
  <2>2. /\ fds' \in Seq(FdNode) /\ DOMAIN fds' = DOMAIN fds \cup {Len(fds) + 1}
        /\ fds'[Len(fds) + 1] = node /\ Len(fds) + 1 \notin DOMAIN fds
        /\ \A s \in DOMAIN fds : fds'[s] = fds[s]
    BY <1>1, <2>1
  <2> QED BY <1>1, <1>2, <2>2 DEF Registry
<1>4. CASE FreeSlots # {}
  <2>1. FreeSlots \subseteq DOMAIN fds /\ DOMAIN fds \subseteq Nat
    BY <1>1 DEF FreeSlots
  <2>2. PICK free \in FreeSlots : free = Lowest(FreeSlots)
    BY <1>4, <2>1, LowestIsIn
  <2>3. fds' = [fds EXCEPT ![free] = node]
    BY <1>4, <2>2 DEF http_loop_add_fd, PlaceFd, node
  <2>4. free \in DOMAIN fds /\ ~fds[free].active
    BY <2>2 DEF FreeSlots
  <2>5. /\ fds' \in Seq(FdNode) /\ DOMAIN fds' = DOMAIN fds
        /\ fds'[free] = node
        /\ \A s \in DOMAIN fds : s # free => fds'[s] = fds[s]
    BY <1>1, <2>3, <2>4
  <2> QED BY <1>1, <1>2, <2>4, <2>5 DEF Registry
<1> QED BY <1>3, <1>4

LEMMA ModStep ==
  ASSUME Registry, NEW fd \in Fds, NEW events \in Masks, http_loop_mod_fd(fd, events)
  PROVE  Registry'
<1>1. PICK s \in Slots(fd) : fds' = [fds EXCEPT ![s].events = events]
  BY DEF http_loop_mod_fd
<1>2. s \in DOMAIN fds /\ fds \in Seq(FdNode) /\ events \subseteq Events
  BY <1>1, LoopAssumption DEF Slots, Registry
<1>3. /\ fds' \in Seq(FdNode) /\ DOMAIN fds' = DOMAIN fds
      /\ \A u \in DOMAIN fds : fds'[u].fd = fds[u].fd /\ fds'[u].active = fds[u].active
  <2>0. fds[s] \in FdNode
    BY <1>2
  <2>1. [fds[s] EXCEPT !.events = events] \in FdNode
    BY <1>2, <2>0 DEF FdNode
  <2>2. fds' = [fds EXCEPT ![s] = [fds[s] EXCEPT !.events = events]]
    BY <1>1, <1>2
  <2> DEFINE new == [fds[s] EXCEPT !.events = events]
  <2>3. new.fd = fds[s].fd /\ new.active = fds[s].active
    BY <2>0 DEF FdNode
  <2> HIDE DEF new
  <2>4. fds' = [fds EXCEPT ![s] = new] /\ new \in FdNode
    BY <2>1, <2>2 DEF new
  <2> QED BY <1>2, <2>3, <2>4
<1>4. registered' = registered /\ i' = i
  BY DEF http_loop_mod_fd, history, loopVars
<1> QED BY <1>3, <1>4 DEF Registry

LEMMA RemoveStep ==
  ASSUME Registry, NEW fd \in Fds, http_loop_remove_fd(fd)
  PROVE  Registry'
<1>1. PICK s \in Slots(fd) : fds' = [fds EXCEPT ![s].active = FALSE]
  BY DEF http_loop_remove_fd
<1>2. s \in DOMAIN fds /\ fds \in Seq(FdNode) /\ fds[s].active /\ fds[s].fd = fd
  BY <1>1 DEF Slots, Registry
<1>3. /\ fds' \in Seq(FdNode) /\ DOMAIN fds' = DOMAIN fds
      /\ \A u \in DOMAIN fds : u # s => fds'[u] = fds[u]
      /\ ~fds'[s].active
  <2>0. fds[s] \in FdNode
    BY <1>2
  <2>1. [fds[s] EXCEPT !.active = FALSE] \in FdNode
    BY <1>2, <2>0 DEF FdNode
  <2>2. fds' = [fds EXCEPT ![s] = [fds[s] EXCEPT !.active = FALSE]]
    BY <1>1, <1>2
  <2> DEFINE new == [fds[s] EXCEPT !.active = FALSE]
  <2>3. ~new.active
    BY <2>0 DEF FdNode
  <2> HIDE DEF new
  <2>4. fds' = [fds EXCEPT ![s] = new] /\ new \in FdNode
    BY <2>1, <2>2 DEF new
  <2> QED BY <1>2, <2>3, <2>4
<1>4. registered' = registered \ {fd} /\ i' = i
  BY DEF http_loop_remove_fd, loopVars
<1> QED BY <1>2, <1>3, <1>4 DEF Registry


(* The slot that is called next is in use.                                  *)
LEMMA CallableInUse ==
  ASSUME Registry, Callable # {}
  PROVE  /\ Lowest(Callable) \in Nat /\ Lowest(Callable) \in DOMAIN fds
         /\ fds[Lowest(Callable)].active
<1>1. Callable \subseteq DOMAIN fds /\ DOMAIN fds \subseteq Nat
  BY DEF Callable, Registry
<1>2. Lowest(Callable) \in Callable
  BY <1>1, LowestIsIn
<1> QED BY <1>1, <1>2 DEF Callable

LEMMA ProgramKeepsRegistry == ASSUME Registry, Program PROVE Registry'
<1>1. ASSUME NEW timeout_ms \in Timeouts, http_loop_add_timer(timeout_ms) PROVE Registry'
  BY <1>1, RegistryKept DEF Registry, http_loop_add_timer, loopVars, fdVars, history
<1>2. ASSUME NEW t \in pending, http_loop_cancel_timer(t) PROVE Registry'
  BY <1>2, RegistryKept DEF Registry, http_loop_cancel_timer, loopVars, fdVars, history
<1>3. CASE http_loop_stop_here
  BY <1>3, RegistryKept DEF Registry, http_loop_stop_here, loopVars, fdVars
<1> QED BY <1>1, <1>2, <1>3, AddStep, ModStep, RemoveStep DEF Program

(* What the loop and the others do leaves the slots alone.                  *)
LEMMA LoopKeepsRegistry == ASSUME Registry, Loop PROVE Registry'
<1> USE DEF fdVars, history
<1>1. UNCHANGED <<fds, registered>>
  BY DEF Loop, run_resets_stop, run_stopped, run_begins_pass, process_timers_fire,
         timer_cb_returns, process_timers_end, go_on_after_timers, plan_idle, plan_select,
         plan_event, event_returns, select_returns, select_returns_windows,
         long_select_returns, select_again_returns, dispatch_call, fd_cb_returns,
         dispatch_ends, Return, EndOfPass, Goto, Poll, Dispatch
<1>2. i' \in Nat \ {0}
  <2>1. CASE dispatch_call
    BY <2>1, CallableInUse DEF dispatch_call
  <2>2. CASE ~dispatch_call
    BY <2>2 DEF Registry, Loop, run_resets_stop, run_stopped, run_begins_pass,
         process_timers_fire, timer_cb_returns, process_timers_end, go_on_after_timers,
         plan_idle, plan_select, plan_event, event_returns, select_returns,
         select_returns_windows, long_select_returns, select_again_returns, fd_cb_returns,
         dispatch_ends, Return, EndOfPass, Goto, Poll, Dispatch
  <2> QED BY <2>1, <2>2
<1> QED BY <1>1, <1>2, RegistryKept

LEMMA RegistryStep == ASSUME Registry, [Next]_vars PROVE Registry'
<1> USE DEF loopVars, fdVars, history
<1>1. CASE http_loop_run \/ http_loop_tick
  BY <1>1, RegistryKept DEF Registry, http_loop_run, http_loop_tick
<1>2. CASE http_loop_stop \/ stop_wakes \/ http_loop_wakeup
  BY <1>2, RegistryKept DEF Registry, http_loop_stop, stop_wakes, http_loop_wakeup
<1>3. CASE Environment \/ ClockMoves
  BY <1>3, RegistryKept DEF Registry, Environment, ClockMoves
<1>4. CASE UNCHANGED vars
  BY <1>4, RegistryKept DEF Registry, vars, state
<1> QED BY <1>1, <1>2, <1>3, <1>4, ProgramKeepsRegistry, LoopKeepsRegistry DEF Next

-----------------------------------------------------------------------------
(* The timeout given to a sleep.                                            *)
LEMMA DeadlineInTime ==
  ASSUME Awaited, NEW t \in pending
  PROVE  Deadline \in Nat /\ (Deadline <= t.due \/ Deadline <= clock)
<1> DEFINE dues == {u.due : u \in pending}
<1>1. dues \subseteq Nat /\ dues # {} /\ clock \in Nat
  BY DEF Awaited
<1>2. PICK least \in dues : \A n \in dues : least <= n
  BY <1>1, LeastOf
<1>3. PICK first \in pending : first.due = least
  BY <1>2
<1>4. \A u \in pending : first.due <= u.due
  BY <1>2, <1>3
<1> DEFINE earliest == CHOOSE e \in pending : \A u \in pending : e.due <= u.due
<1>5. earliest \in pending /\ \A u \in pending : earliest.due <= u.due
  BY <1>4
<1>6. earliest.due \in Nat
  BY <1>5 DEF Awaited
<1>7. Deadline = IF tick THEN clock
                 ELSE IF earliest.due < clock THEN clock ELSE earliest.due
  BY DEF Deadline
<1> HIDE DEF earliest
<1> QED BY <1>1, <1>5, <1>6, <1>7

LEMMA AwaitedStep == ASSUME Awaited, [Next]_vars PROVE Awaited'
<1> USE DEF loopVars, timerVars
<1>1. ASSUME NEW timeout_ms \in Timeouts, http_loop_add_timer(timeout_ms) PROVE Awaited'
  BY <1>1, LoopAssumption DEF Awaited, Sleeping, http_loop_add_timer, UserCode, Timer!Add
<1>2. ASSUME NEW t \in pending, http_loop_cancel_timer(t) PROVE Awaited'
  BY <1>2 DEF Awaited, Sleeping, http_loop_cancel_timer, UserCode, Timer!Cancel
<1>3. ASSUME process_timers_fire PROVE Awaited'
  BY <1>3 DEF Awaited, Sleeping, process_timers_fire, Timer!Fire
<1>4. ASSUME NEW p \in {"select", "long", "event"}, Poll(p) PROVE Awaited'
  BY <1>4, DeadlineInTime DEF Awaited, Sleeping, Poll
<1>5. CASE plan_select \/ plan_event
  BY <1>4, <1>5 DEF plan_select, plan_event
<1>6. CASE ClockMoves
  BY <1>6 DEF Awaited, Sleeping, ClockMoves
<1>7. CASE \/ http_loop_stop_here \/ http_loop_stop \/ stop_wakes \/ http_loop_wakeup
           \/ Environment \/ UNCHANGED vars
           \/ \E fd \in Fds : http_loop_remove_fd(fd) \/ \E events \in Masks :
                                http_loop_add_fd(fd, events) \/ http_loop_mod_fd(fd, events)
  <2>1. UNCHANGED <<at, wake_at, pending, clock>>
    BY <1>7 DEF http_loop_stop_here, http_loop_stop, stop_wakes, http_loop_wakeup,
         Environment, vars, state, http_loop_remove_fd, http_loop_add_fd, http_loop_mod_fd
  <2> QED BY <2>1 DEF Awaited, Sleeping
<1>8. CASE \/ http_loop_run \/ http_loop_tick
           \/ Loop /\ ~process_timers_fire /\ ~plan_select /\ ~plan_event
  <2>1. at' \notin {"select", "long", "event"} /\ UNCHANGED <<pending, clock>>
    BY <1>8 DEF http_loop_run, http_loop_tick, Loop, run_resets_stop, run_stopped,
         run_begins_pass, timer_cb_returns, process_timers_end, go_on_after_timers,
         plan_idle, event_returns, select_returns, select_returns_windows,
         long_select_returns, select_again_returns, dispatch_call, fd_cb_returns,
         dispatch_ends, Return, EndOfPass, Goto, Dispatch
  <2> QED BY <2>1 DEF Awaited, Sleeping
<1> QED BY <1>1, <1>2, <1>3, <1>5, <1>6, <1>7, <1>8 DEF Next, Program, Loop

-----------------------------------------------------------------------------
(* Whatever callbacks add, change and remove while the slots are gone       *)
(* through with sets collected before, no removed descriptor is called.     *)
THEOREM RemovedTheorem == Spec => RemovedNeverCalled
<1>1. ASSUME Registry, [Next]_vars
      PROVE  [called' # called /\ called' # NoCall => called' \in registered]_vars
  <2>1. CASE dispatch_call
    BY <1>1, <2>1, CallableInUse DEF dispatch_call, Registry
  <2>2. CASE ~dispatch_call
    <3>1. called' = called \/ called' = NoCall
      BY <1>1, <2>2 DEF Next, Program, Loop, history, http_loop_add_fd, http_loop_mod_fd,
           http_loop_remove_fd, http_loop_add_timer, http_loop_cancel_timer,
           http_loop_stop_here, http_loop_run, http_loop_tick, http_loop_stop, stop_wakes,
           http_loop_wakeup, Environment, ClockMoves, run_resets_stop, run_stopped,
           run_begins_pass, process_timers_fire, timer_cb_returns, process_timers_end,
           go_on_after_timers, plan_idle, plan_select, plan_event, event_returns,
           select_returns, select_returns_windows, long_select_returns,
           select_again_returns, fd_cb_returns, dispatch_ends, Return, EndOfPass, Goto,
           Poll, Dispatch, vars, state
    <3> QED BY <3>1
  <2> QED BY <2>1, <2>2
<1> QED BY <1>1, RegistryInit, RegistryStep, PTL DEF Spec, RemovedNeverCalled

(* Whatever is registered and cancelled before a sleep, the loop is awake   *)
(* when a timer is due.                                                     *)
THEOREM NoOversleeping == Spec => []OverdueTimerWakes
<1>1. Awaited => OverdueTimerWakes
  <2> SUFFICES ASSUME Awaited, NEW t \in pending, Sleeping, t.due <= clock
               PROVE  TimedOut
    BY DEF OverdueTimerWakes, Sleeping
  <2>1. wake_at \in Nat /\ wake_at <= clock
    BY DEF Awaited
  <2> QED BY <2>1, LoopAssumption DEF TimedOut
<1> QED BY <1>1, AwaitedInit, AwaitedStep, PTL DEF Spec

=============================================================================
