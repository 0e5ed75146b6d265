----------------------------- MODULE EventLoop ------------------------------
(***************************************************************************)
(* The reactor of src/event_loop.c with its own polling: http_loop_run,    *)
(* http_loop_tick, the registry of file descriptors, http_loop_stop and    *)
(* http_loop_wakeup.  The loop's thread makes passes over timers and       *)
(* descriptors and runs the program's callbacks; a second thread stops it  *)
(* and wakes it.  The timers are those of TimerSet, which TimerHeap        *)
(* implements.                                                             *)
(*                                                                         *)
(* Between two calls that can block or call back, the loop's code is one   *)
(* step: what it touches there belongs to its thread alone, except         *)
(* stop_requested, which it reads in steps of its own.                     *)
(***************************************************************************)
EXTENDS Integers, Sequences

CONSTANTS
  Fds,        \* the descriptors the program uses
  Events,     \* the bits of enum HttpLoopEvent
  Masks,      \* the combinations of them it watches
  Timeouts,   \* the timeout_ms it passes
  Builds,     \* the builds of interest: TRUE stands for _WIN32
  LongWait,   \* Windows: the 50 ms above which select is called twice
  PipeCap,    \* how many bytes the wakeup pipe holds
  Never,      \* no deadline: select waits for readiness only
  MaxRegs,    \* bound: registrations of descriptors
  MaxTimers,  \* bound: registrations of timers
  MaxTime     \* bound: the clock stays below

ASSUME LoopAssumption ==
  /\ Masks \subseteq SUBSET Events
  /\ Timeouts \subseteq Nat
  /\ Builds \subseteq BOOLEAN
  /\ LongWait \in Nat
  /\ PipeCap \in Nat \ {0}
  /\ TRUE \in Builds => PipeCap = 1
  /\ Never \notin Int
  /\ MaxRegs \in Nat /\ MaxTimers \in Nat /\ MaxTime \in Nat

VARIABLES
  windows,         \* the build, which never changes
  at,              \* where the loop's thread is
  tick,            \* it is in http_loop_tick, not http_loop_run
  stop_requested,  \* loop->stop_requested
  fds,             \* loop->fds[0 .. fd_count - 1]
  regs,            \* how many registrations there have been
  ready,           \* external: the pairs of descriptor and event that are ready
  revents,         \* the fd_sets select returned
  i,               \* the slot of the dispatch loop
  wakeup,          \* bytes in wakeup_pipe, or the state of wakeup_event
  waker,           \* where the second thread is
  wake_at,         \* when the current select times out
  now,             \* process_timers' reading of the clock
  pending, used, fired, clock,   \* the timers: TimerSet
  woken,           \* history: wakeup was called since the last pass began
  registered,      \* history: added and not removed since
  called           \* history: the descriptor whose callback runs

timerVars == <<pending, used, fired, clock>>
history == <<woken, registered, called>>
loopVars == <<at, tick, revents, i, wake_at, now>>
fdVars == <<fds, regs>>
state == <<at, tick, stop_requested, fds, regs, ready, revents, i, wakeup, waker,
          wake_at, now, pending, used, fired, clock, woken, registered, called>>
vars == <<windows, state>>

(* What is neither pending nor fired was cancelled.                         *)
Timer == INSTANCE TimerSet WITH
  cancelled <- (1 .. used) \ (fired \cup {t.id : t \in pending})

Bits == Fds \X Events

(* "enter" is http_loop_run before it resets stop_requested, "while" its    *)
(* loop condition, "stop?" the test after the timers; "long" and "again"    *)
(* are the two calls of select that Windows makes for a long timeout.       *)
Places == {"out", "enter", "while", "timers", "timer_cb", "stop?", "plan",
           "select", "long", "again", "event", "dispatch", "fd_cb"}

FdNode == [fd : Fds, events : SUBSET Events, active : BOOLEAN]

NoCall == Never

TypeOK ==
  /\ windows \in Builds
  /\ at \in Places
  /\ tick \in BOOLEAN
  /\ stop_requested \in BOOLEAN
  /\ fds \in Seq(FdNode)
  /\ regs \in 0 .. MaxRegs
  /\ ready \subseteq Bits
  /\ revents \subseteq Bits
  /\ i \in Nat
  /\ wakeup \in 0 .. PipeCap
  /\ waker \in {"idle", "stopping"}
  /\ wake_at \in Nat \cup {Never}
  /\ now \in 0 .. MaxTime
  /\ pending \subseteq [id : 1 .. MaxTimers, due : Nat]
  /\ used \in 0 .. MaxTimers
  /\ fired \subseteq 1 .. used
  /\ clock \in 0 .. MaxTime
  /\ woken \in BOOLEAN
  /\ registered \subseteq Fds
  /\ called \in Fds \cup {NoCall}

Init ==
  /\ windows \in Builds
  /\ at = "out"
  /\ tick = FALSE
  /\ stop_requested = FALSE
  /\ fds = <<>>
  /\ regs = 0
  /\ ready = {}
  /\ revents = {}
  /\ i = 1
  /\ wakeup = 0
  /\ waker = "idle"
  /\ wake_at = Never
  /\ now = 0
  /\ Timer!Init
  /\ woken = FALSE
  /\ registered = {}
  /\ called = NoCall

-----------------------------------------------------------------------------
(* Calls of the program on the loop's thread: between two calls of run and  *)
(* tick, and in callbacks.                                                  *)

UserCode == at \in {"out", "timer_cb", "fd_cb"}

Slots(fd) == {s \in DOMAIN fds : fds[s].active /\ fds[s].fd = fd}
FreeSlots == {s \in DOMAIN fds : ~fds[s].active}
Lowest(S) == CHOOSE s \in S : \A u \in S : s <= u

(* The first inactive slot is reused, or the array grows by one.            *)
PlaceFd(fd, events) ==
  LET node == [fd |-> fd, events |-> events, active |-> TRUE]
  IN fds' = IF FreeSlots = {} THEN Append(fds, node)
            ELSE [fds EXCEPT ![Lowest(FreeSlots)] = node]

http_loop_add_fd(fd, events) ==
  /\ UserCode
  /\ regs < MaxRegs
  /\ Slots(fd) = {}
  /\ PlaceFd(fd, events)
  /\ regs' = regs + 1
  /\ registered' = registered \cup {fd}
  /\ UNCHANGED <<loopVars, timerVars, woken, called,
                 stop_requested, ready, wakeup, waker>>

http_loop_mod_fd(fd, events) ==
  /\ UserCode
  /\ \E s \in Slots(fd) : fds' = [fds EXCEPT ![s].events = events]
  /\ UNCHANGED <<loopVars, timerVars, history, stop_requested, regs, ready, wakeup, waker>>

http_loop_remove_fd(fd) ==
  /\ UserCode
  /\ \E s \in Slots(fd) : fds' = [fds EXCEPT ![s].active = FALSE]
  /\ registered' = registered \ {fd}
  /\ UNCHANGED <<loopVars, timerVars, woken, called,
                 stop_requested, regs, ready, wakeup, waker>>

http_loop_add_timer(timeout_ms) ==
  /\ UserCode
  /\ used < MaxTimers
  /\ Timer!Add(timeout_ms)
  /\ UNCHANGED <<loopVars, fdVars, history, stop_requested, ready, wakeup, waker>>

http_loop_cancel_timer(t) ==
  /\ UserCode
  /\ Timer!Cancel(t)
  /\ UNCHANGED <<loopVars, fdVars, history, stop_requested, ready, wakeup, waker>>

-----------------------------------------------------------------------------
(* http_loop_stop and http_loop_wakeup                                      *)

Running == at # "out" /\ ~tick

Stop == stop_requested' = TRUE

(* A byte for the pipe unless it is full; SetEvent.                         *)
WakeUp ==
  /\ wakeup' = IF wakeup < PipeCap THEN wakeup + 1 ELSE wakeup
  /\ woken' = Running

(* Called by a callback: nothing comes between the flag and the wakeup.     *)
http_loop_stop_here ==
  /\ UserCode
  /\ Stop
  /\ WakeUp
  /\ UNCHANGED <<loopVars, fdVars, timerVars, ready, waker, registered, called>>

(* Called by the second thread: first the flag, then the wakeup.            *)
http_loop_stop ==
  /\ waker = "idle"
  /\ Stop
  /\ waker' = "stopping"
  /\ UNCHANGED <<loopVars, fdVars, timerVars, ready, wakeup, woken, registered, called>>

Mutant_stop_without_wakeup ==
  /\ waker = "stopping"
  /\ waker' = "idle"
  /\ UNCHANGED <<loopVars, fdVars, timerVars, stop_requested, ready, wakeup, history>>

stop_wakes ==
  /\ waker = "stopping"
  /\ WakeUp
  /\ waker' = "idle"
  /\ UNCHANGED <<loopVars, fdVars, timerVars, stop_requested, ready,
                 registered, called>>

http_loop_wakeup ==
  /\ waker = "idle"
  /\ WakeUp
  /\ UNCHANGED <<loopVars, fdVars, timerVars, stop_requested, ready, waker,
                 registered, called>>

-----------------------------------------------------------------------------
(* http_loop_run and http_loop_tick                                         *)

http_loop_run ==
  /\ at = "out"
  /\ at' = "enter"
  /\ tick' = FALSE
  /\ UNCHANGED <<revents, i, wake_at, now, stop_requested, fdVars, timerVars,
                 ready, wakeup, waker, history>>

http_loop_tick ==
  /\ at = "out"
  /\ at' = "timers"
  /\ tick' = TRUE
  /\ now' = clock
  /\ UNCHANGED <<revents, i, wake_at, stop_requested, fdVars, timerVars,
                 ready, wakeup, waker, history>>

run_resets_stop ==
  /\ at = "enter"
  /\ stop_requested' = FALSE
  /\ at' = "while"
  /\ UNCHANGED <<tick, revents, i, wake_at, now, fdVars, timerVars, ready,
                 wakeup, waker, history>>

(* The call returns; nothing is asked of it any more.                       *)
Return ==
  /\ at' = "out"
  /\ woken' = FALSE
  /\ revents' = {}
  /\ i' = 1
  /\ wake_at' = Never
  /\ UNCHANGED <<tick, now, stop_requested, fdVars, timerVars, ready, waker,
                 registered>>

(* The end of a pass: run tests its loop condition, tick returns.           *)
EndOfPass ==
  IF tick THEN Return
  ELSE /\ at' = "while"
       /\ revents' = {}
       /\ i' = 1
       /\ wake_at' = Never
       /\ UNCHANGED <<tick, now, stop_requested, fdVars, timerVars, ready, waker,
                      woken, registered>>

run_stopped ==
  /\ at \in {"while", "stop?"}
  /\ stop_requested
  /\ Return
  /\ UNCHANGED <<wakeup, called>>

run_begins_pass ==
  /\ at = "while"
  /\ ~stop_requested
  /\ at' = "timers"
  /\ now' = clock
  /\ woken' = FALSE
  /\ UNCHANGED <<tick, revents, i, wake_at, stop_requested, fdVars, timerVars,
                 ready, wakeup, waker, registered, called>>

(* The thread only moves on.                                                *)
Goto(p) ==
  /\ at' = p
  /\ UNCHANGED <<tick, revents, i, wake_at, now, stop_requested, fdVars, timerVars,
                 ready, wakeup, waker, history>>

Due == {t \in pending : t.due <= now}

process_timers_fire ==
  /\ at = "timers"
  /\ \E t \in Due : Timer!Fire(t)
  /\ at' = "timer_cb"
  /\ UNCHANGED <<tick, revents, i, wake_at, now, stop_requested, fdVars,
                 ready, wakeup, waker, history>>

timer_cb_returns == at = "timer_cb" /\ Goto("timers")

process_timers_end == at = "timers" /\ Due = {} /\ Goto("stop?")

go_on_after_timers == at = "stop?" /\ ~stop_requested /\ Goto("plan")

-----------------------------------------------------------------------------
(* The poll                                                                 *)

ActiveFds == {s \in DOMAIN fds : fds[s].active}

Watched == {b \in Bits : \E s \in Slots(b[1]) : b[2] \in fds[s].events}

Mutant_latest_deadline ==
  IF tick THEN clock
  ELSE IF pending = {} THEN Never
  ELSE LET latest == CHOOSE t \in pending : \A u \in pending : u.due <= t.due
       IN IF latest.due < clock THEN clock ELSE latest.due

(* When select will time out: at once in tick, in run when the earliest     *)
(* timer is due, at once if it is overdue, never without timers.            *)
Deadline ==
  IF tick THEN clock
  ELSE IF pending = {} THEN Never
  ELSE LET earliest == CHOOSE t \in pending : \A u \in pending : t.due <= u.due
       IN IF earliest.due < clock THEN clock ELSE earliest.due

LongSelect ==
  /\ windows
  /\ ~tick
  /\ Deadline # Never => Deadline - clock > LongWait

(* Nothing is active: the call returns.                                     *)
plan_idle ==
  /\ at = "plan"
  /\ ActiveFds = {} /\ pending = {}
  /\ Return
  /\ UNCHANGED <<wakeup, called>>

Poll(p) ==
  /\ at = "plan"
  /\ at' = p
  /\ wake_at' = Deadline
  /\ UNCHANGED <<tick, revents, i, now, stop_requested, fdVars, timerVars, ready,
                 wakeup, waker, woken, registered, called>>

plan_select ==
  /\ ActiveFds # {} \/ (pending # {} /\ ~windows)
  /\ Poll(IF LongSelect THEN "long" ELSE "select")

(* Windows, no descriptors: wait for the event instead.                     *)
plan_event ==
  /\ windows
  /\ ActiveFds = {} /\ pending # {}
  /\ Poll("event")

TimedOut == wake_at # Never /\ wake_at <= clock

(* WaitForSingleObject returns and the event is reset.                      *)
event_returns ==
  /\ at = "event"
  /\ wakeup > 0 \/ TimedOut
  /\ wakeup' = 0
  /\ EndOfPass
  /\ UNCHANGED called

(* The sets select filled in are gone through from the first slot on.       *)
Dispatch(bits) ==
  /\ at' = "dispatch"
  /\ revents' = bits
  /\ i' = 1
  /\ wake_at' = Never
  /\ UNCHANGED <<tick, now, stop_requested, fdVars, timerVars, ready, waker, history>>

(* POSIX: the read end of the pipe is watched too, and emptied.             *)
select_returns ==
  /\ at = "select"
  /\ ~windows
  /\ Watched \cap ready # {} \/ wakeup > 0 \/ TimedOut
  /\ wakeup' = 0
  /\ Dispatch(Watched \cap ready)

(* Windows: select does not wait for the event; tick resets it afterwards.  *)
select_returns_windows ==
  /\ at = "select"
  /\ windows
  /\ Watched \cap ready # {} \/ TimedOut
  /\ wakeup' = IF tick THEN 0 ELSE wakeup
  /\ Dispatch(Watched \cap ready)

(* After a long wait, Windows calls select again, for up to 50 ms, on the   *)
(* sets the first call left.                                                *)
long_select_returns ==
  /\ at = "long"
  /\ Watched \cap ready # {} \/ TimedOut
  /\ at' = "again"
  /\ revents' = Watched \cap ready
  /\ UNCHANGED <<tick, i, wake_at, now, stop_requested, fdVars, timerVars, ready,
                 wakeup, waker, history>>

select_again_returns ==
  /\ at = "again"
  /\ wakeup' = 0
  /\ Dispatch(revents \cap ready)

(* The slots from the current one on that have a bit left in the sets.      *)
Bit(s) == {b[2] : b \in {r \in revents : r[1] = fds[s].fd}}

Mutant_callable_even_removed == {s \in i .. Len(fds) : Bit(s) # {}}

Callable == {s \in i .. Len(fds) : fds[s].active /\ Bit(s) # {}}

dispatch_call ==
  /\ at = "dispatch"
  /\ Callable # {}
  /\ LET s == Lowest(Callable) IN
       /\ i' = s + 1
       /\ called' = fds[s].fd
  /\ at' = "fd_cb"
  /\ UNCHANGED <<tick, revents, wake_at, now, stop_requested, fdVars, timerVars,
                 ready, wakeup, waker, woken, registered>>

Mutant_one_callback_per_pass ==
  /\ at = "fd_cb"
  /\ EndOfPass
  /\ called' = NoCall
  /\ UNCHANGED wakeup

fd_cb_returns ==
  /\ at = "fd_cb"
  /\ at' = "dispatch"
  /\ called' = NoCall
  /\ UNCHANGED <<tick, revents, i, wake_at, now, stop_requested, fdVars, timerVars,
                 ready, wakeup, waker, woken, registered>>

dispatch_ends ==
  /\ at = "dispatch"
  /\ Callable = {}
  /\ EndOfPass
  /\ UNCHANGED <<wakeup, called>>

-----------------------------------------------------------------------------

(* Sockets become ready, and are drained by whoever reads or writes them.   *)
Environment ==
  /\ \E b \in Bits : ready' \in {ready \cup {b}, ready \ {b}}
  /\ UNCHANGED <<loopVars, fdVars, timerVars, history, stop_requested, wakeup, waker>>

ClockMoves ==
  /\ clock < MaxTime
  /\ clock' = clock + 1
  /\ UNCHANGED <<loopVars, fdVars, pending, used, fired, history, stop_requested, ready,
                 wakeup, waker>>

Program ==
  \/ \E fd \in Fds :
       \/ \E events \in Masks :
            http_loop_add_fd(fd, events) \/ http_loop_mod_fd(fd, events)
       \/ http_loop_remove_fd(fd)
  \/ \E timeout_ms \in Timeouts : http_loop_add_timer(timeout_ms)
  \/ \E t \in pending : http_loop_cancel_timer(t)
  \/ http_loop_stop_here

(* What the loop's thread does once run or tick has been called.            *)
Loop ==
  \/ run_resets_stop \/ run_stopped \/ run_begins_pass
  \/ process_timers_fire \/ timer_cb_returns \/ process_timers_end
  \/ go_on_after_timers
  \/ plan_idle \/ plan_select \/ plan_event
  \/ event_returns \/ select_returns \/ select_returns_windows
  \/ long_select_returns \/ select_again_returns
  \/ dispatch_call \/ fd_cb_returns \/ dispatch_ends

Next ==
  /\ \/ Program
     \/ http_loop_run \/ http_loop_tick
     \/ Loop
     \/ http_loop_stop \/ stop_wakes \/ http_loop_wakeup
     \/ Environment
     \/ ClockMoves
  /\ UNCHANGED windows

Spec == Init /\ [][Next]_vars

(* The loop's thread is scheduled, callbacks return, a stop that has set    *)
(* the flag goes on to the wakeup, and time passes.                         *)
FairSpec ==
  /\ Spec
  /\ WF_state(Loop)
  /\ WF_state(stop_wakes)
  /\ WF_state(ClockMoves)

-----------------------------------------------------------------------------
(* Properties                                                               *)

(* A descriptor that http_loop_remove_fd removed, and that has not been     *)
(* added since, is never called back, even if its readiness was already     *)
(* collected when a callback of the same pass removed it.                   *)
RemovedNeverCalled ==
  [][called' # called /\ called' # NoCall => called' \in registered]_vars

(* While the loop sleeps and a timer has become due, the sleep is over:     *)
(* whatever callbacks and other threads registered, select or the event     *)
(* wait was given a timeout no later than the earliest timer.               *)
OverdueTimerWakes ==
  \A t \in pending :
    (at \in {"select", "long", "event"} /\ t.due <= clock) => TimedOut

(* POSIX: a stop that run can still see, because it comes after the flag    *)
(* was reset, makes run return, even if the loop is about to sleep or       *)
(* sleeps.                                                                  *)
StopReturns == (~windows /\ stop_requested /\ at \notin {"out", "enter"}) ~> at = "out"

(* A wakeup from another thread makes a running loop begin another pass     *)
(* ("Signal the event loop to wake up from an external thread").            *)
WakeupServed == woken ~> ~woken

(* The same for the POSIX build, whose select watches the pipe.             *)
PipeWakes == (~windows /\ woken) ~> ~woken

(* A timer that becomes due while run or tick goes on is fired or cancelled *)
(* before the loop leaves.                                                  *)
TimerServed ==
  \A id \in 1 .. MaxTimers :
    (at # "out" /\ \E t \in pending : t.id = id /\ t.due <= clock)
      ~> (at = "out" \/ ~\E t \in pending : t.id = id)

(* A descriptor that stays ready for an event it is registered with is      *)
(* called back: a busy descriptor in an earlier slot does not starve it.    *)
ReadyServed ==
  \A b \in Bits :
    (Running /\ b \in Watched \cap ready)
      ~> (at = "out" \/ called = b[1] \/ b \notin Watched \cap ready)

(* Once the last descriptor has been removed and the last timer has fired,  *)
(* a call of run or tick returns unless something is registered again.      *)
IdleReturns ==
  LET Idle == pending = {} /\ \A s \in DOMAIN fds : ~fds[s].active
  IN (at # "out" /\ Idle) ~> (at = "out" \/ ~Idle)

(* Nobody waits for the loop for ever: stops and wakeups are seen, due       *)
(* timers are served, and a loop with nothing to do returns                 *)
(* (event_loop.c:318-348, 724-897).                                         *)
LoopResponds == StopReturns /\ PipeWakes /\ TimerServed /\ IdleReturns
=============================================================================
