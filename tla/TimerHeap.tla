----------------------------- MODULE TimerHeap ------------------------------
(***************************************************************************)
(* The timers of src/event_loop.c: the array-based min-heap, registration, *)
(* lazy cancellation, the pass of process_timers with its callbacks, and   *)
(* the removal of cancelled roots that http_loop_run and http_loop_tick    *)
(* make after it.  Everything runs on the loop's thread; what interleaves  *)
(* is the pass, the callbacks it calls, which may register and cancel      *)
(* timers, and the clock.                                                  *)
(*                                                                         *)
(* Sequences start at 1 where the array starts at 0, and Len(timers) is    *)
(* timer_count.  The slot after the last one, where http_loop_add_timer    *)
(* builds its node, and the capacity, which doubles, are left out.         *)
(***************************************************************************)
EXTENDS Integers, Sequences

CONSTANTS
  Timeouts,    \* the timeout_ms that callers pass
  MaxTimers,   \* bound: how many timers are ever registered
  MaxTime,     \* bound: the clock stays below
  ClockSteps   \* how gettimeofday may move between two readings

ASSUME TimerAssumption ==
  /\ Timeouts \subseteq Int
  /\ MaxTimers \in Nat
  /\ MaxTime \in Nat
  /\ ClockSteps \subseteq Int

VARIABLES
  timers,         \* the heap: loop->timers[0 .. timer_count - 1]
  next_timer_id,  \* loop->next_timer_id
  clock,          \* what gettimeofday would return, in milliseconds
  phase,          \* where the loop's thread is
  now,            \* process_timers' reading of the clock
  fired,          \* history: the timers whose callbacks were called
  cancelled       \* history: the timers http_loop_cancel_timer cancelled

vars == <<timers, next_timer_id, clock, phase, now, fired, cancelled>>

(* Outside a pass, at the head of its loop, or inside a timer's callback.   *)
Phases == {"idle", "test", "callback"}

TimerNode == [expiration : Int, id : Nat, active : BOOLEAN]

TypeOK ==
  /\ timers \in Seq(TimerNode)
  /\ next_timer_id \in 0 .. MaxTimers
  /\ clock \in 0 .. MaxTime
  /\ phase \in Phases
  /\ phase # "idle" => now \in 0 .. MaxTime
  /\ fired \subseteq 1 .. next_timer_id
  /\ cancelled \subseteq 1 .. next_timer_id

Init ==
  /\ timers = <<>>
  /\ next_timer_id = 0
  /\ clock = 0
  /\ phase = "idle"
  /\ now = 0
  /\ fired = {}
  /\ cancelled = {}

-----------------------------------------------------------------------------
(* The heap                                                                 *)

timer_heap_swap(t, i, j) == [t EXCEPT ![i] = t[j], ![j] = t[i]]

Earlier(t, i, j) == t[i].expiration < t[j].expiration

Parent(i) == i \div 2

Children(t, i) == {2 * i, 2 * i + 1} \cap 1 .. Len(t)

(* An array of n nodes and the slot of the one that moves.                  *)
Sifts(n) == [nodes : [1..n -> TimerNode], idx : 1..n]

Moved(h, i) == [nodes |-> timer_heap_swap(h.nodes, h.idx, i), idx |-> i]

(* Exchange the node with its parent while it expires earlier.              *)
timer_heap_up(t, idx) ==
  LET up[h \in Sifts(Len(t))] ==
        IF h.idx > 1 /\ Earlier(h.nodes, h.idx, Parent(h.idx))
        THEN up[Moved(h, Parent(h.idx))]
        ELSE h.nodes
  IN up[[nodes |-> t, idx |-> idx]]

Mutant_left_child_only(t, i) == {c \in {2 * i} \cap DOMAIN t : Earlier(t, c, i)}

(* The child the node is exchanged with: the earlier of the two, the left   *)
(* one if they are equal, and none unless it is earlier than the node.      *)
Smallest(t, i) ==
  {c \in Children(t, i) :
     /\ Earlier(t, c, i)
     /\ \A d \in Children(t, i) \ {c} : IF d < c THEN Earlier(t, c, d) ELSE ~Earlier(t, d, c)}

timer_heap_down(t, idx) ==
  LET down[h \in Sifts(Len(t))] ==
        LET smallest == Smallest(h.nodes, h.idx)
        IN IF smallest = {} THEN h.nodes
           ELSE down[Moved(h, CHOOSE c \in smallest : TRUE)]
  IN down[[nodes |-> t, idx |-> idx]]

Shrunk(t) == SubSeq(t, 1, Len(t) - 1)

Mutant_remove_without_sift(t) == Shrunk([t EXCEPT ![1] = t[Len(t)]])

(* process_timers: the last node replaces the root and sinks while it also  *)
(* still stands in the last slot, then the array is shortened.              *)
RemoveRoot(t) ==
  IF Len(t) = 1 THEN <<>>
  ELSE Shrunk(timer_heap_down([t EXCEPT ![1] = t[Len(t)]], 1))

(* run and tick: cancelled roots go, the array being shortened first.       *)
Purge(t) ==
  LET purge[u \in Seq(TimerNode)] ==
        IF u = <<>> \/ u[1].active THEN u
        ELSE IF Len(u) = 1 THEN <<>>
        ELSE purge[timer_heap_down(Shrunk([u EXCEPT ![1] = u[Len(u)]]), 1)]
  IN purge[t]

-----------------------------------------------------------------------------
(* The operations                                                           *)

(* Code of the program runs: between two passes or in a callback.           *)
UserCode == phase \in {"idle", "callback"}

http_loop_add_timer(timeout_ms) ==
  /\ UserCode
  /\ next_timer_id < MaxTimers
  /\ next_timer_id' = next_timer_id + 1
  /\ timers' = timer_heap_up(Append(timers, [expiration |-> clock + timeout_ms,
                                             id |-> next_timer_id + 1,
                                             active |-> TRUE]),
                             Len(timers) + 1)
  /\ UNCHANGED <<clock, phase, now, fired, cancelled>>

(* Cancellation marks the node; without an active one it is an error.       *)
http_loop_cancel_timer(timer_id) ==
  /\ UserCode
  /\ \E i \in DOMAIN timers :
       /\ timers[i].id = timer_id
       /\ timers[i].active
       /\ timers' = [timers EXCEPT ![i].active = FALSE]
  /\ cancelled' = cancelled \cup {timer_id}
  /\ UNCHANGED <<next_timer_id, clock, phase, now, fired>>

process_timers_begin ==
  /\ phase = "idle"
  /\ phase' = "test"
  /\ now' = clock
  /\ UNCHANGED <<timers, next_timer_id, clock, fired, cancelled>>

RootDue == timers # <<>> /\ timers[1].expiration <= now

(* The root is due and active: it is marked and its callback entered.       *)
process_timers_fire ==
  /\ phase = "test"
  /\ RootDue
  /\ timers[1].active
  /\ timers' = [timers EXCEPT ![1].active = FALSE]
  /\ fired' = fired \cup {timers[1].id}
  /\ phase' = "callback"
  /\ UNCHANGED <<next_timer_id, clock, now, cancelled>>

(* The callback returns and the root, whichever node that is now, goes.     *)
process_timers_fired ==
  /\ phase = "callback"
  /\ timers' = RemoveRoot(timers)
  /\ phase' = "test"
  /\ UNCHANGED <<next_timer_id, clock, now, fired, cancelled>>

Mutant_skip_keeps_root ==
  /\ phase = "test"
  /\ RootDue
  /\ ~timers[1].active
  /\ UNCHANGED vars

process_timers_skip ==
  /\ phase = "test"
  /\ RootDue
  /\ ~timers[1].active
  /\ timers' = RemoveRoot(timers)
  /\ UNCHANGED <<next_timer_id, clock, phase, now, fired, cancelled>>

(* The pass ends; its caller removes cancelled roots unless it was asked to *)
(* stop, which is decided outside this module.                              *)
process_timers_end ==
  /\ phase = "test"
  /\ ~RootDue
  /\ timers' \in {timers, Purge(timers)}
  /\ phase' = "idle"
  /\ UNCHANGED <<next_timer_id, clock, now, fired, cancelled>>

process_timers ==
  \/ process_timers_begin
  \/ process_timers_fire \/ process_timers_fired \/ process_timers_skip
  \/ process_timers_end

ClockMoves ==
  /\ clock' \in {clock + d : d \in ClockSteps} \cap 0 .. MaxTime
  /\ UNCHANGED <<timers, next_timer_id, phase, now, fired, cancelled>>

Next ==
  \/ \E timeout_ms \in Timeouts : http_loop_add_timer(timeout_ms)
  \/ \E timer_id \in 1 .. next_timer_id : http_loop_cancel_timer(timer_id)
  \/ process_timers
  \/ ClockMoves

Spec == Init /\ [][Next]_vars

(* The loop keeps making passes and callbacks return (http_loop_run calls   *)
(* process_timers in every iteration).                                      *)
FairSpec == Spec /\ WF_vars(process_timers)

-----------------------------------------------------------------------------
(* Properties                                                               *)

(* The heap, its lazy deletions and its passes implement the set of timers: *)
(* one callback per timer, never early, never after a later one.            *)
Timer == INSTANCE TimerSet WITH
  pending <- {[id |-> timers[i].id, due |-> timers[i].expiration] :
                i \in {j \in DOMAIN timers : timers[j].active}},
  used <- next_timer_id

ImplementsTimerSet == Timer!Spec

IsHeap(t) == \A i \in 2 .. Len(t) : t[i \div 2].expiration <= t[i].expiration
Nodes(t) == {t[i] : i \in DOMAIN t}
ActiveNodes(t) == {n \in Nodes(t) : n.active}

(* What the operations make of the heap: sifting a new last node up leaves  *)
(* a heap of the old nodes and the new one; removing the root leaves a heap *)
(* of exactly the other nodes, although the moved node sinks while its old  *)
(* slot is still counted; removing cancelled roots keeps every active node  *)
(* and stops at the earliest of them or at an empty array, off which run    *)
(* and tick read the timeout and whether the loop is idle                   *)
(* (event_loop.c:165-208, 570-580, 622-633, 766-776).                       *)
HeapOpsAreSetOps ==
  timers # <<>> =>
    /\ \A timeout \in Timeouts :
         LET new == [expiration |-> clock + timeout, id |-> next_timer_id + 1, active |-> TRUE]
             up == timer_heap_up(Append(timers, new), Len(timers) + 1)
         IN  IsHeap(up) /\ Nodes(up) = Nodes(timers) \cup {new} /\ Len(up) = Len(timers) + 1
    /\ LET rest == RemoveRoot(timers)
       IN  IsHeap(rest) /\ Nodes(rest) = Nodes(timers) \ {timers[1]} /\ Len(rest) = Len(timers) - 1
    /\ LET purged == Purge(timers)
       IN  /\ IsHeap(purged) /\ ActiveNodes(purged) = ActiveNodes(timers)
           /\ IF ActiveNodes(timers) = {} THEN purged = <<>>
              ELSE /\ purged[1].active
                   /\ \A n \in ActiveNodes(timers) : purged[1].expiration <= n.expiration

(* A timer that is due is fired or cancelled in the end.                    *)
DueTimerFires ==
  \A id \in 1 .. MaxTimers :
    (\E i \in DOMAIN timers :
       timers[i].id = id /\ timers[i].active /\ timers[i].expiration <= clock)
      ~> id \in fired \cup cancelled
=============================================================================
