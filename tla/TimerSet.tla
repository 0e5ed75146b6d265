------------------------------ MODULE TimerSet ------------------------------
(***************************************************************************)
(* What include/c_abstract_http/event_loop.h promises of timers, with no   *)
(* heap and no passes: a registered timer is pending until it is cancelled *)
(* or fires; it fires once, not before it is due, and none fires before a  *)
(* pending one that is due earlier.                                        *)
(***************************************************************************)
EXTENDS Integers

CONSTANTS Timeouts   \* the delays timers are registered with

VARIABLES
  pending,   \* the registered timers, as [id, due]
  used,      \* how many identifiers have been handed out
  fired,     \* the identifiers whose callbacks were called
  cancelled, \* the identifiers the program cancelled
  clock      \* the time of day, in milliseconds

tvars == <<pending, used, fired, cancelled, clock>>

Init ==
  /\ pending = {}
  /\ used = 0
  /\ fired = {}
  /\ cancelled = {}
  /\ clock = 0

Tick ==
  /\ clock' \in Int
  /\ clock' > clock
  /\ UNCHANGED <<pending, used, fired, cancelled>>

Add(delay) ==
  /\ used' = used + 1
  /\ pending' = pending \cup {[id |-> used + 1, due |-> clock + delay]}
  /\ UNCHANGED <<fired, clock, cancelled>>

Cancel(t) ==
  /\ pending' = pending \ {t}
  /\ UNCHANGED <<used, fired, clock>>
  /\ cancelled' = cancelled \cup {t.id}

Fire(t) ==
  /\ t.due <= clock
  /\ \A u \in pending : t.due <= u.due
  /\ pending' = pending \ {t}
  /\ fired' = fired \cup {t.id}
  /\ UNCHANGED <<used, clock, cancelled>>

Next ==
  \/ Tick
  \/ \E delay \in Timeouts : Add(delay)
  \/ \E t \in pending : Cancel(t) \/ Fire(t)

Spec == Init /\ [][Next]_tvars
=============================================================================
