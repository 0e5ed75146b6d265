---------------------------- MODULE TaskService -----------------------------
(***************************************************************************)
(* What include/c_abstract_http/thread_pool.h promises its callers, with   *)
(* neither threads nor locks: tasks are accepted, each is started once and *)
(* in the order of acceptance, and the service closes only when everything *)
(* it accepted has finished.                                               *)
(***************************************************************************)
EXTENDS Naturals, Sequences, Functions

CONSTANT Tasks

VARIABLES accepted, started, done, open

svars == <<accepted, started, done, open>>

Init ==
  /\ accepted = <<>>
  /\ started = <<>>
  /\ done = {}
  /\ open = TRUE

(* abstract_http_thread_pool_push returns success.                         *)
Accept(t) ==
  /\ open
  /\ t \notin Range(accepted)
  /\ accepted' = Append(accepted, t)
  /\ UNCHANGED <<started, done, open>>

(* The callback of the oldest waiting task is called.                      *)
Start ==
  /\ open
  /\ Len(started) < Len(accepted)
  /\ started' = Append(started, accepted[Len(started) + 1])
  /\ UNCHANGED <<accepted, done, open>>

Finish(t) ==
  /\ open
  /\ t \in Range(started) \ done
  /\ done' = done \cup {t}
  /\ UNCHANGED <<accepted, started, open>>

(* abstract_http_thread_pool_free returns.                                 *)
Close ==
  /\ open
  /\ Range(accepted) \subseteq done
  /\ open' = FALSE
  /\ UNCHANGED <<accepted, started, done>>

Next ==
  \/ \E t \in Tasks : Accept(t) \/ Finish(t)
  \/ Start
  \/ Close

Spec == Init /\ [][Next]_svars

FairSpec ==
  /\ Spec
  /\ WF_svars(Start)
  /\ \A t \in Tasks : WF_svars(Finish(t))
=============================================================================
