-------------------------- MODULE CoroutineSwitch ---------------------------
(***************************************************************************)
(* The builds of src/coroutine.c that switch stacks on one thread: POSIX    *)
(* ucontext and Windows fibers.                                            *)
(*                                                                         *)
(* A ucontext_t names the one it was saved for, as long as that one has not *)
(* run since: then it is "stale".  A fiber always continues where it left.  *)
(***************************************************************************)
EXTENDS CoroutineState

Switching == build.kind \in {"ucontext", "fiber"}
Ucontext == build.kind = "ucontext"

NewMachine ==
  [tls |-> None,                            \* the key's value, one thread
   ctx |-> [c \in Cos |-> c],               \* co->ctx
   caller |-> [c \in Cos |-> None],         \* co->caller_ctx, co->caller_fiber
   broken |-> ""]

Broken == machine.broken # ""

(* e stops running: what was saved for it before is no longer its state.    *)
Outdated(slots, e) ==
  IF Ucontext THEN [c \in Cos |-> IF slots[c] = e THEN "stale" ELSE slots[c]] ELSE slots

(* m after e has stopped, not yet saved anywhere.                           *)
Stopped(m, e) == [m EXCEPT !.ctx = Outdated(@, e), !.caller = Outdated(@, e)]

Breaks(why) == machine' = [machine EXCEPT !.broken = why] /\ UNCHANGED <<at, chain>>

(* Control goes to what was saved as target; e is left at pos.              *)
Jump(m, e, pos, target) ==
  /\ IF target \in {"stale", None} THEN machine' = [m EXCEPT !.broken = "stale context"]
     ELSE IF at[target] \notin {"new", "resume", "yield"}
          THEN machine' = [m EXCEPT !.broken = "not waiting"]
     ELSE machine' = IF build.kind = "fiber" /\ at[target] = "new"
                     THEN [m EXCEPT !.tls = target]        \* fiber_entry
                     ELSE m
  /\ at' = [x \in Entities |->
              IF x = e THEN pos ELSE IF x = target THEN "app" ELSE at[x]]

switch_resume(e, c) ==
  /\ Switching /\ ~Broken /\ MayResume(e, c)
  /\ LET m == Stopped(machine, e)
         saved == [m EXCEPT !.caller[c] = e, !.tls = IF Ucontext THEN c ELSE @]
     IN Jump(saved, e, "resume", IF Ucontext THEN saved.ctx[c] ELSE c)
  /\ on' = [on EXCEPT ![e] = c]
  /\ Push(c)
  /\ UNCHANGED <<build, yields, threads>>

(* The coroutine that yields is taken from thread-local storage.            *)
switch_yield(e) ==
  /\ Switching /\ ~Broken /\ MayYield(e)
  /\ yields' = [yields EXCEPT ![e] = @ + 1]
  /\ LET co == machine.tls
         m == Stopped(machine, e)
         saved == IF Ucontext THEN [m EXCEPT !.ctx[co] = e] ELSE m
     IN IF at[co] = "freed" THEN Breaks("freed coroutine")
        ELSE IF saved.caller[co] = e THEN Breaks("self switch")
        ELSE Jump(saved, e, "yield", saved.caller[co]) /\ GiveBack
  /\ UNCHANGED <<build, on, threads>>

(* The callback returns; the context is linked to that of the caller.       *)
switch_entry_returns(e) ==
  /\ Switching /\ ~Broken /\ InApp(e)
  /\ Jump(machine, e, "done", machine.caller[e])
  /\ GiveBack
  /\ UNCHANGED <<build, on, yields, threads>>

(* free after the coroutine has finished, or before it was started.         *)
switch_free(e, c) ==
  /\ Switching /\ ~Broken /\ InApp(e)
  /\ at[c] \in {"new", "done"}
  /\ Move([x \in {c} |-> "freed"])
  /\ UNCHANGED <<build, on, yields, chain, machine, threads>>

switch_steps(e) ==
  \/ \E c \in Cos : switch_resume(e, c) \/ switch_free(e, c)
  \/ e \in Cos /\ switch_yield(e)
  \/ e \in Cos /\ switch_entry_returns(e)

=============================================================================
