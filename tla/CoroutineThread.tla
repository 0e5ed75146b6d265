-------------------------- MODULE CoroutineThread ---------------------------
(***************************************************************************)
(* The build of src/coroutine.c without ucontext: a thread per coroutine    *)
(* and a hand-over with a mutex and two condition variables.               *)
(*                                                                         *)
(* What is done between lock and unlock, or between lock and a wait, is one *)
(* step.  Who sleeps on cond_yield of c is in resume of c; who sleeps on    *)
(* cond_resume of c is c's own thread.                                     *)
(***************************************************************************)
EXTENDS CoroutineState

Threaded == build.kind = "thread"

NewThreads ==
  [asleep |-> {}, started |-> {}, ready |-> {}, should_run |-> {}, done |-> {}, exiting |-> {}]

Sleeps(e) == e \in threads.asleep
Awake(e) == Threaded /\ ~Sleeps(e)

(* Who pthread_cond_signal on cond_yield of c would wake.                   *)
Resumers(c) == {e \in Entities : at[e] \in {"resume_ready", "resume"} /\ on[e] = c}

(* The end of resume: c is told to run and e waits until it yields.         *)
HandOver(e, c) ==
  threads' = [threads EXCEPT !.should_run = @ \cup {c}, !.asleep = (@ \ {c}) \cup {e}]

(* If pthread_create fails, resume returns an error and nothing changes.     *)
thread_resume(e, c) ==
  /\ Threaded /\ MayResume(e, c)
  /\ on' = [on EXCEPT ![e] = c]
  /\ IF c \in threads.started
     THEN Move([x \in {e} |-> "resume"]) /\ HandOver(e, c)
     ELSE /\ threads' = [threads EXCEPT !.started = @ \cup {c}, !.asleep = @ \cup {e}]
          /\ Move([x \in {e, c} |-> IF x = e THEN "resume_ready" ELSE "starting"])
  /\ Push(c)
  /\ UNCHANGED <<build, yields, machine>>

Mutant_resume_does_not_recheck(e) ==
  /\ Awake(e) /\ at[e] = "resume"
  /\ Move([x \in {e} |-> "app"]) /\ UNCHANGED threads
  /\ UNCHANGED <<build, on, yields, chain, machine>>

(* while (!is_ready) after pthread_create.                                  *)
resume_ready_wakes(e) ==
  /\ Awake(e) /\ at[e] = "resume_ready"
  /\ IF on[e] \in threads.ready
     THEN Move([x \in {e} |-> "resume"]) /\ HandOver(e, on[e])
     ELSE threads' = [threads EXCEPT !.asleep = @ \cup {e}] /\ UNCHANGED at
  /\ UNCHANGED <<build, on, yields, chain, machine>>

(* while (should_run && !is_done).                                          *)
resume_wakes(e) ==
  /\ Awake(e) /\ at[e] = "resume"
  /\ IF on[e] \in threads.should_run /\ on[e] \notin threads.done
     THEN threads' = [threads EXCEPT !.asleep = @ \cup {e}] /\ UNCHANGED at
     ELSE Move([x \in {e} |-> "app"]) /\ UNCHANGED threads
  /\ UNCHANGED <<build, on, yields, chain, machine>>

(* co_thread_func until its first wait, which it may not need.              *)
co_thread_starts(c) ==
  /\ Threaded /\ at[c] = "starting"
  /\ threads' = [threads EXCEPT !.ready = @ \cup {c}, !.asleep = (@ \ Resumers(c)) \cup {c}]
  /\ Move([x \in {c} |-> "first"])
  /\ UNCHANGED <<build, on, yields, chain, machine>>

co_thread_wakes(c) ==
  /\ Awake(c) /\ at[c] = "first"
  /\ IF c \in threads.should_run
     THEN Move([x \in {c} |-> "app"]) /\ UNCHANGED threads
     ELSE threads' = [threads EXCEPT !.asleep = @ \cup {c}] /\ UNCHANGED at
  /\ UNCHANGED <<build, on, yields, chain, machine>>

co_thread_returns(c) ==
  /\ Threaded /\ InApp(c)
  /\ threads' = [threads EXCEPT !.done = @ \cup {c}, !.should_run = @ \ {c},
                                !.asleep = @ \ Resumers(c)]
  /\ Move([x \in {c} |-> "done"])
  /\ GiveBack
  /\ UNCHANGED <<build, on, yields, machine>>

thread_yield(c) ==
  /\ Threaded /\ MayYield(c)
  /\ yields' = [yields EXCEPT ![c] = @ + 1]
  /\ threads' = [threads EXCEPT !.should_run = @ \ {c}, !.asleep = (@ \ Resumers(c)) \cup {c}]
  /\ Move([x \in {c} |-> "yield"])
  /\ GiveBack
  /\ UNCHANGED <<build, on, machine>>

(* while (!should_run && !is_exiting); a coroutine that is freed exits.     *)
yield_wakes(c) ==
  /\ Awake(c) /\ at[c] = "yield"
  /\ IF c \in threads.exiting
     THEN Move([x \in {c} |-> "done"]) /\ UNCHANGED threads
     ELSE IF c \in threads.should_run
     THEN Move([x \in {c} |-> "app"]) /\ UNCHANGED threads
     ELSE threads' = [threads EXCEPT !.asleep = @ \cup {c}] /\ UNCHANGED at
  /\ UNCHANGED <<build, on, yields, chain, machine>>

Mutant_free_does_not_say_exit(e, c) ==
  /\ Threaded /\ InApp(e) /\ at[c] \in {"new", "yield", "done"} /\ e # c
  /\ \A i \in DOMAIN chain : chain[i] # c
  /\ on' = [on EXCEPT ![e] = c]
  /\ IF c \notin threads.started
     THEN Move([x \in {c} |-> "freed"]) /\ UNCHANGED threads
     ELSE /\ Move([x \in {e} |-> "joining"])
          /\ threads' = IF c \in threads.done THEN threads
                        ELSE [threads EXCEPT !.exiting = @ \cup {c}]
  /\ UNCHANGED <<build, yields, chain, machine>>

(* free of a coroutine that was not started, waits in yield or is done.     *)
thread_free(e, c) ==
  /\ Threaded /\ InApp(e) /\ at[c] \in {"new", "yield", "done"} /\ e # c
  /\ \A i \in DOMAIN chain : chain[i] # c
  /\ on' = [on EXCEPT ![e] = c]
  /\ IF c \notin threads.started
     THEN Move([x \in {c} |-> "freed"]) /\ UNCHANGED threads
     ELSE /\ Move([x \in {e} |-> "joining"])
          /\ threads' = IF c \in threads.done THEN threads
                        ELSE [threads EXCEPT !.should_run = @ \cup {c}, !.exiting = @ \cup {c},
                                             !.asleep = @ \ {c}]
  /\ UNCHANGED <<build, yields, chain, machine>>

free_joined(e) ==
  /\ Threaded /\ at[e] = "joining" /\ at[on[e]] = "done"
  /\ Move([x \in {e, on[e]} |-> IF x = e THEN "app" ELSE "freed"])
  /\ UNCHANGED <<build, on, yields, chain, machine, threads>>

(* POSIX lets a wait return without a signal.                               *)
spurious_wakeup(e) ==
  /\ Threaded /\ Sleeps(e)
  /\ threads' = [threads EXCEPT !.asleep = @ \ {e}]
  /\ UNCHANGED <<build, at, on, yields, chain, machine>>

thread_steps(e) ==
  \/ \E c \in Cos : thread_resume(e, c) \/ thread_free(e, c)
  \/ resume_ready_wakes(e) \/ resume_wakes(e) \/ free_joined(e)
  \/ /\ e \in Cos
     /\ \/ co_thread_starts(e) \/ co_thread_wakes(e) \/ co_thread_returns(e)
        \/ thread_yield(e) \/ yield_wakes(e)

=============================================================================
