----------------------------- MODULE Coroutine ------------------------------
(***************************************************************************)
(* src/coroutine.c: a program whose main thread, and in some builds whose   *)
(* coroutines, resume and free coroutines.                                 *)
(***************************************************************************)
EXTENDS CoroutineSwitch, CoroutineThread

CoInit ==
  /\ build \in Builds
  /\ at = [e \in Entities |-> IF e = "main" THEN "app" ELSE "absent"]
  /\ on = [e \in Entities |-> None]
  /\ yields = [c \in Cos |-> 0]
  /\ chain = <<"main">>
  /\ machine = NewMachine
  /\ threads = NewThreads

(* Allocation and the key may fail: then there is no coroutine.             *)
coroutine_init(e, c) ==
  /\ InApp(e) /\ ~Broken /\ (e = "main" \/ build.nested) /\ at[c] = "absent"
  /\ Move([x \in {c} |-> "new"])
  /\ UNCHANGED <<build, on, yields, chain, machine, threads>>

CoSteps(e) ==
  (\E c \in Cos : coroutine_init(e, c)) \/ switch_steps(e) \/ thread_steps(e)

CoNext == \E e \in Entities : CoSteps(e) \/ spurious_wakeup(e)

(* Every thread that can go on does.  The application is a program that     *)
(* ends: coroutines yield MaxYields times at most, and all are freed.       *)
CoFairness == \A e \in Entities : WF_coVars(CoSteps(e))

CoSpec == CoInit /\ [][CoNext]_coVars /\ CoFairness

-----------------------------------------------------------------------------
(* Only the one that was resumed last and has not given control back runs   *)
(* code of the application: after a yield that is its resumer, at the place *)
(* it waited.  (A yield on Windows may look at a coroutine that finished    *)
(* and was freed: see the README.)                                         *)
RunsInTurn ==
  /\ machine.broken \in {"", "freed coroutine"}
  /\ \A e \in Entities : InApp(e) => e = Current

(* Every resume and every free comes back to its caller, whatever wakeups   *)
(* there are: the hand-over loses no signal.                               *)
InCall(e) == at[e] \in {"resume_ready", "resume", "joining"}

CallsReturn == \A e \in Entities : InCall(e) ~> InApp(e) \/ at[e] = "done" \/ Broken

=============================================================================
