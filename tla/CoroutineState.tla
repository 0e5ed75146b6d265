--------------------------- MODULE CoroutineState ---------------------------
(***************************************************************************)
(* What the three builds of src/coroutine.c share: who executes code of     *)
(* the application, and the order of the resumes, which is what the header  *)
(* promises ("the caller will block until the coroutine yields", "yield     *)
(* execution back to the resumer").                                        *)
(***************************************************************************)
EXTENDS Naturals, Sequences

CONSTANTS
  Cos,        \* the coroutines of the program
  Builds,     \* [kind : "ucontext" | "fiber" | "thread", nested : BOOLEAN]
  MaxYields   \* bound: yields of a coroutine

(* Cos are no words of the modules, and the builds are those of the file.   *)
ASSUME CoroutineBounds ==
  /\ MaxYields \in Nat
  /\ Cos \cap {"main", "none", "stale"} = {}
  /\ Builds \subseteq [kind : {"ucontext", "fiber", "thread"}, nested : BOOLEAN]

VARIABLES
  build,      \* the build, and whether coroutines resume coroutines
  at,         \* where each one stands: "app", or in a call of this file
  on,         \* the coroutine of the call of resume or free one is in
  yields,     \* yields a coroutine has made
  chain,      \* history: the resumes that have not returned, main first
  machine,    \* contexts, fibers and thread-local storage
  threads     \* flags, sleepers of the build with threads

coVars == <<build, at, on, yields, chain, machine, threads>>

Entities == Cos \cup {"main"}
None == "none"

InApp(e) == at[e] = "app"
Current == chain[Len(chain)]

(* The code of e may resume c: c is not itself waiting for e or beneath it. *)
MayResume(e, c) ==
  /\ InApp(e)
  /\ e = "main" \/ build.nested
  /\ at[c] \in {"new", "yield"}
  /\ \A i \in DOMAIN chain : chain[i] # c

MayYield(c) == InApp(c) /\ yields[c] < MaxYields

Push(c) == chain' = Append(chain, c)
GiveBack == chain' = SubSeq(chain, 1, Len(chain) - 1)
Move(moves) == at' = [e \in Entities |-> IF e \in DOMAIN moves THEN moves[e] ELSE at[e]]

=============================================================================
