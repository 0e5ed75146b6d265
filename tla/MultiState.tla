----------------------------- MODULE MultiState -----------------------------
(***************************************************************************)
(* What the functions that send several requests share: the call of        *)
(* http_client_send_multi, its futures and the loop that waits for them.   *)
(* A single send is what SendContract says: a result, response or error.   *)
(***************************************************************************)
EXTENDS Naturals, FiniteSets

CONSTANT BatchSize   \* requests of a batch

ASSUME BatchIsNotEmpty == BatchSize \in Nat \ {0}

Reqs == 1..BatchSize

VARIABLES
  kind,     \* modality, backend and fail_fast of this client
  call,     \* pc, next request, rc, and list: the HttpMultiRequest on its stack
  futures,  \* HttpFuture of each request
  wake      \* a wakeup of the loop is pending

SUCCESS == "SUCCESS"

(* http_future_init.                                                       *)
NewFuture == [ready |-> FALSE, error |-> SUCCESS, response |-> FALSE]

(* What a send may leave behind; some backends return an error with a      *)
(* response, libuv succeeds without one.                                   *)
Results == [error : {SUCCESS, "IO"}, response : BOOLEAN]

Completed(result) ==
  [ready |-> TRUE, error |-> result.error, response |-> result.response]

At(place) == call.pc = place
Goto(place) == [call EXCEPT !.pc = place]
Fail(place, error) == [call EXCEPT !.pc = place, !.rc = error]

(* A loop that sends one request after the other and stores each result.   *)
SendEach(place, next, stops, results) ==
  /\ At(place)
  /\ IF call.next > BatchSize
     THEN call' = Goto(next) /\ UNCHANGED futures
     ELSE \E result \in results :
            /\ futures' = [futures EXCEPT ![call.next] = Completed(result)]
            /\ call' = IF result.error # SUCCESS /\ stops
                       THEN Fail("release", result.error)
                       ELSE [call EXCEPT !.next = @ + 1]
  /\ UNCHANGED <<kind, wake>>
=============================================================================
