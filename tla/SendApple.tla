----------------------------- MODULE SendApple -----------------------------
(***************************************************************************)
(* http_apple_send (src/http_apple.c): a read stream on the run loop of the *)
(* calling thread.  The URLs with which tests make one call fail stand for *)
(* the failures of those calls.                                            *)
(***************************************************************************)
EXTENDS SendState

apple(place) == At("apple", place)
AppleHeld == {"stream", "body data", "request", "response"}

(* Until the request exists an error frees the response.                   *)
apple_fails(error) == Returns([Drop("", AppleHeld) EXCEPT !.rc = error, !.res = FALSE])
(* Later errors return with the response in *res.                          *)
apple_error(call, error) ==
  Returns([call EXCEPT !.rc = error, !.held = @ \ AppleHeld,
                       !.slips = @ \cup {"response with error"}])

apple_response ==
  /\ apple("begin")
  /\ \/ s' = [Hold("apple_request", {"response"}) EXCEPT !.res = TRUE] /\ UNCHANGED net
     \/ apple_fails("NOMEM")
  /\ UNCHANGED <<backend, request>>

apple_create_request ==
  /\ apple("apple_request")
  /\ \/ s' = Hold("apple_body", {"request"}) /\ UNCHANGED net
     \/ \E e \in {"INVAL", "NOMEM"} : apple_fails(e)
  /\ UNCHANGED <<backend, request>>

apple_set_body ==
  /\ apple("apple_body")
  /\ \/ s' = BodySent("apple_stream") /\ UNCHANGED net
     \/ request.upload \in {"body", "stream"} /\ s.taken = 0 /\ apple_fails("NOMEM")
     \/ /\ request.upload = "stream" /\ s.taken < MaxUpload /\ UNCHANGED net
        /\ s' = [Supplies("apple_body") EXCEPT !.wired = @ + 1]
     \/ request.upload = "stream" /\ apple_error([s EXCEPT !.aborted = TRUE], "callback")
  /\ UNCHANGED <<backend, request>>

apple_open_stream ==
  /\ apple("apple_stream")
  /\ \/ /\ s' = [Drop("apple_run", {"request"}) EXCEPT !.held = @ \cup {"stream"}]
        /\ UNCHANGED net
     \/ \E e \in {"NOMEM", "IO"} : apple_error(s, e)
  /\ UNCHANGED <<backend, request>>

(* Bytes available: without on_chunk each call makes a new data object and *)
(* forgets the one with the pieces before.                                 *)
apple_stream_cb ==
  /\ apple("apple_run")
  /\ Arrives
  /\ IF request.streaming
     THEN s' \in {Stream("apple_run"), StreamFails("apple_done", "callback")}
     ELSE s' \in {[Hold("apple_run", {"body data"}) EXCEPT !.body = <<Piece>>,
                     !.slips = IF s.body = <<>> THEN @
                               ELSE @ \cup {"earlier pieces lost"}],
                  Fail("apple_done", "NOMEM")}
  /\ UNCHANGED <<backend, request>>

apple_end == BodyEnd("apple_run", "apple_done")
apple_stream_error == BodyFails("apple_run", "apple_done", {"IO"})

(* The run loop has stopped; the data is copied to the response.           *)
apple_extract_response ==
  /\ apple("apple_done")
  /\ IF s.rc # SUCCESS THEN apple_error(s, s.rc)
     ELSE \/ Returns(Drop("", AppleHeld))
          \/ s.body # <<>> /\ apple_error([s EXCEPT !.body = <<>>], "NOMEM")
  /\ UNCHANGED <<backend, request>>

apple_network == apple_stream_cb \/ apple_end

apple_steps ==
  \/ apple_response \/ apple_create_request \/ apple_set_body \/ apple_open_stream
  \/ apple_stream_error \/ apple_extract_response
=============================================================================
