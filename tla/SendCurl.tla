----------------------------- MODULE SendCurl ------------------------------
(***************************************************************************)
(* http_curl_send (src/http_curl.c): ABSTRACT_HTTP_SETUP_CURL_REQUEST on   *)
(* the easy handle of the context, curl_easy_perform with the two          *)
(* callbacks, ABSTRACT_HTTP_FINISH_CURL_REQUEST.  The handle is reused by   *)
(* the next send and keeps the pointers it was given.                      *)
(***************************************************************************)
EXTENDS SendState

curl(place) == At("curl", place)

(* Parts without a body are refused; the buffer is allocated and the       *)
(* payload options are reset, then set for this request.                   *)
setup_payload ==
  /\ curl("begin")
  /\ \/ request.upload = "parts" /\ s' = Fail("curl_unset", "INVAL") /\ UNCHANGED net
     \/ request.upload # "parts" /\ s' = Fail("curl_unset", "NOMEM") /\ UNCHANGED net
     \/ /\ request.upload # "parts"
        /\ s' = Hold("curl_headers", {"chunk"})
        /\ LET reset == {"POSTFIELDS", "READDATA"}
               pointer == [none |-> {}, body |-> {"POSTFIELDS"}, stream |-> {"READDATA"}]
           IN net' = [net EXCEPT !.stale = @ \ reset, !.fresh = pointer[request.upload]]
  /\ UNCHANGED <<backend, request>>

(* A failed append frees the whole list; the list is given to the handle   *)
(* only when it is complete.                                               *)
setup_headers ==
  /\ curl("curl_headers")
  /\ \/ /\ s' = Hold("curl_write_options", {"headers"})
        /\ net' = Points({"HTTPHEADER"})
     \/ s' = Fail("curl_unset", "NOMEM") /\ UNCHANGED net
  /\ UNCHANGED <<backend, request>>

setup_write_options ==
  /\ curl("curl_write_options")
  /\ \/ s' = Goto("curl_perform") /\ net' = Points({"WRITEDATA"})
     \/ s' = Fail("curl_unset", "IO") /\ UNCHANGED net
  /\ UNCHANGED <<backend, request>>

(* http_curl_send after a failed set-up.                                   *)
send_setup_failed ==
  /\ curl("curl_unset")
  /\ Returns(Drop("returned", {"chunk", "headers"}))
  /\ UNCHANGED <<backend, request>>

(* The library asks for a piece of the body.                               *)
math_curl_read_callback ==
  /\ curl("curl_perform")
  /\ request.upload = "stream"
  /\ \/ s.taken < MaxUpload /\ s' = [Supplies("curl_perform") EXCEPT !.wired = @ + 1]
     \/ s' = ReadFails("curl_finish", "IO")
  /\ UNCHANGED <<backend, request, net>>

Mutant_abort_is_success ==
  /\ curl("curl_perform")
  /\ Arrives
  /\ IF request.streaming
     THEN s' \in {Stream("curl_perform"), StreamFails("curl_finish", SUCCESS)}
     ELSE s' \in {Store("curl_perform"), Fail("curl_finish", "IO")}
  /\ UNCHANGED <<backend, request>>

(* A chunk for on_chunk, whose error becomes user_aborted, or for the      *)
(* buffer, whose realloc may fail; both failures make libcurl stop.        *)
math_write_memory_callback ==
  /\ curl("curl_perform")
  /\ Arrives
  /\ IF request.streaming
     THEN s' \in {Stream("curl_perform"), StreamFails("curl_finish", "callback")}
     ELSE s' \in {Store("curl_perform"), Fail("curl_finish", "IO")}
  /\ UNCHANGED <<backend, request>>

(* curl_easy_perform returns on its own; its codes are mapped.             *)
ABSTRACT_HTTP_MAP_CURL_ERROR ==
  {"INVAL", "UNREACH", "REFUSED", "TIMEOUT", "NOMEM", "IO"}

curl_easy_perform == BodyEnd("curl_perform", "curl_finish")
curl_easy_fails == BodyFails("curl_perform", "curl_finish", ABSTRACT_HTTP_MAP_CURL_ERROR)

(* calloc, http_response_init, the cookies for the jar.                    *)
finish_response ==
  /\ curl("curl_finish")
  /\ s' \in IF s.rc = SUCCESS
            THEN {Hold("curl_fill", {"response"}), Fail("curl_cleanup", "NOMEM"),
                  [Hold("curl_cleanup", {"response"}) EXCEPT !.rc = "NOMEM"]}
            ELSE {Goto("curl_cleanup")}
  /\ UNCHANGED <<backend, request, net>>

(* With on_chunk the buffer is freed, otherwise the response owns it.      *)
finish_fill ==
  /\ curl("curl_fill")
  /\ s' = [Drop("curl_cleanup", {"response", "chunk"}) EXCEPT !.res = TRUE]
  /\ UNCHANGED <<backend, request, net>>

finish_cleanup ==
  /\ curl("curl_cleanup")
  /\ Returns(Drop("returned", {"response", "headers", "chunk"}))
  /\ UNCHANGED <<backend, request>>

curl_network == math_write_memory_callback \/ curl_easy_perform

curl_steps ==
  \/ setup_payload \/ setup_headers \/ setup_write_options \/ send_setup_failed
  \/ math_curl_read_callback \/ curl_easy_fails
  \/ finish_response \/ finish_fill \/ finish_cleanup
=============================================================================
