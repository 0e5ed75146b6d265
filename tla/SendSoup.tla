----------------------------- MODULE SendSoup ------------------------------
(***************************************************************************)
(* http_libsoup3_send (src/http_libsoup3.c): the library sends a message   *)
(* and collects the whole response; on_chunk is called once with all of it.*)
(***************************************************************************)
EXTENDS SendState

soup(place) == At("libsoup3", place)

soup_message_new ==
  /\ soup("begin")
  /\ \/ Returns([s EXCEPT !.rc = "INVAL"])
     \/ request.upload # "parts" /\ s' = Hold("soup_body", {"message"}) /\ UNCHANGED net
  /\ UNCHANGED <<backend, request>>

(* The body or all of read_chunk's pieces; its error becomes an IO error.  *)
soup_set_body ==
  /\ soup("soup_body")
  /\ \/ s' = BodySent("soup_send")
     \/ /\ request.upload = "stream" /\ s.taken < MaxUpload
        /\ s' = [Supplies("soup_body") EXCEPT !.wired = @ + 1]
     \/ request.upload = "stream" /\ s' = ReadFails("soup_cleanup", "IO")
  /\ UNCHANGED <<backend, request, net>>

soup_session_send_and_read ==
  /\ soup("soup_send") /\ UNCHANGED <<backend, request>>
  /\ \/ Arrives /\ s' = s
     \/ Ends("whole") /\ s' = Hold("soup_response", {"bytes"})
soup_session_fails == BodyFails("soup_send", "soup_cleanup", {"REFUSED", "TIMEOUT", "IO"})

(* The response, made only to be freed when on_chunk fails or the copy of  *)
(* the body cannot be allocated.                                           *)
soup_response ==
  /\ soup("soup_response")
  /\ s' \in {Fail("soup_cleanup", "NOMEM")} \cup
            (IF request.streaming
             THEN {[s EXCEPT !.pc = "soup_cleanup", !.given = Collected, !.res = TRUE],
                   [s EXCEPT !.pc = "soup_cleanup", !.given = Collected, !.aborted = TRUE,
                             !.rc = "CANCELED"]}
             ELSE {[s EXCEPT !.pc = "soup_cleanup", !.body = Collected, !.res = TRUE]})
  /\ UNCHANGED <<backend, request, net>>

soup_cleanup ==
  /\ soup("soup_cleanup")
  /\ Returns(Drop("returned", {"bytes", "message"}))
  /\ UNCHANGED <<backend, request>>

soup_network == soup_session_send_and_read

soup_steps ==
  \/ soup_message_new \/ soup_set_body \/ soup_session_fails \/ soup_response
  \/ soup_cleanup
=============================================================================
