---------------------------- MODULE SendWindows ----------------------------
(***************************************************************************)
(* http_winhttp_send (src/http_winhttp.c) and http_wininet_send            *)
(* (src/http_wininet.c): one connection and one request handle, blocking    *)
(* calls of the library, one exit that closes the handles and frees the     *)
(* strings.  WinINet reads the cookies before the body, so it sets *res     *)
(* last.                                                                   *)
(***************************************************************************)
EXTENDS SendState

winhttp(place) == At("winhttp", place)
WinHttpStrings == {"url", "headers", "host", "path", "read buffer", "body"}

winhttp_strings ==
  \/ backend = "winhttp"
     /\ TryOrLeave("begin", {"url"}, "winhttp_host", "NOMEM", {})
  \/ TryOrLeave("winhttp_host", {"host"}, "winhttp_path", "NOMEM", {"url"})
  \/ TryOrLeave("winhttp_path", {"path"}, "winhttp_crack", "NOMEM", {"url", "host"})

winhttp_open ==
  \/ Try("winhttp_crack", {}, "winhttp_connect", "INVAL", "winhttp_cleanup")
  \/ Try("winhttp_connect", {"connection"}, "winhttp_method", "IO", "winhttp_cleanup")
  \/ Try("winhttp_method", {}, "winhttp_request", "INVAL", "winhttp_cleanup")
  \/ Try("winhttp_request", {"request"}, "winhttp_block", "IO", "winhttp_cleanup")

(* The cookies of the jar and the block of header lines.                   *)
winhttp_headers ==
  \/ Try("winhttp_block", {"headers"}, "winhttp_add", "NOMEM", "winhttp_cleanup")
  \/ Try("winhttp_add", {}, "winhttp_send_request", "IO", "winhttp_cleanup")

winhttp_upload ==
  \/ Try("winhttp_send_request", {}, "winhttp_write", "IO", "winhttp_cleanup")
  \/ UploadLoop("winhttp_write", "winhttp_receive", "winhttp_cleanup", {"callback"})

WinHttpReceiveResponse ==
  \/ Try("winhttp_receive", {}, "winhttp_buffer", "IO", "winhttp_cleanup")
  \/ Try("winhttp_buffer", {"read buffer"}, "winhttp_read", "NOMEM", "winhttp_cleanup")

Mutant_read_error_is_end ==
  s.pc = "winhttp_read" /\ Ends("cut") /\ s' = Goto("winhttp_response")
  /\ UNCHANGED <<backend, request>>

WinHttpReadData == BodyPiece("winhttp_read", "winhttp_cleanup", "callback")
                   \/ BodyEnd("winhttp_read", "winhttp_response")
WinHttpReadFails == BodyFails("winhttp_read", "winhttp_cleanup", {"IO"})

winhttp_response ==
  /\ winhttp("winhttp_response")
  /\ s' \in {[Hold("winhttp_cookies", {"response"}) EXCEPT !.res = TRUE],
             Fail("winhttp_cleanup", "NOMEM")}
  /\ UNCHANGED <<backend, request, net>>

(* A Set-Cookie line that does not convert: the error is returned, the     *)
(* response without its body stays in *res.                                *)
winhttp_cookies ==
  /\ winhttp("winhttp_cookies")
  /\ s' \in {Drop("winhttp_cleanup", {"response", "body"}),
             [Drop("winhttp_cleanup", {"response"}) EXCEPT
                !.rc = "INVAL", !.slips = @ \cup {"response with error"}]}
  /\ UNCHANGED <<backend, request, net>>

(* A handle that cannot be closed makes an error of a success, with the    *)
(* response in *res.                                                       *)
winhttp_cleanup ==
  /\ winhttp("winhttp_cleanup")
  /\ LET closed == [s EXCEPT !.held = @ \ (WinHttpStrings \cup {"request", "connection"})]
     IN \/ Returns(closed)
        \/ /\ s.held \cap {"request", "connection"} # {} /\ s.rc = SUCCESS
           /\ Returns([closed EXCEPT !.rc = "IO",
                                     !.slips = @ \cup {"response with error"}])
  /\ UNCHANGED <<backend, request>>

winhttp_network == WinHttpReadData

winhttp_steps ==
  \/ winhttp_strings \/ winhttp_open \/ winhttp_headers \/ winhttp_upload
  \/ WinHttpReceiveResponse \/ WinHttpReadFails \/ winhttp_response
  \/ winhttp_cookies \/ winhttp_cleanup

-----------------------------------------------------------------------------
wininet(place) == At("wininet", place)
WinInetStrings == {"url", "headers", "host", "path", "read buffer", "body"}

wininet_strings ==
  \/ /\ wininet("begin") /\ request.upload = "parts"
     /\ Returns([s EXCEPT !.rc = "INVAL"]) /\ UNCHANGED <<backend, request>>
  \/ /\ backend = "wininet" /\ request.upload # "parts"
     /\ TryOrLeave("begin", {"url"}, "wininet_host", "NOMEM", {})
  \/ Try("wininet_host", {"host"}, "wininet_path", "NOMEM", "wininet_cleanup")
  \/ Try("wininet_path", {"path"}, "wininet_crack", "NOMEM", "wininet_cleanup")

(* InternetConnect with the proxy's credentials, then the request.         *)
wininet_open ==
  \/ Try("wininet_crack", {}, "wininet_connect", "INVAL", "wininet_cleanup")
  \/ Try("wininet_connect", {"connection"}, "wininet_proxy", "IO", "wininet_cleanup")
  \/ Try("wininet_proxy", {}, "wininet_method", "IO", "wininet_cleanup")
  \/ Try("wininet_method", {}, "wininet_request", "INVAL", "wininet_cleanup")
  \/ Try("wininet_request", {"request"}, "wininet_block", "IO", "wininet_cleanup")

wininet_headers ==
  \/ Try("wininet_block", {"headers"}, "wininet_add", "NOMEM", "wininet_cleanup")
  \/ Try("wininet_add", {}, "wininet_send_request", "IO", "wininet_cleanup")

(* HttpSendRequestEx, the pieces and HttpEndRequest, or HttpSendRequest.   *)
wininet_upload ==
  \/ Try("wininet_send_request", {}, "wininet_write", "IO", "wininet_cleanup")
  \/ UploadLoop("wininet_write", "wininet_end", "wininet_cleanup", {"callback"})
  \/ Try("wininet_end", {}, "wininet_receive", "IO", "wininet_cleanup")

(* The status, the cookies for the jar, the buffer.                        *)
HttpQueryInfo ==
  \/ Try("wininet_receive", {}, "wininet_cookies", "IO", "wininet_cleanup")
  \/ Try("wininet_cookies", {}, "wininet_buffer", "INVAL", "wininet_cleanup")
  \/ Try("wininet_buffer", {"read buffer"}, "wininet_read", "NOMEM", "wininet_cleanup")

InternetReadFile == BodyPiece("wininet_read", "wininet_cleanup", "callback")
                    \/ BodyEnd("wininet_read", "wininet_response")
InternetReadFails == BodyFails("wininet_read", "wininet_cleanup", {"IO"})

wininet_response ==
  /\ wininet("wininet_response")
  /\ s' \in {[Drop("wininet_cleanup", {"body"}) EXCEPT !.res = TRUE],
             Fail("wininet_cleanup", "NOMEM")}
  /\ UNCHANGED <<backend, request, net>>

(* As in WinHTTP, a close that fails is returned beside the response.      *)
wininet_cleanup ==
  /\ wininet("wininet_cleanup")
  /\ LET closed == [s EXCEPT !.held = @ \ (WinInetStrings \cup {"request", "connection"})]
     IN \/ Returns(closed)
        \/ /\ s.held \cap {"request", "connection"} # {} /\ s.rc = SUCCESS
           /\ Returns([closed EXCEPT !.rc = "IO",
                                     !.slips = @ \cup {"response with error"}])
  /\ UNCHANGED <<backend, request>>

wininet_network == InternetReadFile

wininet_steps ==
  \/ wininet_strings \/ wininet_open \/ wininet_headers \/ wininet_upload
  \/ HttpQueryInfo \/ InternetReadFails \/ wininet_response \/ wininet_cleanup
=============================================================================
