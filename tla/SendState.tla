----------------------------- MODULE SendState -----------------------------
(***************************************************************************)
(* What the blocking sends of all backends have in common: the local       *)
(* variables of the function, the resources it holds, the callbacks of the *)
(* application it calls and the network it talks to.  Each Send<Backend>   *)
(* module adds the steps of one backend's send; Sends composes them.       *)
(*                                                                         *)
(* A client has one backend and calls send MaxSends times on one context.  *)
(* The response is a sequence of pieces numbered in the order the server   *)
(* sends them; the server may stop at any piece, and the connection may    *)
(* break before the message is complete.                                   *)
(***************************************************************************)
EXTENDS Naturals, Sequences

CONSTANTS MaxBody,    \* bound: pieces of a response body
          MaxUpload,  \* bound: pieces read_chunk supplies
          MaxSends    \* bound: calls of send on the context

ASSUME SendBounds == MaxBody \in Nat /\ MaxUpload \in Nat /\ MaxSends \in Nat \ {0}

VARIABLES
  backend,  \* the backend of this build
  request,  \* the request given to the current call
  s,        \* the call: see Calls
  net       \* the library and the peer: see Nets

vars == <<backend, request, s, net>>

(* on_chunk is set or not; the body is absent, in memory, supplied by       *)
(* read_chunk, or multipart parts that were never flattened.  timeout_ms is *)
(* the one of the context's configuration: none, below one second, and the  *)
(* 30 seconds of http_config_init.                                         *)
Requests == [streaming : BOOLEAN, upload : {"none", "body", "stream", "parts"},
             timeout_ms : {0, 500, 30000}]

SUCCESS == "SUCCESS"
Errors == {"INVAL", "NOMEM", "IO", "REFUSED", "UNREACH", "TIMEOUT", "CANCELED",
           "callback"}

(* pc: the next step, "returned" at the end.  held: what was acquired and  *)
(* neither released nor given to the caller.  rc: the error so far.  res:  *)
(* whether *res was set.  body: the pieces stored.  given: the pieces      *)
(* passed to on_chunk.  taken, wired: upload pieces got from read_chunk    *)
(* and passed on.  sent: the body was passed on to its end (curl asks for  *)
(* it piece by piece, and may stop asking: there it is not kept).  aborted: *)
(* a callback of the application failed.  slips: the places passed where   *)
(* the code departs from what send promises.                               *)
FreshCall == [pc |-> "begin", held |-> {}, rc |-> SUCCESS, res |-> FALSE,
              body |-> <<>>, given |-> <<>>, taken |-> 0, wired |-> 0, sent |-> FALSE,
              aborted |-> FALSE, slips |-> {}]

(* arrived: pieces that reached this side.  end: how the message ended.    *)
(* pending: flags of the backend and what its library has in progress.     *)
(* fresh, stale: what in the library or the process points to memory of    *)
(* the current call and of calls that have returned.                       *)
FreshNet == [arrived |-> 0, end |-> "open", pending |-> {}, fresh |-> {}, stale |-> {}]

-----------------------------------------------------------------------------
At(b, place) == backend = b /\ s.pc = place

Goto(place) == [s EXCEPT !.pc = place]
Fail(place, error) == [s EXCEPT !.pc = place, !.rc = error]
Hold(place, things) == [s EXCEPT !.pc = place, !.held = @ \cup things]
Drop(place, things) == [s EXCEPT !.pc = place, !.held = @ \ things]

(* The call returns; pointers to its memory that were left behind dangle.   *)
Returns(call) ==
  /\ s' = [call EXCEPT !.pc = "returned"]
  /\ net' = [net EXCEPT !.fresh = {}, !.stale = @ \cup net.fresh]

(* One call that acquires things, or fails and leaves the function to the  *)
(* clean-up at onError.                                                    *)
Try(place, things, next, error, onError) ==
  /\ s.pc = place
  /\ s' \in {Hold(next, things), Fail(onError, error)}
  /\ UNCHANGED <<backend, request, net>>

(* The same in a function that releases what it must and returns at once.  *)
TryOrLeave(place, things, next, error, released) ==
  /\ s.pc = place
  /\ \/ s' = Hold(next, things) /\ UNCHANGED net
     \/ Returns([s EXCEPT !.held = @ \ released, !.rc = error])
  /\ UNCHANGED <<backend, request>>

(* The next piece of the response reaches this side.                        *)
Arrives == /\ net.end = "open" /\ net.arrived < MaxBody
           /\ net' = [net EXCEPT !.arrived = @ + 1]
Ends(how) == net.end = "open" /\ net' = [net EXCEPT !.end = how]

Piece == net.arrived + 1

(* on_chunk takes the piece and goes on, or fails.                          *)
Stream(place) == [s EXCEPT !.pc = place, !.given = Append(@, Piece)]
StreamFails(place, error) ==
  [s EXCEPT !.pc = place, !.given = Append(@, Piece), !.aborted = TRUE, !.rc = error]
Store(place) == [s EXCEPT !.pc = place, !.body = Append(@, Piece)]

(* read_chunk supplies a piece, which the caller passes on or keeps.        *)
Supplies(place) == [s EXCEPT !.pc = place, !.taken = @ + 1]
ReadFails(place, error) == [s EXCEPT !.pc = place, !.aborted = TRUE, !.rc = error]

(* A body of one of these forms has been passed on to its end, with        *)
(* read_chunk when that said that there is no more; the code does not look *)
(* at a body of another form.                                              *)
PassesOn(call, forms) ==
  IF request.upload \in forms THEN [call EXCEPT !.sent = TRUE]
                              ELSE [call EXCEPT !.slips = @ \cup {"body not sent"}]
BodySent(place) == PassesOn(Goto(place), {"none", "body", "stream"})

(* A loop that passes on what read_chunk supplies; errors are the codes it  *)
(* may make of a failure of read_chunk.                                    *)
UploadLoop(place, next, onError, errors) ==
  /\ s.pc = place
  /\ \/ s' = BodySent(next)
     \/ /\ request.upload = "stream" /\ s.taken < MaxUpload
        /\ s' \in {[Supplies(place) EXCEPT !.wired = @ + 1],
                   [Supplies(onError) EXCEPT !.rc = "IO"]}
     \/ request.upload = "stream" /\ \E e \in errors : s' = ReadFails(onError, e)
  /\ UNCHANGED <<backend, request, net>>

(* A piece of the response for on_chunk or for the growing buffer.         *)
BodyPiece(place, onError, error) ==
  /\ s.pc = place
  /\ Arrives
  /\ IF request.streaming
     THEN s' \in {Stream(place), StreamFails(onError, error)}
     ELSE s' \in {[Store(place) EXCEPT !.held = @ \cup {"body"}], Fail(onError, "NOMEM")}
  /\ UNCHANGED <<backend, request>>

(* The message is complete; or the transfer fails.                          *)
BodyEnd(place, next) ==
  s.pc = place /\ Ends("whole") /\ s' = Goto(next) /\ UNCHANGED <<backend, request>>
BodyFails(place, onError, errors) ==
  /\ s.pc = place /\ Ends("cut") /\ \E e \in errors : s' = Fail(onError, e)
  /\ UNCHANGED <<backend, request>>

(* The first pieces of a response; all that have reached this side.         *)
Pieces(n) == [i \in 1..n |-> i]
Collected == Pieces(net.arrived)

Points(pointers) == [net EXCEPT !.fresh = @ \cup pointers, !.stale = @ \ pointers]
Unpoints(pointers) == [net EXCEPT !.fresh = @ \ pointers, !.stale = @ \ pointers]
=============================================================================
