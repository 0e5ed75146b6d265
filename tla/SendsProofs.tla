---------------------------- MODULE SendsProofs ----------------------------
(***************************************************************************)
(* The blocking sends of all backends, for any number of calls and pieces:  *)
(* each implements the contract of HttpClient.send, succeeds only with the  *)
(* whole message, and leaves nothing behind.                               *)
(***************************************************************************)
EXTENDS Sends, SequenceTheorems, TLAPS

CallRecord(c) ==
  c \in [pc : {c.pc}, held : {c.held}, rc : {SUCCESS} \cup Errors, res : BOOLEAN,
         body : Seq(Nat), given : Seq(Nat), taken : Nat, wired : Nat,
         sent : BOOLEAN, aborted : BOOLEAN, slips : {c.slips}]

Pointers == {"POSTFIELDS", "READDATA", "HTTPHEADER", "WRITEDATA"}
Flags == {"headers", "complete", "done", "timer", "resolve", "connect", "write", "read",
          "late"}
NetStates ==
  [arrived : 0..MaxBody, end : {"open", "whole", "cut"}, pending : SUBSET Flags,
   fresh : SUBSET Pointers, stale : SUBSET Pointers]

(* The application has asked to stop, and the backend knows.                *)
Aborted == s.aborted /\ s.slips \cap AbortLost = {}

GivenInOrder == \E n \in 0..MaxBody : GivenBody = Pieces(n)

(* At every place: what was taken was sent unless the call fails, a call    *)
(* that was aborted fails, and on_chunk got the first pieces in order.      *)
Honest ==
  /\ s.taken \in 0..MaxUpload
  /\ (s.rc = SUCCESS /\ s.slips \cap LostUpload = {}) => s.wired = s.taken
  /\ Aborted => s.rc # SUCCESS
  /\ GivenInOrder

(* A call that begins finds nothing of the one before, but for pointers.    *)
Fresh == s = FreshCall /\ net = [FreshNet EXCEPT !.stale = net.stale]

Common ==
  /\ CallRecord(s) /\ request \in Requests /\ net \in NetStates
  /\ Honest
  /\ s.pc = "begin" => Fresh

(* Nothing of a response; all of it that has arrived; the whole of it.      *)
Nothing == /\ s.given = <<>> /\ s.body = <<>> /\ net.arrived = 0 /\ net.end = "open"
           /\ s.rc = SUCCESS
Gathered == IF request.streaming THEN s.given = Collected /\ s.body = <<>>
                                 ELSE s.body = Collected /\ s.given = <<>>
Receiving == net.end = "open" /\ s.rc = SUCCESS /\ Gathered
Received == net.end = "whole" /\ s.rc = SUCCESS /\ Gathered

ResponseReceived == Succeeded => ReceivedWhole

(* The places before the body of the request has been passed on; behind     *)
(* them it has been, or the call fails or made one of the slips.            *)
Uploading ==
  {"begin", "winhttp_host", "winhttp_path", "winhttp_crack", "winhttp_connect",
   "winhttp_method", "winhttp_request", "winhttp_block", "winhttp_add",
   "winhttp_send_request", "winhttp_write", "wininet_host", "wininet_path",
   "wininet_crack", "wininet_connect", "wininet_proxy", "wininet_method",
   "wininet_request", "wininet_block", "wininet_add", "wininet_send_request",
   "wininet_write", "soup_body", "fetch_environment", "fetch_upload", "fetch_pieces",
   "wasm_headers", "wasm_upload", "wasm_pieces", "event_connection", "event_request",
   "event_body", "raw_resolve", "raw_socket", "raw_connect", "raw_writable", "raw_buffer",
   "raw_line", "raw_grow", "apple_request", "apple_body", "msh3_response", "msh3_resolve",
   "msh3_open", "msh3_mutex", "msh3_cond", "msh3_request", "uv_method", "uv_buffer",
   "uv_header_lines", "uv_body", "quic_connection"}
BodyPassed ==
  s.rc # SUCCESS \/ s.slips \cap LostUpload # {} \/ s.sent \/ backend = "curl"
UploadInv == s.pc \in Uploading \/ BodyPassed

(* What a call that has returned leaves.                                    *)
Left ==
  /\ ResponseReceived
  /\ s.slips \cap NotReleased = {} => s.held = {} /\ (s.rc # SUCCESS => ~s.res)

-----------------------------------------------------------------------------
(* The kinds of steps the contract knows.                                  *)
Quiet == /\ s.pc # "returned" /\ s'.pc # "returned"
         /\ GivenBody' = GivenBody /\ s'.taken = s.taken /\ Aborted' = Aborted
Takes == /\ s.pc # "returned" /\ s'.pc # "returned"
         /\ GivenBody' = GivenBody /\ ~Aborted
         /\ \/ s'.taken = s.taken + 1 /\ ~Aborted'
            \/ s'.taken = s.taken /\ Aborted'
Gives == /\ s.pc # "returned" /\ s'.pc # "returned"
         /\ s'.taken = s.taken /\ ~Aborted
         /\ \E n \in Len(GivenBody)..MaxBody : GivenBody' = Pieces(n)
Finishes == /\ s.pc # "returned" /\ s'.pc = "returned"
            /\ GivenBody' = GivenBody /\ s'.taken = s.taken
            /\ Aborted => Aborted'
            /\ s'.rc # SUCCESS \/ ~Aborted'
Kinds == Quiet \/ Takes \/ Gives \/ Finishes

Good == Common' /\ Kinds /\ UNCHANGED backend /\ (BodyPassed => BodyPassed')

(* A step that calls nothing of the application.                           *)
Eventless ==
  /\ CallRecord(s)' /\ s'.given = s.given /\ s'.body = s.body
  /\ s'.taken = s.taken /\ s'.wired = s.wired /\ s'.aborted = s.aborted
  /\ s.sent => s'.sent
Remains ==
  /\ s.pc # "returned" /\ s'.pc # "begin"
  /\ UNCHANGED <<backend, request>> /\ net' \in NetStates
  /\ s'.rc = s.rc \/ s'.rc # SUCCESS
  /\ s.slips \subseteq s'.slips
  /\ s'.slips \cap AbortLost \subseteq s.slips
Idle == net'.arrived = net.arrived /\ net'.end = net.end

LEMMA PiecesGrow ==
  /\ Pieces(0) = <<>>
  /\ \A n \in Nat : /\ Pieces(n) \in Seq(Nat) /\ Len(Pieces(n)) = n
                    /\ Append(Pieces(n), n + 1) = Pieces(n + 1)
<1>1. Pieces(0) = <<>>
  BY DEF Pieces
<1>2. ASSUME NEW n \in Nat
      PROVE  /\ Pieces(n) \in Seq(Nat) /\ Len(Pieces(n)) = n
             /\ Append(Pieces(n), n + 1) = Pieces(n + 1)
  BY DEF Pieces
<1> QED BY <1>1, <1>2

LEMMA EventlessIsGood ==
  ASSUME Common, Eventless, Remains
  PROVE  /\ Good /\ (s'.pc = "returned" => Finishes)
         /\ Idle /\ s'.rc = s.rc => /\ Nothing => Nothing'
                                    /\ Receiving => Receiving'
                                    /\ Received => Received'
         /\ Idle /\ Gathered => Gathered'
<1> USE SendBounds DEF SUCCESS, Errors, LostUpload, AbortLost
<1>1. GivenBody' = GivenBody /\ Aborted' = Aborted
  BY DEF GivenBody, Aborted, Eventless, Remains, Common, CallRecord
<1>2. GivenInOrder'
  BY <1>1 DEF GivenInOrder, Common, Honest, Pieces
<1>3. Honest'
  BY <1>1, <1>2 DEF Common, Honest, Eventless, Remains
<1>4. Common'
  BY <1>3 DEF Common, Eventless, Remains
<1>5. IF s'.pc = "returned" THEN Finishes ELSE Quiet
  BY <1>1 DEF Common, Honest, Eventless, Remains, Finishes, Quiet
<1>6. Idle => (Gathered <=> Gathered')
  BY DEF Idle, Gathered, Collected, Pieces, Eventless, Remains
<1>7. Idle /\ s'.rc = s.rc => (Nothing => Nothing') /\ (Receiving => Receiving') /\ (Received => Received')
  BY <1>6 DEF Idle, Eventless, Nothing, Receiving, Received
<1>8. BodyPassed => BodyPassed'
  BY DEF BodyPassed, Eventless, Remains
<1> QED BY <1>4, <1>5, <1>6, <1>7, <1>8 DEF Good, Kinds, Remains

(* What a call may hold and where it may be is each backend's; these say    *)
(* what its steps do to the rest.                                          *)
LEMMA Tried ==
  ASSUME Common, NEW place, NEW things, NEW next, NEW error \in Errors, NEW onError,
         place # "returned", next # "begin", onError # "begin",
         Try(place, things, next, error, onError)
  PROVE  /\ Eventless /\ Remains /\ s.pc = place /\ UNCHANGED net
         /\ s'.res = s.res /\ s'.slips = s.slips
         /\ \/ s'.pc = next /\ s'.held = s.held \cup things /\ s'.rc = s.rc
            \/ s'.pc = onError /\ s'.held = s.held /\ s'.rc = error
<1>1. s.pc = place /\ UNCHANGED <<backend, request, net>> /\ net' \in NetStates
  BY DEF Try, Common
<1>2. CASE s' = Hold(next, things)
  BY <1>1, <1>2 DEF Hold, Common, CallRecord, Eventless, Remains
<1>3. CASE s' = Fail(onError, error)
  BY <1>1, <1>3 DEF Fail, Common, CallRecord, Eventless, Remains, SUCCESS, Errors
<1> QED BY <1>2, <1>3 DEF Try

LEMMA ReturnsIs ==
  ASSUME Common, NEW call, Returns(call)
  PROVE  /\ s' = [call EXCEPT !.pc = "returned"]
         /\ net' \in NetStates /\ Idle
BY DEF Common, NetStates, Returns, Idle

LEMMA TriedOrLeft ==
  ASSUME Common, NEW place, NEW things, NEW next, NEW error \in Errors, NEW released,
         place # "returned", next # "begin",
         TryOrLeave(place, things, next, error, released)
  PROVE  /\ Eventless /\ Remains /\ s.pc = place /\ Idle
         /\ s'.res = s.res /\ s'.slips = s.slips
         /\ \/ s'.pc = next /\ s'.held = s.held \cup things /\ s'.rc = s.rc /\ UNCHANGED net
            \/ s'.pc = "returned" /\ s'.held = s.held \ released /\ s'.rc = error
<1>1. s.pc = place /\ UNCHANGED <<backend, request>> /\ net' \in NetStates /\ Idle
  <2>1. CASE UNCHANGED net
    BY <2>1 DEF TryOrLeave, Common, Idle
  <2>2. CASE Returns([s EXCEPT !.held = @ \ released, !.rc = error])
    BY <2>2, ReturnsIs DEF TryOrLeave
  <2> QED BY <2>1, <2>2 DEF TryOrLeave
<1>2. CASE s' = Hold(next, things) /\ UNCHANGED net
  BY <1>1, <1>2 DEF Hold, Common, CallRecord, Eventless, Remains
<1>3. CASE Returns([s EXCEPT !.held = @ \ released, !.rc = error])
  <2>1. s' = [s EXCEPT !.held = @ \ released, !.rc = error, !.pc = "returned"]
    BY <1>3, ReturnsIs
  <2> QED BY <1>1, <2>1 DEF Common, CallRecord, Eventless, Remains, SUCCESS, Errors
<1> QED BY <1>2, <1>3 DEF TryOrLeave

(* The body is passed on to its end, or is of a form nobody looks at.       *)
LEMMA PassesOnIs ==
  ASSUME Common, s.pc # "returned", NEW place, place # "begin", NEW things, NEW forms,
         s' = PassesOn(Hold(place, things), forms),
         UNCHANGED <<backend, request>>, net' \in NetStates
  PROVE  /\ Eventless /\ Remains /\ s'.pc = place /\ s'.held = s.held \cup things
         /\ s'.rc = s.rc /\ s'.res = s.res
<1>1. CASE s' = [Hold(place, things) EXCEPT !.sent = TRUE]
  BY <1>1 DEF Hold, Common, CallRecord, Eventless, Remains, AbortLost
<1>2. CASE s' = [Hold(place, things) EXCEPT !.slips = @ \cup {"body not sent"}]
  BY <1>2 DEF Hold, Common, CallRecord, Eventless, Remains, AbortLost
<1> QED BY <1>1, <1>2 DEF PassesOn

LEMMA BodySentIs ==
  ASSUME Common, s.pc # "returned", NEW place, place # "begin", NEW forms,
         s' = PassesOn(Goto(place), forms),
         UNCHANGED <<backend, request>>, net' \in NetStates
  PROVE  /\ Eventless /\ Remains /\ s'.pc = place /\ s'.held = s.held
         /\ s'.rc = s.rc /\ s'.res = s.res
<1>1. Goto(place) = Hold(place, {})
  BY DEF Goto, Hold, Common, CallRecord
<1>2. /\ Eventless /\ Remains /\ s'.pc = place /\ s'.held = s.held \cup {}
      /\ s'.rc = s.rc /\ s'.res = s.res
  BY <1>1, PassesOnIs
<1> QED BY <1>2

(* A call that returns with the whole message, or with an error.            *)
LEMMA LeftWhole ==
  ASSUME backend' # "raw", Honest', Received', s'.res, s'.held = {}
  PROVE  Left'
<1> USE DEF SUCCESS, LostUpload
<1>1. net'.end = "whole" /\ s'.rc = "SUCCESS" /\ Gathered'
  BY DEF Received
<1>2. (IF request.streaming THEN GivenBody ELSE s.body)' = Collected'
  BY <1>1 DEF Gathered, GivenBody
<1>3. (s'.slips \cap LostUpload = {}) => s'.wired = s'.taken
  BY <1>1 DEF Honest
<1>4. ResponseReceived'
  BY <1>1, <1>2, <1>3 DEF ResponseReceived, ReceivedWhole
<1> QED BY <1>1, <1>4 DEF Left

LEMMA LeftError ==
  ASSUME s'.rc # SUCCESS, s'.slips \cap NotReleased = {} => s'.held = {} /\ ~s'.res
  PROVE  Left'
BY DEF Left, ResponseReceived, ReceivedWhole, Succeeded, SUCCESS, NotReleased

(* read_chunk supplies a piece, or fails.                                   *)
Supplied ==
  /\ CallRecord(s)' /\ s'.given = s.given /\ s'.body = s.body /\ s'.aborted = s.aborted
  /\ s.taken < MaxUpload /\ s'.taken = s.taken + 1
  /\ \/ s'.wired = s.wired + 1
     \/ s'.rc # SUCCESS
     \/ "upload piece lost" \in s'.slips
  /\ s.sent => s'.sent
Refused ==
  /\ CallRecord(s)' /\ s'.given = s.given /\ s'.body = s.body
  /\ s'.taken = s.taken /\ s'.wired = s.wired /\ s'.aborted
  /\ s.sent => s'.sent

Continues ==
  /\ s.pc # "returned" /\ s'.pc \notin {"begin", "returned"}
  /\ UNCHANGED <<backend, request>> /\ net' \in NetStates
  /\ s'.rc = s.rc \/ s'.rc # SUCCESS
  /\ s.slips \subseteq s'.slips /\ s'.slips \ s.slips \subseteq {"upload piece lost"}

LEMMA SuppliedIsGood ==
  ASSUME Common, Supplied, Continues, s.rc = SUCCESS
  PROVE  /\ Good
         /\ Idle /\ s'.rc = s.rc => (Nothing => Nothing') /\ (Receiving => Receiving')
<1> USE SendBounds DEF SUCCESS, Errors, LostUpload, AbortLost
<1>1. GivenBody' = GivenBody /\ Aborted' = Aborted /\ ~Aborted
  BY DEF GivenBody, Aborted, Supplied, Continues, Common, Honest
<1>2. GivenInOrder'
  BY <1>1 DEF GivenInOrder, Common, Honest, Pieces
<1>3. s.taken \in 0..MaxUpload /\ s'.taken \in 0..MaxUpload
  <2>1. s.taken \in 0..MaxUpload /\ s.taken < MaxUpload /\ s'.taken = s.taken + 1
    BY DEF Common, Honest, Supplied
  <2> QED BY <2>1
<1>4. (s'.rc = SUCCESS /\ s'.slips \cap LostUpload = {}) => s'.wired = s'.taken
  BY DEF Common, Honest, Supplied, Continues
<1>5. Common'
  BY <1>1, <1>2, <1>3, <1>4 DEF Common, Honest, Supplied, Continues
<1>6. Takes
  BY <1>1 DEF Takes, Supplied, Continues
<1>7. Idle => (Gathered <=> Gathered')
  BY DEF Idle, Gathered, Collected, Pieces, Supplied, Continues
<1>8. Idle /\ s'.rc = s.rc => (Nothing => Nothing') /\ (Receiving => Receiving')
  BY <1>7 DEF Idle, Supplied, Nothing, Receiving
<1>9. BodyPassed => BodyPassed'
  BY DEF BodyPassed, Supplied, Continues
<1> QED BY <1>5, <1>6, <1>8, <1>9 DEF Good, Kinds, Continues

LEMMA RefusedIsGood ==
  ASSUME Common, Refused, Continues, s.rc = SUCCESS, s'.slips = s.slips,
         s'.rc # SUCCESS
  PROVE  Good
<1> USE SendBounds DEF SUCCESS, Errors, LostUpload, AbortLost
<1>1. GivenBody' = GivenBody /\ ~Aborted
  BY DEF GivenBody, Aborted, Refused, Continues, Common, Honest
<1>2. GivenInOrder'
  BY <1>1 DEF GivenInOrder, Common, Honest, Pieces
<1>3. Common'
  BY <1>1, <1>2 DEF Common, Honest, Refused, Continues
<1>4. IF Aborted' THEN Takes ELSE Quiet
  BY <1>1 DEF Takes, Quiet, Refused, Continues, Aborted
<1>5. BodyPassed => BodyPassed'
  BY DEF BodyPassed, Refused, Continues
<1> QED BY <1>3, <1>4, <1>5 DEF Good, Kinds, Continues

(* A piece for on_chunk, which may be its last; a piece for the buffer.     *)
Streamed ==
  /\ CallRecord(s)' /\ s'.given = Append(s.given, Piece) /\ s'.body = s.body
  /\ s'.taken = s.taken /\ s'.wired = s.wired
  /\ s'.aborted = s.aborted \/ s'.rc # SUCCESS
  /\ s.sent => s'.sent
Stored ==
  /\ CallRecord(s)' /\ s'.given = s.given /\ s'.body = Append(s.body, Piece)
  /\ s'.taken = s.taken /\ s'.wired = s.wired /\ s'.aborted = s.aborted
  /\ s.sent => s'.sent

More == net'.arrived = net.arrived + 1 /\ net'.end = net.end

LEMMA PieceFacts ==
  ASSUME Common
  PROVE  /\ Piece \in Nat /\ net.arrived \in 0..MaxBody
         /\ Collected \in Seq(Nat) /\ Len(Collected) = net.arrived
         /\ Append(Collected, Piece) = Pieces(net.arrived + 1)
         /\ More => Append(Collected, Piece) = Collected'
<1>1. net.arrived \in 0..MaxBody
  BY DEF Common, NetStates
<1>2. net.arrived \in Nat
  BY <1>1, SendBounds
<1>3. More => Pieces(net.arrived + 1) = Collected'
  BY DEF More, Collected, Pieces
<1>4. /\ Pieces(net.arrived) \in Seq(Nat) /\ Len(Pieces(net.arrived)) = net.arrived
      /\ Append(Pieces(net.arrived), net.arrived + 1) = Pieces(net.arrived + 1)
  BY <1>2, PiecesGrow
<1>5. Collected = Pieces(net.arrived) /\ Piece = net.arrived + 1 /\ Piece \in Nat
  BY <1>2 DEF Piece, Collected
<1>6. Append(Collected, Piece) = Pieces(net.arrived + 1)
  BY <1>4, <1>5
<1> QED BY <1>1, <1>3, <1>4, <1>5, <1>6

LEMMA NextPieceFits ==
  ASSUME Common, GivenBody = Collected, net.arrived < MaxBody
  PROVE  net.arrived + 1 \in Len(GivenBody)..MaxBody /\ net.arrived + 1 \in 0..MaxBody
BY PieceFacts, SendBounds

LEMMA ArrivesIs ==
  ASSUME Common, Arrives
  PROVE  More /\ net' \in NetStates /\ net.arrived < MaxBody /\ net.end = "open"
         /\ net'.pending = net.pending
<1>1. net.arrived \in 0..MaxBody /\ net.arrived < MaxBody
  BY DEF Common, NetStates, Arrives
<1>2. net.arrived + 1 \in 0..MaxBody
  BY <1>1, SendBounds
<1> QED BY <1>1, <1>2 DEF Common, NetStates, Arrives, More

LEMMA StreamedIsGood ==
  ASSUME Common, Streamed, Continues, s.rc = SUCCESS \/ ~Aborted, s'.slips = s.slips,
         request.streaming, Gathered, backend # "raw", net.arrived < MaxBody
  PROVE  /\ Good
         /\ More /\ Receiving /\ s'.rc = s.rc => Receiving'
<1> USE SendBounds DEF SUCCESS, Errors, LostUpload, AbortLost
<1>1. s.given = Collected /\ GivenBody = Collected /\ ~Aborted
  BY DEF GivenBody, Aborted, Common, Honest, Gathered
<1>2. GivenBody' = Pieces(net.arrived + 1)
  BY <1>1, PieceFacts DEF Streamed, Continues, GivenBody
<1>3. net.arrived + 1 \in Len(GivenBody)..MaxBody /\ net.arrived + 1 \in 0..MaxBody
  BY <1>1, NextPieceFits
<1>4. GivenInOrder'
  BY <1>2, <1>3 DEF GivenInOrder, Pieces
<1>5. Common'
  BY <1>1, <1>4 DEF Common, Honest, Streamed, Continues, Aborted
<1>6. Gives
  BY <1>1, <1>2, <1>3 DEF Gives, Streamed, Continues
<1>7. More /\ Receiving /\ s'.rc = s.rc => Receiving'
  <2>1. More => s'.given = Collected'
    BY <1>1, PieceFacts DEF Streamed
  <2> QED BY <2>1 DEF More, Receiving, Gathered, Streamed, Continues
<1>8. BodyPassed => BodyPassed'
  BY DEF BodyPassed, Streamed, Continues
<1> QED BY <1>5, <1>6, <1>7, <1>8 DEF Good, Kinds, Continues

LEMMA StoredIsGood ==
  ASSUME Common, Stored, Remains, s'.pc # "returned"
  PROVE  /\ Good
         /\ More /\ Receiving /\ ~request.streaming /\ s'.rc = s.rc => Receiving'
<1> USE SendBounds DEF SUCCESS, Errors, LostUpload, AbortLost
<1>1. GivenBody' = GivenBody /\ Aborted' = Aborted
  BY DEF GivenBody, Aborted, Stored, Remains, Common, CallRecord
<1>2. GivenInOrder'
  BY <1>1 DEF GivenInOrder, Common, Honest, Pieces
<1>3. Common'
  BY <1>1, <1>2 DEF Common, Honest, Stored, Remains
<1>4. Quiet
  BY <1>1 DEF Quiet, Stored, Remains
<1>5. More /\ Receiving /\ ~request.streaming /\ s'.rc = s.rc => Receiving'
  <2>1. More /\ s.body = Collected => s'.body = Collected'
    BY PieceFacts DEF Stored
  <2> QED BY <2>1 DEF More, Receiving, Gathered, Stored, Remains
<1>6. BodyPassed => BodyPassed'
  BY DEF BodyPassed, Stored, Remains
<1> QED BY <1>3, <1>4, <1>5, <1>6 DEF Good, Kinds, Remains

(* The message begins, and ends.                                            *)
LEMMA NothingIsReceiving == Nothing => Receiving
BY PiecesGrow DEF Nothing, Receiving, Gathered, Collected

LEMMA EndsIs ==
  ASSUME Common, NEW how \in {"whole", "cut"}, Ends(how)
  PROVE  /\ net' \in NetStates /\ net'.arrived = net.arrived /\ net'.end = how
         /\ net'.pending = net.pending /\ net.end = "open"
BY DEF Common, NetStates, Ends

LEMMA WholeIsReceived ==
  ASSUME Common, Eventless, Remains, Receiving, s'.rc = s.rc, net'.arrived = net.arrived,
         net'.end = "whole"
  PROVE  Received'
BY DEF Receiving, Received, Gathered, Collected, Pieces, Eventless, Remains

(* The callbacks of the application.                                        *)
LEMMA SuppliesIs ==
  ASSUME Common, s.pc # "returned", NEW place, place \notin {"begin", "returned"},
         s.taken < MaxUpload, s' = [Supplies(place) EXCEPT !.wired = @ + 1],
         UNCHANGED <<backend, request>>, net' \in NetStates
  PROVE  /\ Supplied /\ Continues /\ s'.pc = place /\ s'.held = s.held
         /\ s'.rc = s.rc /\ s'.res = s.res /\ s'.slips = s.slips
<1>1. s' = [s EXCEPT !.pc = place, !.taken = s.taken + 1, !.wired = s.wired + 1]
  BY DEF Supplies, Common, CallRecord
<1>2. s.taken + 1 \in Nat /\ s.wired + 1 \in Nat
  BY DEF Common, CallRecord
<1> QED BY <1>1, <1>2 DEF Common, CallRecord, Supplied, Continues

LEMMA StreamIs ==
  ASSUME Common, s.pc # "returned", NEW place, place \notin {"begin", "returned"},
         s' = Stream(place), UNCHANGED <<backend, request>>, net' \in NetStates
  PROVE  /\ Streamed /\ Continues /\ s'.pc = place /\ s'.held = s.held
         /\ s'.res = s.res /\ s'.slips = s.slips /\ s'.rc = s.rc
<1>1. Append(s.given, Piece) \in Seq(Nat)
  <2>1. s.given \in Seq(Nat) /\ Piece \in Nat
    BY PieceFacts DEF Common, CallRecord
  <2> QED BY <2>1, AppendProperties
<1> QED BY <1>1 DEF Stream, Common, CallRecord, Streamed, Continues

LEMMA StreamFailsIs ==
  ASSUME Common, s.pc # "returned", NEW place, place \notin {"begin", "returned"},
         NEW error \in Errors, s' = StreamFails(place, error),
         UNCHANGED <<backend, request>>, net' \in NetStates
  PROVE  /\ Streamed /\ Continues /\ s'.pc = place /\ s'.held = s.held
         /\ s'.res = s.res /\ s'.slips = s.slips /\ s'.rc = error /\ s'.rc # SUCCESS
<1>1. Append(s.given, Piece) \in Seq(Nat)
  <2>1. s.given \in Seq(Nat) /\ Piece \in Nat
    BY PieceFacts DEF Common, CallRecord
  <2> QED BY <2>1, AppendProperties
<1> QED BY <1>1 DEF StreamFails, Common, CallRecord, Streamed, Continues, SUCCESS, Errors

LEMMA StoreIs ==
  ASSUME Common, s.pc # "returned", NEW place, place \notin {"begin", "returned"},
         NEW things, s' = [Store(place) EXCEPT !.held = @ \cup things],
         UNCHANGED <<backend, request>>, net' \in NetStates
  PROVE  /\ Stored /\ Remains /\ s'.pc = place /\ s'.held = s.held \cup things
         /\ s'.rc = s.rc /\ s'.res = s.res /\ s'.slips = s.slips
<1>1. Append(s.body, Piece) \in Seq(Nat)
  <2>1. s.body \in Seq(Nat) /\ Piece \in Nat
    BY PieceFacts DEF Common, CallRecord
  <2> QED BY <2>1, AppendProperties
<1> QED BY <1>1 DEF Store, Common, CallRecord, Stored, Remains

LEMMA PlainStore ==
  ASSUME Common, NEW place
  PROVE  Store(place) = [Store(place) EXCEPT !.held = @ \cup {}]
BY DEF Store, Common, CallRecord

-----------------------------------------------------------------------------
(* The steps that several backends share, each as a whole.                  *)
HoldsOnly(things) == s.held \subseteq things
Acquires(things) == s'.held = s.held \cup things

LEMMA TryStep ==
  ASSUME NEW place, NEW things, NEW next, NEW error \in Errors, NEW onError,
         Try(place, things, next, error, onError), Common, Nothing, ~s.res,
         place # "returned", next # "begin", next # "returned",
         onError # "begin", onError # "returned"
  PROVE  /\ Good /\ s.pc = place /\ UNCHANGED net /\ ~s'.res /\ s'.slips = s.slips
         /\ \/ s'.pc = next /\ Acquires(things) /\ Nothing' /\ Receiving'
            \/ s'.pc = onError /\ Acquires({}) /\ s'.rc # SUCCESS
<1>1. /\ Eventless /\ Remains /\ s.pc = place /\ UNCHANGED net
      /\ s'.res = s.res /\ s'.slips = s.slips
      /\ \/ s'.pc = next /\ s'.held = s.held \cup things /\ s'.rc = s.rc
         \/ s'.pc = onError /\ Acquires({}) /\ s'.rc = error
  BY Tried DEF Acquires
<1>2. Idle
  BY <1>1 DEF Idle
<1> QED BY <1>1, <1>2, EventlessIsGood, NothingIsReceiving DEF Acquires, SUCCESS, Errors

LEMMA TryOrLeaveStep ==
  ASSUME NEW place, NEW things, NEW next, NEW error \in Errors, NEW released,
         TryOrLeave(place, things, next, error, released),
         Common, Nothing, ~s.res, HoldsOnly(released),
         place # "returned", next # "begin", next # "returned"
  PROVE  /\ Good /\ s.pc = place /\ Idle /\ ~s'.res /\ s'.slips = s.slips
         /\ \/ /\ s'.pc = next /\ Acquires(things) /\ UNCHANGED net
               /\ Nothing' /\ Receiving'
            \/ s'.pc = "returned" /\ HoldsOnly({})' /\ Left'
<1>1. /\ Eventless /\ Remains /\ s.pc = place /\ Idle
      /\ s'.res = s.res /\ s'.slips = s.slips
      /\ \/ s'.pc = next /\ s'.held = s.held \cup things /\ s'.rc = s.rc /\ UNCHANGED net
         \/ s'.pc = "returned" /\ s'.held = s.held \ released /\ s'.rc = error
  BY TriedOrLeft
<1>2. s'.rc = error => s'.rc # SUCCESS
  BY DEF Acquires, SUCCESS, Errors
<1> QED BY <1>1, <1>2, EventlessIsGood, NothingIsReceiving, LeftError DEF HoldsOnly, Acquires

(* A call that fails and returns at once, because a callback failed maybe.  *)
LEMMA LeavesStep ==
  ASSUME NEW call, Returns(call), Common, s.pc # "returned",
         UNCHANGED <<backend, request>>, CallRecord(call), call.rc # SUCCESS,
         call.given = s.given, call.taken = s.taken, call.wired = s.wired,
         call.aborted \in {s.aborted, TRUE},
         s.slips \subseteq call.slips,
         call.slips \cap AbortLost \subseteq s.slips,
         call.slips \cap NotReleased = {} => call.held = {} /\ ~call.res
  PROVE  Good /\ s'.pc = "returned" /\ Left' /\ s'.held = call.held /\ Idle
<1> USE SendBounds DEF SUCCESS, Errors, LostUpload, AbortLost
<1>1. s' = [call EXCEPT !.pc = "returned"] /\ net' \in NetStates /\ Idle
  BY ReturnsIs
<1>2. /\ CallRecord(s)' /\ s'.pc = "returned" /\ s'.rc = call.rc /\ s'.held = call.held
      /\ s'.res = call.res /\ s'.slips = call.slips /\ s'.given = s.given
      /\ s'.taken = s.taken /\ s'.wired = s.wired /\ s'.aborted \in {s.aborted, TRUE}
  BY <1>1 DEF CallRecord
<1>3. GivenBody' = GivenBody /\ (Aborted => Aborted')
  BY <1>2 DEF GivenBody, Aborted, Common, CallRecord
<1>4. GivenInOrder'
  BY <1>3 DEF GivenInOrder, Common, Honest, Pieces
<1>5. Common'
  BY <1>1, <1>2, <1>4 DEF Common, Honest
<1>6. Finishes
  BY <1>2, <1>3 DEF Finishes
<1>7. Left'
  BY <1>2, LeftError
<1>8. BodyPassed => BodyPassed'
  BY <1>2 DEF BodyPassed, CallRecord
<1> QED BY <1>1, <1>2, <1>5, <1>6, <1>7, <1>8 DEF Good, Kinds

LEMMA UploadStep ==
  ASSUME NEW place, NEW next, NEW onError, NEW errors \in SUBSET Errors,
         UploadLoop(place, next, onError, errors), Common, Nothing, ~s.res,
         place # "begin", place # "returned", next # "begin", next # "returned",
         onError # "begin", onError # "returned"
  PROVE  /\ Good /\ s.pc = place /\ UNCHANGED net /\ ~s'.res /\ s'.held = s.held
         /\ \/ s'.pc \in {place, next} /\ Nothing' /\ Receiving'
            \/ s'.pc = onError /\ s'.rc # SUCCESS
<1> USE DEF SUCCESS, Errors
<1>1. s.pc = place /\ UNCHANGED <<backend, request, net>> /\ net' \in NetStates /\ Idle
  BY DEF UploadLoop, Common, Idle
<1>2. s.rc = "SUCCESS"
  BY DEF Nothing
<1>3. CASE s' = BodySent(next)
  <2>1. /\ Eventless /\ Remains /\ s'.pc = next /\ s'.rc = s.rc /\ s'.held = s.held
        /\ s'.res = s.res
    BY <1>1, <1>3, BodySentIs DEF BodySent
  <2> QED BY <1>1, <2>1, EventlessIsGood, NothingIsReceiving
<1>4. CASE s.taken < MaxUpload /\ s' = [Supplies(place) EXCEPT !.wired = @ + 1]
  <2>1. /\ Supplied /\ Continues /\ s'.pc = place /\ s'.held = s.held
        /\ s'.rc = s.rc /\ s'.res = s.res /\ s'.slips = s.slips
    BY <1>1, <1>4, SuppliesIs
  <2> QED BY <1>1, <1>2, <2>1, SuppliedIsGood, NothingIsReceiving
<1>5. CASE s.taken < MaxUpload /\ s' = [Supplies(onError) EXCEPT !.rc = "IO"]
  <2>1. s.taken + 1 \in Nat
    BY DEF Common, CallRecord
  <2>2. s' = [s EXCEPT !.pc = onError, !.taken = s.taken + 1, !.rc = "IO"]
    BY <1>5 DEF Supplies, Common, CallRecord
  <2>3. /\ Supplied /\ Continues /\ s'.pc = onError /\ s'.held = s.held
        /\ s'.rc # "SUCCESS" /\ s'.res = s.res /\ s'.slips = s.slips
    BY <1>1, <1>5, <2>1, <2>2 DEF Common, CallRecord, Supplied, Continues
  <2> QED BY <1>1, <1>2, <2>3, SuppliedIsGood
<1>6. ASSUME NEW e \in errors, s' = ReadFails(onError, e)
      PROVE  /\ Good /\ s'.pc = onError /\ s'.rc # "SUCCESS" /\ s'.held = s.held
             /\ s'.res = s.res /\ s'.slips = s.slips
  <2>1. /\ Refused /\ Continues /\ s'.pc = onError /\ s'.rc # "SUCCESS"
        /\ s'.held = s.held /\ s'.res = s.res /\ s'.slips = s.slips
    BY <1>1, <1>6 DEF ReadFails, Common, CallRecord, Refused, Continues
  <2> QED BY <1>2, <2>1, RefusedIsGood
<1> QED BY <1>1, <1>3, <1>4, <1>5, <1>6 DEF UploadLoop

LEMMA PieceStep ==
  ASSUME NEW place, NEW onError, NEW error \in Errors,
         BodyPiece(place, onError, error), Common, Receiving, backend # "raw",
         place # "begin", place # "returned", onError # "begin", onError # "returned"
  PROVE  /\ Good /\ s.pc = place /\ s'.held \subseteq s.held \cup {"body"}
         /\ s'.res = s.res /\ s'.slips = s.slips /\ net'.pending = net.pending
         /\ \/ s'.pc = place /\ Receiving'
            \/ s'.pc = onError /\ s'.rc # SUCCESS
<1> USE DEF SUCCESS, Errors
<1>1. s.pc = place /\ UNCHANGED <<backend, request>> /\ s.rc = "SUCCESS" /\ Gathered
  BY DEF BodyPiece, Receiving
<1>2. /\ More /\ net' \in NetStates /\ net.arrived < MaxBody
      /\ net'.pending = net.pending
  BY ArrivesIs DEF BodyPiece
<1>3. CASE request.streaming /\ s' = Stream(place)
  <2>1. /\ Streamed /\ Continues /\ s'.pc = place /\ s'.held = s.held
        /\ s'.res = s.res /\ s'.slips = s.slips /\ s'.rc = s.rc
    BY <1>1, <1>2, <1>3, StreamIs
  <2> QED BY <1>1, <1>2, <1>3, <2>1, StreamedIsGood
<1>4. CASE request.streaming /\ s' = StreamFails(onError, error)
  <2>1. /\ Streamed /\ Continues /\ s'.pc = onError /\ s'.held = s.held
        /\ s'.res = s.res /\ s'.slips = s.slips /\ s'.rc # "SUCCESS"
    BY <1>1, <1>2, <1>4, StreamFailsIs
  <2> QED BY <1>1, <1>2, <1>4, <2>1, StreamedIsGood
<1>5. CASE ~request.streaming /\ s' = [Store(place) EXCEPT !.held = @ \cup {"body"}]
  <2>1. /\ Stored /\ Remains /\ s'.pc = place /\ s'.held = s.held \cup {"body"}
        /\ s'.rc = s.rc /\ s'.res = s.res /\ s'.slips = s.slips
    BY <1>1, <1>2, <1>5, StoreIs
  <2> QED BY <1>1, <1>2, <1>5, <2>1, StoredIsGood
<1>6. CASE s' = Fail(onError, "NOMEM")
  <2>1. /\ Eventless /\ Remains /\ s'.pc = onError /\ s'.rc # "SUCCESS"
        /\ s'.held = s.held /\ s'.res = s.res /\ s'.slips = s.slips
    BY <1>1, <1>2, <1>6 DEF Fail, Common, CallRecord, Eventless, Remains
  <2> QED BY <1>1, <1>2, <2>1, EventlessIsGood
<1> QED BY <1>3, <1>4, <1>5, <1>6 DEF BodyPiece

LEMMA PlainPieceStep ==
  ASSUME NEW place, NEW onError, NEW error \in Errors, NEW noMemory \in Errors,
         Arrives, IF request.streaming THEN s' \in {Stream(place), StreamFails(onError, error)}
                  ELSE s' \in {Store(place), Fail(onError, noMemory)},
         UNCHANGED <<backend, request>>, Common, Receiving, backend # "raw",
         s.pc = place, place # "begin", place # "returned", onError # "begin",
         onError # "returned"
  PROVE  /\ Good /\ s'.held = s.held /\ s'.res = s.res /\ s'.slips = s.slips
         /\ \/ s'.pc = place /\ Receiving'
            \/ s'.pc = onError /\ s'.rc # SUCCESS
<1> USE DEF SUCCESS, Errors
<1>1. s.pc = place /\ UNCHANGED <<backend, request>> /\ s.rc = "SUCCESS" /\ Gathered
  BY DEF Receiving
<1>2. More /\ net' \in NetStates /\ net.arrived < MaxBody
  BY ArrivesIs
<1>3. CASE request.streaming /\ s' = Stream(place)
  <2>1. /\ Streamed /\ Continues /\ s'.pc = place /\ s'.held = s.held
        /\ s'.res = s.res /\ s'.slips = s.slips /\ s'.rc = s.rc
    BY <1>1, <1>2, <1>3, StreamIs
  <2> QED BY <1>1, <1>2, <1>3, <2>1, StreamedIsGood
<1>4. CASE request.streaming /\ s' = StreamFails(onError, error)
  <2>1. /\ Streamed /\ Continues /\ s'.pc = onError /\ s'.held = s.held
        /\ s'.res = s.res /\ s'.slips = s.slips /\ s'.rc # "SUCCESS"
    BY <1>1, <1>2, <1>4, StreamFailsIs
  <2> QED BY <1>1, <1>2, <1>4, <2>1, StreamedIsGood
<1>5. CASE ~request.streaming /\ s' = Store(place)
  <2>1. /\ Stored /\ Remains /\ s'.pc = place /\ s'.held = s.held
        /\ s'.rc = s.rc /\ s'.res = s.res /\ s'.slips = s.slips
    <3>1. s' = [Store(place) EXCEPT !.held = @ \cup {}]
      BY <1>5, PlainStore
    <3>2. /\ Stored /\ Remains /\ s'.pc = place /\ s'.held = s.held \cup {}
          /\ s'.rc = s.rc /\ s'.res = s.res /\ s'.slips = s.slips
      BY <1>1, <1>2, <3>1, StoreIs
    <3> QED BY <3>2
  <2> QED BY <1>1, <1>2, <1>5, <2>1, StoredIsGood
<1>6. CASE s' = Fail(onError, noMemory)
  <2>1. /\ Eventless /\ Remains /\ s'.pc = onError /\ s'.rc # "SUCCESS"
        /\ s'.held = s.held /\ s'.res = s.res /\ s'.slips = s.slips
    BY <1>1, <1>2, <1>6 DEF Fail, Common, CallRecord, Eventless, Remains
  <2> QED BY <1>1, <1>2, <2>1, EventlessIsGood
<1> QED BY <1>3, <1>4, <1>5, <1>6

LEMMA EndStep ==
  ASSUME NEW place, NEW next, BodyEnd(place, next), Common, Receiving,
         place # "returned", next # "begin", next # "returned"
  PROVE  /\ Good /\ s.pc = place /\ s'.pc = next /\ s'.held = s.held
         /\ s'.res = s.res /\ s'.slips = s.slips /\ Received'
<1>1. s.pc = place /\ UNCHANGED <<backend, request>> /\ s' = Goto(next)
  BY DEF BodyEnd
<1>2. net' \in NetStates /\ net'.arrived = net.arrived /\ net'.end = "whole"
  BY EndsIs DEF BodyEnd
<1>3. /\ Eventless /\ Remains /\ s'.pc = next /\ s'.rc = s.rc /\ s'.held = s.held
      /\ s'.res = s.res /\ s'.slips = s.slips
  BY <1>1, <1>2 DEF Goto, Common, CallRecord, Eventless, Remains
<1>4. Received'
  BY <1>2, <1>3, WholeIsReceived
<1> QED BY <1>1, <1>3, <1>4, EventlessIsGood

LEMMA FailStep ==
  ASSUME NEW place, NEW onError, NEW errors \in SUBSET Errors,
         BodyFails(place, onError, errors), Common,
         place # "returned", onError # "begin", onError # "returned"
  PROVE  /\ Good /\ s.pc = place /\ s'.pc = onError /\ s'.held = s.held
         /\ s'.res = s.res /\ s'.slips = s.slips /\ s'.rc # SUCCESS
<1> USE DEF SUCCESS, Errors
<1>1. PICK e \in errors :
        /\ s.pc = place /\ UNCHANGED <<backend, request>> /\ s' = Fail(onError, e)
        /\ Ends("cut")
  BY DEF BodyFails
<1>2. net' \in NetStates
  BY <1>1, EndsIs
<1>3. /\ Eventless /\ Remains /\ s'.pc = onError /\ s'.rc # "SUCCESS" /\ s'.held = s.held
      /\ s'.res = s.res /\ s'.slips = s.slips
  BY <1>1, <1>2 DEF Fail, Common, CallRecord, Eventless, Remains
<1> QED BY <1>1, <1>3, EventlessIsGood

(* A call that begins, and one that returns before it acquired anything.    *)
LEMMA BeginIs ==
  ASSUME Common, s.pc = "begin"
  PROVE  /\ Nothing /\ ~s.res /\ s.held = {} /\ s.slips = {} /\ s.rc = SUCCESS
         /\ s.given = <<>> /\ s.body = <<>> /\ s.taken = 0 /\ s.wired = 0 /\ ~s.aborted
         /\ net.pending = {}
<1>1. s = FreshCall /\ net = [FreshNet EXCEPT !.stale = net.stale]
  BY DEF Common, Fresh
<1>2. net.arrived = 0 /\ net.end = "open" /\ net.pending = {}
  BY <1>1 DEF FreshNet
<1> QED BY <1>1, <1>2 DEF FreshCall, Nothing

LEMMA BeginLeaves ==
  ASSUME NEW error \in Errors, Returns([s EXCEPT !.rc = error]), Common, s.pc = "begin",
         UNCHANGED <<backend, request>>
  PROVE  Good /\ s'.pc = "returned" /\ Left' /\ s'.held = {} /\ ~s'.res
<1> USE DEF SUCCESS, Errors
<1>1. s' = [[s EXCEPT !.rc = error] EXCEPT !.pc = "returned"] /\ net' \in NetStates /\ Idle
  BY ReturnsIs
<1>2. ~s.res /\ s.held = {}
  BY BeginIs
<1>3. /\ Eventless /\ Remains /\ s'.pc = "returned" /\ s'.rc # "SUCCESS"
      /\ s'.held = {} /\ ~s'.res
  BY <1>1, <1>2 DEF Common, CallRecord, Eventless, Remains
<1> QED BY <1>3, EventlessIsGood, LeftError

(* A step that calls nothing of the application, whatever it does to the    *)
(* buffer.                                                                 *)
LEMMA BufferIsGood ==
  ASSUME Common, CallRecord(s)', s'.given = s.given, s'.taken = s.taken,
         s'.wired = s.wired, s'.aborted = s.aborted, s.sent => s'.sent, Remains
  PROVE  Good
<1> USE SendBounds DEF SUCCESS, Errors, LostUpload, AbortLost
<1>1. GivenBody' = GivenBody /\ Aborted' = Aborted
  BY DEF GivenBody, Aborted, Remains, Common, CallRecord
<1>2. GivenInOrder'
  BY <1>1 DEF GivenInOrder, Common, Honest, Pieces
<1>3. Common'
  BY <1>1, <1>2 DEF Common, Honest, Remains
<1>4. IF s'.pc = "returned" THEN Finishes ELSE Quiet
  BY <1>1 DEF Common, Honest, Remains, Finishes, Quiet
<1>5. BodyPassed => BodyPassed'
  BY DEF BodyPassed, Remains
<1> QED BY <1>3, <1>4, <1>5 DEF Good, Kinds, Remains

(* Libraries that collect the response: nothing is passed on until the      *)
(* message has ended, then all of it at once.                              *)
Waiting == s.given = <<>> /\ s.body = <<>> /\ s.rc = SUCCESS

GivenAtOnce ==
  /\ CallRecord(s)' /\ s'.given = Collected /\ s'.body = s.body
  /\ s'.taken = s.taken /\ s'.wired = s.wired
  /\ s'.aborted = s.aborted \/ s'.rc # SUCCESS
  /\ s.sent => s'.sent
StoredAtOnce ==
  /\ CallRecord(s)' /\ s'.given = s.given /\ s'.body = Collected
  /\ s'.taken = s.taken /\ s'.wired = s.wired /\ s'.aborted = s.aborted
  /\ s.sent => s'.sent

LEMMA GivenAtOnceIsGood ==
  ASSUME Common, Waiting, GivenAtOnce, Continues, s'.slips = s.slips, backend # "raw",
         request.streaming, UNCHANGED net
  PROVE  Good /\ Gathered'
<1> USE SendBounds DEF SUCCESS, Errors, LostUpload, AbortLost
<1>1. s.rc = "SUCCESS" /\ ~Aborted /\ s.given = <<>> /\ s.body = <<>>
  BY DEF Waiting, Aborted, Common, Honest
<1>2. /\ Collected = Pieces(net.arrived) /\ net.arrived \in 0..MaxBody
      /\ net.arrived \in Len(<<>>)..MaxBody
  BY PieceFacts DEF Collected
<1>3. GivenBody = <<>> /\ GivenBody' = Pieces(net.arrived)
  BY <1>1, <1>2 DEF GivenBody, GivenAtOnce, Continues
<1>4. GivenInOrder'
  BY <1>2, <1>3 DEF GivenInOrder, Pieces
<1>5. Common'
  BY <1>1, <1>4 DEF Common, Honest, GivenAtOnce, Continues, Aborted
<1>6. Gives
  BY <1>1, <1>2, <1>3 DEF Gives, GivenAtOnce, Continues
<1>7. Gathered'
  BY <1>1 DEF Gathered, GivenAtOnce, Continues, Collected, Pieces
<1>8. BodyPassed => BodyPassed'
  BY DEF BodyPassed, GivenAtOnce, Continues
<1> QED BY <1>5, <1>6, <1>7, <1>8 DEF Good, Kinds, Continues

LEMMA StoredAtOnceIsGood ==
  ASSUME Common, Waiting, StoredAtOnce, Remains, s'.pc # "returned", backend # "raw",
         ~request.streaming, UNCHANGED net
  PROVE  Good /\ Gathered'
<1> USE SendBounds DEF SUCCESS, Errors, LostUpload, AbortLost
<1>1. GivenBody' = GivenBody /\ Aborted' = Aborted
  BY DEF GivenBody, Aborted, StoredAtOnce, Remains, Common, CallRecord
<1>2. GivenInOrder'
  BY <1>1 DEF GivenInOrder, Common, Honest, Pieces
<1>3. Common'
  BY <1>1, <1>2 DEF Common, Honest, StoredAtOnce, Remains
<1>4. Quiet
  BY <1>1 DEF Quiet, StoredAtOnce, Remains
<1>5. Gathered'
  BY DEF Waiting, Gathered, StoredAtOnce, Remains, Collected, Pieces
<1>6. BodyPassed => BodyPassed'
  BY DEF BodyPassed, StoredAtOnce, Remains
<1> QED BY <1>3, <1>4, <1>5, <1>6 DEF Good, Kinds, Remains

(* The connection ended, as the peer meant or not: where the two are not    *)
(* told apart the call succeeds, with all of a message that is whole.       *)
ReadToEnd == net.end # "open" /\ (net.end = "whole" => Gathered)

LEMMA LeftAtEnd ==
  ASSUME backend' \in ReadsToEof, backend' # "raw", Honest', ReadToEnd', net' \in NetStates,
         s'.res, s'.held = {}, s'.rc = SUCCESS
  PROVE  Left'
<1> USE DEF SUCCESS, LostUpload
<1>1. net'.end \in {"whole", "cut"}
  BY DEF ReadToEnd, NetStates
<1>2. net'.end = "whole" => (IF request.streaming THEN GivenBody ELSE s.body)' = Collected'
  BY DEF ReadToEnd, Gathered, GivenBody
<1>3. (s'.slips \cap LostUpload = {}) => s'.wired = s'.taken
  BY DEF Honest
<1>4. ResponseReceived'
  BY <1>1, <1>2, <1>3 DEF ResponseReceived, ReceivedWhole
<1> QED BY <1>4 DEF Left

(* An error of read_chunk that the backend does not look at.                *)
LEMMA IgnoredIsGood ==
  ASSUME NEW place, s' = [s EXCEPT !.pc = place, !.aborted = TRUE,
                                   !.slips = @ \cup {"upload error ignored"}],
         UNCHANGED <<backend, request, net>>, Common, Nothing,
         s.pc # "returned", place # "begin", place # "returned"
  PROVE  /\ Good /\ Nothing' /\ s'.pc = place /\ s'.held = s.held /\ s'.res = s.res
<1> USE SendBounds DEF SUCCESS, Errors, LostUpload, AbortLost
<1>1. s.rc = "SUCCESS" /\ ~Aborted
  BY DEF Nothing, Aborted, Common, Honest
<1>2. /\ CallRecord(s)' /\ s'.pc = place /\ s'.rc = s.rc /\ s'.held = s.held
      /\ s'.res = s.res /\ s'.slips = s.slips \cup {"upload error ignored"}
      /\ s'.given = s.given /\ s'.body = s.body /\ s'.taken = s.taken /\ s'.wired = s.wired
      /\ s'.sent = s.sent
  BY DEF Common, CallRecord
<1>3. GivenBody' = GivenBody /\ ~Aborted'
  <2>1. GivenBody' = GivenBody
    BY <1>2 DEF GivenBody
  <2>2. "upload error ignored" \in s'.slips \cap AbortLost
    BY <1>2
  <2> QED BY <2>1, <2>2 DEF Aborted
<1>4. GivenInOrder'
  BY <1>3 DEF GivenInOrder, Common, Honest, Pieces
<1>5. Common'
  BY <1>2, <1>3, <1>4 DEF Common, Honest
<1>6. Quiet
  <2>1. Aborted' = Aborted
    BY <1>1, <1>2, <1>3 DEF Aborted, Common, CallRecord
  <2> QED BY <1>2, <1>3, <2>1 DEF Quiet
<1>7. Nothing'
  BY <1>2 DEF Nothing
<1>8. BodyPassed => BodyPassed'
  BY <1>2 DEF BodyPassed, Common, CallRecord
<1> QED BY <1>2, <1>5, <1>6, <1>7, <1>8 DEF Good, Kinds

-----------------------------------------------------------------------------
(* libcurl.  Before it performs, every option of the reused handle that     *)
(* points to memory has been set for this call.                            *)
CurlInv ==
  /\ s.held \subseteq {"chunk", "headers", "response"}
  /\ s.pc \notin {"curl_perform", "curl_finish", "curl_fill", "curl_cleanup", "curl_unset",
                  "returned"} => Nothing /\ ~s.res
  /\ s.pc = "curl_perform" => Receiving /\ ~s.res
  /\ s.pc \in {"curl_finish", "curl_fill"} => (s.rc = SUCCESS => Received) /\ ~s.res
  /\ s.pc = "curl_fill" => s.rc = SUCCESS
  /\ s.pc = "curl_cleanup" => IF s.res THEN Received ELSE s.rc # SUCCESS
  /\ s.pc = "curl_unset" => s.rc # SUCCESS /\ ~s.res /\ "response" \notin s.held
  /\ s.pc \in {"curl_headers", "curl_write_options", "curl_perform"} =>
       net.stale \cap {"POSTFIELDS", "READDATA"} = {} /\ "response" \notin s.held
  /\ s.pc \in {"curl_write_options", "curl_perform"} => "HTTPHEADER" \notin net.stale
  /\ s.pc = "curl_perform" => "WRITEDATA" \notin net.stale
  /\ s.pc = "returned" => Left

LEMMA PointsIs ==
  ASSUME Common, NEW p, p \subseteq Pointers, net' = Points(p)
  PROVE  Idle /\ net' \in NetStates /\ net'.stale = net.stale \ p
BY DEF Common, NetStates, Points, Idle

LEMMA CurlSteps ==
  ASSUME backend = "curl", Common, CurlInv, curl_steps \/ curl_network
  PROVE  Good /\ CurlInv'
<1> USE SendBounds DEF SUCCESS, Errors, curl, At
<1>1. CASE setup_payload
  <2>1. s.pc = "begin" /\ UNCHANGED <<backend, request>> /\ Fresh
    BY <1>1 DEF setup_payload, Common
  <2>2. CASE UNCHANGED net /\ \E e \in {"INVAL", "NOMEM"} : s' = Fail("curl_unset", e)
    <3>1. /\ Eventless /\ Remains /\ s'.pc = "curl_unset" /\ s'.rc # "SUCCESS"
          /\ s'.held = s.held /\ s'.res = s.res
      BY <2>1, <2>2 DEF Fail, Common, CallRecord, Eventless, Remains
    <3> QED BY <2>1, <3>1, EventlessIsGood DEF CurlInv, Fresh, FreshCall
  <2>3. CASE /\ s' = Hold("curl_headers", {"chunk"})
             /\ \E f \in SUBSET Pointers :
                  net' = [net EXCEPT !.stale = @ \ {"POSTFIELDS", "READDATA"}, !.fresh = f]
    <3>1. /\ Idle /\ net' \in NetStates
          /\ net'.stale = net.stale \ {"POSTFIELDS", "READDATA"}
      BY <2>3 DEF Common, NetStates, Idle
    <3>2. /\ Eventless /\ Remains /\ s'.pc = "curl_headers" /\ s'.rc = s.rc
          /\ s'.held = s.held \cup {"chunk"} /\ s'.res = s.res
      BY <2>1, <2>3, <3>1 DEF Hold, Common, CallRecord, Eventless, Remains
    <3> QED BY <2>1, <3>1, <3>2, EventlessIsGood DEF CurlInv, Fresh, FreshCall
  <2>4. request.upload # "parts" => request.upload \in {"none", "body", "stream"}
    BY DEF Common, Requests
  <2>5. \A u \in {"none", "body", "stream"} :
          [none |-> {}, body |-> {"POSTFIELDS"}, stream |-> {"READDATA"}][u] \in SUBSET Pointers
    BY DEF Pointers
  <2> QED BY <1>1, <2>2, <2>3, <2>4, <2>5 DEF setup_payload
<1>2. CASE setup_headers
  <2>1. s.pc = "curl_headers" /\ UNCHANGED <<backend, request>>
    BY <1>2 DEF setup_headers
  <2>2. CASE s' = Hold("curl_write_options", {"headers"}) /\ net' = Points({"HTTPHEADER"})
    <3>1. Idle /\ net' \in NetStates /\ net'.stale = net.stale \ {"HTTPHEADER"}
      BY <2>2, PointsIs DEF Pointers
    <3>2. /\ Eventless /\ Remains /\ s'.pc = "curl_write_options" /\ s'.rc = s.rc
          /\ s'.held = s.held \cup {"headers"} /\ s'.res = s.res
      BY <2>1, <2>2, <3>1 DEF Hold, Common, CallRecord, Eventless, Remains
    <3> QED BY <2>1, <3>1, <3>2, EventlessIsGood DEF CurlInv
  <2>3. CASE s' = Fail("curl_unset", "NOMEM") /\ UNCHANGED net
    <3>1. /\ Eventless /\ Remains /\ s'.pc = "curl_unset" /\ s'.rc # "SUCCESS"
          /\ s'.held = s.held /\ s'.res = s.res
      BY <2>1, <2>3 DEF Fail, Common, CallRecord, Eventless, Remains
    <3> QED BY <2>1, <3>1, EventlessIsGood DEF CurlInv
  <2> QED BY <1>2, <2>2, <2>3 DEF setup_headers
<1>3. CASE setup_write_options
  <2>1. s.pc = "curl_write_options" /\ UNCHANGED <<backend, request>>
    BY <1>3 DEF setup_write_options
  <2>2. CASE s' = Goto("curl_perform") /\ net' = Points({"WRITEDATA"})
    <3>1. Idle /\ net' \in NetStates /\ net'.stale = net.stale \ {"WRITEDATA"}
      BY <2>2, PointsIs DEF Pointers
    <3>2. /\ Eventless /\ Remains /\ s'.pc = "curl_perform" /\ s'.rc = s.rc
          /\ s'.held = s.held /\ s'.res = s.res
      BY <2>1, <2>2, <3>1 DEF Goto, Common, CallRecord, Eventless, Remains
    <3>3. Receiving'
      BY <2>1, <3>1, <3>2, EventlessIsGood, NothingIsReceiving DEF CurlInv
    <3> QED BY <2>1, <3>1, <3>2, <3>3, EventlessIsGood DEF CurlInv
  <2>3. CASE s' = Fail("curl_unset", "IO") /\ UNCHANGED net
    <3>1. /\ Eventless /\ Remains /\ s'.pc = "curl_unset" /\ s'.rc # "SUCCESS"
          /\ s'.held = s.held /\ s'.res = s.res
      BY <2>1, <2>3 DEF Fail, Common, CallRecord, Eventless, Remains
    <3> QED BY <2>1, <3>1, EventlessIsGood DEF CurlInv
  <2> QED BY <1>3, <2>2, <2>3 DEF setup_write_options
<1>4. CASE send_setup_failed
  <2>1. s.pc = "curl_unset" /\ UNCHANGED <<backend, request>>
    BY <1>4 DEF send_setup_failed
  <2>2. s' = [Drop("returned", {"chunk", "headers"}) EXCEPT !.pc = "returned"] /\ Idle
        /\ net' \in NetStates
    BY <1>4, ReturnsIs DEF send_setup_failed
  <2>3. /\ Eventless /\ Remains /\ s'.pc = "returned" /\ s'.rc # "SUCCESS"
        /\ s'.held = {} /\ ~s'.res
    BY <2>1, <2>2 DEF Drop, Common, CallRecord, Eventless, Remains, CurlInv
  <2>4. Left'
    BY <2>3, LeftError DEF SUCCESS
  <2> QED BY <2>3, <2>4, EventlessIsGood DEF CurlInv
<1>5. CASE math_curl_read_callback
  <2>1. s.pc = "curl_perform" /\ UNCHANGED <<backend, request, net>> /\ s.rc = "SUCCESS"
        /\ net' \in NetStates /\ Idle
    BY <1>5 DEF math_curl_read_callback, CurlInv, Receiving, Common, Idle
  <2>2. CASE s.taken < MaxUpload /\ s' = [Supplies("curl_perform") EXCEPT !.wired = @ + 1]
    <3>1. /\ Supplied /\ Continues /\ s'.pc = "curl_perform" /\ s'.rc = s.rc
          /\ s'.held = s.held /\ s'.res = s.res
      BY <2>1, <2>2, SuppliesIs
    <3> QED BY <2>1, <3>1, SuppliedIsGood DEF CurlInv
  <2>3. CASE s' = ReadFails("curl_finish", "IO")
    <3>1. /\ Refused /\ Continues /\ s'.pc = "curl_finish" /\ s'.rc # "SUCCESS"
          /\ s'.held = s.held /\ s'.res = s.res /\ s'.slips = s.slips
      BY <2>1, <2>3 DEF ReadFails, Common, CallRecord, Refused, Continues
    <3> QED BY <2>1, <3>1, RefusedIsGood DEF CurlInv
  <2> QED BY <1>5, <2>2, <2>3 DEF math_curl_read_callback
<1>6. CASE math_write_memory_callback
  <2>1. s.pc = "curl_perform" /\ Receiving /\ ~s.res /\ net'.stale = net.stale
    BY <1>6 DEF math_write_memory_callback, CurlInv, Arrives, Common, NetStates
  <2>2. /\ Good /\ s'.held = s.held /\ s'.res = s.res
        /\ \/ s'.pc = "curl_perform" /\ Receiving'
           \/ s'.pc = "curl_finish" /\ s'.rc # SUCCESS
    BY <1>6, <2>1, PlainPieceStep DEF math_write_memory_callback
  <2> QED BY <2>1, <2>2 DEF CurlInv
<1>7. CASE curl_easy_perform
  <2>1. /\ s.pc = "curl_perform" /\ UNCHANGED <<backend, request>> /\ Receiving
        /\ s' = Goto("curl_finish") /\ Ends("whole")
    BY <1>7 DEF curl_easy_perform, BodyEnd, CurlInv
  <2>2. net' \in NetStates /\ net'.arrived = net.arrived /\ net'.end = "whole"
    BY <2>1, EndsIs
  <2>3. /\ Eventless /\ Remains /\ s'.pc = "curl_finish" /\ s'.rc = s.rc
        /\ s'.held = s.held /\ s'.res = s.res
    BY <2>1, <2>2 DEF Goto, Common, CallRecord, Eventless, Remains
  <2>4. Received'
    BY <2>1, <2>2, <2>3, WholeIsReceived
  <2> QED BY <2>1, <2>3, <2>4, EventlessIsGood DEF CurlInv
<1>8. CASE curl_easy_fails
  <2>1. PICK e \in Errors :
          /\ s.pc = "curl_perform" /\ UNCHANGED <<backend, request>>
          /\ s' = Fail("curl_finish", e) /\ Ends("cut")
    BY <1>8 DEF curl_easy_fails, BodyFails, ABSTRACT_HTTP_MAP_CURL_ERROR
  <2>2. net' \in NetStates
    BY <2>1, EndsIs
  <2>3. /\ Eventless /\ Remains /\ s'.pc = "curl_finish" /\ s'.rc # "SUCCESS"
        /\ s'.held = s.held /\ s'.res = s.res
    BY <2>1, <2>2 DEF Fail, Common, CallRecord, Eventless, Remains
  <2> QED BY <2>1, <2>3, EventlessIsGood DEF CurlInv
<1>9. CASE finish_response
  <2>1. s.pc = "curl_finish" /\ UNCHANGED <<backend, request, net>> /\ net' \in NetStates /\ Idle
    BY <1>9 DEF finish_response, Common, Idle
  <2>2. \/ s.rc = "SUCCESS" /\ s' = Hold("curl_fill", {"response"})
        \/ s' = Fail("curl_cleanup", "NOMEM")
        \/ s' = [Hold("curl_cleanup", {"response"}) EXCEPT !.rc = "NOMEM"]
        \/ s.rc # "SUCCESS" /\ s' = Goto("curl_cleanup")
    BY <1>9 DEF finish_response
  <2>3. /\ Eventless /\ Remains /\ s'.held \subseteq s.held \cup {"response"} /\ s'.res = s.res
        /\ \/ s.rc = "SUCCESS" /\ s'.rc = s.rc /\ s'.pc = "curl_fill"
           \/ s'.rc # "SUCCESS" /\ s'.pc = "curl_cleanup"
    <3>1. CASE s.rc = "SUCCESS" /\ s' = Hold("curl_fill", {"response"})
      BY <2>1, <3>1 DEF Hold, Common, CallRecord, Eventless, Remains
    <3>2. CASE s' = Fail("curl_cleanup", "NOMEM")
      BY <2>1, <3>2 DEF Fail, Common, CallRecord, Eventless, Remains
    <3>3. CASE s' = [Hold("curl_cleanup", {"response"}) EXCEPT !.rc = "NOMEM"]
      BY <2>1, <3>3 DEF Hold, Common, CallRecord, Eventless, Remains
    <3>4. CASE s.rc # "SUCCESS" /\ s' = Goto("curl_cleanup")
      BY <2>1, <3>4 DEF Goto, Common, CallRecord, Eventless, Remains
    <3> QED BY <2>2, <3>1, <3>2, <3>3, <3>4
  <2> QED BY <2>1, <2>3, EventlessIsGood DEF CurlInv
<1>10. CASE finish_fill
  <2>1. s.pc = "curl_fill" /\ UNCHANGED <<backend, request, net>> /\ net' \in NetStates /\ Idle
        /\ s' = [Drop("curl_cleanup", {"response", "chunk"}) EXCEPT !.res = TRUE]
    BY <1>10 DEF finish_fill, Common, Idle
  <2>2. /\ Eventless /\ Remains /\ s'.held \subseteq s.held /\ s'.res /\ s'.rc = s.rc
        /\ s'.pc = "curl_cleanup"
    BY <2>1 DEF Drop, Common, CallRecord, Eventless, Remains
  <2> QED BY <2>1, <2>2, EventlessIsGood DEF CurlInv
<1>11. CASE finish_cleanup
  <2>1. s.pc = "curl_cleanup" /\ UNCHANGED <<backend, request>>
    BY <1>11 DEF finish_cleanup
  <2>2. /\ s' = [Drop("returned", {"response", "headers", "chunk"}) EXCEPT !.pc = "returned"]
        /\ Idle /\ net' \in NetStates
    BY <1>11, ReturnsIs DEF finish_cleanup
  <2>3. /\ Eventless /\ Remains /\ s'.pc = "returned" /\ s'.rc = s.rc
        /\ s'.held = {} /\ s'.res = s.res
    BY <2>1, <2>2 DEF Drop, Common, CallRecord, Eventless, Remains, CurlInv
  <2>4. Left'
    BY <2>1, <2>2, <2>3, LeftError, LeftWhole, EventlessIsGood DEF CurlInv, Good, Common, Remains
  <2> QED BY <2>3, <2>4, EventlessIsGood DEF CurlInv
<1> QED BY <1>1, <1>2, <1>3, <1>4, <1>5, <1>6, <1>7, <1>8, <1>9, <1>10, <1>11
        DEF curl_steps, curl_network

-----------------------------------------------------------------------------
(* WinHTTP.  *res is set once the whole message has been read; an error     *)
(* that comes after that leaves it set.                                    *)
WinHttpLate == {"winhttp_read", "winhttp_response", "winhttp_cookies", "winhttp_cleanup",
                "returned"}
WinHttpHeld == WinHttpStrings \cup {"request", "connection"}

WinHttpInv ==
  /\ s.pc \notin WinHttpLate => Nothing /\ ~s.res
  /\ s.held \subseteq WinHttpHeld \cup (IF s.pc = "winhttp_cookies" THEN {"response"} ELSE {})
  /\ s.pc = "winhttp_host" => s.held \subseteq {"url"}
  /\ s.pc = "winhttp_path" => s.held \subseteq {"url", "host"}
  /\ s.pc = "winhttp_read" => Receiving /\ ~s.res
  /\ s.pc = "winhttp_response" => Received /\ ~s.res
  /\ s.pc = "winhttp_cookies" => Received /\ s.res
  /\ s.pc = "winhttp_cleanup" =>
       IF s.rc = SUCCESS THEN Received /\ s.res ELSE s.res => "response with error" \in s.slips
  /\ s.pc = "returned" => Left

(* A call of the library that fails goes to the one exit.                   *)
LEMMA WinHttpTries ==
  ASSUME NEW place, NEW things, NEW next, NEW error \in Errors,
         Try(place, things, next, error, "winhttp_cleanup"), Common, WinHttpInv,
         things \subseteq WinHttpHeld, place \notin WinHttpLate,
         next \notin WinHttpLate \ {"winhttp_read"},
         next # "begin", next # "winhttp_host", next # "winhttp_path"
  PROVE  Good /\ WinHttpInv'
<1> USE DEF WinHttpLate
<1>1. Nothing /\ ~s.res /\ s.held \subseteq WinHttpHeld
  BY DEF WinHttpInv, Try
<1>2. /\ Good /\ ~s'.res
      /\ \/ s'.pc = next /\ Acquires(things) /\ Nothing' /\ Receiving'
         \/ s'.pc = "winhttp_cleanup" /\ Acquires({}) /\ s'.rc # SUCCESS
  BY <1>1, TryStep
<1>3. CASE s'.pc = next
  BY <1>1, <1>2, <1>3 DEF WinHttpInv, Acquires
<1>4. CASE s'.pc = "winhttp_cleanup" /\ s'.rc # SUCCESS /\ Acquires({})
  BY <1>1, <1>2, <1>4 DEF WinHttpInv, SUCCESS, Acquires
<1> QED BY <1>2, <1>3, <1>4

LEMMA WinHttpSteps ==
  ASSUME backend = "winhttp", Common, WinHttpInv, winhttp_steps \/ winhttp_network
  PROVE  Good /\ WinHttpInv'
<1> USE DEF SUCCESS, winhttp, At, WinHttpLate, WinHttpHeld, WinHttpStrings
<1>0. "NOMEM" \in Errors /\ "INVAL" \in Errors /\ "IO" \in Errors /\ "callback" \in Errors
  BY DEF Errors
<1>1. CASE winhttp_strings
  <2>0. s.pc = "begin" => s.held = {}
    BY DEF Common, Fresh, FreshCall
  <2>1. CASE TryOrLeave("begin", {"url"}, "winhttp_host", "NOMEM", {})
    <3>1. HoldsOnly({}) /\ Nothing /\ ~s.res
      BY <2>0, <2>1 DEF WinHttpInv, TryOrLeave, HoldsOnly
    <3>2. /\ Good /\ ~s'.res
          /\ \/ s'.pc = "winhttp_host" /\ Acquires({"url"}) /\ Nothing'
             \/ s'.pc = "returned" /\ HoldsOnly({})' /\ Left'
      BY <1>0, <2>1, <3>1, TryOrLeaveStep
    <3> QED BY <3>1, <3>2 DEF WinHttpInv, HoldsOnly, Acquires
  <2>2. CASE TryOrLeave("winhttp_host", {"host"}, "winhttp_path", "NOMEM", {"url"})
    <3>1. HoldsOnly({"url"}) /\ Nothing /\ ~s.res
      BY <2>0, <2>2 DEF WinHttpInv, TryOrLeave, HoldsOnly
    <3>2. /\ Good /\ ~s'.res
          /\ \/ s'.pc = "winhttp_path" /\ Acquires({"host"}) /\ Nothing'
             \/ s'.pc = "returned" /\ HoldsOnly({})' /\ Left'
      BY <1>0, <2>2, <3>1, TryOrLeaveStep
    <3> QED BY <3>1, <3>2 DEF WinHttpInv, HoldsOnly, Acquires
  <2>3. CASE TryOrLeave("winhttp_path", {"path"}, "winhttp_crack", "NOMEM", {"url", "host"})
    <3>1. HoldsOnly({"url", "host"}) /\ Nothing /\ ~s.res
      BY <2>0, <2>3 DEF WinHttpInv, TryOrLeave, HoldsOnly
    <3>2. /\ Good /\ ~s'.res
          /\ \/ s'.pc = "winhttp_crack" /\ Acquires({"path"}) /\ Nothing'
             \/ s'.pc = "returned" /\ HoldsOnly({})' /\ Left'
      BY <1>0, <2>3, <3>1, TryOrLeaveStep
    <3> QED BY <3>1, <3>2 DEF WinHttpInv, HoldsOnly, Acquires
  <2> QED BY <1>1, <2>1, <2>2, <2>3 DEF winhttp_strings
<1>2. CASE winhttp_open
  <2>1. CASE Try("winhttp_crack", {}, "winhttp_connect", "INVAL", "winhttp_cleanup")
    BY <1>0, <2>1, WinHttpTries
  <2>2. CASE Try("winhttp_connect", {"connection"}, "winhttp_method", "IO", "winhttp_cleanup")
    BY <1>0, <2>2, WinHttpTries
  <2>3. CASE Try("winhttp_method", {}, "winhttp_request", "INVAL", "winhttp_cleanup")
    BY <1>0, <2>3, WinHttpTries
  <2>4. CASE Try("winhttp_request", {"request"}, "winhttp_block", "IO", "winhttp_cleanup")
    BY <1>0, <2>4, WinHttpTries
  <2> QED BY <1>2, <2>1, <2>2, <2>3, <2>4 DEF winhttp_open
<1>3. CASE winhttp_headers
  <2>1. CASE Try("winhttp_block", {"headers"}, "winhttp_add", "NOMEM", "winhttp_cleanup")
    BY <1>0, <2>1, WinHttpTries
  <2>2. CASE Try("winhttp_add", {}, "winhttp_send_request", "IO", "winhttp_cleanup")
    BY <1>0, <2>2, WinHttpTries
  <2> QED BY <1>3, <2>1, <2>2 DEF winhttp_headers
<1>4. CASE winhttp_upload
  <2>1. CASE Try("winhttp_send_request", {}, "winhttp_write", "IO", "winhttp_cleanup")
    BY <1>0, <2>1, WinHttpTries
  <2>2. CASE UploadLoop("winhttp_write", "winhttp_receive", "winhttp_cleanup", {"callback"})
    <3>1. Nothing /\ ~s.res
      BY <2>2 DEF WinHttpInv, UploadLoop
    <3>2. /\ Good /\ s.pc = "winhttp_write" /\ ~s'.res /\ s'.held = s.held
          /\ \/ s'.pc \in {"winhttp_write", "winhttp_receive"} /\ Nothing'
             \/ s'.pc = "winhttp_cleanup" /\ s'.rc # SUCCESS
      BY <1>0, <2>2, <3>1, UploadStep
    <3> QED BY <3>2 DEF WinHttpInv
  <2> QED BY <1>4, <2>1, <2>2 DEF winhttp_upload
<1>5. CASE WinHttpReceiveResponse
  <2>1. CASE Try("winhttp_receive", {}, "winhttp_buffer", "IO", "winhttp_cleanup")
    BY <1>0, <2>1, WinHttpTries
  <2>2. CASE Try("winhttp_buffer", {"read buffer"}, "winhttp_read", "NOMEM", "winhttp_cleanup")
    BY <1>0, <2>2, WinHttpTries
  <2> QED BY <1>5, <2>1, <2>2 DEF WinHttpReceiveResponse
<1>6. CASE BodyPiece("winhttp_read", "winhttp_cleanup", "callback")
  <2>1. Receiving /\ ~s.res
    BY <1>6 DEF BodyPiece, WinHttpInv
  <2>2. /\ Good /\ s.pc = "winhttp_read" /\ s'.held \subseteq s.held \cup {"body"}
        /\ ~s'.res
        /\ \/ s'.pc = "winhttp_read" /\ Receiving'
           \/ s'.pc = "winhttp_cleanup" /\ s'.rc # SUCCESS
    BY <1>0, <1>6, <2>1, PieceStep
  <2> QED BY <2>2 DEF WinHttpInv
<1>7. CASE BodyEnd("winhttp_read", "winhttp_response")
  <2>1. Receiving /\ ~s.res
    BY <1>7 DEF BodyEnd, WinHttpInv
  <2>2. /\ Good /\ s.pc = "winhttp_read" /\ s'.pc = "winhttp_response" /\ s'.held = s.held
        /\ ~s'.res /\ Received'
    BY <1>7, <2>1, EndStep
  <2> QED BY <2>2 DEF WinHttpInv
<1>8. CASE WinHttpReadFails
  <2>1. s.pc = "winhttp_read"
    BY <1>8 DEF WinHttpReadFails, BodyFails
  <2>2. /\ Good /\ s'.pc = "winhttp_cleanup" /\ s'.held = s.held
        /\ s'.res = s.res /\ s'.rc # SUCCESS
    BY <1>0, <1>8, FailStep DEF WinHttpReadFails
  <2> QED BY <2>1, <2>2 DEF WinHttpInv
<1>9. CASE winhttp_response
  <2>1. /\ s.pc = "winhttp_response" /\ UNCHANGED <<backend, request, net>>
        /\ net' \in NetStates /\ Idle
    BY <1>9 DEF winhttp_response, Common, Idle
  <2>2. /\ Eventless /\ Remains
        /\ \/ /\ s'.pc = "winhttp_cookies" /\ s'.res /\ s'.rc = s.rc
              /\ s'.held = s.held \cup {"response"}
           \/ /\ s'.pc = "winhttp_cleanup" /\ s'.res = s.res /\ s'.rc # "SUCCESS"
              /\ s'.held = s.held
    <3>1. CASE s' = [Hold("winhttp_cookies", {"response"}) EXCEPT !.res = TRUE]
      BY <2>1, <3>1 DEF Hold, Common, CallRecord, Eventless, Remains
    <3>2. CASE s' = Fail("winhttp_cleanup", "NOMEM")
      BY <1>0, <2>1, <3>2 DEF Fail, Common, CallRecord, Eventless, Remains
    <3> QED BY <1>9, <3>1, <3>2 DEF winhttp_response
  <2> QED BY <2>1, <2>2, EventlessIsGood DEF WinHttpInv
<1>10. CASE winhttp_cookies
  <2>1. /\ s.pc = "winhttp_cookies" /\ UNCHANGED <<backend, request, net>>
        /\ net' \in NetStates /\ Idle
    BY <1>10 DEF winhttp_cookies, Common, Idle
  <2>2. /\ Eventless /\ Remains /\ s'.pc = "winhttp_cleanup" /\ s'.res = s.res
        /\ s'.held \subseteq s.held \ {"response"}
        /\ s'.rc = s.rc \/ (s'.rc # "SUCCESS" /\ "response with error" \in s'.slips)
    <3>1. CASE s' = Drop("winhttp_cleanup", {"response", "body"})
      BY <2>1, <3>1 DEF Drop, Common, CallRecord, Eventless, Remains
    <3>2. CASE s' = [Drop("winhttp_cleanup", {"response"}) EXCEPT
                       !.rc = "INVAL", !.slips = @ \cup {"response with error"}]
      BY <1>0, <2>1, <3>2 DEF Drop, Common, CallRecord, Eventless, Remains, AbortLost
    <3> QED BY <1>10, <3>1, <3>2 DEF winhttp_cookies
  <2>3. Good /\ (s'.rc = s.rc => Received' /\ s'.res)
    BY <2>1, <2>2, EventlessIsGood DEF WinHttpInv
  <2>4. s.held \subseteq WinHttpHeld \cup {"response"} /\ s.rc = "SUCCESS"
    BY <2>1 DEF WinHttpInv, Received
  <2> QED BY <2>2, <2>3, <2>4 DEF WinHttpInv
<1>11. CASE winhttp_cleanup
  <2>1. s.pc = "winhttp_cleanup" /\ UNCHANGED <<backend, request>>
    BY <1>11 DEF winhttp_cleanup
  <2>2. /\ Eventless /\ Remains /\ s'.pc = "returned" /\ s'.held = {} /\ s'.res = s.res
        /\ Idle
        /\ s'.rc = s.rc \/ (s'.rc # "SUCCESS" /\ "response with error" \in s'.slips)
    <3>1. CASE Returns([s EXCEPT !.held = @ \ (WinHttpStrings \cup {"request", "connection"})])
      <4>1. /\ s' = [s EXCEPT !.held = @ \ WinHttpHeld, !.pc = "returned"]
            /\ net' \in NetStates /\ Idle
        BY <3>1, ReturnsIs
      <4> QED BY <2>1, <4>1 DEF Common, CallRecord, Eventless, Remains, WinHttpInv
    <3>2. CASE Returns([[s EXCEPT !.held = @ \ (WinHttpStrings \cup {"request", "connection"})]
                          EXCEPT !.rc = "IO", !.slips = @ \cup {"response with error"}])
      <4>1. /\ s' = [[[s EXCEPT !.held = @ \ (WinHttpStrings \cup {"request", "connection"})]
                      EXCEPT !.rc = "IO", !.slips = @ \cup {"response with error"}]
                      EXCEPT !.pc = "returned"]
            /\ net' \in NetStates /\ Idle
        BY <3>2, ReturnsIs
      <4> QED BY <1>0, <2>1, <4>1
              DEF Common, CallRecord, Eventless, Remains, WinHttpInv, AbortLost
    <3> QED BY <1>11, <3>1, <3>2 DEF winhttp_cleanup
  <2>3. Good
    BY <2>2, EventlessIsGood
  <2>4. CASE s'.rc = "SUCCESS"
    <3>1. Received' /\ s'.res /\ Honest' /\ backend' # "raw"
      BY <2>1, <2>2, <2>3, <2>4, EventlessIsGood DEF WinHttpInv, Good, Common
    <3> QED BY <2>2, <2>3, <3>1, LeftWhole DEF WinHttpInv
  <2>5. CASE s'.rc # "SUCCESS"
    <3>1. s'.slips \cap NotReleased = {} => s'.held = {} /\ ~s'.res
      BY <2>1, <2>2, <2>5 DEF WinHttpInv, NotReleased, Remains
    <3> QED BY <2>2, <2>3, <2>5, <3>1, LeftError DEF WinHttpInv
  <2> QED BY <2>4, <2>5
<1> QED BY <1>1, <1>2, <1>3, <1>4, <1>5, <1>6, <1>7, <1>8, <1>9, <1>10, <1>11
        DEF winhttp_steps, winhttp_network, WinHttpReadData

-----------------------------------------------------------------------------
(* WinINet sets *res with its last step but one.                            *)
WinInetLate == {"wininet_read", "wininet_response", "wininet_cleanup", "returned"}
WinInetHeld == WinInetStrings \cup {"request", "connection"}

WinInetInv ==
  /\ s.pc \notin WinInetLate => Nothing /\ ~s.res
  /\ s.held \subseteq WinInetHeld
  /\ s.pc = "wininet_read" => Receiving /\ ~s.res
  /\ s.pc = "wininet_response" => Received /\ ~s.res
  /\ s.pc = "wininet_cleanup" => IF s.rc = SUCCESS THEN Received /\ s.res ELSE ~s.res
  /\ s.pc = "returned" => Left

LEMMA WinInetTries ==
  ASSUME NEW place, NEW things, NEW next, NEW error \in Errors,
         Try(place, things, next, error, "wininet_cleanup"), Common, WinInetInv,
         things \subseteq WinInetHeld, place \notin WinInetLate,
         next \notin WinInetLate \ {"wininet_read"}, next # "begin"
  PROVE  Good /\ WinInetInv'
<1> USE DEF WinInetLate
<1>1. Nothing /\ ~s.res /\ s.held \subseteq WinInetHeld
  BY DEF WinInetInv, Try
<1>2. /\ Good /\ ~s'.res
      /\ \/ s'.pc = next /\ Acquires(things) /\ Nothing' /\ Receiving'
         \/ s'.pc = "wininet_cleanup" /\ Acquires({}) /\ s'.rc # SUCCESS
  BY <1>1, TryStep
<1>3. CASE s'.pc = next /\ Acquires(things) /\ Nothing' /\ Receiving'
  BY <1>1, <1>2, <1>3 DEF WinInetInv, Acquires
<1>4. CASE s'.pc = "wininet_cleanup" /\ s'.rc # SUCCESS /\ Acquires({})
  BY <1>1, <1>2, <1>4 DEF WinInetInv, SUCCESS, Acquires
<1> QED BY <1>2, <1>3, <1>4

LEMMA WinInetSteps ==
  ASSUME backend = "wininet", Common, WinInetInv, wininet_steps \/ wininet_network
  PROVE  Good /\ WinInetInv'
<1> USE DEF SUCCESS, wininet, At, WinInetLate, WinInetHeld, WinInetStrings
<1>0. "NOMEM" \in Errors /\ "INVAL" \in Errors /\ "IO" \in Errors /\ "callback" \in Errors
  BY DEF Errors
<1>1. CASE wininet_strings
  <2>0. s.pc = "begin" => Nothing /\ ~s.res /\ s.held = {} /\ s.slips = {}
    BY BeginIs
  <2>1. CASE /\ wininet("begin") /\ request.upload = "parts"
             /\ Returns([s EXCEPT !.rc = "INVAL"]) /\ UNCHANGED <<backend, request>>
    <3>1. Good /\ s'.pc = "returned" /\ Left' /\ s'.held = {}
      BY <1>0, <2>1, BeginLeaves
    <3> QED BY <3>1 DEF WinInetInv
  <2>2. CASE TryOrLeave("begin", {"url"}, "wininet_host", "NOMEM", {})
    <3>1. HoldsOnly({}) /\ Nothing /\ ~s.res
      BY <2>0, <2>2 DEF TryOrLeave, HoldsOnly
    <3>2. /\ Good /\ ~s'.res
          /\ \/ s'.pc = "wininet_host" /\ Acquires({"url"}) /\ Nothing'
             \/ s'.pc = "returned" /\ HoldsOnly({})' /\ Left'
      BY <1>0, <2>2, <3>1, TryOrLeaveStep
    <3> QED BY <3>1, <3>2 DEF WinInetInv, HoldsOnly, Acquires
  <2>3. CASE Try("wininet_host", {"host"}, "wininet_path", "NOMEM", "wininet_cleanup")
    BY <1>0, <2>3, WinInetTries
  <2>4. CASE Try("wininet_path", {"path"}, "wininet_crack", "NOMEM", "wininet_cleanup")
    BY <1>0, <2>4, WinInetTries
  <2> QED BY <1>1, <2>1, <2>2, <2>3, <2>4 DEF wininet_strings
<1>2. CASE wininet_open
  <2>1. CASE Try("wininet_crack", {}, "wininet_connect", "INVAL", "wininet_cleanup")
    BY <1>0, <2>1, WinInetTries
  <2>2. CASE Try("wininet_connect", {"connection"}, "wininet_proxy", "IO", "wininet_cleanup")
    BY <1>0, <2>2, WinInetTries
  <2>3. CASE Try("wininet_proxy", {}, "wininet_method", "IO", "wininet_cleanup")
    BY <1>0, <2>3, WinInetTries
  <2>4. CASE Try("wininet_method", {}, "wininet_request", "INVAL", "wininet_cleanup")
    BY <1>0, <2>4, WinInetTries
  <2>5. CASE Try("wininet_request", {"request"}, "wininet_block", "IO", "wininet_cleanup")
    BY <1>0, <2>5, WinInetTries
  <2> QED BY <1>2, <2>1, <2>2, <2>3, <2>4, <2>5 DEF wininet_open
<1>3. CASE wininet_headers
  <2>1. CASE Try("wininet_block", {"headers"}, "wininet_add", "NOMEM", "wininet_cleanup")
    BY <1>0, <2>1, WinInetTries
  <2>2. CASE Try("wininet_add", {}, "wininet_send_request", "IO", "wininet_cleanup")
    BY <1>0, <2>2, WinInetTries
  <2> QED BY <1>3, <2>1, <2>2 DEF wininet_headers
<1>4. CASE wininet_upload
  <2>1. CASE Try("wininet_send_request", {}, "wininet_write", "IO", "wininet_cleanup")
    BY <1>0, <2>1, WinInetTries
  <2>2. CASE UploadLoop("wininet_write", "wininet_end", "wininet_cleanup", {"callback"})
    <3>1. Nothing /\ ~s.res
      BY <2>2 DEF WinInetInv, UploadLoop
    <3>2. /\ Good /\ s.pc = "wininet_write" /\ ~s'.res /\ s'.held = s.held
          /\ \/ s'.pc \in {"wininet_write", "wininet_end"} /\ Nothing'
             \/ s'.pc = "wininet_cleanup" /\ s'.rc # SUCCESS
      BY <1>0, <2>2, <3>1, UploadStep
    <3> QED BY <3>2 DEF WinInetInv
  <2>3. CASE Try("wininet_end", {}, "wininet_receive", "IO", "wininet_cleanup")
    BY <1>0, <2>3, WinInetTries
  <2> QED BY <1>4, <2>1, <2>2, <2>3 DEF wininet_upload
<1>5. CASE HttpQueryInfo
  <2>1. CASE Try("wininet_receive", {}, "wininet_cookies", "IO", "wininet_cleanup")
    BY <1>0, <2>1, WinInetTries
  <2>2. CASE Try("wininet_cookies", {}, "wininet_buffer", "INVAL", "wininet_cleanup")
    BY <1>0, <2>2, WinInetTries
  <2>3. CASE Try("wininet_buffer", {"read buffer"}, "wininet_read", "NOMEM", "wininet_cleanup")
    BY <1>0, <2>3, WinInetTries
  <2> QED BY <1>5, <2>1, <2>2, <2>3 DEF HttpQueryInfo
<1>6. CASE BodyPiece("wininet_read", "wininet_cleanup", "callback")
  <2>1. Receiving /\ ~s.res
    BY <1>6 DEF BodyPiece, WinInetInv
  <2>2. /\ Good /\ s.pc = "wininet_read" /\ s'.held \subseteq s.held \cup {"body"}
        /\ ~s'.res
        /\ \/ s'.pc = "wininet_read" /\ Receiving'
           \/ s'.pc = "wininet_cleanup" /\ s'.rc # SUCCESS
    BY <1>0, <1>6, <2>1, PieceStep
  <2> QED BY <2>1, <2>2 DEF WinInetInv
<1>7. CASE BodyEnd("wininet_read", "wininet_response")
  <2>1. Receiving /\ ~s.res
    BY <1>7 DEF BodyEnd, WinInetInv
  <2>2. /\ Good /\ s.pc = "wininet_read" /\ s'.pc = "wininet_response" /\ s'.held = s.held
        /\ ~s'.res /\ Received'
    BY <1>7, <2>1, EndStep
  <2> QED BY <2>2 DEF WinInetInv
<1>8. CASE InternetReadFails
  <2>1. s.pc = "wininet_read"
    BY <1>8 DEF InternetReadFails, BodyFails
  <2>2. /\ Good /\ s'.pc = "wininet_cleanup" /\ s'.held = s.held
        /\ s'.res = s.res /\ s'.rc # SUCCESS
    BY <1>0, <1>8, FailStep DEF InternetReadFails
  <2> QED BY <2>1, <2>2 DEF WinInetInv
<1>9. CASE wininet_response
  <2>1. /\ s.pc = "wininet_response" /\ UNCHANGED <<backend, request, net>>
        /\ net' \in NetStates /\ Idle /\ s.rc = "SUCCESS"
    BY <1>9 DEF wininet_response, Common, Idle, WinInetInv, Received
  <2>2. /\ Eventless /\ Remains /\ s'.pc = "wininet_cleanup" /\ s'.held \subseteq s.held
        /\ \/ s'.res /\ s'.rc = s.rc
           \/ s'.res = s.res /\ s'.rc # "SUCCESS"
    <3>1. CASE s' = [Drop("wininet_cleanup", {"body"}) EXCEPT !.res = TRUE]
      BY <2>1, <3>1 DEF Drop, Common, CallRecord, Eventless, Remains
    <3>2. CASE s' = Fail("wininet_cleanup", "NOMEM")
      BY <1>0, <2>1, <3>2 DEF Fail, Common, CallRecord, Eventless, Remains
    <3> QED BY <1>9, <3>1, <3>2 DEF wininet_response
  <2> QED BY <2>1, <2>2, EventlessIsGood DEF WinInetInv
<1>10. CASE wininet_cleanup
  <2>1. s.pc = "wininet_cleanup" /\ UNCHANGED <<backend, request>>
    BY <1>10 DEF wininet_cleanup
  <2>2. /\ Eventless /\ Remains /\ s'.pc = "returned" /\ s'.held = {} /\ s'.res = s.res
        /\ Idle
        /\ s'.rc = s.rc \/ (s'.rc # "SUCCESS" /\ "response with error" \in s'.slips)
    <3>1. CASE Returns([s EXCEPT !.held = @ \ (WinInetStrings \cup {"request", "connection"})])
      <4>1. /\ s' = [s EXCEPT !.held = @ \ WinInetHeld, !.pc = "returned"]
            /\ net' \in NetStates /\ Idle
        BY <3>1, ReturnsIs
      <4> QED BY <2>1, <4>1 DEF Common, CallRecord, Eventless, Remains, WinInetInv
    <3>2. CASE Returns([[s EXCEPT !.held = @ \ (WinInetStrings \cup {"request", "connection"})]
                          EXCEPT !.rc = "IO", !.slips = @ \cup {"response with error"}])
      <4>1. /\ s' = [[[s EXCEPT !.held = @ \ (WinInetStrings \cup {"request", "connection"})]
                      EXCEPT !.rc = "IO", !.slips = @ \cup {"response with error"}]
                      EXCEPT !.pc = "returned"]
            /\ net' \in NetStates /\ Idle
        BY <3>2, ReturnsIs
      <4> QED BY <1>0, <2>1, <4>1
              DEF Common, CallRecord, Eventless, Remains, WinInetInv, AbortLost
    <3> QED BY <1>10, <3>1, <3>2 DEF wininet_cleanup
  <2>3. Good
    BY <2>2, EventlessIsGood
  <2>4. CASE s'.rc = "SUCCESS"
    <3>1. Received' /\ s'.res /\ Honest' /\ backend' # "raw"
      BY <2>1, <2>2, <2>3, <2>4, EventlessIsGood DEF WinInetInv, Good, Common
    <3> QED BY <2>2, <2>3, <3>1, LeftWhole DEF WinInetInv
  <2>5. CASE s'.rc # "SUCCESS"
    <3>1. s'.slips \cap NotReleased = {} => s'.held = {} /\ ~s'.res
      BY <2>1, <2>2, <2>5 DEF WinInetInv, NotReleased, Remains
    <3> QED BY <2>2, <2>3, <2>5, <3>1, LeftError DEF WinInetInv
  <2> QED BY <2>4, <2>5
<1> QED BY <1>1, <1>2, <1>3, <1>4, <1>5, <1>6, <1>7, <1>8, <1>9, <1>10
        DEF wininet_steps, wininet_network, InternetReadFile

-----------------------------------------------------------------------------
(* libsoup.  Nothing is passed on before the message is whole.              *)
SoupInv ==
  /\ s.held \subseteq {"bytes", "message"}
  /\ s.pc \notin {"soup_send", "soup_response", "soup_cleanup", "returned"} => Nothing /\ ~s.res
  /\ s.pc = "soup_send" => Waiting /\ net.end = "open" /\ ~s.res
  /\ s.pc = "soup_response" => Waiting /\ net.end = "whole" /\ ~s.res
  /\ s.pc = "soup_cleanup" => IF s.rc = SUCCESS THEN Received /\ s.res ELSE ~s.res
  /\ s.pc = "returned" => Left

LEMMA SoupSteps ==
  ASSUME backend = "libsoup3", Common, SoupInv, soup_steps \/ soup_network
  PROVE  Good /\ SoupInv'
<1> USE DEF SUCCESS, soup, At
<1>0. "NOMEM" \in Errors /\ "INVAL" \in Errors /\ "IO" \in Errors /\ "CANCELED" \in Errors
  BY DEF Errors
<1>1. CASE soup_message_new
  <2>1. s.pc = "begin" /\ UNCHANGED <<backend, request>>
    BY <1>1 DEF soup_message_new
  <2>2. CASE Returns([s EXCEPT !.rc = "INVAL"])
    <3>1. Good /\ s'.pc = "returned" /\ Left' /\ s'.held = {}
      BY <1>0, <2>1, <2>2, BeginLeaves
    <3> QED BY <3>1 DEF SoupInv
  <2>3. CASE s' = Hold("soup_body", {"message"}) /\ UNCHANGED net
    <3>1. net' \in NetStates /\ Idle
      BY <2>3 DEF Common, Idle
    <3>2. /\ Eventless /\ Remains /\ s'.pc = "soup_body" /\ s'.rc = s.rc
          /\ s'.held = s.held \cup {"message"} /\ s'.res = s.res
      BY <2>1, <2>3, <3>1 DEF Hold, Common, CallRecord, Eventless, Remains
    <3> QED BY <2>1, <3>1, <3>2, EventlessIsGood, BeginIs DEF SoupInv
  <2> QED BY <1>1, <2>2, <2>3 DEF soup_message_new
<1>2. CASE soup_set_body
  <2>1. /\ s.pc = "soup_body" /\ UNCHANGED <<backend, request, net>> /\ net' \in NetStates
        /\ Idle /\ s.rc = "SUCCESS" /\ Nothing /\ ~s.res
    BY <1>2 DEF soup_set_body, Common, Idle, SoupInv, Nothing
  <2>2. CASE s' = BodySent("soup_send")
    <3>1. /\ Eventless /\ Remains /\ s'.pc = "soup_send" /\ s'.rc = s.rc
          /\ s'.held = s.held /\ s'.res = s.res
      BY <2>1, <2>2, BodySentIs DEF BodySent
    <3>2. Good /\ Nothing'
      BY <2>1, <3>1, EventlessIsGood
    <3> QED BY <2>1, <3>1, <3>2 DEF SoupInv, Nothing, Waiting
  <2>3. CASE s.taken < MaxUpload /\ s' = [Supplies("soup_body") EXCEPT !.wired = @ + 1]
    <3>1. /\ Supplied /\ Continues /\ s'.pc = "soup_body" /\ s'.held = s.held
          /\ s'.rc = s.rc /\ s'.res = s.res /\ s'.slips = s.slips
      BY <2>1, <2>3, SuppliesIs
    <3> QED BY <2>1, <3>1, SuppliedIsGood DEF SoupInv
  <2>4. CASE s' = ReadFails("soup_cleanup", "IO")
    <3>1. /\ Refused /\ Continues /\ s'.pc = "soup_cleanup" /\ s'.rc # "SUCCESS"
          /\ s'.held = s.held /\ s'.res = s.res /\ s'.slips = s.slips
      BY <1>0, <2>1, <2>4 DEF ReadFails, Common, CallRecord, Refused, Continues, Errors
    <3> QED BY <2>1, <3>1, RefusedIsGood DEF SoupInv
  <2> QED BY <1>2, <2>2, <2>3, <2>4 DEF soup_set_body
<1>3. CASE soup_session_send_and_read
  <2>1. /\ s.pc = "soup_send" /\ UNCHANGED <<backend, request>>
        /\ Waiting /\ net.end = "open" /\ ~s.res
    BY <1>3 DEF soup_session_send_and_read, SoupInv
  <2>2. CASE Arrives /\ s' = s
    <3>1. net' \in NetStates /\ net'.end = "open"
      BY <2>1, <2>2, ArrivesIs DEF More
    <3>2. Eventless /\ Remains
      BY <2>1, <2>2, <3>1 DEF Common, CallRecord, Eventless, Remains
    <3> QED BY <2>1, <2>2, <3>1, <3>2, EventlessIsGood DEF SoupInv, Waiting
  <2>3. CASE Ends("whole") /\ s' = Hold("soup_response", {"bytes"})
    <3>1. net' \in NetStates /\ net'.end = "whole"
      BY <2>3, EndsIs
    <3>2. /\ Eventless /\ Remains /\ s'.pc = "soup_response" /\ s'.rc = s.rc
          /\ s'.held = s.held \cup {"bytes"} /\ s'.res = s.res
      BY <2>1, <2>3, <3>1 DEF Hold, Common, CallRecord, Eventless, Remains
    <3>3. Waiting'
      BY <2>1, <3>2 DEF Waiting, Eventless
    <3> QED BY <2>1, <3>1, <3>2, <3>3, EventlessIsGood DEF SoupInv
  <2> QED BY <1>3, <2>2, <2>3 DEF soup_session_send_and_read
<1>4. CASE soup_session_fails
  <2>1. s.pc = "soup_send" /\ ~s.res
    BY <1>4 DEF soup_session_fails, BodyFails, SoupInv
  <2>2. {"REFUSED", "TIMEOUT", "IO"} \in SUBSET Errors
    BY DEF Errors
  <2>3. /\ Good /\ s'.pc = "soup_cleanup" /\ s'.held = s.held
        /\ s'.res = s.res /\ s'.rc # SUCCESS
    BY <1>4, <2>2, FailStep DEF soup_session_fails
  <2> QED BY <2>1, <2>3 DEF SoupInv
<1>5. CASE soup_response
  <2>1. /\ s.pc = "soup_response" /\ UNCHANGED <<backend, request, net>> /\ net' \in NetStates
        /\ Idle /\ s.rc = "SUCCESS" /\ Waiting /\ net'.end = "whole" /\ ~s.res
        /\ Collected \in Seq(Nat)
    BY <1>5, PieceFacts DEF soup_response, Common, Idle, SoupInv, Waiting
  <2>2. CASE s' = Fail("soup_cleanup", "NOMEM")
    <3>1. /\ Eventless /\ Remains /\ s'.pc = "soup_cleanup" /\ s'.rc # "SUCCESS"
          /\ s'.held = s.held /\ s'.res = s.res
      BY <1>0, <2>1, <2>2 DEF Fail, Common, CallRecord, Eventless, Remains
    <3> QED BY <2>1, <3>1, EventlessIsGood DEF SoupInv
  <2>3. CASE /\ request.streaming
             /\ s' = [s EXCEPT !.pc = "soup_cleanup", !.given = Collected, !.res = TRUE]
    <3>1. /\ GivenAtOnce /\ Continues /\ s'.slips = s.slips /\ s'.rc = s.rc
          /\ s'.pc = "soup_cleanup" /\ s'.held = s.held /\ s'.res
      BY <2>1, <2>3 DEF Common, CallRecord, GivenAtOnce, Continues
    <3> QED BY <2>1, <2>3, <3>1, GivenAtOnceIsGood DEF SoupInv, Received
  <2>4. CASE /\ request.streaming
             /\ s' = [s EXCEPT !.pc = "soup_cleanup", !.given = Collected, !.aborted = TRUE,
                               !.rc = "CANCELED"]
    <3>1. /\ GivenAtOnce /\ Continues /\ s'.slips = s.slips /\ s'.rc # "SUCCESS"
          /\ s'.pc = "soup_cleanup" /\ s'.held = s.held /\ s'.res = s.res
      BY <1>0, <2>1, <2>4 DEF Common, CallRecord, GivenAtOnce, Continues
    <3> QED BY <2>1, <2>4, <3>1, GivenAtOnceIsGood DEF SoupInv
  <2>5. CASE /\ ~request.streaming
             /\ s' = [s EXCEPT !.pc = "soup_cleanup", !.body = Collected, !.res = TRUE]
    <3>1. /\ StoredAtOnce /\ Remains /\ s'.rc = s.rc
          /\ s'.pc = "soup_cleanup" /\ s'.held = s.held /\ s'.res
      BY <2>1, <2>5 DEF Common, CallRecord, StoredAtOnce, Remains
    <3> QED BY <2>1, <2>5, <3>1, StoredAtOnceIsGood DEF SoupInv, Received
  <2> QED BY <1>5, <2>2, <2>3, <2>4, <2>5 DEF soup_response
<1>6. CASE soup_cleanup
  <2>1. s.pc = "soup_cleanup" /\ UNCHANGED <<backend, request>>
    BY <1>6 DEF soup_cleanup
  <2>2. /\ s' = [Drop("returned", {"bytes", "message"}) EXCEPT !.pc = "returned"]
        /\ net' \in NetStates /\ Idle
    BY <1>6, ReturnsIs DEF soup_cleanup
  <2>3. /\ Eventless /\ Remains /\ s'.pc = "returned" /\ s'.rc = s.rc
        /\ s'.held = {} /\ s'.res = s.res
    BY <2>1, <2>2 DEF Drop, Common, CallRecord, Eventless, Remains, SoupInv
  <2>4. Good /\ Honest' /\ backend' # "raw"
    BY <2>1, <2>3, EventlessIsGood DEF Good, Common
  <2>5. CASE s.rc = "SUCCESS"
    <3>1. Received' /\ s'.res
      BY <2>1, <2>2, <2>3, <2>5, EventlessIsGood DEF SoupInv
    <3> QED BY <2>3, <2>4, <3>1, LeftWhole DEF SoupInv
  <2>6. CASE s.rc # "SUCCESS"
    BY <2>1, <2>3, <2>4, <2>6, LeftError DEF SoupInv
  <2> QED BY <2>5, <2>6
<1> QED BY <1>1, <1>2, <1>3, <1>4, <1>5, <1>6 DEF soup_steps, soup_network

-----------------------------------------------------------------------------
(* The fetch library.  It does not tell the end of the message from an      *)
(* error, so neither does the invariant.                                   *)
FetchInv ==
  /\ s.pc \notin {"fetch_read", "fetch_close", "returned"} => Nothing /\ ~s.res
  /\ s.pc \in {"fetch_environment", "fetch_upload"} => s.held \subseteq {"url"}
  /\ s.pc \in {"fetch_pieces", "fetch_request"} => s.held \subseteq {"url", "upload"}
  /\ s.pc = "fetch_response" => s.held \subseteq {"stream", "upload"}
  /\ s.pc \in {"fetch_read", "fetch_close"} => s.held \subseteq {"stream", "upload", "response"}
  /\ s.pc = "fetch_read" => Receiving /\ ~s.res
  /\ s.pc = "fetch_close" => ~s.res /\ (s.rc = SUCCESS => ReadToEnd)
  /\ s.pc = "returned" => Left

LEMMA FetchSteps ==
  ASSUME backend = "fetch", Common, FetchInv, fetch_steps \/ fetch_network
  PROVE  Good /\ FetchInv'
<1> USE DEF SUCCESS, fetch, At
<1>0. /\ "NOMEM" \in Errors /\ "INVAL" \in Errors /\ "IO" \in Errors /\ "TIMEOUT" \in Errors
      /\ "callback" \in Errors
  BY DEF Errors
<1>1. CASE fetch_parse_url
  <2>1. s.pc = "begin" /\ UNCHANGED <<backend, request>>
    BY <1>1 DEF fetch_parse_url
  <2>2. CASE Returns([s EXCEPT !.rc = "INVAL"])
    <3>1. Good /\ s'.pc = "returned" /\ Left'
      BY <1>0, <2>1, <2>2, BeginLeaves
    <3> QED BY <3>1 DEF FetchInv
  <2>3. CASE s' = Hold("fetch_environment", {"url"}) /\ UNCHANGED net
    <3>1. net' \in NetStates /\ Idle
      BY <2>3 DEF Common, Idle
    <3>2. /\ Eventless /\ Remains /\ s'.pc = "fetch_environment" /\ s'.rc = s.rc
          /\ s'.held = s.held \cup {"url"} /\ s'.res = s.res
      BY <2>1, <2>3, <3>1 DEF Hold, Common, CallRecord, Eventless, Remains
    <3> QED BY <2>1, <3>1, <3>2, EventlessIsGood, BeginIs DEF FetchInv
  <2> QED BY <1>1, <2>2, <2>3 DEF fetch_parse_url
<1>2. CASE fetch_setenv
  <2>1. s.pc = "fetch_environment" /\ UNCHANGED <<backend, request>>
    BY <1>2 DEF fetch_setenv
  <2>2. net' \in NetStates /\ Idle
    BY <1>2 DEF fetch_setenv, Common, Idle
  <2>3. /\ Eventless /\ Remains /\ s'.pc = "fetch_upload" /\ s'.rc = s.rc
        /\ s'.held = s.held /\ s'.res = s.res
    BY <1>2, <2>1, <2>2 DEF fetch_setenv, Goto, Common, CallRecord, Eventless, Remains
  <2> QED BY <2>1, <2>2, <2>3, EventlessIsGood DEF FetchInv
<1>3. CASE /\ fetch("fetch_upload") /\ request.upload # "stream"
           /\ s' = BodySent("fetch_request") /\ UNCHANGED <<backend, request, net>>
  <2>1. net' \in NetStates /\ Idle
    BY <1>3 DEF Common, Idle
  <2>2. /\ Eventless /\ Remains /\ s'.pc = "fetch_request" /\ s'.rc = s.rc
        /\ s'.held = s.held /\ s'.res = s.res
    BY <1>3, <2>1, BodySentIs DEF BodySent
  <2> QED BY <1>3, <2>1, <2>2, EventlessIsGood DEF FetchInv
<1>4. CASE TryOrLeave("fetch_upload", {"upload"}, "fetch_pieces", "NOMEM", {"url"})
  <2>1. HoldsOnly({"url"}) /\ Nothing /\ ~s.res
    BY <1>4 DEF TryOrLeave, HoldsOnly, FetchInv
  <2>2. /\ Good /\ ~s'.res
        /\ \/ s'.pc = "fetch_pieces" /\ Acquires({"upload"}) /\ Nothing'
           \/ s'.pc = "returned" /\ Left'
    BY <1>0, <1>4, <2>1, TryOrLeaveStep
  <2> QED BY <2>1, <2>2 DEF FetchInv, HoldsOnly, Acquires
<1>5. CASE /\ fetch("fetch_pieces") /\ UNCHANGED <<backend, request>>
           /\ \/ s' = BodySent("fetch_request") /\ UNCHANGED net
              \/ /\ s.taken < MaxUpload /\ UNCHANGED net
                 /\ s' = [Supplies("fetch_pieces") EXCEPT !.wired = @ + 1]
              \/ s.taken < MaxUpload
                 /\ Returns([Drop("", {"upload", "url"}) EXCEPT !.rc = "NOMEM"])
              \/ Returns([Drop("", {"upload", "url"}) EXCEPT !.rc = "callback",
                                                             !.aborted = TRUE])
  <2>1. /\ s.pc = "fetch_pieces" /\ UNCHANGED <<backend, request>> /\ Nothing /\ ~s.res
        /\ s.held \subseteq {"url", "upload"} /\ s.rc = "SUCCESS"
    BY <1>5 DEF FetchInv, Nothing
  <2>2. CASE s' = BodySent("fetch_request") /\ UNCHANGED net
    <3>1. net' \in NetStates /\ Idle
      BY <2>2 DEF Common, Idle
    <3>2. /\ Eventless /\ Remains /\ s'.pc = "fetch_request" /\ s'.rc = s.rc
          /\ s'.held = s.held /\ s'.res = s.res
      BY <2>1, <2>2, <3>1, BodySentIs DEF BodySent
    <3> QED BY <2>1, <3>1, <3>2, EventlessIsGood DEF FetchInv
  <2>3. CASE /\ s.taken < MaxUpload /\ UNCHANGED net
             /\ s' = [Supplies("fetch_pieces") EXCEPT !.wired = @ + 1]
    <3>1. net' \in NetStates /\ Idle
      BY <2>3 DEF Common, Idle
    <3>2. /\ Supplied /\ Continues /\ s'.pc = "fetch_pieces" /\ s'.held = s.held
          /\ s'.rc = s.rc /\ s'.res = s.res /\ s'.slips = s.slips
      BY <2>1, <2>3, <3>1, SuppliesIs
    <3> QED BY <2>1, <3>1, <3>2, SuppliedIsGood DEF FetchInv
  <2>4. CASE Returns([Drop("", {"upload", "url"}) EXCEPT !.rc = "NOMEM"])
    <3> DEFINE call == [Drop("", {"upload", "url"}) EXCEPT !.rc = "NOMEM"]
    <3>1. /\ CallRecord(call) /\ call.rc = "NOMEM" /\ call.given = s.given
          /\ call.body = s.body /\ call.taken = s.taken /\ call.wired = s.wired
          /\ call.aborted = s.aborted /\ call.slips = s.slips /\ call.held = {} /\ ~call.res
      BY <1>0, <2>1 DEF Drop, Common, CallRecord
    <3> HIDE DEF call
    <3>2. Good /\ s'.pc = "returned" /\ Left'
      BY <2>1, <2>4, <3>1, LeavesStep DEF call
    <3> QED BY <3>2 DEF FetchInv
  <2>5. CASE Returns([Drop("", {"upload", "url"}) EXCEPT !.rc = "callback", !.aborted = TRUE])
    <3> DEFINE call == [Drop("", {"upload", "url"}) EXCEPT !.rc = "callback", !.aborted = TRUE]
    <3>1. /\ CallRecord(call) /\ call.rc = "callback" /\ call.given = s.given
          /\ call.body = s.body /\ call.taken = s.taken /\ call.wired = s.wired
          /\ call.aborted /\ call.slips = s.slips /\ call.held = {} /\ ~call.res
      BY <1>0, <2>1 DEF Drop, Common, CallRecord
    <3> HIDE DEF call
    <3>2. Good /\ s'.pc = "returned" /\ Left'
      BY <2>1, <2>5, <3>1, LeavesStep DEF call
    <3> QED BY <3>2 DEF FetchInv
  <2> QED BY <1>5, <2>2, <2>3, <2>4, <2>5
<1>6. CASE fetchReqHTTP
  <2>1. /\ s.pc = "fetch_request" /\ UNCHANGED <<backend, request>> /\ Nothing /\ ~s.res
        /\ s.held \subseteq {"url", "upload"}
    BY <1>6 DEF fetchReqHTTP, FetchInv
  <2>2. CASE /\ s' = [Drop("fetch_response", {"url"}) EXCEPT !.held = @ \cup {"stream"}]
             /\ UNCHANGED net
    <3>1. net' \in NetStates /\ Idle
      BY <2>2 DEF Common, Idle
    <3>2. /\ Eventless /\ Remains /\ s'.pc = "fetch_response" /\ s'.rc = s.rc
          /\ s'.held \subseteq {"stream", "upload"} /\ s'.res = s.res
      BY <2>1, <2>2, <3>1 DEF Drop, Common, CallRecord, Eventless, Remains
    <3> QED BY <2>1, <3>1, <3>2, EventlessIsGood DEF FetchInv
  <2>3. ASSUME NEW e \in {"TIMEOUT", "NOMEM", "IO"},
               Returns([s EXCEPT !.rc = e, !.held = @ \ {"url", "upload"}])
        PROVE  Good /\ FetchInv'
    <3> DEFINE call == [s EXCEPT !.rc = e, !.held = @ \ {"url", "upload"}]
    <3>1. /\ CallRecord(call) /\ call.rc # "SUCCESS" /\ call.given = s.given
          /\ call.body = s.body /\ call.taken = s.taken /\ call.wired = s.wired
          /\ call.aborted = s.aborted /\ call.slips = s.slips /\ call.held = {} /\ ~call.res
      BY <1>0, <2>1 DEF Common, CallRecord
    <3> HIDE DEF call
    <3>2. Good /\ s'.pc = "returned" /\ Left'
      BY <2>1, <2>3, <3>1, LeavesStep DEF call
    <3> QED BY <3>2 DEF FetchInv
  <2>4. CASE Returns([s EXCEPT !.rc = "SUCCESS", !.held = @ \ {"url", "upload"},
                               !.slips = @ \cup {"success without response"}])
    <3>1. /\ s' = [[s EXCEPT !.rc = "SUCCESS", !.held = @ \ {"url", "upload"},
                             !.slips = @ \cup {"success without response"}]
                   EXCEPT !.pc = "returned"]
          /\ net' \in NetStates /\ Idle
      BY <2>4, ReturnsIs
    <3>2. /\ Eventless /\ Remains /\ s'.pc = "returned" /\ s'.held = {} /\ ~s'.res
          /\ "success without response" \in s'.slips
      <4>1. s.rc = "SUCCESS" /\ s.held \ {"url", "upload"} = {}
        BY <2>1 DEF Nothing
      <4>2. /\ CallRecord(s)' /\ s'.pc = "returned" /\ s'.held = s.held \ {"url", "upload"}
            /\ s'.res = s.res /\ s'.slips = s.slips \cup {"success without response"}
            /\ s'.rc = "SUCCESS" /\ s'.given = s.given /\ s'.body = s.body
            /\ s'.taken = s.taken /\ s'.wired = s.wired /\ s'.aborted = s.aborted
            /\ s'.sent = s.sent
        BY <3>1 DEF Common, CallRecord
      <4>3. s.slips \subseteq s'.slips /\ s'.slips \cap AbortLost \subseteq s.slips
        BY <4>2 DEF AbortLost
      <4> QED BY <2>1, <3>1, <4>1, <4>2, <4>3 DEF Eventless, Remains
    <3>3. Good /\ net'.end = "open"
      BY <2>1, <3>1, <3>2, EventlessIsGood DEF Nothing, Idle
    <3>4. s'.slips \cap NoResponse # {}
      BY <3>2 DEF NoResponse
    <3>5. Left'
      BY <3>2, <3>3, <3>4 DEF Left, ResponseReceived, ReceivedWhole
    <3> QED BY <3>2, <3>3, <3>5 DEF FetchInv
  <2>5. ASSUME NEW e \in map_fetch_error,
               Returns([s EXCEPT !.rc = e, !.held = @ \ {"url", "upload"},
                                 !.slips = IF e = SUCCESS
                                           THEN @ \cup {"success without response"} ELSE @])
        PROVE  Good /\ FetchInv'
    <3>1. CASE e = "SUCCESS"
      BY <2>4, <2>5, <3>1
    <3>2. CASE e # "SUCCESS"
      <4>1. e \in {"TIMEOUT", "NOMEM", "IO"}
        BY <3>2 DEF map_fetch_error
      <4>2. [s EXCEPT !.rc = e, !.held = @ \ {"url", "upload"},
                      !.slips = IF e = SUCCESS THEN @ \cup {"success without response"} ELSE @]
              = [s EXCEPT !.rc = e, !.held = @ \ {"url", "upload"}]
        BY <3>2 DEF Common, CallRecord
      <4> QED BY <2>3, <2>5, <4>1, <4>2
    <3> QED BY <3>1, <3>2
  <2> QED BY <1>6, <2>2, <2>5 DEF fetchReqHTTP
<1>7. CASE fetch_response
  <2>1. HoldsOnly({"stream", "upload"}) /\ Nothing /\ ~s.res
    BY <1>7 DEF fetch_response, TryOrLeave, HoldsOnly, FetchInv
  <2>2. /\ Good /\ ~s'.res
        /\ \/ s'.pc = "fetch_read" /\ Acquires({"response"}) /\ Receiving'
           \/ s'.pc = "returned" /\ Left'
    BY <1>0, <1>7, <2>1, TryOrLeaveStep DEF fetch_response
  <2> QED BY <2>1, <2>2 DEF FetchInv, HoldsOnly, Acquires
<1>8. CASE fread_piece
  <2>1. s.pc = "fetch_read" /\ Receiving /\ ~s.res /\ UNCHANGED <<backend, request>>
    BY <1>8 DEF fread_piece, FetchInv
  <2>2. /\ Good /\ s'.held = s.held /\ ~s'.res
        /\ \/ s'.pc = "fetch_read" /\ Receiving'
           \/ s'.pc = "fetch_close" /\ s'.rc # SUCCESS
    BY <1>0, <1>8, <2>1, PlainPieceStep DEF fread_piece
  <2> QED BY <2>1, <2>2 DEF FetchInv
<1>9. CASE fread_end
  <2>1. s.pc = "fetch_read" /\ Receiving /\ ~s.res
    BY <1>9 DEF fread_end, BodyEnd, FetchInv
  <2>2. /\ Good /\ s'.pc = "fetch_close" /\ s'.held = s.held /\ ~s'.res /\ Received'
    BY <1>9, <2>1, EndStep DEF fread_end
  <2> QED BY <2>1, <2>2 DEF FetchInv, Received, ReadToEnd
<1>10. CASE fread_fails
  <2>1. s.pc = "fetch_read" /\ UNCHANGED <<backend, request>> /\ Receiving /\ ~s.res
        /\ s' = Goto("fetch_close")
    BY <1>10 DEF fread_fails, FetchInv
  <2>2. net' \in NetStates /\ net'.end = "cut"
    BY <1>10, EndsIs DEF fread_fails
  <2>3. /\ Eventless /\ Remains /\ s'.pc = "fetch_close" /\ s'.rc = s.rc
        /\ s'.held = s.held /\ s'.res = s.res
    BY <2>1, <2>2 DEF Goto, Common, CallRecord, Eventless, Remains
  <2> QED BY <2>1, <2>2, <2>3, EventlessIsGood DEF FetchInv, ReadToEnd
<1>11. CASE fetch_close
  <2>1. s.pc = "fetch_close" /\ UNCHANGED <<backend, request>>
        /\ s.held \subseteq {"stream", "upload", "response"}
    BY <1>11 DEF fetch_close, FetchInv
  <2>2. /\ s' = [[Drop("", {"stream", "upload", "response"}) EXCEPT !.res = s.rc = SUCCESS]
                 EXCEPT !.pc = "returned"]
        /\ net' \in NetStates /\ Idle
    BY <1>11, ReturnsIs DEF fetch_close
  <2>3. /\ Eventless /\ Remains /\ s'.pc = "returned" /\ s'.rc = s.rc
        /\ s'.held = {} /\ s'.res = (s.rc = "SUCCESS")
    BY <2>1, <2>2 DEF Drop, Common, CallRecord, Eventless, Remains
  <2>4. Good /\ Honest' /\ backend' # "raw" /\ backend' \in ReadsToEof
    BY <2>1, <2>3, EventlessIsGood DEF Good, Common, ReadsToEof
  <2>5. CASE s.rc = "SUCCESS"
    <3>1. ReadToEnd'
      BY <2>1, <2>2, <2>3, <2>5, EventlessIsGood DEF FetchInv, ReadToEnd, Idle
    <3> QED BY <2>2, <2>3, <2>4, <2>5, <3>1, LeftAtEnd DEF FetchInv
  <2>6. CASE s.rc # "SUCCESS"
    BY <2>1, <2>3, <2>4, <2>6, LeftError DEF FetchInv
  <2> QED BY <2>5, <2>6
<1> QED BY <1>1, <1>2, <1>3, <1>4, <1>5, <1>6, <1>7, <1>8, <1>9, <1>10, <1>11
        DEF fetch_steps, fetch_network, fetch_read_upload

-----------------------------------------------------------------------------
(* The fetch of the browser, which may fail by giving an empty response.    *)
WasmInv ==
  /\ s.held \subseteq {"fetch", "headers", "upload", "response"}
  /\ s.pc \in {"begin", "wasm_headers", "wasm_upload", "wasm_pieces"} => Nothing /\ ~s.res
  /\ s.pc = "wasm_headers" => s.held = {}
  /\ s.pc = "wasm_exec" => Waiting /\ net.end = "open" /\ ~s.res
  /\ s.pc = "wasm_response" => Waiting /\ net.end # "open" /\ ~s.res
  /\ s.pc = "wasm_body" => Waiting /\ net.end # "open" /\ s.res
  /\ s.pc = "wasm_lines" => s.rc = SUCCESS /\ ReadToEnd /\ s.res
  /\ s.pc = "wasm_cleanup" => (s.rc = SUCCESS => ReadToEnd /\ s.res)
  /\ s.pc = "returned" => Left

LEMMA WasmSteps ==
  ASSUME backend = "wasm", Common, WasmInv, wasm_steps \/ wasm_network
  PROVE  Good /\ WasmInv'
<1> USE DEF SUCCESS, wasm, At
<1>0. /\ "NOMEM" \in Errors /\ "INVAL" \in Errors /\ "IO" \in Errors /\ "TIMEOUT" \in Errors
      /\ "CANCELED" \in Errors
  BY DEF Errors
<1>1. CASE wasm_fetch_attr_init
  <2>1. s.pc = "begin" /\ UNCHANGED <<backend, request>>
    BY <1>1 DEF wasm_fetch_attr_init
  <2>2. CASE Returns([s EXCEPT !.rc = "INVAL"])
    <3>1. Good /\ s'.pc = "returned" /\ Left' /\ s'.held = {}
      BY <1>0, <2>1, <2>2, BeginLeaves
    <3> QED BY <3>1 DEF WasmInv
  <2>3. CASE s' = Goto("wasm_headers") /\ UNCHANGED net
    <3>1. net' \in NetStates /\ Idle
      BY <2>3 DEF Common, Idle
    <3>2. /\ Eventless /\ Remains /\ s'.pc = "wasm_headers" /\ s'.rc = s.rc
          /\ s'.held = s.held /\ s'.res = s.res
      BY <2>1, <2>3, <3>1 DEF Goto, Common, CallRecord, Eventless, Remains
    <3> QED BY <2>1, <3>1, <3>2, EventlessIsGood, BeginIs DEF WasmInv
  <2> QED BY <1>1, <2>2, <2>3 DEF wasm_fetch_attr_init
<1>2. CASE wasm_request_headers
  <2>1. HoldsOnly({}) /\ Nothing /\ ~s.res
    BY <1>2 DEF wasm_request_headers, TryOrLeave, HoldsOnly, WasmInv
  <2>2. /\ Good /\ ~s'.res
        /\ \/ s'.pc = "wasm_upload" /\ Acquires({"headers"}) /\ Nothing'
           \/ s'.pc = "returned" /\ HoldsOnly({})' /\ Left'
    BY <1>0, <1>2, <2>1, TryOrLeaveStep DEF wasm_request_headers
  <2> QED BY <2>1, <2>2 DEF WasmInv, HoldsOnly, Acquires
<1>3. CASE /\ wasm("wasm_upload") /\ request.upload # "stream"
           /\ s' = BodySent("wasm_exec") /\ UNCHANGED <<backend, request, net>>
  <2>1. net' \in NetStates /\ Idle
    BY <1>3 DEF Common, Idle
  <2>2. /\ Eventless /\ Remains /\ s'.pc = "wasm_exec" /\ s'.rc = s.rc
        /\ s'.held = s.held /\ s'.res = s.res
    BY <1>3, <2>1, BodySentIs DEF BodySent
  <2>3. Good /\ Nothing'
    BY <1>3, <2>1, <2>2, EventlessIsGood DEF WasmInv
  <2> QED BY <1>3, <2>2, <2>3 DEF WasmInv, Nothing, Waiting
<1>4. CASE Try("wasm_upload", {"upload"}, "wasm_pieces", "NOMEM", "wasm_cleanup")
  <2>1. Nothing /\ ~s.res
    BY <1>4 DEF Try, WasmInv
  <2>2. /\ Good /\ ~s'.res
        /\ \/ s'.pc = "wasm_pieces" /\ Acquires({"upload"}) /\ Nothing'
           \/ s'.pc = "wasm_cleanup" /\ Acquires({}) /\ s'.rc # SUCCESS
    BY <1>0, <1>4, <2>1, TryStep
  <2> QED BY <2>1, <2>2 DEF WasmInv, Acquires
<1>5. CASE /\ wasm("wasm_pieces") /\ UNCHANGED <<backend, request, net>>
           /\ \/ s' \in {BodySent("wasm_exec"), Fail("wasm_cleanup", "NOMEM"),
                         ReadFails("wasm_cleanup", "CANCELED")}
              \/ s.taken < MaxUpload /\ s' = [Supplies("wasm_pieces") EXCEPT !.wired = @ + 1]
  <2>1. /\ s.pc = "wasm_pieces" /\ UNCHANGED <<backend, request, net>> /\ net' \in NetStates
        /\ Idle /\ Nothing /\ ~s.res /\ s.rc = "SUCCESS"
    BY <1>5 DEF WasmInv, Nothing, Common, Idle
  <2>2. CASE s' = BodySent("wasm_exec")
    <3>1. /\ Eventless /\ Remains /\ s'.pc = "wasm_exec" /\ s'.rc = s.rc
          /\ s'.held = s.held /\ s'.res = s.res
      BY <2>1, <2>2, BodySentIs DEF BodySent
    <3>2. Good /\ Nothing'
      BY <2>1, <3>1, EventlessIsGood
    <3> QED BY <2>1, <3>1, <3>2 DEF WasmInv, Nothing, Waiting
  <2>3. CASE s' = Fail("wasm_cleanup", "NOMEM")
    <3>1. /\ Eventless /\ Remains /\ s'.pc = "wasm_cleanup" /\ s'.rc # "SUCCESS"
          /\ s'.held = s.held /\ s'.res = s.res
      BY <1>0, <2>1, <2>3 DEF Fail, Common, CallRecord, Eventless, Remains
    <3> QED BY <2>1, <3>1, EventlessIsGood DEF WasmInv
  <2>4. CASE s' = ReadFails("wasm_cleanup", "CANCELED")
    <3>1. /\ Refused /\ Continues /\ s'.pc = "wasm_cleanup" /\ s'.rc # "SUCCESS"
          /\ s'.held = s.held /\ s'.res = s.res /\ s'.slips = s.slips
      BY <1>0, <2>1, <2>4 DEF ReadFails, Common, CallRecord, Refused, Continues
    <3> QED BY <2>1, <3>1, RefusedIsGood DEF WasmInv
  <2>5. CASE s.taken < MaxUpload /\ s' = [Supplies("wasm_pieces") EXCEPT !.wired = @ + 1]
    <3>1. /\ Supplied /\ Continues /\ s'.pc = "wasm_pieces" /\ s'.held = s.held
          /\ s'.rc = s.rc /\ s'.res = s.res /\ s'.slips = s.slips
      BY <2>1, <2>5, SuppliesIs
    <3> QED BY <2>1, <3>1, SuppliedIsGood DEF WasmInv
  <2> QED BY <1>5, <2>2, <2>3, <2>4, <2>5
<1>6. CASE wasm_fetch_exec
  <2>1. /\ s.pc = "wasm_exec" /\ UNCHANGED <<backend, request>>
        /\ Waiting /\ net.end = "open" /\ ~s.res
    BY <1>6 DEF wasm_fetch_exec, WasmInv
  <2>2. CASE Arrives /\ s' = s
    <3>1. net' \in NetStates /\ net'.end = "open"
      BY <2>1, <2>2, ArrivesIs DEF More
    <3>2. Eventless /\ Remains
      BY <2>1, <2>2, <3>1 DEF Common, CallRecord, Eventless, Remains
    <3> QED BY <2>1, <2>2, <3>1, <3>2, EventlessIsGood DEF WasmInv, Waiting
  <2>3. CASE Ends("whole") /\ s' = Hold("wasm_response", {"fetch"})
    <3>1. net' \in NetStates /\ net'.end = "whole"
      BY <2>3, EndsIs
    <3>2. /\ Eventless /\ Remains /\ s'.pc = "wasm_response" /\ s'.rc = s.rc
          /\ s'.held = s.held \cup {"fetch"} /\ s'.res = s.res
      BY <2>1, <2>3, <3>1 DEF Hold, Common, CallRecord, Eventless, Remains
    <3>3. Waiting'
      BY <2>1, <3>2 DEF Waiting, Eventless
    <3> QED BY <2>1, <3>1, <3>2, <3>3, EventlessIsGood DEF WasmInv
  <2> QED BY <1>6, <2>2, <2>3 DEF wasm_fetch_exec
<1>7. CASE wasm_fetch_fails
  <2>1. /\ s.pc = "wasm_exec" /\ UNCHANGED <<backend, request>> /\ Waiting /\ ~s.res
        /\ net' \in NetStates /\ net'.end = "cut"
    BY <1>7, EndsIs DEF wasm_fetch_fails, WasmInv
  <2>2. /\ Eventless /\ Remains /\ s'.held \subseteq s.held \cup {"fetch"} /\ s'.res = s.res
        /\ \/ s'.pc = "wasm_cleanup" /\ s'.rc # "SUCCESS"
           \/ s'.pc = "wasm_response" /\ s'.rc = s.rc
    <3>1. CASE s' = Fail("wasm_cleanup", "IO")
      BY <1>0, <2>1, <3>1 DEF Fail, Common, CallRecord, Eventless, Remains
    <3>2. CASE s' = [Hold("wasm_cleanup", {"fetch"}) EXCEPT !.rc = "TIMEOUT"]
      BY <1>0, <2>1, <3>2 DEF Hold, Common, CallRecord, Eventless, Remains
    <3>3. CASE s' = Hold("wasm_response", {"fetch"})
      BY <2>1, <3>3 DEF Hold, Common, CallRecord, Eventless, Remains
    <3> QED BY <1>7, <3>1, <3>2, <3>3 DEF wasm_fetch_fails
  <2>3. s'.rc = s.rc => Waiting'
    BY <2>1, <2>2 DEF Waiting, Eventless
  <2> QED BY <2>1, <2>2, <2>3, EventlessIsGood DEF WasmInv
<1>8. CASE wasm_response
  <2>1. /\ s.pc = "wasm_response" /\ UNCHANGED <<backend, request, net>> /\ net' \in NetStates
        /\ Waiting /\ ~s.res /\ net'.end # "open"
    BY <1>8 DEF wasm_response, WasmInv, Common
  <2>2. /\ Eventless /\ Remains /\ s'.held \subseteq s.held \cup {"response"}
        /\ \/ s'.pc = "wasm_cleanup" /\ s'.rc # "SUCCESS" /\ s'.res = s.res
           \/ s'.pc = "wasm_body" /\ s'.rc = s.rc /\ s'.res
    <3>1. CASE s' = [Hold("wasm_body", {"response"}) EXCEPT !.res = TRUE]
      BY <2>1, <3>1 DEF Hold, Common, CallRecord, Eventless, Remains
    <3>2. CASE s' = Fail("wasm_cleanup", "NOMEM")
      BY <1>0, <2>1, <3>2 DEF Fail, Common, CallRecord, Eventless, Remains
    <3> QED BY <1>8, <3>1, <3>2 DEF wasm_response
  <2>3. s'.rc = s.rc => Waiting'
    BY <2>1, <2>2 DEF Waiting, Eventless
  <2> QED BY <2>1, <2>2, <2>3, EventlessIsGood DEF WasmInv
<1>9. CASE wasm_body
  <2>1. /\ s.pc = "wasm_body" /\ UNCHANGED <<backend, request, net>> /\ net' \in NetStates
        /\ Idle /\ s.rc = "SUCCESS" /\ Waiting /\ net'.end # "open" /\ s.res
        /\ Collected \in Seq(Nat)
    BY <1>9, PieceFacts DEF wasm_body, Common, Idle, WasmInv, Waiting
  <2>2. CASE (net.end = "cut" \/ net.arrived = 0) /\ s' = Goto("wasm_lines")
    <3>1. /\ Eventless /\ Remains /\ s'.pc = "wasm_lines" /\ s'.rc = s.rc
          /\ s'.held = s.held /\ s'.res = s.res
      BY <2>1, <2>2 DEF Goto, Common, CallRecord, Eventless, Remains
    <3>2. net'.end = "whole" => Gathered'
      <4>1. net.arrived = 0 => Collected' = <<>>
        BY <2>1, PiecesGrow DEF Collected, Pieces
      <4> QED BY <2>1, <2>2, <3>1, <4>1 DEF Gathered, Waiting, Eventless
    <3> QED BY <2>1, <3>1, <3>2, EventlessIsGood DEF WasmInv, ReadToEnd
  <2>3. CASE s' = Fail("wasm_cleanup", "NOMEM")
    <3>1. /\ Eventless /\ Remains /\ s'.pc = "wasm_cleanup" /\ s'.rc # "SUCCESS"
          /\ s'.held = s.held /\ s'.res = s.res
      BY <1>0, <2>1, <2>3 DEF Fail, Common, CallRecord, Eventless, Remains
    <3> QED BY <2>1, <3>1, EventlessIsGood DEF WasmInv
  <2>4. CASE request.streaming /\ s' = [s EXCEPT !.pc = "wasm_lines", !.given = Collected]
    <3>1. /\ GivenAtOnce /\ Continues /\ s'.slips = s.slips /\ s'.rc = s.rc
          /\ s'.pc = "wasm_lines" /\ s'.held = s.held /\ s'.res
      BY <2>1, <2>4 DEF Common, CallRecord, GivenAtOnce, Continues
    <3> QED BY <2>1, <2>4, <3>1, GivenAtOnceIsGood DEF WasmInv, ReadToEnd
  <2>5. CASE /\ request.streaming
             /\ s' = [s EXCEPT !.pc = "wasm_cleanup", !.given = Collected,
                               !.aborted = TRUE, !.rc = "CANCELED"]
    <3>1. /\ GivenAtOnce /\ Continues /\ s'.slips = s.slips /\ s'.rc # "SUCCESS"
          /\ s'.pc = "wasm_cleanup" /\ s'.held = s.held
      BY <1>0, <2>1, <2>5 DEF Common, CallRecord, GivenAtOnce, Continues
    <3> QED BY <2>1, <2>5, <3>1, GivenAtOnceIsGood DEF WasmInv
  <2>6. CASE ~request.streaming /\ s' = [s EXCEPT !.pc = "wasm_lines", !.body = Collected]
    <3>1. /\ StoredAtOnce /\ Remains /\ s'.rc = s.rc
          /\ s'.pc = "wasm_lines" /\ s'.held = s.held /\ s'.res
      BY <2>1, <2>6 DEF Common, CallRecord, StoredAtOnce, Remains
    <3> QED BY <2>1, <2>6, <3>1, StoredAtOnceIsGood DEF WasmInv, ReadToEnd
  <2> QED BY <1>9, <2>2, <2>3, <2>4, <2>5, <2>6 DEF wasm_body
<1>10. CASE wasm_response_headers
  <2>1. /\ s.pc = "wasm_lines" /\ UNCHANGED <<backend, request, net>> /\ net' \in NetStates
        /\ Idle /\ s.rc = "SUCCESS" /\ ReadToEnd /\ s.res
    BY <1>10 DEF wasm_response_headers, WasmInv, Common, Idle
  <2>2. /\ Eventless /\ Remains /\ s'.held = s.held /\ s'.res = s.res
        /\ s'.pc = "wasm_cleanup" /\ (s'.rc # "SUCCESS" \/ s'.rc = s.rc)
    <3>1. CASE s' = Goto("wasm_cleanup")
      BY <2>1, <3>1 DEF Goto, Common, CallRecord, Eventless, Remains
    <3>2. CASE s' = Fail("wasm_cleanup", "NOMEM")
      BY <1>0, <2>1, <3>2 DEF Fail, Common, CallRecord, Eventless, Remains
    <3>3. CASE s' = Fail("wasm_cleanup", "IO")
      BY <1>0, <2>1, <3>3 DEF Fail, Common, CallRecord, Eventless, Remains
    <3> QED BY <1>10, <3>1, <3>2, <3>3 DEF wasm_response_headers
  <2>3. ReadToEnd'
    BY <2>1, <2>2, EventlessIsGood DEF ReadToEnd, Idle
  <2> QED BY <2>1, <2>2, <2>3, EventlessIsGood DEF WasmInv
<1>11. CASE wasm_cleanup
  <2>1. s.pc = "wasm_cleanup" /\ UNCHANGED <<backend, request>>
    BY <1>11 DEF wasm_cleanup
  <2>2. PICK rc \in {s.rc, "IO"} :
          /\ rc = "IO" => s.rc = "SUCCESS" \/ s.rc = "IO"
          /\ Returns([Drop("", {"fetch", "headers", "upload", "response"}) EXCEPT
                        !.rc = rc, !.res = @ /\ rc = SUCCESS])
    BY <1>11 DEF wasm_cleanup
  <2>3. /\ s' = [[Drop("", {"fetch", "headers", "upload", "response"}) EXCEPT
                    !.rc = rc, !.res = @ /\ rc = SUCCESS] EXCEPT !.pc = "returned"]
        /\ net' \in NetStates /\ Idle
    BY <2>2, ReturnsIs
  <2>4. /\ Eventless /\ Remains /\ s'.pc = "returned" /\ s'.rc = rc
        /\ s'.held = {} /\ s'.res = (s.res /\ rc = "SUCCESS")
    BY <1>0, <2>1, <2>2, <2>3 DEF Drop, Common, CallRecord, Eventless, Remains, WasmInv
  <2>5. Good /\ Honest' /\ backend' # "raw" /\ backend' \in ReadsToEof
    BY <2>1, <2>4, EventlessIsGood DEF Good, Common, ReadsToEof
  <2>6. CASE rc = "SUCCESS"
    <3>1. s.rc = "SUCCESS" /\ ReadToEnd /\ s.res
      BY <2>1, <2>2, <2>6 DEF WasmInv
    <3>2. ReadToEnd'
      BY <2>3, <2>4, <3>1, EventlessIsGood DEF ReadToEnd, Idle
    <3> QED BY <2>3, <2>4, <2>5, <2>6, <3>1, <3>2, LeftAtEnd DEF WasmInv
  <2>7. CASE rc # "SUCCESS"
    BY <2>1, <2>4, <2>5, <2>7, LeftError DEF WasmInv
  <2> QED BY <2>6, <2>7
<1> QED BY <1>1, <1>2, <1>3, <1>4, <1>5, <1>6, <1>7, <1>8, <1>9, <1>10, <1>11
        DEF wasm_steps, wasm_network, wasm_read_upload

-----------------------------------------------------------------------------
(* libevent.  An error after the response was made leaves it in *res.       *)
EventLate == {"event_dispatch", "event_result", "returned"}
EventHeld == {"base", "connection", "request"}

EventInv ==
  /\ s.pc \notin EventLate => Nothing /\ ~s.res
  /\ s.pc = "event_connection" => s.held \subseteq {"base"}
  /\ s.pc = "event_request" => s.held \subseteq {"connection", "base"}
  /\ s.pc \notin {"event_result", "returned"} => s.held \subseteq EventHeld
  /\ s.pc = "event_dispatch" => Receiving /\ ~s.res
  /\ s.pc = "event_result" =>
       /\ s.held \subseteq EventHeld \cup {"response"}
       /\ IF s.rc = SUCCESS THEN Received /\ s.res
          ELSE "response" \in s.held \/ s.res => "response with error" \in s.slips
  /\ s.pc = "returned" => Left

LEMMA EventSteps ==
  ASSUME backend = "libevent", Common, EventInv, event_steps \/ event_network
  PROVE  Good /\ EventInv'
<1> USE DEF SUCCESS, event, At, EventLate, EventHeld
<1>0. /\ "NOMEM" \in Errors /\ "INVAL" \in Errors /\ "REFUSED" \in Errors
      /\ "callback" \in Errors
  BY DEF Errors
<1>1. CASE TryOrLeave("begin", {"base"}, "event_connection", "NOMEM", {})
  <2>1. HoldsOnly({}) /\ Nothing /\ ~s.res
    BY <1>1, BeginIs DEF TryOrLeave, HoldsOnly
  <2>2. /\ Good /\ ~s'.res
        /\ \/ s'.pc = "event_connection" /\ Acquires({"base"}) /\ Nothing'
           \/ s'.pc = "returned" /\ Left'
    BY <1>0, <1>1, <2>1, TryOrLeaveStep
  <2> QED BY <2>1, <2>2 DEF EventInv, HoldsOnly, Acquires
<1>2. CASE TryOrLeave("event_connection", {"connection"}, "event_request", "NOMEM", {"base"})
  <2>1. HoldsOnly({"base"}) /\ Nothing /\ ~s.res
    BY <1>2 DEF TryOrLeave, HoldsOnly, EventInv
  <2>2. /\ Good /\ ~s'.res
        /\ \/ s'.pc = "event_request" /\ Acquires({"connection"}) /\ Nothing'
           \/ s'.pc = "returned" /\ Left'
    BY <1>0, <1>2, <2>1, TryOrLeaveStep
  <2> QED BY <2>1, <2>2 DEF EventInv, HoldsOnly, Acquires
<1>3. CASE TryOrLeave("event_request", {"request"}, "event_body", "NOMEM",
                      {"connection", "base"})
  <2>1. HoldsOnly({"connection", "base"}) /\ Nothing /\ ~s.res
    BY <1>3 DEF TryOrLeave, HoldsOnly, EventInv
  <2>2. /\ Good /\ ~s'.res
        /\ \/ s'.pc = "event_body" /\ Acquires({"request"}) /\ Nothing'
           \/ s'.pc = "returned" /\ Left'
    BY <1>0, <1>3, <2>1, TryOrLeaveStep
  <2> QED BY <2>1, <2>2 DEF EventInv, HoldsOnly, Acquires
<1>4. CASE fill_output
  <2>1. /\ s.pc = "event_body" /\ UNCHANGED <<backend, request, net>> /\ net' \in NetStates
        /\ Idle /\ Nothing /\ ~s.res /\ s.rc = "SUCCESS" /\ s.held \subseteq EventHeld
    BY <1>4 DEF fill_output, EventInv, Nothing, Common, Idle
  <2>2. CASE s' = BodySent("event_method")
    <3>1. /\ Eventless /\ Remains /\ s'.pc = "event_method" /\ s'.rc = s.rc
          /\ s'.held = s.held /\ s'.res = s.res
      BY <2>1, <2>2, BodySentIs DEF BodySent
    <3> QED BY <2>1, <3>1, EventlessIsGood DEF EventInv
  <2>6. CASE s' = [s EXCEPT !.pc = "event_method", !.slips = @ \cup {"body not sent"}]
    <3>1. /\ Eventless /\ Remains /\ s'.pc = "event_method" /\ s'.rc = s.rc
          /\ s'.held = s.held /\ s'.res = s.res
      BY <2>1, <2>6 DEF Common, CallRecord, Eventless, Remains, AbortLost
    <3> QED BY <2>1, <3>1, EventlessIsGood DEF EventInv
  <2>3. CASE s.taken < MaxUpload /\ s' = [Supplies("event_body") EXCEPT !.wired = @ + 1]
    <3>1. /\ Supplied /\ Continues /\ s'.pc = "event_body" /\ s'.held = s.held
          /\ s'.rc = s.rc /\ s'.res = s.res
      BY <2>1, <2>3, SuppliesIs
    <3> QED BY <2>1, <3>1, SuppliedIsGood DEF EventInv
  <2>4. CASE /\ s.taken < MaxUpload
             /\ s' = [Supplies("event_body") EXCEPT !.slips = @ \cup {"upload piece lost"}]
    <3>1. s' = [s EXCEPT !.pc = "event_body", !.taken = s.taken + 1,
                         !.slips = s.slips \cup {"upload piece lost"}]
      BY <2>4 DEF Supplies, Common, CallRecord
    <3>2. s.taken + 1 \in Nat
      BY DEF Common, CallRecord
    <3>3. /\ CallRecord(s)' /\ s'.pc = "event_body" /\ s'.held = s.held
          /\ s'.rc = s.rc /\ s'.res = s.res /\ s'.given = s.given /\ s'.body = s.body
          /\ s'.aborted = s.aborted /\ s'.sent = s.sent /\ s'.taken = s.taken + 1
          /\ s'.slips = s.slips \cup {"upload piece lost"}
      BY <3>1, <3>2 DEF Common, CallRecord
    <3>4. Supplied /\ Continues
      BY <2>1, <2>4, <3>3 DEF Supplied, Continues
    <3> QED BY <2>1, <3>3, <3>4, SuppliedIsGood DEF EventInv
  <2>5. CASE s' = [s EXCEPT !.pc = "event_method", !.aborted = TRUE,
                            !.slips = @ \cup {"upload error ignored"}]
    <3>1. /\ Good /\ Nothing' /\ s'.pc = "event_method" /\ s'.held = s.held
          /\ s'.res = s.res
      BY <2>1, <2>5, IgnoredIsGood
    <3> QED BY <2>1, <3>1 DEF EventInv
  <2> QED BY <1>4, <2>2, <2>3, <2>4, <2>5, <2>6 DEF fill_output
<1>5. CASE get_method_cmd
  <2>1. /\ s.pc = "event_method" /\ UNCHANGED <<backend, request>> /\ Nothing /\ ~s.res
        /\ s.held \subseteq EventHeld
    BY <1>5 DEF get_method_cmd, EventInv
  <2>2. CASE s' = Goto("event_make") /\ UNCHANGED net
    <3>1. net' \in NetStates /\ Idle
      BY <2>2 DEF Common, Idle
    <3>2. /\ Eventless /\ Remains /\ s'.pc = "event_make" /\ s'.rc = s.rc
          /\ s'.held = s.held /\ s'.res = s.res
      BY <2>1, <2>2, <3>1 DEF Goto, Common, CallRecord, Eventless, Remains
    <3> QED BY <2>1, <3>1, <3>2, EventlessIsGood DEF EventInv
  <2>3. CASE Returns([s EXCEPT !.held = @ \ {"connection", "base"}, !.rc = "INVAL",
                               !.slips = @ \cup {"request not freed"}])
    <3> DEFINE call == [s EXCEPT !.held = @ \ {"connection", "base"}, !.rc = "INVAL",
                                 !.slips = @ \cup {"request not freed"}]
    <3>1. /\ CallRecord(call) /\ call.rc # SUCCESS /\ call.given = s.given
          /\ call.body = s.body /\ call.taken = s.taken /\ call.wired = s.wired
          /\ call.aborted = s.aborted /\ s.slips \subseteq call.slips
          /\ call.slips \cap AbortLost \subseteq s.slips
          /\ call.slips \cap NotReleased # {}
      BY <1>0, <2>1 DEF Common, CallRecord, AbortLost, NotReleased
    <3> HIDE DEF call
    <3>2. Good /\ s'.pc = "returned" /\ Left'
      BY <2>1, <2>3, <3>1, LeavesStep DEF call
    <3> QED BY <3>2 DEF EventInv
  <2> QED BY <1>5, <2>2, <2>3 DEF get_method_cmd
<1>6. CASE evhttp_make_request
  <2>1. HoldsOnly({"request", "connection", "base"}) /\ Nothing /\ ~s.res
    BY <1>6 DEF evhttp_make_request, TryOrLeave, HoldsOnly, EventInv
  <2>2. /\ Good /\ ~s'.res
        /\ \/ s'.pc = "event_dispatch" /\ Acquires({}) /\ Receiving'
           \/ s'.pc = "returned" /\ Left'
    BY <1>0, <1>6, <2>1, TryOrLeaveStep DEF evhttp_make_request
  <2> QED BY <2>1, <2>2 DEF EventInv, HoldsOnly, Acquires
<1>7. CASE http_chunked_cb
  <2>1. /\ s.pc = "event_dispatch" /\ UNCHANGED <<backend, request>> /\ Receiving /\ ~s.res
        /\ s.held \subseteq EventHeld /\ s.rc = "SUCCESS" /\ Gathered
        /\ net.arrived < MaxBody
    BY <1>7 DEF http_chunked_cb, EventInv, Receiving
  <2>2. ASSUME Arrives, s' = IF request.streaming THEN Stream("event_dispatch")
                                                  ELSE Store("event_dispatch")
        PROVE  Good /\ EventInv'
    <3>1. IF request.streaming THEN s' \in {Stream("event_dispatch"),
                                            StreamFails("event_result", "callback")}
          ELSE s' \in {Store("event_dispatch"), Fail("event_result", "NOMEM")}
      BY <2>2
    <3>2. More /\ net' \in NetStates
      BY <2>2, ArrivesIs
    <3>3. CASE request.streaming /\ s' = Stream("event_dispatch")
      <4>1. /\ Streamed /\ Continues /\ s'.pc = "event_dispatch" /\ s'.held = s.held
            /\ s'.res = s.res /\ s'.slips = s.slips /\ s'.rc = s.rc
        BY <2>1, <3>2, <3>3, StreamIs
      <4> QED BY <2>1, <3>2, <3>3, <4>1, StreamedIsGood DEF EventInv
    <3>4. CASE ~request.streaming /\ s' = Store("event_dispatch")
      <4>1. s' = [Store("event_dispatch") EXCEPT !.held = @ \cup {}]
        BY <3>4, PlainStore
      <4>2. /\ Stored /\ Remains /\ s'.pc = "event_dispatch" /\ s'.held = s.held \cup {}
            /\ s'.rc = s.rc /\ s'.res = s.res
        BY <2>1, <3>2, <4>1, StoreIs
      <4> QED BY <2>1, <3>2, <3>4, <4>2, StoredIsGood DEF EventInv
    <3> QED BY <2>2, <3>3, <3>4
  <2>3. CASE request.streaming /\ s' = StreamFails("event_result", "callback") /\ UNCHANGED net
    <3>1. net' \in NetStates
      BY <2>3 DEF Common
    <3>2. /\ Streamed /\ Continues /\ s'.pc = "event_result" /\ s'.held = s.held
          /\ s'.res = s.res /\ s'.slips = s.slips /\ s'.rc # "SUCCESS"
      BY <1>0, <2>1, <2>3, <3>1, StreamFailsIs
    <3> QED BY <2>1, <2>3, <3>2, StreamedIsGood DEF EventInv
  <2>4. CASE s' = Fail("event_result", "NOMEM") /\ UNCHANGED net
    <3>1. net' \in NetStates
      BY <2>4 DEF Common
    <3>2. /\ Eventless /\ Remains /\ s'.pc = "event_result" /\ s'.rc # "SUCCESS"
          /\ s'.held = s.held /\ s'.res = s.res
      BY <1>0, <2>1, <2>4, <3>1 DEF Fail, Common, CallRecord, Eventless, Remains
    <3> QED BY <2>1, <3>2, EventlessIsGood DEF EventInv
  <2> QED BY <1>7, <2>2, <2>3, <2>4 DEF http_chunked_cb
<1>8. CASE http_request_done
  <2>1. /\ s.pc = "event_dispatch" /\ UNCHANGED <<backend, request>> /\ Receiving /\ ~s.res
        /\ s.held \subseteq EventHeld
    BY <1>8 DEF http_request_done, EventInv
  <2>2. net' \in NetStates /\ net'.arrived = net.arrived /\ net'.end = "whole"
    BY <1>8, EndsIs DEF http_request_done
  <2>3. /\ Eventless /\ Remains /\ s'.pc = "event_result"
        /\ s'.held \subseteq s.held \cup {"response"}
        /\ \/ s'.rc # "SUCCESS" /\ s'.held = s.held /\ s'.res = s.res
           \/ s'.rc = s.rc /\ s'.res
           \/ s'.rc # "SUCCESS" /\ "response with error" \in s'.slips
    <3>1. CASE s' = Fail("event_result", "NOMEM")
      BY <1>0, <2>1, <2>2, <3>1 DEF Fail, Common, CallRecord, Eventless, Remains
    <3>2. CASE s' = [Hold("event_result", {"response"}) EXCEPT !.res = TRUE]
      BY <2>1, <2>2, <3>2 DEF Hold, Common, CallRecord, Eventless, Remains
    <3>3. CASE s' = [Hold("event_result", {"response"}) EXCEPT
                       !.res = TRUE, !.rc = "NOMEM",
                       !.slips = @ \cup {"response with error"}]
      BY <1>0, <2>1, <2>2, <3>3 DEF Hold, Common, CallRecord, Eventless, Remains, AbortLost
    <3> QED BY <1>8, <3>1, <3>2, <3>3 DEF http_request_done
  <2>4. s'.rc = s.rc => Received'
    BY <2>1, <2>2, <2>3, WholeIsReceived
  <2>5. Good /\ s.rc = "SUCCESS"
    BY <2>1, <2>3, EventlessIsGood DEF Receiving
  <2>6. /\ s'.held \subseteq EventHeld \cup {"response"}
        /\ IF s'.rc = SUCCESS THEN Received' /\ s'.res
           ELSE "response" \in s'.held \/ s'.res => "response with error" \in s'.slips
    <3>1. CASE s'.rc # "SUCCESS" /\ s'.held = s.held /\ s'.res = s.res
      <4>1. "response" \notin s'.held /\ ~s'.res
        BY <2>1, <3>1
      <4> QED BY <2>1, <3>1, <4>1
    <3>2. CASE s'.rc = s.rc /\ s'.res
      BY <2>1, <2>3, <2>4, <2>5, <3>2
    <3>3. CASE s'.rc # "SUCCESS" /\ "response with error" \in s'.slips
      BY <2>1, <2>3, <3>3
    <3> QED BY <2>3, <3>1, <3>2, <3>3
  <2> QED BY <2>3, <2>5, <2>6 DEF EventInv
<1>9. CASE http_request_failed
  <2>1. /\ s.pc = "event_dispatch" /\ UNCHANGED <<backend, request>> /\ ~s.res
        /\ s.held \subseteq EventHeld /\ s' = Fail("event_result", "REFUSED")
    BY <1>9 DEF http_request_failed, EventInv
  <2>2. net' \in NetStates
    BY <1>9, EndsIs DEF http_request_failed
  <2>3. /\ Eventless /\ Remains /\ s'.pc = "event_result" /\ s'.rc # "SUCCESS"
        /\ s'.held = s.held /\ s'.res = s.res
    BY <1>0, <2>1, <2>2 DEF Fail, Common, CallRecord, Eventless, Remains
  <2> QED BY <2>1, <2>3, EventlessIsGood DEF EventInv
<1>10. CASE event_result
  <2>1. /\ s.pc = "event_result" /\ UNCHANGED <<backend, request>>
        /\ s.held \subseteq EventHeld \cup {"response"}
        /\ IF s.rc = SUCCESS THEN Received /\ s.res
           ELSE "response" \in s.held \/ s.res => "response with error" \in s.slips
    BY <1>10 DEF event_result, EventInv
  <2>2. /\ s' = [[s EXCEPT
             !.rc = IF @ = SUCCESS /\ ~s.res THEN "REFUSED" ELSE @,
             !.held = @ \ ({"request", "connection", "base"}
                            \cup (IF s.rc = SUCCESS THEN {"response"} ELSE {}))]
                 EXCEPT !.pc = "returned"]
        /\ net' \in NetStates /\ Idle
    BY <1>10, ReturnsIs DEF event_result
  <2>3. /\ Eventless /\ Remains /\ s'.pc = "returned" /\ s'.rc = s.rc /\ s'.res = s.res
        /\ s'.held \subseteq s.held \cap {"response"}
        /\ s.rc = "SUCCESS" => s'.held = {}
    BY <2>1, <2>2 DEF Common, CallRecord, Eventless, Remains
  <2>4. Good /\ Honest' /\ backend' # "raw"
    BY <2>1, <2>3, EventlessIsGood DEF Good, Common
  <2>5. CASE s.rc = "SUCCESS"
    <3>1. Received' /\ s'.res /\ s'.held = {}
      BY <2>1, <2>2, <2>3, <2>5, EventlessIsGood
    <3> QED BY <2>3, <2>4, <3>1, LeftWhole DEF EventInv
  <2>6. CASE s.rc # "SUCCESS"
    <3>1. s'.slips \cap NotReleased = {} => s'.held = {} /\ ~s'.res
      BY <2>1, <2>3, <2>6 DEF NotReleased, Remains
    <3> QED BY <2>3, <2>4, <2>6, <3>1, LeftError DEF EventInv
  <2> QED BY <2>5, <2>6
<1> QED BY <1>1, <1>2, <1>3, <1>4, <1>5, <1>6, <1>7, <1>8, <1>9, <1>10
        DEF event_steps, event_network, make_objects

-----------------------------------------------------------------------------
(* The raw socket.  What it receives is the header block and then the       *)
(* pieces of the body, all of it kept or passed on as it comes.            *)
RawHeaders == "headers" \in net.pending
RawGathered ==
  IF ~RawHeaders THEN net.arrived = 0 /\ s.given = <<>> /\ s.body = <<>>
  ELSE IF request.streaming THEN s.given # <<>> /\ Tail(s.given) = Collected /\ s.body = <<>>
  ELSE s.body # <<>> /\ Tail(s.body) = Collected /\ s.given = <<>>
RawRead == s.res /\ net.end # "open" /\ (net.end = "whole" => RawHeaders /\ RawGathered)
RawLate == {"raw_body", "raw_recv", "raw_close", "raw_parse", "returned"}

RawInv ==
  /\ s.pc \notin RawLate => Nothing /\ ~s.res /\ net.pending = {}
  /\ s.pc \in {"raw_resolve", "raw_socket"} => s.held \subseteq {"host", "path"}
  /\ s.pc \in {"raw_connect", "raw_writable", "raw_buffer"} =>
       s.held \subseteq {"socket", "host", "path"}
  /\ s.pc = "raw_line" => s.held \subseteq {"request buffer", "socket", "host", "path"}
  /\ s.pc \in {"raw_grow", "raw_send"} => s.held \subseteq {"request buffer", "socket"}
  /\ s.pc = "raw_response" => s.held \subseteq {"socket"}
  /\ s.pc = "raw_body" => /\ s.held \subseteq {"response", "socket"}
                          /\ Nothing /\ s.res /\ net.pending = {}
  /\ s.pc \in {"raw_recv", "raw_close"} => s.held \subseteq {"socket", "response", "body"}
  /\ s.pc = "raw_recv" => s.rc = SUCCESS /\ RawGathered /\ s.res
  /\ s.pc = "raw_close" => (s.rc = SUCCESS => RawRead)
  /\ s.pc = "raw_parse" => s.held \subseteq {"response", "body"} /\ s.rc = SUCCESS /\ RawRead
  /\ s.pc = "returned" => Left

LEMMA Appended ==
  ASSUME NEW q \in Seq(Nat), NEW x \in Nat
  PROVE  /\ Append(q, x) \in Seq(Nat) /\ Append(q, x) # <<>>
         /\ q = <<>> => Tail(Append(q, x)) = <<>>
         /\ q # <<>> => Tail(Append(q, x)) = Append(Tail(q), x) /\ Tail(q) \in Seq(Nat)
BY AppendProperties, HeadTailAppend, HeadTailProperties

(* recv, with on_chunk and without.                                         *)
RawArrives ==
  /\ net' \in NetStates /\ net'.end = net.end
  /\ IF RawHeaders THEN More /\ net'.pending = net.pending /\ net.arrived < MaxBody
     ELSE net'.arrived = net.arrived /\ net'.pending = {"headers"}

LEMMA RawStreams ==
  ASSUME backend = "raw", Common, RawGathered, RawArrives, request.streaming,
         CallRecord(s)', s'.given = Append(s.given, Number), s'.body = s.body,
         s'.taken = s.taken, s'.wired = s.wired, s'.slips = s.slips, s.rc = SUCCESS,
         s'.aborted = s.aborted \/ s'.rc # SUCCESS, s.sent => s'.sent, Continues
  PROVE  Good /\ RawGathered'
<1> USE SendBounds DEF SUCCESS, Errors, LostUpload, AbortLost
<1>1. /\ s.given \in Seq(Nat) /\ s.rc = "SUCCESS" /\ ~Aborted /\ net.arrived \in 0..MaxBody
      /\ UNCHANGED <<backend, request>>
  BY DEF Common, CallRecord, NetStates, Continues, Honest
<1>2. Number = (IF RawHeaders THEN Piece ELSE 0) /\ Number \in Nat
  BY PieceFacts DEF Number, RawHeaders
<1>3. /\ s'.given # <<>> /\ RawHeaders'
      /\ ~RawHeaders => GivenBody = <<>> /\ Tail(s'.given) = <<>> /\ net.arrived = 0
      /\ RawHeaders => GivenBody = Collected /\ Tail(s'.given) = Append(Collected, Piece)
  BY <1>1, <1>2, Appended DEF RawGathered, GivenBody, RawHeaders, RawArrives
<1>4. GivenBody' = Tail(s'.given)
  BY <1>1, <1>3 DEF GivenBody
<1>5. PICK n \in 0..MaxBody :
        n >= net.arrived /\ GivenBody' = Pieces(n) /\ Tail(s'.given) = Collected' /\ n = net'.arrived
  <2>1. CASE ~RawHeaders
    <3>1. Tail(s'.given) = Pieces(0) /\ net'.arrived = 0 /\ net.arrived = 0
      BY <1>3, <2>1, PiecesGrow DEF RawArrives
    <3>2. Collected' = Pieces(0)
      BY <3>1 DEF Collected, Pieces
    <3>3. /\ 0 \in 0..MaxBody /\ 0 >= net.arrived /\ GivenBody' = Pieces(0)
          /\ Tail(s'.given) = Collected' /\ 0 = net'.arrived
      BY <1>4, <3>1, <3>2
    <3> QED BY <3>3
  <2>2. CASE RawHeaders
    <3>1. net'.arrived = net.arrived + 1 /\ net.arrived + 1 \in 0..MaxBody /\ More
      BY <1>1, <2>2 DEF RawArrives, More
    <3>2. Tail(s'.given) = Pieces(net.arrived + 1) /\ Tail(s'.given) = Collected'
      BY <1>3, <2>2, <3>1, PieceFacts
    <3>3. net'.arrived \in 0..MaxBody /\ net'.arrived >= net.arrived
      BY <1>1, <3>1
    <3>4. GivenBody' = Pieces(net'.arrived) /\ Tail(s'.given) = Collected'
      BY <1>4, <3>1, <3>2
    <3> QED BY <3>3, <3>4
  <2> QED BY <2>1, <2>2
<1>6. GivenInOrder'
  BY <1>5 DEF GivenInOrder, Pieces
<1>7. Len(GivenBody) = net.arrived
  BY <1>1, <1>3, PieceFacts
<1>8. n \in Len(GivenBody)..MaxBody
  BY <1>1, <1>5, <1>7
<1>9. Common'
  BY <1>1, <1>6 DEF Common, Honest, Continues, RawArrives, Aborted
<1>10. Gives
  BY <1>1, <1>5, <1>8 DEF Gives, Continues
<1>11. RawGathered'
  BY <1>1, <1>3, <1>5 DEF RawGathered
<1>12. BodyPassed => BodyPassed'
  BY <1>1 DEF BodyPassed, Continues
<1> QED BY <1>9, <1>10, <1>11, <1>12 DEF Good, Kinds, Continues

LEMMA RawStores ==
  ASSUME backend = "raw", Common, RawGathered, RawArrives, ~request.streaming,
         CallRecord(s)', s'.body = Append(s.body, Number), s'.given = s.given,
         UNCHANGED request
  PROVE  RawGathered'
<1>1. s.body \in Seq(Nat)
  BY DEF Common, CallRecord
<1>2. Number = (IF RawHeaders THEN Piece ELSE 0) /\ Number \in Nat
  BY PieceFacts DEF Number, RawHeaders
<1>3. s.given = <<>> /\ s'.given = <<>>
  BY DEF RawGathered
<1>4. s'.body # <<>>
  BY <1>1, <1>2, Appended
<1>5. CASE ~RawHeaders
  <2>1. s.body = <<>> /\ net'.arrived = 0 /\ RawHeaders'
    BY <1>5 DEF RawGathered, RawArrives, RawHeaders
  <2>2. Tail(s'.body) = <<>>
    BY <1>1, <1>2, <2>1, Appended
  <2>3. Collected' = <<>>
    BY <2>1, PiecesGrow DEF Collected, Pieces
  <2> QED BY <1>3, <1>4, <2>1, <2>2, <2>3 DEF RawGathered
<1>6. CASE RawHeaders
  <2>1. s.body # <<>> /\ Tail(s.body) = Collected /\ More /\ RawHeaders'
    BY <1>6 DEF RawGathered, RawArrives, RawHeaders
  <2>2. Tail(s'.body) = Append(Collected, Piece)
    BY <1>1, <1>2, <1>6, <2>1, Appended
  <2>3. Append(Collected, Piece) = Collected'
    BY <2>1, PieceFacts
  <2> QED BY <1>3, <1>4, <2>1, <2>2, <2>3 DEF RawGathered
<1> QED BY <1>5, <1>6

LEMMA RawSteps ==
  ASSUME backend = "raw", Common, RawInv, raw_steps \/ raw_network
  PROVE  Good /\ RawInv'
<1> USE DEF SUCCESS, raw, At, RawLate
<1>0. /\ "NOMEM" \in Errors /\ "INVAL" \in Errors /\ "IO" \in Errors /\ "callback" \in Errors
  BY DEF Errors
<1>1. CASE parse_url
  <2>1. s.pc = "begin" /\ UNCHANGED <<backend, request>>
    BY <1>1 DEF parse_url
  <2>2. ASSUME NEW e \in {"INVAL", "NOMEM"}, Returns([s EXCEPT !.rc = e])
        PROVE  Good /\ RawInv'
    <3>1. Good /\ s'.pc = "returned" /\ Left'
      BY <1>0, <2>1, <2>2, BeginLeaves
    <3> QED BY <3>1 DEF RawInv
  <2>3. CASE s' = Hold("raw_resolve", {"host", "path"}) /\ UNCHANGED net
    <3>1. net' \in NetStates /\ Idle
      BY <2>3 DEF Common, Idle
    <3>2. /\ Eventless /\ Remains /\ s'.pc = "raw_resolve" /\ s'.rc = s.rc
          /\ s'.held = s.held \cup {"host", "path"} /\ s'.res = s.res
      BY <2>1, <2>3, <3>1 DEF Hold, Common, CallRecord, Eventless, Remains
    <3> QED BY <2>1, <2>3, <3>1, <3>2, EventlessIsGood, BeginIs DEF RawInv
  <2> QED BY <1>1, <2>2, <2>3 DEF parse_url
<1>2. CASE TryOrLeave("raw_resolve", {}, "raw_socket", "IO", {"host", "path"})
  <2>1. /\ HoldsOnly({"host", "path"}) /\ Nothing /\ ~s.res /\ net.pending = {}
    BY <1>2 DEF TryOrLeave, HoldsOnly, RawInv
  <2>2. /\ Good /\ ~s'.res
        /\ \/ s'.pc = "raw_socket" /\ Acquires({}) /\ Nothing' /\ UNCHANGED net
           \/ s'.pc = "returned" /\ Left'
    BY <1>0, <1>2, <2>1, TryOrLeaveStep
  <2> QED BY <2>1, <2>2 DEF RawInv, HoldsOnly, Acquires
<1>3. CASE TryOrLeave("raw_socket", {"socket"}, "raw_connect", "IO", {"host", "path"})
  <2>1. /\ HoldsOnly({"host", "path"}) /\ Nothing /\ ~s.res /\ net.pending = {}
    BY <1>3 DEF TryOrLeave, HoldsOnly, RawInv
  <2>2. /\ Good /\ ~s'.res
        /\ \/ s'.pc = "raw_connect" /\ Acquires({"socket"}) /\ Nothing' /\ UNCHANGED net
           \/ s'.pc = "returned" /\ Left'
    BY <1>0, <1>3, <2>1, TryOrLeaveStep
  <2> QED BY <2>1, <2>2 DEF RawInv, HoldsOnly, Acquires
<1>4. CASE TryOrLeave("raw_connect", {}, "raw_writable", "IO", {"socket", "host", "path"})
  <2>1. /\ HoldsOnly({"socket", "host", "path"}) /\ Nothing /\ ~s.res /\ net.pending = {}
    BY <1>4 DEF TryOrLeave, HoldsOnly, RawInv
  <2>2. /\ Good /\ ~s'.res
        /\ \/ s'.pc = "raw_writable" /\ Acquires({}) /\ Nothing' /\ UNCHANGED net
           \/ s'.pc = "returned" /\ Left'
    BY <1>0, <1>4, <2>1, TryOrLeaveStep
  <2> QED BY <2>1, <2>2 DEF RawInv, HoldsOnly, Acquires
<1>5. CASE TryOrLeave("raw_writable", {}, "raw_buffer", "IO", {"socket", "host", "path"})
  <2>1. /\ HoldsOnly({"socket", "host", "path"}) /\ Nothing /\ ~s.res /\ net.pending = {}
    BY <1>5 DEF TryOrLeave, HoldsOnly, RawInv
  <2>2. /\ Good /\ ~s'.res
        /\ \/ s'.pc = "raw_buffer" /\ Acquires({}) /\ Nothing' /\ UNCHANGED net
           \/ s'.pc = "returned" /\ Left'
    BY <1>0, <1>5, <2>1, TryOrLeaveStep
  <2> QED BY <2>1, <2>2 DEF RawInv, HoldsOnly, Acquires
<1>6. CASE TryOrLeave("raw_buffer", {"request buffer"}, "raw_line", "NOMEM",
                      {"socket", "host", "path"})
  <2> DEFINE things == {"request buffer"}
             released == {"socket", "host", "path"}
  <2>0. TryOrLeave("raw_buffer", things, "raw_line", "NOMEM", released)
    BY <1>6
  <2>1. /\ HoldsOnly(released) /\ Nothing /\ ~s.res /\ net.pending = {}
    BY <1>6 DEF TryOrLeave, HoldsOnly, RawInv
  <2> HIDE DEF things, released
  <2>2. /\ Good /\ ~s'.res
        /\ \/ s'.pc = "raw_line" /\ Acquires(things) /\ Nothing' /\ UNCHANGED net
           \/ s'.pc = "returned" /\ Left'
    BY <1>0, <2>0, <2>1, TryOrLeaveStep
  <2> QED BY <2>1, <2>2 DEF RawInv, HoldsOnly, Acquires, things, released
<1>7. CASE /\ raw("raw_grow") /\ UNCHANGED <<backend, request>>
           /\ \/ s' = PassesOn(Goto("raw_send"), {"none", "body"}) /\ UNCHANGED net
              \/ Returns([s EXCEPT !.rc = "NOMEM", !.held = @ \ {"request buffer", "socket"}])
  <2>1. CASE s' = PassesOn(Goto("raw_send"), {"none", "body"}) /\ UNCHANGED net
    <3>1. net' \in NetStates /\ Idle
      BY <2>1 DEF Common, Idle
    <3>2. /\ Eventless /\ Remains /\ s'.pc = "raw_send" /\ s'.rc = s.rc
          /\ s'.held = s.held /\ s'.res = s.res
      BY <1>7, <2>1, <3>1, BodySentIs
    <3> QED BY <1>7, <2>1, <3>1, <3>2, EventlessIsGood DEF RawInv
  <2>2. CASE Returns([s EXCEPT !.rc = "NOMEM", !.held = @ \ {"request buffer", "socket"}])
    <3> DEFINE call == [s EXCEPT !.rc = "NOMEM", !.held = @ \ {"request buffer", "socket"}]
    <3>1. /\ CallRecord(call) /\ call.rc # SUCCESS /\ call.given = s.given
          /\ call.body = s.body /\ call.taken = s.taken /\ call.wired = s.wired
          /\ call.aborted = s.aborted /\ call.slips = s.slips /\ call.held = {} /\ ~call.res
      BY <1>0, <1>7 DEF Common, CallRecord, RawInv
    <3> HIDE DEF call
    <3>2. Good /\ s'.pc = "returned" /\ Left'
      BY <1>7, <2>2, <3>1, LeavesStep DEF call
    <3> QED BY <3>2 DEF RawInv
  <2> QED BY <1>7, <2>1, <2>2
<1>8. CASE raw("raw_line") /\ s' = Drop("raw_grow", {"host", "path"}) /\ UNCHANGED <<backend, request, net>>
  <2>1. net' \in NetStates /\ Idle
    BY <1>8 DEF Common, Idle
  <2>2. /\ Eventless /\ Remains /\ s'.pc = "raw_grow" /\ s'.rc = s.rc
        /\ s'.held = s.held \ {"host", "path"} /\ s'.res = s.res
    BY <1>8, <2>1 DEF Drop, Common, CallRecord, Eventless, Remains
  <2> QED BY <1>8, <2>1, <2>2, EventlessIsGood DEF RawInv
<1>9. CASE raw("raw_send") /\ s' = Drop("raw_response", {"request buffer"}) /\ UNCHANGED <<backend, request, net>>
  <2>1. net' \in NetStates /\ Idle
    BY <1>9 DEF Common, Idle
  <2>2. /\ Eventless /\ Remains /\ s'.pc = "raw_response" /\ s'.rc = s.rc
        /\ s'.held = s.held \ {"request buffer"} /\ s'.res = s.res
    BY <1>9, <2>1 DEF Drop, Common, CallRecord, Eventless, Remains
  <2> QED BY <1>9, <2>1, <2>2, EventlessIsGood DEF RawInv
<1>10. CASE /\ raw("raw_send") /\ UNCHANGED <<backend, request>>
            /\ Returns([s EXCEPT !.rc = "IO", !.held = @ \ {"request buffer", "socket"}])
  <2> DEFINE call == [s EXCEPT !.rc = "IO", !.held = @ \ {"request buffer", "socket"}]
  <2>1. /\ CallRecord(call) /\ call.rc # SUCCESS /\ call.given = s.given
        /\ call.body = s.body /\ call.taken = s.taken /\ call.wired = s.wired
        /\ call.aborted = s.aborted /\ call.slips = s.slips /\ call.held = {} /\ ~call.res
    BY <1>0, <1>10 DEF Common, CallRecord, RawInv
  <2> HIDE DEF call
  <2>2. Good /\ s'.pc = "returned" /\ Left'
    BY <1>10, <2>1, LeavesStep DEF call
  <2> QED BY <2>2 DEF RawInv
<1>11. CASE /\ raw("raw_response") /\ UNCHANGED <<backend, request>>
            /\ \/ s' = [Hold("raw_body", {"response"}) EXCEPT !.res = TRUE] /\ UNCHANGED net
               \/ Returns([s EXCEPT !.rc = "NOMEM", !.held = @ \ {"socket"}])
  <2>1. CASE s' = [Hold("raw_body", {"response"}) EXCEPT !.res = TRUE] /\ UNCHANGED net
    <3>1. net' \in NetStates /\ Idle
      BY <2>1 DEF Common, Idle
    <3>2. /\ Eventless /\ Remains /\ s'.pc = "raw_body" /\ s'.rc = s.rc
          /\ s'.held = s.held \cup {"response"} /\ s'.res
      BY <1>11, <2>1, <3>1 DEF Hold, Common, CallRecord, Eventless, Remains
    <3> QED BY <1>11, <2>1, <3>1, <3>2, EventlessIsGood DEF RawInv
  <2>2. CASE Returns([s EXCEPT !.rc = "NOMEM", !.held = @ \ {"socket"}])
    <3> DEFINE call == [s EXCEPT !.rc = "NOMEM", !.held = @ \ {"socket"}]
    <3>1. /\ CallRecord(call) /\ call.rc # SUCCESS /\ call.given = s.given
          /\ call.body = s.body /\ call.taken = s.taken /\ call.wired = s.wired
          /\ call.aborted = s.aborted /\ call.slips = s.slips /\ call.held = {} /\ ~call.res
      BY <1>0, <1>11 DEF Common, CallRecord, RawInv
    <3> HIDE DEF call
    <3>2. Good /\ s'.pc = "returned" /\ Left'
      BY <1>11, <2>2, <3>1, LeavesStep DEF call
    <3> QED BY <3>2 DEF RawInv
  <2> QED BY <1>11, <2>1, <2>2
<1>12. CASE /\ raw("raw_body") /\ UNCHANGED <<backend, request>>
            /\ \/ s' = Hold("raw_recv", {"body"}) /\ UNCHANGED net
               \/ Returns([s EXCEPT !.rc = "NOMEM", !.res = FALSE,
                                    !.held = @ \ {"response", "socket"}])
  <2>1. CASE s' = Hold("raw_recv", {"body"}) /\ UNCHANGED net
    <3>1. net' \in NetStates /\ Idle
      BY <2>1 DEF Common, Idle
    <3>2. /\ Eventless /\ Remains /\ s'.pc = "raw_recv" /\ s'.rc = s.rc
          /\ s'.held = s.held \cup {"body"} /\ s'.res = s.res
      BY <1>12, <2>1, <3>1 DEF Hold, Common, CallRecord, Eventless, Remains
    <3>3. Good /\ Nothing' /\ net'.pending = {} /\ s'.res
      BY <1>12, <2>1, <3>1, <3>2, EventlessIsGood DEF RawInv
    <3> QED BY <1>12, <3>2, <3>3 DEF RawInv, Nothing, RawGathered, RawHeaders
  <2>2. CASE Returns([s EXCEPT !.rc = "NOMEM", !.res = FALSE,
                               !.held = @ \ {"response", "socket"}])
    <3> DEFINE call == [s EXCEPT !.rc = "NOMEM", !.res = FALSE,
                                 !.held = @ \ {"response", "socket"}]
    <3>1. /\ CallRecord(call) /\ call.rc # SUCCESS /\ call.given = s.given
          /\ call.body = s.body /\ call.taken = s.taken /\ call.wired = s.wired
          /\ call.aborted = s.aborted /\ call.slips = s.slips /\ call.held = {} /\ ~call.res
      BY <1>0, <1>12 DEF Common, CallRecord, RawInv
    <3> HIDE DEF call
    <3>2. Good /\ s'.pc = "returned" /\ Left'
      BY <1>12, <2>2, <3>1, LeavesStep DEF call
    <3> QED BY <3>2 DEF RawInv
  <2> QED BY <1>12, <2>1, <2>2
<1>13. CASE recv_data
  <2>1. /\ s.pc = "raw_recv" /\ UNCHANGED <<backend, request>> /\ s.rc = "SUCCESS"
        /\ RawGathered /\ s.res /\ s.held \subseteq {"socket", "response", "body"}
        /\ net.end = "open"
    BY <1>13 DEF recv_data, RawInv
  <2>2. RawArrives
    <3>1. net.arrived \in 0..MaxBody /\ (Number = 0 <=> ~RawHeaders)
      BY SendBounds DEF Common, NetStates, Number, Piece, RawHeaders
    <3>2. CASE ~RawHeaders
      <4>1. net' = [net EXCEPT !.pending = {"headers"}]
        BY <1>13, <3>1, <3>2 DEF recv_data
      <4> QED BY <3>2, <4>1 DEF RawArrives, Common, NetStates, Flags
    <3>3. CASE RawHeaders
      <4>1. net' = [net EXCEPT !.arrived = @ + 1] /\ net.arrived < MaxBody
        BY <1>13, <3>1, <3>3 DEF recv_data
      <4>2. net.arrived + 1 \in 0..MaxBody
        BY <3>1, <4>1, SendBounds
      <4> QED BY <3>3, <4>1, <4>2 DEF RawArrives, Common, NetStates, More
    <3> QED BY <3>2, <3>3
  <2>3. net' \in NetStates
    BY <2>2 DEF RawArrives
  <2>4. /\ Append(s.given, Number) \in Seq(Nat) /\ Append(s.body, Number) \in Seq(Nat)
    <3>1. s.given \in Seq(Nat) /\ s.body \in Seq(Nat) /\ Number \in Nat
      BY PieceFacts DEF Common, CallRecord, Number
    <3> QED BY <3>1, Appended
  <2>5. CASE request.streaming /\ s' = [s EXCEPT !.given = Append(@, Number)]
    <3>1. /\ CallRecord(s)' /\ s'.given = Append(s.given, Number) /\ s'.body = s.body
          /\ s'.taken = s.taken /\ s'.wired = s.wired /\ s'.slips = s.slips
          /\ s'.aborted = s.aborted /\ s'.sent = s.sent /\ s'.rc = s.rc /\ s'.pc = s.pc /\ s'.held = s.held
          /\ s'.res = s.res
      BY <2>4, <2>5 DEF Common, CallRecord
    <3>2. Continues
      BY <2>1, <2>3, <3>1 DEF Continues
    <3>3. Good /\ RawGathered'
      BY <2>1, <2>2, <2>5, <3>1, <3>2, RawStreams
    <3> QED BY <2>1, <3>1, <3>3 DEF RawInv
  <2>6. CASE /\ request.streaming
             /\ s' = [s EXCEPT !.given = Append(@, Number), !.aborted = TRUE,
                               !.pc = "raw_close", !.rc = "callback"]
    <3>1. /\ CallRecord(s)' /\ s'.given = Append(s.given, Number) /\ s'.body = s.body
          /\ s'.taken = s.taken /\ s'.wired = s.wired /\ s'.slips = s.slips
          /\ s'.rc # "SUCCESS" /\ s'.pc = "raw_close" /\ s'.held = s.held /\ s'.sent = s.sent
      BY <1>0, <2>4, <2>6 DEF Common, CallRecord
    <3>2. Continues
      BY <2>1, <2>3, <3>1 DEF Continues
    <3>3. Good
      BY <2>1, <2>2, <2>6, <3>1, <3>2, RawStreams
    <3> QED BY <2>1, <3>1, <3>3 DEF RawInv
  <2>7. CASE ~request.streaming /\ s' = [s EXCEPT !.body = Append(@, Number)]
    <3>1. /\ CallRecord(s)' /\ s'.body = Append(s.body, Number) /\ s'.given = s.given
          /\ s'.taken = s.taken /\ s'.wired = s.wired /\ s'.slips = s.slips
          /\ s'.aborted = s.aborted /\ s'.sent = s.sent /\ s'.rc = s.rc /\ s'.pc = s.pc /\ s'.held = s.held
          /\ s'.res = s.res
      BY <2>4, <2>7 DEF Common, CallRecord
    <3>2. Remains
      BY <2>1, <2>3, <3>1 DEF Remains
    <3>3. Good /\ RawGathered'
      BY <2>1, <2>2, <2>7, <3>1, <3>2, RawStores, BufferIsGood
    <3> QED BY <2>1, <3>1, <3>3 DEF RawInv
  <2>8. CASE s' = Fail("raw_close", "NOMEM")
    <3>1. /\ Eventless /\ Remains /\ s'.pc = "raw_close" /\ s'.rc # "SUCCESS"
          /\ s'.held = s.held
      BY <1>0, <2>1, <2>3, <2>8 DEF Fail, Common, CallRecord, Eventless, Remains
    <3> QED BY <2>1, <3>1, EventlessIsGood DEF RawInv
  <2> QED BY <1>13, <2>5, <2>6, <2>7, <2>8 DEF recv_data
<1>14. CASE recv_end
  <2>1. /\ s.pc = "raw_recv" /\ UNCHANGED <<backend, request>> /\ s.rc = "SUCCESS"
        /\ RawGathered /\ s.res /\ s.held \subseteq {"socket", "response", "body"}
    BY <1>14 DEF recv_end, RawInv
  <2>2. CASE Ends("whole") /\ "headers" \in net.pending /\ s' = Goto("raw_close")
    <3>1. /\ net' \in NetStates /\ net'.arrived = net.arrived /\ net'.end = "whole"
          /\ net'.pending = net.pending
      BY <2>2, EndsIs
    <3>2. /\ Eventless /\ Remains /\ s'.pc = "raw_close" /\ s'.rc = s.rc
          /\ s'.held = s.held /\ s'.res = s.res
      BY <2>1, <2>2, <3>1 DEF Goto, Common, CallRecord, Eventless, Remains
    <3>3. RawGathered' /\ RawHeaders'
      BY <2>1, <2>2, <3>1, <3>2
         DEF RawGathered, RawHeaders, Collected, Pieces, Eventless
    <3> QED BY <2>1, <3>1, <3>2, <3>3, EventlessIsGood DEF RawInv, RawRead
  <2>3. CASE Ends("cut") /\ s' = Goto("raw_close")
    <3>1. net' \in NetStates /\ net'.end = "cut"
      BY <2>3, EndsIs
    <3>2. /\ Eventless /\ Remains /\ s'.pc = "raw_close" /\ s'.rc = s.rc
          /\ s'.held = s.held /\ s'.res = s.res
      BY <2>1, <2>3, <3>1 DEF Goto, Common, CallRecord, Eventless, Remains
    <3> QED BY <2>1, <3>1, <3>2, EventlessIsGood DEF RawInv, RawRead
  <2>4. CASE Ends("cut") /\ s' = [s EXCEPT !.pc = "raw_close", !.body = <<0>>]
    <3>1. net' \in NetStates /\ net'.end = "cut"
      BY <2>4, EndsIs
    <3>2. <<0>> \in Seq(Nat)
      OBVIOUS
    <3>3. /\ CallRecord(s)' /\ s'.given = s.given /\ s'.taken = s.taken /\ s'.wired = s.wired
          /\ s'.aborted = s.aborted /\ s'.sent = s.sent /\ s'.pc = "raw_close" /\ s'.rc = s.rc
          /\ s'.held = s.held /\ s'.res = s.res /\ s'.slips = s.slips
      BY <2>4, <3>2 DEF Common, CallRecord
    <3>4. Remains
      BY <2>1, <3>1, <3>3 DEF Remains
    <3> QED BY <2>1, <3>1, <3>3, <3>4, BufferIsGood DEF RawInv, RawRead
  <2> QED BY <1>14, <2>2, <2>3, <2>4 DEF recv_end
<1>15. CASE recv_fails
  <2>1. /\ s.pc = "raw_recv" /\ UNCHANGED <<backend, request, net>> /\ net' \in NetStates
        /\ s.held \subseteq {"socket", "response", "body"}
    BY <1>15 DEF recv_fails, RawInv, Common
  <2>2. /\ Eventless /\ Remains /\ s'.pc = "raw_close" /\ s'.rc # "SUCCESS"
        /\ s'.held = s.held
    BY <1>0, <1>15, <2>1 DEF recv_fails, Fail, Common, CallRecord, Eventless, Remains
  <2> QED BY <2>1, <2>2, EventlessIsGood DEF RawInv
<1>16. CASE close_socket
  <2>1. /\ s.pc = "raw_close" /\ UNCHANGED <<backend, request>>
        /\ s.held \subseteq {"socket", "response", "body"}
    BY <1>16 DEF close_socket, RawInv
  <2>2. CASE s.rc = SUCCESS
    <3>1. s' = Drop("raw_parse", {"socket"}) /\ UNCHANGED net /\ net' \in NetStates
      BY <1>16, <2>2 DEF close_socket, Common
    <3>2. /\ Eventless /\ Remains /\ s'.pc = "raw_parse" /\ s'.rc = s.rc
          /\ s'.held \subseteq {"response", "body"} /\ s'.res = s.res
      BY <2>1, <3>1 DEF Drop, Common, CallRecord, Eventless, Remains
    <3>3. RawRead'
      BY <2>1, <2>2, <3>1, <3>2
         DEF RawInv, RawRead, RawGathered, RawHeaders, Collected, Eventless
    <3> QED BY <2>1, <2>2, <3>2, <3>3, EventlessIsGood DEF RawInv
  <2>3. CASE s.rc # SUCCESS
    <3> DEFINE call == [s EXCEPT !.res = FALSE, !.held = @ \ {"socket", "response", "body"}]
    <3>1. Returns(call)
      BY <1>16, <2>3 DEF close_socket
    <3>2. /\ CallRecord(call) /\ call.rc # SUCCESS /\ call.given = s.given
          /\ call.body = s.body /\ call.taken = s.taken /\ call.wired = s.wired
          /\ call.aborted = s.aborted /\ call.slips = s.slips /\ call.held = {} /\ ~call.res
      BY <2>1, <2>3 DEF Common, CallRecord
    <3> HIDE DEF call
    <3>3. Good /\ s'.pc = "returned" /\ Left'
      BY <2>1, <3>1, <3>2, LeavesStep
    <3> QED BY <3>3 DEF RawInv
  <2> QED BY <2>2, <2>3
<1>17. CASE parse_response
  <2> DEFINE parsed == ~request.streaming /\ s.body # <<>>
             rest == IF "headers" \in net.pending THEN Tail(s.body) ELSE s.body
             left == [s EXCEPT !.held = @ \ {"response", "body"}]
  <2>1. /\ s.pc = "raw_parse" /\ UNCHANGED <<backend, request>> /\ RawRead /\ s.res
        /\ s.held \subseteq {"response", "body"} /\ s.rc = "SUCCESS"
    BY <1>17 DEF parse_response, RawInv, RawRead
  <2>2. s.body \in Seq(Nat) /\ (parsed => rest \in Seq(Nat)) /\ <<>> \in Seq(Nat)
    BY HeadTailProperties DEF Common, CallRecord
  <2>3. CASE \/ Returns([left EXCEPT !.body = IF parsed THEN rest ELSE @])
             \/ Returns([left EXCEPT !.body = <<>>, !.slips = @ \cup {"body lost"}])
    <3>1. /\ CallRecord(s)' /\ s'.given = s.given /\ s'.taken = s.taken /\ s'.wired = s.wired
          /\ s'.aborted = s.aborted /\ s'.sent = s.sent /\ s'.pc = "returned" /\ s'.rc = s.rc
          /\ s'.held = {} /\ s'.res = s.res /\ net' \in NetStates /\ Idle
          /\ net'.pending = net.pending
          /\ \/ s'.body = (IF parsed THEN rest ELSE s.body) /\ s'.slips = s.slips
             \/ s'.slips = s.slips \cup {"body lost"}
      <4>1. CASE Returns([left EXCEPT !.body = IF parsed THEN rest ELSE @])
        <5>1. /\ s' = [[left EXCEPT !.body = IF parsed THEN rest ELSE @]
                         EXCEPT !.pc = "returned"]
              /\ net' \in NetStates /\ Idle
          BY <4>1, ReturnsIs
        <5>2. net'.pending = net.pending
          BY <4>1 DEF Returns, Common, NetStates
        <5> QED BY <2>1, <2>2, <5>1, <5>2 DEF Common, CallRecord
      <4>2. CASE Returns([left EXCEPT !.body = <<>>, !.slips = @ \cup {"body lost"}])
        <5>1. /\ s' = [[left EXCEPT !.body = <<>>, !.slips = @ \cup {"body lost"}]
                         EXCEPT !.pc = "returned"]
              /\ net' \in NetStates /\ Idle
          BY <4>2, ReturnsIs
        <5>2. net'.pending = net.pending
          BY <4>2 DEF Returns, Common, NetStates
        <5> QED BY <2>1, <2>2, <5>1, <5>2 DEF Common, CallRecord
      <4> QED BY <2>3, <4>1, <4>2
    <3>2. Remains
      BY <2>1, <3>1 DEF Remains, AbortLost
    <3>3. Good /\ Honest'
      BY <3>1, <3>2, BufferIsGood DEF Good, Common
    <3>4. (net'.end = "whole" /\ s'.slips \cap (LostBody \cup NotStreamed) = {}) =>
             (IF request.streaming THEN GivenBody ELSE s.body)' = Collected'
      <4> SUFFICES ASSUME net'.end = "whole", s'.slips \cap (LostBody \cup NotStreamed) = {}
                   PROVE  (IF request.streaming THEN GivenBody ELSE s.body)' = Collected'
        OBVIOUS
      <4>1. s'.body = (IF parsed THEN rest ELSE s.body)
        BY <3>1 DEF LostBody
      <4>2. RawHeaders /\ RawGathered /\ Collected' = Collected
        BY <2>1, <3>1 DEF RawRead, Idle, Collected, Pieces
      <4>3. CASE request.streaming
        BY <2>1, <3>1, <4>2, <4>3 DEF RawGathered, GivenBody
      <4>4. CASE ~request.streaming
        BY <2>1, <4>1, <4>2, <4>4 DEF RawGathered, RawHeaders
      <4> QED BY <2>1, <4>3, <4>4
    <3>5. net'.end \in {"whole", "cut"} /\ backend' \in ReadsToEof
      BY <2>1, <3>1 DEF RawRead, Idle, NetStates, ReadsToEof
    <3>6. (s'.slips \cap LostUpload = {}) => s'.wired = s'.taken
      BY <2>1, <3>1, <3>3 DEF Honest
    <3>7. Left'
      BY <2>1, <3>1, <3>4, <3>5, <3>6 DEF Left, ResponseReceived, ReceivedWhole
    <3> QED BY <3>1, <3>3, <3>7 DEF RawInv
  <2>4. CASE Returns([left EXCEPT !.rc = "NOMEM", !.res = FALSE])
    <3> DEFINE call == [left EXCEPT !.rc = "NOMEM", !.res = FALSE]
    <3>1. /\ CallRecord(call) /\ call.rc # SUCCESS /\ call.given = s.given
          /\ call.body = s.body /\ call.taken = s.taken /\ call.wired = s.wired
          /\ call.aborted = s.aborted /\ call.slips = s.slips /\ call.held = {} /\ ~call.res
      BY <1>0, <2>1 DEF Common, CallRecord
    <3>2. Returns(call)
      BY <2>4
    <3> HIDE DEF call
    <3>3. Good /\ s'.pc = "returned" /\ Left'
      BY <2>1, <3>1, <3>2, LeavesStep
    <3> QED BY <3>3 DEF RawInv
  <2> QED BY <1>17, <2>3, <2>4 DEF parse_response
<1> QED BY <1>1, <1>2, <1>3, <1>4, <1>5, <1>6, <1>7, <1>8, <1>9, <1>10, <1>11, <1>12,
           <1>13, <1>14, <1>15, <1>16, <1>17
        DEF raw_steps, raw_network, resolve_and_connect, wait_writable, send_request,
            allocate_response

-----------------------------------------------------------------------------
(* The read stream of CFNetwork.  Without on_chunk only the last piece is    *)
(* kept.                                                                   *)
AppleGathered ==
  IF request.streaming THEN s.given = Collected /\ s.body = <<>>
  ELSE s.given = <<>> /\ ("earlier pieces lost" \notin s.slips => s.body = Collected)

AppleInv ==
  /\ s.held \subseteq AppleHeld
  /\ s.pc = "apple_request" => s.held \subseteq {"response"}
  /\ s.pc \in {"apple_body", "apple_stream"} => s.held \subseteq {"response", "request"}
  /\ s.pc \in {"apple_request", "apple_body", "apple_stream"} => Nothing /\ s.res
  /\ s.pc = "apple_run" => s.rc = SUCCESS /\ net.end = "open" /\ s.res /\ AppleGathered
  /\ s.pc = "apple_done" => (s.rc = SUCCESS => net.end = "whole" /\ s.res /\ AppleGathered)
  /\ s.pc = "returned" => Left

LEMMA AppleLeaves ==
  ASSUME NEW error \in Errors, apple_fails(error), backend = "apple", Common, AppleInv,
         s.pc # "returned", UNCHANGED <<backend, request>>
  PROVE  Good /\ AppleInv'
<1> DEFINE call == [Drop("", AppleHeld) EXCEPT !.rc = error, !.res = FALSE]
<1>1. /\ CallRecord(call) /\ call.rc # SUCCESS /\ call.held = {} /\ ~call.res
      /\ call.given = s.given /\ call.taken = s.taken /\ call.wired = s.wired
      /\ call.aborted = s.aborted /\ call.slips = s.slips
  BY DEF Drop, Common, CallRecord, AppleInv, SUCCESS, Errors
<1>2. Returns(call)
  BY DEF apple_fails
<1> HIDE DEF call
<1>3. Good /\ s'.pc = "returned" /\ Left' /\ s'.held = {}
  BY <1>1, <1>2, LeavesStep
<1> QED BY <1>3 DEF AppleInv

LEMMA AppleErrs ==
  ASSUME NEW c, NEW error \in Errors, apple_error(c, error), CallRecord(c),
         c.given = s.given, c.taken = s.taken, c.wired = s.wired,
         c.aborted \in {s.aborted, TRUE}, c.slips = s.slips, c.held = s.held,
         backend = "apple", Common, AppleInv, s.pc # "returned",
         UNCHANGED <<backend, request>>
  PROVE  Good /\ AppleInv'
<1> DEFINE call == [c EXCEPT !.rc = error, !.held = @ \ AppleHeld,
                             !.slips = @ \cup {"response with error"}]
<1>1. /\ CallRecord(call) /\ call.rc # SUCCESS /\ call.held = {}
      /\ call.given = s.given /\ call.taken = s.taken /\ call.wired = s.wired
      /\ call.aborted \in {s.aborted, TRUE} /\ s.slips \subseteq call.slips
      /\ "response with error" \in call.slips
      /\ call.slips \cap AbortLost \subseteq s.slips
  BY DEF Common, CallRecord, AppleInv, SUCCESS, Errors, AbortLost
<1>2. Returns(call)
  BY DEF apple_error
<1>3. call.slips \cap NotReleased # {}
  BY <1>1 DEF NotReleased
<1> HIDE DEF call
<1>4. Good /\ s'.pc = "returned" /\ Left' /\ s'.held = {}
  BY <1>1, <1>2, <1>3, LeavesStep
<1> QED BY <1>4 DEF AppleInv

LEMMA AppleSteps ==
  ASSUME backend = "apple", Common, AppleInv, apple_steps \/ apple_network
  PROVE  Good /\ AppleInv'
<1> USE DEF SUCCESS, apple, At
<1>0. /\ "NOMEM" \in Errors /\ "INVAL" \in Errors /\ "IO" \in Errors /\ "callback" \in Errors
      /\ CallRecord(s)
  BY DEF Errors, Common
<1>1. CASE apple_response
  <2>1. s.pc = "begin" /\ UNCHANGED <<backend, request>>
    BY <1>1 DEF apple_response
  <2>2. CASE apple_fails("NOMEM")
    BY <1>0, <2>1, <2>2, AppleLeaves
  <2>3. CASE /\ s' = [Hold("apple_request", {"response"}) EXCEPT !.res = TRUE]
             /\ UNCHANGED net
    <3>1. net' \in NetStates /\ Idle /\ s.held = {}
      BY <2>1, <2>3, BeginIs DEF Common, Idle
    <3>2. /\ Eventless /\ Remains /\ s'.pc = "apple_request" /\ s'.rc = s.rc
          /\ s'.held = {"response"} /\ s'.res
      BY <2>1, <2>3, <3>1 DEF Hold, Common, CallRecord, Eventless, Remains
    <3> QED BY <2>1, <3>1, <3>2, EventlessIsGood, BeginIs DEF AppleInv, AppleHeld
  <2> QED BY <1>1, <2>2, <2>3 DEF apple_response
<1>2. CASE apple_create_request
  <2>1. /\ s.pc = "apple_request" /\ UNCHANGED <<backend, request>>
        /\ Nothing /\ s.res /\ s.held \subseteq {"response"}
    BY <1>2 DEF apple_create_request, AppleInv
  <2>2. CASE \E e \in {"INVAL", "NOMEM"} : apple_fails(e)
    BY <1>0, <2>1, <2>2, AppleLeaves
  <2>3. CASE s' = Hold("apple_body", {"request"}) /\ UNCHANGED net
    <3>1. net' \in NetStates /\ Idle
      BY <2>3 DEF Common, Idle
    <3>2. /\ Eventless /\ Remains /\ s'.pc = "apple_body" /\ s'.rc = s.rc
          /\ s'.held = s.held \cup {"request"} /\ s'.res
      BY <2>1, <2>3, <3>1 DEF Hold, Common, CallRecord, Eventless, Remains
    <3> QED BY <2>1, <3>1, <3>2, EventlessIsGood DEF AppleInv, AppleHeld
  <2> QED BY <1>2, <2>2, <2>3 DEF apple_create_request
<1>3. CASE apple_set_body
  <2>1. /\ s.pc = "apple_body" /\ UNCHANGED <<backend, request>> /\ s.rc = "SUCCESS"
        /\ Nothing /\ s.res /\ s.held \subseteq {"response", "request"}
    BY <1>3 DEF apple_set_body, AppleInv, Nothing
  <2>2. CASE s' = BodySent("apple_stream") /\ UNCHANGED net
    <3>1. net' \in NetStates /\ Idle
      BY <2>2 DEF Common, Idle
    <3>2. /\ Eventless /\ Remains /\ s'.pc = "apple_stream" /\ s'.rc = s.rc
          /\ s'.held = s.held /\ s'.res
      BY <2>1, <2>2, <3>1, BodySentIs DEF BodySent
    <3> QED BY <2>1, <3>1, <3>2, EventlessIsGood DEF AppleInv, AppleHeld
  <2>3. CASE apple_fails("NOMEM")
    BY <1>0, <2>1, <2>3, AppleLeaves
  <2>4. CASE /\ s.taken < MaxUpload /\ UNCHANGED net
             /\ s' = [Supplies("apple_body") EXCEPT !.wired = @ + 1]
    <3>1. net' \in NetStates /\ Idle
      BY <2>4 DEF Common, Idle
    <3>2. /\ Supplied /\ Continues /\ s'.pc = "apple_body" /\ s'.held = s.held
          /\ s'.rc = s.rc /\ s'.res = s.res /\ s'.slips = s.slips
      BY <2>1, <2>4, <3>1, SuppliesIs
    <3> QED BY <2>1, <3>1, <3>2, SuppliedIsGood DEF AppleInv, AppleHeld
  <2>5. CASE apple_error([s EXCEPT !.aborted = TRUE], "callback")
    <3> DEFINE c == [s EXCEPT !.aborted = TRUE]
    <3>1. /\ CallRecord(c) /\ c.given = s.given /\ c.taken = s.taken /\ c.wired = s.wired
          /\ c.aborted \in {s.aborted, TRUE} /\ c.slips = s.slips /\ c.held = s.held
      BY <1>0 DEF CallRecord
    <3> HIDE DEF c
    <3>2. apple_error(c, "callback")
      BY <2>5 DEF c
    <3> QED BY <1>0, <2>1, <3>1, <3>2, AppleErrs
  <2> QED BY <1>3, <2>2, <2>3, <2>4, <2>5 DEF apple_set_body
<1>4. CASE apple_open_stream
  <2>1. /\ s.pc = "apple_stream" /\ UNCHANGED <<backend, request>>
        /\ Nothing /\ s.res /\ s.held \subseteq {"response", "request"}
    BY <1>4 DEF apple_open_stream, AppleInv
  <2>2. CASE \E e \in {"NOMEM", "IO"} : apple_error(s, e)
    BY <1>0, <2>1, <2>2, AppleErrs
  <2>3. CASE /\ s' = [Drop("apple_run", {"request"}) EXCEPT !.held = @ \cup {"stream"}]
             /\ UNCHANGED net
    <3>1. net' \in NetStates /\ Idle
      BY <2>3 DEF Common, Idle
    <3>2. /\ Eventless /\ Remains /\ s'.pc = "apple_run" /\ s'.rc = s.rc
          /\ s'.held = (s.held \ {"request"}) \cup {"stream"} /\ s'.res
          /\ s'.slips = s.slips
      BY <2>1, <2>3, <3>1 DEF Drop, Common, CallRecord, Eventless, Remains
    <3>3. Good /\ Nothing'
      BY <2>1, <3>1, <3>2, EventlessIsGood
    <3>4. AppleGathered' /\ s'.rc = "SUCCESS" /\ net'.end = "open"
      BY <3>3, PiecesGrow DEF AppleGathered, Nothing, Collected, Pieces
    <3> QED BY <2>1, <3>2, <3>3, <3>4 DEF AppleInv, AppleHeld
  <2> QED BY <1>4, <2>2, <2>3 DEF apple_open_stream
<1>5. CASE apple_stream_cb
  <2>1. /\ s.pc = "apple_run" /\ UNCHANGED <<backend, request>>
        /\ s.rc = "SUCCESS" /\ net.end = "open" /\ s.res /\ AppleGathered
        /\ s.held \subseteq AppleHeld
    BY <1>5 DEF apple_stream_cb, AppleInv
  <2>2. /\ Arrives /\ More /\ net' \in NetStates /\ net.arrived < MaxBody /\ net'.end = "open"
    BY <1>5, <2>1, ArrivesIs DEF apple_stream_cb, More
  <2>3. CASE /\ request.streaming
             /\ s' \in {Stream("apple_run"), StreamFails("apple_done", "callback")}
    <3>1. Receiving
      BY <2>1, <2>3 DEF Receiving, Gathered, AppleGathered
    <3>2. IF request.streaming
          THEN s' \in {Stream("apple_run"), StreamFails("apple_done", "callback")}
          ELSE s' \in {Store("apple_run"), Fail("apple_done", "NOMEM")}
      BY <2>3
    <3>3. /\ Good /\ s'.held = s.held /\ s'.res = s.res /\ s'.slips = s.slips
          /\ \/ s'.pc = "apple_run" /\ Receiving'
             \/ s'.pc = "apple_done" /\ s'.rc # SUCCESS
      BY <1>0, <2>1, <2>2, <3>1, <3>2, PlainPieceStep
    <3>4. Receiving' => AppleGathered' /\ s'.rc = "SUCCESS"
      BY <2>1, <2>3 DEF Receiving, Gathered, AppleGathered
    <3> QED BY <2>1, <2>2, <3>3, <3>4 DEF AppleInv
  <2>4. CASE /\ ~request.streaming
             /\ s' = [Hold("apple_run", {"body data"}) EXCEPT !.body = <<Piece>>,
                        !.slips = IF s.body = <<>> THEN @
                                  ELSE @ \cup {"earlier pieces lost"}]
    <3>1. <<Piece>> \in Seq(Nat)
      BY PieceFacts
    <3>2. /\ CallRecord(s)' /\ s'.given = s.given /\ s'.taken = s.taken /\ s'.wired = s.wired
          /\ s'.aborted = s.aborted /\ s'.sent = s.sent /\ Remains /\ s'.pc = "apple_run" /\ s'.rc = s.rc
          /\ s'.held = s.held \cup {"body data"} /\ s'.res /\ s'.body = <<Piece>>
          /\ s'.slips = (IF s.body = <<>> THEN s.slips
                         ELSE s.slips \cup {"earlier pieces lost"})
      BY <2>1, <2>2, <2>4, <3>1 DEF Hold, Common, CallRecord, Remains, AbortLost
    <3>3. Good
      BY <3>2, BufferIsGood
    <3>4. AppleGathered'
      <4>1. Append(Collected, Piece) = Collected' /\ (Collected = <<>> => Collected' = <<Piece>>)
        BY <2>2, PieceFacts
      <4>2. ~request.streaming /\ ~request'.streaming /\ s'.given = <<>>
        BY <2>1, <2>4, <3>2 DEF AppleGathered
      <4>3. "earlier pieces lost" \notin s'.slips => s'.body = Collected'
        <5>1. "earlier pieces lost" \notin s'.slips =>
                s.body = <<>> /\ "earlier pieces lost" \notin s.slips
          BY <3>2
        <5>2. "earlier pieces lost" \notin s.slips => s.body = Collected
          BY <2>1, <2>4 DEF AppleGathered
        <5> QED BY <3>2, <4>1, <5>1, <5>2
      <4> QED BY <4>2, <4>3 DEF AppleGathered
    <3> QED BY <2>1, <2>2, <3>2, <3>3, <3>4 DEF AppleInv, AppleHeld
  <2>5. CASE s' = Fail("apple_done", "NOMEM")
    <3>1. /\ Eventless /\ Remains /\ s'.pc = "apple_done" /\ s'.rc # "SUCCESS"
          /\ s'.held = s.held /\ s'.res = s.res
      BY <1>0, <2>1, <2>2, <2>5 DEF Fail, Common, CallRecord, Eventless, Remains
    <3> QED BY <2>1, <3>1, EventlessIsGood DEF AppleInv
  <2> QED BY <1>5, <2>3, <2>4, <2>5 DEF apple_stream_cb
<1>6. CASE apple_end
  <2>1. /\ s.pc = "apple_run" /\ UNCHANGED <<backend, request>> /\ s' = Goto("apple_done")
        /\ Ends("whole") /\ s.rc = "SUCCESS" /\ s.res /\ AppleGathered
        /\ s.held \subseteq AppleHeld
    BY <1>6 DEF apple_end, BodyEnd, AppleInv
  <2>2. net' \in NetStates /\ net'.end = "whole" /\ net'.arrived = net.arrived
    BY <2>1, EndsIs
  <2>3. /\ Eventless /\ Remains /\ s'.pc = "apple_done" /\ s'.rc = s.rc
        /\ s'.held = s.held /\ s'.res /\ s'.slips = s.slips
    BY <2>1, <2>2 DEF Goto, Common, CallRecord, Eventless, Remains
  <2>4. AppleGathered'
    BY <2>1, <2>2, <2>3 DEF AppleGathered, Eventless, Collected, Pieces
  <2> QED BY <2>1, <2>2, <2>3, <2>4, EventlessIsGood DEF AppleInv
<1>7. CASE apple_stream_error
  <2>1. {"IO"} \in SUBSET Errors
    BY <1>0
  <2>2. Good /\ s'.pc = "apple_done" /\ s'.held = s.held /\ s'.rc # SUCCESS
    BY <1>7, <2>1, FailStep DEF apple_stream_error
  <2> QED BY <2>2 DEF AppleInv
<1>8. CASE apple_extract_response
  <2>1. s.pc = "apple_done" /\ UNCHANGED <<backend, request>> /\ s.held \subseteq AppleHeld
    BY <1>8 DEF apple_extract_response, AppleInv
  <2>2. CASE s.rc # "SUCCESS" /\ apple_error(s, s.rc)
    <3>1. s.rc \in Errors
      BY <1>0, <2>2 DEF CallRecord
    <3> QED BY <1>0, <2>1, <2>2, <3>1, AppleErrs
  <2>3. CASE apple_error([s EXCEPT !.body = <<>>], "NOMEM")
    <3> DEFINE c == [s EXCEPT !.body = <<>>]
    <3>0. <<>> \in Seq(Nat)
      OBVIOUS
    <3>1. /\ CallRecord(c) /\ c.given = s.given /\ c.taken = s.taken /\ c.wired = s.wired
          /\ c.aborted \in {s.aborted, TRUE} /\ c.slips = s.slips /\ c.held = s.held
      BY <1>0, <3>0 DEF CallRecord
    <3> HIDE DEF c
    <3>2. apple_error(c, "NOMEM")
      BY <2>3 DEF c
    <3> QED BY <1>0, <2>1, <3>1, <3>2, AppleErrs
  <2>4. CASE s.rc = "SUCCESS" /\ Returns(Drop("", AppleHeld))
    <3>1. /\ s' = [Drop("", AppleHeld) EXCEPT !.pc = "returned"]
          /\ net' \in NetStates /\ Idle
      BY <2>4, ReturnsIs
    <3>2. net.end = "whole" /\ s.res /\ AppleGathered
      BY <2>1, <2>4 DEF AppleInv
    <3>3. /\ Eventless /\ Remains /\ s'.pc = "returned" /\ s'.rc = s.rc
          /\ s'.held = {} /\ s'.res /\ s'.slips = s.slips
      BY <2>1, <3>1, <3>2 DEF Drop, Common, CallRecord, Eventless, Remains
    <3>4. Good /\ Honest'
      BY <3>3, EventlessIsGood DEF Good, Common
    <3>5. AppleGathered' /\ net'.end = "whole"
      BY <2>1, <3>1, <3>2, <3>3 DEF AppleGathered, Eventless, Collected, Pieces, Idle
    <3>6. (s'.slips \cap LostUpload = {}) => s'.wired = s'.taken
      BY <2>4, <3>3, <3>4 DEF Honest, LostUpload
    <3>7. /\ s'.slips \cap (LostBody \cup NotStreamed) = {} =>
               "earlier pieces lost" \notin s'.slips
      BY DEF LostBody
    <3>8. (s'.slips \cap (LostBody \cup NotStreamed) = {}) =>
             (IF request.streaming THEN GivenBody ELSE s.body)' = Collected'
      BY <2>1, <3>5, <3>7 DEF AppleGathered, GivenBody
    <3>9. ResponseReceived'
      BY <3>3, <3>5, <3>6, <3>8 DEF ResponseReceived, ReceivedWhole, LostUpload, LostBody, NotStreamed
    <3> QED BY <2>4, <3>3, <3>4, <3>9 DEF AppleInv, Left
  <2> QED BY <1>8, <2>2, <2>3, <2>4 DEF apple_extract_response
<1> QED BY <1>1, <1>2, <1>3, <1>4, <1>5, <1>6, <1>7, <1>8 DEF apple_steps, apple_network

-----------------------------------------------------------------------------
(* msh3.  The events fill the response until the caller sees is_complete.   *)
Msh3Gathered ==
  /\ s.given = <<>> /\ s.body = Collected
  /\ request.streaming => net.arrived = 0 \/ "on_chunk not called" \in s.slips

Msh3Prepares ==
  {"msh3_resolve", "msh3_open", "msh3_mutex", "msh3_cond", "msh3_request"}

Msh3Inv ==
  /\ s.held \subseteq Msh3Held
  /\ s.pc \in {"begin", "msh3_response"} => Nothing /\ ~s.res /\ net.pending = {}
  /\ s.pc \in Msh3Prepares => Nothing /\ s.res /\ net.pending = {}
  /\ s.pc = "msh3_wait" => /\ s.res /\ ("complete" \in net.pending => net.end # "open")
                           /\ s.rc = SUCCESS => Msh3Gathered
  /\ s.pc = "msh3_close" => (s.rc = SUCCESS => s.res /\ net.end # "open" /\ Msh3Gathered)
  /\ s.pc = "returned" => Left

LEMMA Msh3Fails ==
  ASSUME NEW error \in Errors, Msh3Leaves(error), backend = "msh3", Common, Msh3Inv,
         s.pc # "returned", UNCHANGED <<backend, request>>
  PROVE  Good /\ Msh3Inv'
<1> DEFINE call == [Drop("", Msh3Held) EXCEPT !.rc = error, !.res = FALSE]
<1>1. /\ CallRecord(call) /\ call.rc # SUCCESS /\ call.held = {} /\ ~call.res
      /\ call.given = s.given /\ call.taken = s.taken /\ call.wired = s.wired
      /\ call.aborted = s.aborted /\ call.slips = s.slips
  BY DEF Drop, Common, CallRecord, Msh3Inv, SUCCESS, Errors
<1>2. Returns(call)
  BY DEF Msh3Leaves
<1> HIDE DEF call
<1>3. Good /\ s'.pc = "returned" /\ Left' /\ s'.held = {}
  BY <1>1, <1>2, LeavesStep
<1> QED BY <1>3 DEF Msh3Inv, Msh3Prepares

LEMMA Msh3TryStep ==
  ASSUME NEW place, NEW things \in SUBSET Msh3Held, NEW next, NEW error \in Errors,
         Msh3Tries(place, things, next, error), backend = "msh3", Common, Msh3Inv,
         place # "returned", next # "begin", next # "returned", Nothing
  PROVE  \/ Good /\ Msh3Inv'
         \/ /\ Good /\ s'.pc = next /\ Nothing' /\ s'.res = s.res /\ UNCHANGED net
            /\ HoldsOnly(Msh3Held)'
<1> USE DEF msh3, At
<1>1. s.pc = place /\ UNCHANGED <<backend, request>>
  BY DEF Msh3Tries
<1>2. CASE Msh3Leaves(error)
  BY <1>1, <1>2, Msh3Fails
<1>3. CASE s' = Hold(next, things) /\ UNCHANGED net
  <2>1. net' \in NetStates /\ Idle
    BY <1>3 DEF Common, Idle
  <2>2. /\ Eventless /\ Remains /\ s'.pc = next /\ s'.rc = s.rc
        /\ s'.held = s.held \cup things /\ s'.res = s.res
    BY <1>1, <1>3, <2>1 DEF Hold, Common, CallRecord, Eventless, Remains
  <2>3. Good /\ Nothing'
    BY <2>1, <2>2, EventlessIsGood
  <2> QED BY <1>3, <2>2, <2>3 DEF Msh3Inv, HoldsOnly
<1> QED BY <1>2, <1>3 DEF Msh3Tries

LEMMA Msh3Steps ==
  ASSUME backend = "msh3", Common, Msh3Inv, msh3_steps \/ msh3_network \/ msh3_wait
  PROVE  Good /\ Msh3Inv'
<1> USE DEF SUCCESS, msh3, At
<1>0. /\ "NOMEM" \in Errors /\ "INVAL" \in Errors /\ "IO" \in Errors
      /\ {} \in SUBSET Msh3Held /\ {"strings"} \in SUBSET Msh3Held
      /\ {"connection"} \in SUBSET Msh3Held /\ {"mutex"} \in SUBSET Msh3Held
      /\ {"cond"} \in SUBSET Msh3Held
  BY DEF Errors, Msh3Held
<1>1. CASE msh3_parse_url
  <2>1. s.pc = "begin" /\ Nothing /\ ~s.res /\ net.pending = {}
    BY <1>1, BeginIs DEF msh3_parse_url, Msh3Tries
  <2>2. \/ Good /\ Msh3Inv'
        \/ /\ Good /\ s'.pc = "msh3_response" /\ Nothing' /\ s'.res = s.res
           /\ UNCHANGED net /\ HoldsOnly(Msh3Held)'
    BY <1>0, <1>1, <2>1, Msh3TryStep DEF msh3_parse_url
  <2> QED BY <2>1, <2>2 DEF Msh3Inv, HoldsOnly, Msh3Prepares
<1>2. CASE msh3_response
  <2>1. /\ s.pc = "msh3_response" /\ UNCHANGED <<backend, request>>
        /\ Nothing /\ ~s.res /\ net.pending = {} /\ s.held \subseteq Msh3Held
    BY <1>2 DEF msh3_response, Msh3Inv
  <2>2. CASE Msh3Leaves("NOMEM")
    BY <1>0, <2>1, <2>2, Msh3Fails
  <2>3. CASE s' = [Hold("msh3_resolve", {"response"}) EXCEPT !.res = TRUE] /\ UNCHANGED net
    <3>1. net' \in NetStates /\ Idle
      BY <2>3 DEF Common, Idle
    <3>2. /\ Eventless /\ Remains /\ s'.pc = "msh3_resolve" /\ s'.rc = s.rc
          /\ s'.held = s.held \cup {"response"} /\ s'.res
      BY <2>1, <2>3, <3>1 DEF Hold, Common, CallRecord, Eventless, Remains
    <3> QED BY <2>1, <2>3, <3>1, <3>2, EventlessIsGood DEF Msh3Inv, Msh3Held, Msh3Prepares
  <2> QED BY <1>2, <2>2, <2>3 DEF msh3_response
<1>3. CASE msh3_connect \/ msh3_sync_init
  <2>1. ASSUME NEW place \in Msh3Prepares, NEW things \in SUBSET Msh3Held,
               NEW next \in Msh3Prepares, NEW error \in Errors,
               Msh3Tries(place, things, next, error)
        PROVE  Good /\ Msh3Inv'
    <3>1. Nothing /\ s.res /\ net.pending = {}
      BY <2>1 DEF Msh3Tries, Msh3Inv
    <3>2. place # "returned" /\ next # "begin" /\ next # "returned"
      BY DEF Msh3Prepares
    <3>3. \/ Good /\ Msh3Inv'
          \/ /\ Good /\ s'.pc = next /\ Nothing' /\ s'.res = s.res /\ UNCHANGED net
             /\ HoldsOnly(Msh3Held)'
      BY <2>1, <3>1, <3>2, Msh3TryStep
    <3> QED BY <3>1, <3>2, <3>3 DEF Msh3Inv, HoldsOnly, Msh3Prepares
  <2>2. {"msh3_resolve", "msh3_open", "msh3_mutex", "msh3_cond", "msh3_request"}
          \subseteq Msh3Prepares
    BY DEF Msh3Prepares
  <2> QED BY <1>0, <1>3, <2>1, <2>2 DEF msh3_connect, msh3_sync_init
<1>4. CASE msh3_request
  <2>1. /\ s.pc = "msh3_request" /\ UNCHANGED <<backend, request, net>> /\ net' \in NetStates
        /\ Idle /\ Nothing /\ s.res /\ net.pending = {} /\ s.held \subseteq Msh3Held
    BY <1>4 DEF msh3_request, Msh3Inv, Msh3Prepares, Common, Idle
  <2>2. /\ Eventless /\ Remains /\ s'.held \subseteq s.held \cup {"request"} /\ s'.res
        /\ \/ s'.pc = "msh3_close" /\ s'.rc # "SUCCESS"
           \/ s'.pc = "msh3_wait" /\ s'.rc = s.rc
    <3>1. CASE s' = Fail("msh3_close", "NOMEM")
      BY <1>0, <2>1, <3>1 DEF Fail, Common, CallRecord, Eventless, Remains
    <3>2. CASE s' = [Hold("msh3_close", {"request"}) EXCEPT !.rc = "IO"]
      BY <1>0, <2>1, <3>2 DEF Hold, Common, CallRecord, Eventless, Remains
    <3>3. CASE s' = PassesOn(Hold("msh3_wait", {"request"}), {"none"})
      BY <2>1, <3>3, PassesOnIs
    <3> QED BY <1>4, <3>1, <3>2, <3>3 DEF msh3_request
  <2>3. Good /\ (s'.rc = s.rc => Nothing')
    BY <2>1, <2>2, EventlessIsGood
  <2>4. Nothing' => Msh3Gathered'
    BY PiecesGrow DEF Nothing, Msh3Gathered, Collected, Pieces
  <2> QED BY <2>1, <2>2, <2>3, <2>4 DEF Msh3Inv, Msh3Held, Msh3Prepares, Nothing
<1>5. CASE msh3_data_received
  <2>1. /\ s.pc = "msh3_wait" /\ UNCHANGED <<backend, request>> /\ s.res
        /\ "complete" \notin net.pending /\ s.held \subseteq Msh3Held
        /\ (s.rc = "SUCCESS" => Msh3Gathered)
    BY <1>5 DEF msh3_data_received, msh3_running, Msh3Inv
  <2>2. More /\ net' \in NetStates /\ net'.pending = net.pending
    BY <1>5, ArrivesIs DEF msh3_data_received
  <2>3. CASE s' = Fail("msh3_wait", "NOMEM")
    <3>1. /\ Eventless /\ Remains /\ s'.pc = "msh3_wait" /\ s'.rc # "SUCCESS"
          /\ s'.held = s.held /\ s'.res
      BY <1>0, <2>1, <2>2, <2>3 DEF Fail, Common, CallRecord, Eventless, Remains
    <3> QED BY <2>1, <2>2, <3>1, EventlessIsGood DEF Msh3Inv, Msh3Prepares
  <2>4. CASE s' = [Store("msh3_wait") EXCEPT !.slips =
                     IF request.streaming THEN @ \cup {"on_chunk not called"} ELSE @]
    <3>1. Append(s.body, Piece) \in Seq(Nat)
      <4>1. s.body \in Seq(Nat) /\ Piece \in Nat
        BY PieceFacts DEF Common, CallRecord
      <4> QED BY <4>1, AppendProperties
    <3>2. /\ CallRecord(s)' /\ s'.given = s.given /\ s'.taken = s.taken /\ s'.wired = s.wired
          /\ s'.aborted = s.aborted /\ s'.sent = s.sent /\ Remains /\ s'.pc = "msh3_wait" /\ s'.rc = s.rc
          /\ s'.held = s.held /\ s'.res /\ s'.body = Append(s.body, Piece)
          /\ request.streaming => "on_chunk not called" \in s'.slips
      BY <2>1, <2>2, <2>4, <3>1 DEF Store, Common, CallRecord, Remains, AbortLost
    <3>3. Good
      BY <3>2, BufferIsGood
    <3>4. Msh3Gathered => Msh3Gathered'
      <4>1. Append(Collected, Piece) = Collected'
        BY <2>2, PieceFacts
      <4> QED BY <2>1, <3>2, <4>1 DEF Msh3Gathered
    <3> QED BY <2>1, <2>2, <3>2, <3>3, <3>4 DEF Msh3Inv, Msh3Prepares
  <2> QED BY <1>5, <2>3, <2>4 DEF msh3_data_received
<1>6. CASE msh3_shutdown_complete
  <2>1. /\ s.pc = "msh3_wait" /\ UNCHANGED <<backend, request>> /\ s.res
        /\ s.held \subseteq Msh3Held /\ (s.rc = "SUCCESS" => Msh3Gathered)
    BY <1>6 DEF msh3_shutdown_complete, msh3_running, Msh3Inv
  <2>2. PICK how \in {"whole", "cut"} :
          /\ net' = [net EXCEPT !.end = how, !.pending = @ \cup {"complete"}]
          /\ s' \in {s, Fail("msh3_wait", "IO")}
    BY <1>6 DEF msh3_shutdown_complete
  <2>3. net' \in NetStates /\ net'.end # "open" /\ net'.arrived = net.arrived
    BY <2>2 DEF Common, NetStates, Flags
  <2>4. /\ Eventless /\ Remains /\ s'.pc = "msh3_wait" /\ s'.held = s.held /\ s'.res
        /\ s'.slips = s.slips /\ (s'.rc = s.rc \/ s'.rc # "SUCCESS")
    <3>1. CASE s' = s
      BY <2>1, <2>3, <3>1 DEF Common, CallRecord, Eventless, Remains
    <3>2. CASE s' = Fail("msh3_wait", "IO")
      BY <1>0, <2>1, <2>3, <3>2 DEF Fail, Common, CallRecord, Eventless, Remains
    <3> QED BY <2>2, <3>1, <3>2
  <2>5. Msh3Gathered => Msh3Gathered'
    BY <2>1, <2>3, <2>4 DEF Msh3Gathered, Eventless, Collected, Pieces
  <2> QED BY <2>1, <2>3, <2>4, <2>5, EventlessIsGood DEF Msh3Inv, Msh3Prepares
<1>7. CASE msh3_wait
  <2>1. /\ s.pc = "msh3_wait" /\ UNCHANGED <<backend, request, net>> /\ net' \in NetStates
        /\ s.res /\ s.held \subseteq Msh3Held /\ (s.rc = "SUCCESS" => Msh3Gathered)
        /\ ("complete" \in net.pending => net.end # "open")
    BY <1>7 DEF msh3_wait, Msh3Inv, Common
  <2>2. /\ Eventless /\ Remains /\ s'.pc = "msh3_close" /\ s'.held = s.held /\ s'.res
        /\ s'.slips = s.slips
        /\ (s'.rc = s.rc /\ "complete" \in net.pending) \/ s'.rc # "SUCCESS"
    <3>1. CASE "complete" \in net.pending /\ s' = Goto("msh3_close")
      BY <2>1, <3>1 DEF Goto, Common, CallRecord, Eventless, Remains
    <3>2. CASE s' = Fail("msh3_close", "IO")
      BY <1>0, <2>1, <3>2 DEF Fail, Common, CallRecord, Eventless, Remains
    <3> QED BY <1>7, <3>1, <3>2 DEF msh3_wait
  <2>3. Msh3Gathered => Msh3Gathered'
    BY <2>1, <2>2 DEF Msh3Gathered, Eventless, Collected, Pieces
  <2> QED BY <2>1, <2>2, <2>3, EventlessIsGood DEF Msh3Inv, Msh3Prepares
<1>8. CASE msh3_close
  <2>1. s.pc = "msh3_close" /\ UNCHANGED <<backend, request>> /\ s.held \subseteq Msh3Held
    BY <1>8 DEF msh3_close, Msh3Inv
  <2>2. CASE Msh3Leaves(IF s.rc = SUCCESS THEN "IO" ELSE s.rc)
    <3>1. (IF s.rc = SUCCESS THEN "IO" ELSE s.rc) \in Errors
      BY <1>0 DEF Common, CallRecord
    <3> QED BY <2>1, <2>2, <3>1, Msh3Fails
  <2>3. CASE s.rc = "SUCCESS" /\ Returns(Drop("", Msh3Held))
    <3>1. /\ s' = [Drop("", Msh3Held) EXCEPT !.pc = "returned"]
          /\ net' \in NetStates /\ Idle
      BY <2>3, ReturnsIs
    <3>2. net.end # "open" /\ s.res /\ Msh3Gathered
      BY <2>1, <2>3 DEF Msh3Inv
    <3>3. /\ Eventless /\ Remains /\ s'.pc = "returned" /\ s'.rc = s.rc
          /\ s'.held = {} /\ s'.res /\ s'.slips = s.slips
      BY <2>1, <3>1, <3>2 DEF Drop, Common, CallRecord, Eventless, Remains
    <3>4. Good /\ Honest'
      BY <3>3, EventlessIsGood DEF Good, Common
    <3>5. Msh3Gathered' /\ net'.end \in {"whole", "cut"}
      BY <2>1, <3>1, <3>2, <3>3
         DEF Msh3Gathered, Eventless, Collected, Pieces, Idle, NetStates
    <3>6. (s'.slips \cap LostUpload = {}) => s'.wired = s'.taken
      BY <2>3, <3>3, <3>4 DEF Honest, LostUpload
    <3>7. (s'.slips \cap (LostBody \cup NotStreamed) = {}) =>
             (IF request.streaming THEN GivenBody ELSE s.body)' = Collected'
      <4>1. (s'.slips \cap (LostBody \cup NotStreamed) = {}) =>
               "on_chunk not called" \notin s'.slips
        BY DEF NotStreamed
      <4>2. GivenBody' = <<>>
        BY <3>5 DEF Msh3Gathered, GivenBody
      <4>3. net'.arrived = 0 => Collected' = <<>>
        BY PiecesGrow DEF Collected, Pieces
      <4> QED BY <3>5, <4>1, <4>2, <4>3 DEF Msh3Gathered
    <3>8. backend' \in ReadsToEof
      BY <2>1 DEF ReadsToEof
    <3>9. ResponseReceived'
      BY <3>3, <3>5, <3>6, <3>7, <3>8
         DEF ResponseReceived, ReceivedWhole, LostUpload, LostBody, NotStreamed, ReadsToEof
    <3> QED BY <2>3, <3>3, <3>4, <3>9 DEF Msh3Inv, Left, Msh3Prepares
  <2> QED BY <1>8, <2>2, <2>3 DEF msh3_close
<1> QED BY <1>1, <1>2, <1>3, <1>4, <1>5, <1>6, <1>7, <1>8 DEF msh3_steps, msh3_network

-----------------------------------------------------------------------------
(* picoquic and xquic: there is no response yet.                            *)
PicoquicInv ==
  /\ s.held \subseteq {"response"} /\ ~s.res
  /\ s.pc = "returned" => Left

LEMMA PicoquicSteps ==
  ASSUME Common, PicoquicInv, http_picoquic_send
  PROVE  Good /\ PicoquicInv'
<1> USE DEF SUCCESS, At
<1>0. "NOMEM" \in Errors /\ "INVAL" \in Errors /\ "IO" \in Errors
  BY DEF Errors
<1>1. UNCHANGED <<backend, request>> /\ s.pc \in {"begin", "quic_connection"}
  BY DEF http_picoquic_send
<1>2. CASE \E e \in {"INVAL", "NOMEM"} : s.pc = "begin" /\ Returns([s EXCEPT !.rc = e])
  <2>1. Good /\ s'.pc = "returned" /\ Left' /\ s'.held = {} /\ ~s'.res
    BY <1>0, <1>1, <1>2, BeginLeaves
  <2> QED BY <2>1 DEF PicoquicInv
<1>3. CASE s.pc = "begin" /\ s' = Hold("quic_connection", {"response"}) /\ UNCHANGED net
  <2>1. net' \in NetStates /\ ~s.res /\ s.held = {}
    BY <1>3, BeginIs DEF Common
  <2>2. /\ Eventless /\ Remains /\ s'.pc = "quic_connection"
        /\ s'.held = {"response"} /\ ~s'.res
    BY <1>1, <1>3, <2>1 DEF Hold, Common, CallRecord, Eventless, Remains
  <2> QED BY <2>2, EventlessIsGood DEF PicoquicInv
<1>4. CASE s.pc = "quic_connection" /\ Returns([Drop("", {"response"}) EXCEPT !.rc = "IO"])
  <2> DEFINE call == [Drop("", {"response"}) EXCEPT !.rc = "IO"]
  <2>1. /\ CallRecord(call) /\ call.rc # SUCCESS /\ call.held = {} /\ ~call.res
        /\ call.given = s.given /\ call.taken = s.taken /\ call.wired = s.wired
        /\ call.aborted = s.aborted /\ call.slips = s.slips
    BY <1>0 DEF Drop, Common, CallRecord, PicoquicInv
  <2>2. s'.res = call.res /\ s' = [call EXCEPT !.pc = "returned"]
    <3>1. s' = [call EXCEPT !.pc = "returned"]
      BY <1>4, ReturnsIs
    <3> QED BY <2>1, <3>1 DEF CallRecord
  <2> HIDE DEF call
  <2>3. Good /\ s'.pc = "returned" /\ Left' /\ s'.held = {}
    BY <1>1, <1>4, <2>1, LeavesStep DEF call
  <2> QED BY <2>1, <2>2, <2>3 DEF PicoquicInv
<1> QED BY <1>2, <1>3, <1>4 DEF http_picoquic_send

XquicInv == s.held = {} /\ ~s.res /\ (s.pc = "returned" => Left)

LEMMA XquicSteps ==
  ASSUME Common, XquicInv, http_xquic_send
  PROVE  Good /\ XquicInv'
<1>1. "INVAL" \in Errors /\ "IO" \in Errors /\ UNCHANGED <<backend, request>> /\ s.pc = "begin"
  BY DEF http_xquic_send, At, Errors
<1>2. Good /\ s'.pc = "returned" /\ Left' /\ s'.held = {} /\ ~s'.res
  BY <1>1, BeginLeaves DEF http_xquic_send
<1> QED BY <1>2 DEF XquicInv

-----------------------------------------------------------------------------
(* libuv.  While the loop runs, the callbacks that are pending tell how far  *)
(* the transfer is; a late connection is one whose error is already set.    *)
UvMemory == UvStrings \cup {"response"}
UvThings == UvMemory \cup UvHandles \cup {"loop", "late connection"}
UvPrepares == {"begin", "uv_method", "uv_buffer", "uv_header_lines", "uv_body", "uv_loop",
               "uv_tcp", "uv_timer", "uv_lookup"}
UvRequest == {"host", "path", "request buffer"}

UvEnded == ReadToEnd /\ (net.end = "whole" => s.res)

(* What the loop still has to call back.                                    *)
UvCallbacks ==
  /\ \/ uv_done \/ "resolve" \in net.pending \/ "connect" \in net.pending
     \/ "write" \in net.pending \/ "read" \in net.pending
  /\ uv_done => /\ "connect" \notin net.pending /\ "write" \notin net.pending
                /\ "read" \notin net.pending /\ "timer" \notin net.pending
  /\ "resolve" \in net.pending =>
       /\ "connect" \notin net.pending /\ "write" \notin net.pending
       /\ "read" \notin net.pending
  /\ "connect" \in net.pending => "write" \notin net.pending /\ "read" \notin net.pending
  /\ "write" \in net.pending => "read" \notin net.pending
  /\ "late" \in net.pending => uv_done

UvLate == uv_done /\ ("late" \in net.pending \/ "resolve" \in net.pending)

UvRunning ==
  /\ "headers" \in net.pending => s.res
  /\ ~uv_done => Receiving
  /\ UvLate => s.rc # SUCCESS /\ ~Aborted /\ Gathered
  /\ uv_done /\ s.rc = SUCCESS => UvEnded

UvHeld ==
  /\ s.held \subseteq UvThings
  /\ "late connection" \in s.held => "connects after time-out" \in s.slips
  /\ s.pc = "uv_method" => s.held \subseteq {"host", "path"}
  /\ s.pc = "uv_buffer" => s.held \subseteq {"host", "path"}
  /\ s.pc = "uv_header_lines" => s.held \subseteq UvRequest
  /\ s.pc = "uv_body" => s.held \subseteq UvRequest
  /\ s.pc = "uv_loop" => s.held \subseteq UvMemory
  /\ s.pc = "uv_cleanup" => (s.slips \cap NotReleased = {} => s.held \subseteq UvMemory)

UvInv ==
  /\ UvHeld
  /\ s.pc \in UvPrepares => Nothing /\ ~s.res /\ net.pending \subseteq {"timer"}
  /\ s.pc = "uv_run" => UvCallbacks /\ UvRunning
  /\ s.pc \in {"uv_loop_close", "uv_cleanup"} => (s.rc = SUCCESS => UvEnded)
  /\ s.pc = "returned" => Left

(* Preparing the request and the loop.                                      *)
LEMMA UvReturns ==
  ASSUME NEW things, NEW error \in Errors,
         Returns([s EXCEPT !.rc = error, !.held = @ \ things]), HoldsOnly(things),
         backend = "libuv", Common, UvInv, s.pc \in UvPrepares,
         UNCHANGED <<backend, request>>
  PROVE  Good /\ UvInv'
<1> DEFINE call == [s EXCEPT !.rc = error, !.held = @ \ things]
<1>1. /\ CallRecord(call) /\ call.rc # SUCCESS /\ call.held = {} /\ ~call.res
      /\ call.given = s.given /\ call.taken = s.taken /\ call.wired = s.wired
      /\ call.aborted = s.aborted /\ call.slips = s.slips
  BY DEF Common, CallRecord, UvInv, HoldsOnly, SUCCESS, Errors
<1>2. Returns(call) /\ s.pc # "returned"
  BY DEF UvPrepares
<1> HIDE DEF call
<1>3. Good /\ s'.pc = "returned" /\ Left' /\ s'.held = {}
  BY <1>1, <1>2, LeavesStep
<1> QED BY <1>3 DEF UvInv, UvHeld, UvPrepares

LEMMA UvPrepareSteps ==
  ASSUME backend = "libuv", Common, UvInv,
         uv_parse_url \/ uv_build_request \/ uv_build_body
  PROVE  Good /\ UvInv'
<1> USE DEF SUCCESS, uv, At
<1>0. /\ "NOMEM" \in Errors /\ "INVAL" \in Errors
      /\ {"begin", "uv_method", "uv_buffer", "uv_header_lines", "uv_body", "uv_loop"}
           \subseteq UvPrepares
      /\ "returned" \notin UvPrepares /\ "uv_run" \notin UvPrepares
      /\ "uv_loop_close" \notin UvPrepares /\ "uv_cleanup" \notin UvPrepares
      /\ UvRequest \subseteq UvMemory /\ {"host", "path"} \subseteq UvRequest
      /\ UvMemory \subseteq UvThings /\ "late connection" \notin UvMemory
  BY DEF Errors, UvPrepares, UvRequest, UvMemory, UvThings, UvStrings
<1>1. CASE uv_parse_url
  <2>1. s.pc = "begin" /\ UNCHANGED <<backend, request>>
    BY <1>1 DEF uv_parse_url
  <2>2. CASE Returns([s EXCEPT !.rc = "INVAL"])
    <3>1. Good /\ s'.pc = "returned" /\ Left' /\ s'.held = {}
      BY <1>0, <2>1, <2>2, BeginLeaves
    <3> QED BY <1>0, <3>1 DEF UvInv, UvHeld
  <2>3. CASE s' = Hold("uv_method", {"host", "path"}) /\ UNCHANGED net
    <3>1. net' \in NetStates /\ Idle /\ net'.pending = {}
      BY <2>1, <2>3, BeginIs DEF Common, Idle
    <3>2. /\ Eventless /\ Remains /\ s'.pc = "uv_method" /\ s'.rc = s.rc
          /\ s'.held = s.held \cup {"host", "path"} /\ s'.res = s.res
      BY <2>1, <2>3, <3>1 DEF Hold, Common, CallRecord, Eventless, Remains
    <3> QED BY <1>0, <2>1, <3>1, <3>2, EventlessIsGood, BeginIs DEF UvInv, UvHeld
  <2> QED BY <1>1, <2>2, <2>3 DEF uv_parse_url
<1>2. CASE TryOrLeave("uv_method", {}, "uv_buffer", "INVAL", {"host", "path"})
  <2>1. /\ HoldsOnly({"host", "path"}) /\ Nothing /\ ~s.res /\ net.pending \subseteq {"timer"}
    BY <1>0, <1>2 DEF TryOrLeave, HoldsOnly, UvInv, UvHeld
  <2>2. /\ Good /\ ~s'.res
        /\ \/ s'.pc = "uv_buffer" /\ Acquires({}) /\ Nothing' /\ UNCHANGED net
           \/ s'.pc = "returned" /\ HoldsOnly({})' /\ Left'
    BY <1>0, <1>2, <2>1, TryOrLeaveStep
  <2> QED BY <1>0, <2>1, <2>2 DEF UvInv, UvHeld, HoldsOnly, Acquires
<1>3. CASE TryOrLeave("uv_buffer", {"request buffer"}, "uv_header_lines", "NOMEM",
                      {"host", "path"})
  <2> DEFINE things == {"request buffer"}
             released == {"host", "path"}
  <2>0. TryOrLeave("uv_buffer", things, "uv_header_lines", "NOMEM", released)
    BY <1>3
  <2>1. /\ HoldsOnly(released) /\ Nothing /\ ~s.res /\ net.pending \subseteq {"timer"}
    BY <1>0, <1>3 DEF TryOrLeave, HoldsOnly, UvInv, UvHeld
  <2>2. things \subseteq UvRequest /\ released \subseteq UvRequest
    BY DEF UvRequest
  <2> HIDE DEF things, released
  <2>3. /\ Good /\ ~s'.res
        /\ \/ s'.pc = "uv_header_lines" /\ Acquires(things) /\ Nothing' /\ UNCHANGED net
           \/ s'.pc = "returned" /\ HoldsOnly({})' /\ Left'
    BY <1>0, <2>0, <2>1, TryOrLeaveStep
  <2> QED BY <1>0, <2>1, <2>2, <2>3 DEF UvInv, UvHeld, HoldsOnly, Acquires
<1>4. CASE TryOrLeave("uv_header_lines", {}, "uv_body", "NOMEM",
                      {"host", "path", "request buffer"})
  <2>0. TryOrLeave("uv_header_lines", {}, "uv_body", "NOMEM", UvRequest)
    BY <1>4 DEF UvRequest
  <2>1. /\ HoldsOnly(UvRequest) /\ Nothing /\ ~s.res /\ net.pending \subseteq {"timer"}
    BY <1>0, <1>4 DEF TryOrLeave, HoldsOnly, UvInv, UvHeld
  <2>2. /\ Good /\ ~s'.res
        /\ \/ s'.pc = "uv_body" /\ Acquires({}) /\ Nothing' /\ UNCHANGED net
           \/ s'.pc = "returned" /\ HoldsOnly({})' /\ Left'
    BY <1>0, <2>0, <2>1, TryOrLeaveStep
  <2> QED BY <1>0, <2>1, <2>2 DEF UvInv, UvHeld, HoldsOnly, Acquires
<1>5. CASE uv_build_body
  <2>1. /\ s.pc = "uv_body" /\ UNCHANGED <<backend, request>> /\ s.rc = "SUCCESS"
        /\ Nothing /\ ~s.res /\ net.pending \subseteq {"timer"} /\ HoldsOnly(UvRequest)
    BY <1>0, <1>5 DEF uv_build_body, UvInv, UvHeld, HoldsOnly, Nothing
  <2>2. CASE s' = BodySent("uv_loop") /\ UNCHANGED net
    <3>1. net' \in NetStates /\ Idle
      BY <2>2 DEF Common, Idle
    <3>2. /\ Eventless /\ Remains /\ s'.pc = "uv_loop" /\ s'.rc = s.rc
          /\ s'.held = s.held /\ s'.res = s.res
      BY <2>1, <2>2, <3>1, BodySentIs DEF BodySent
    <3> QED BY <1>0, <2>1, <2>2, <3>1, <3>2, EventlessIsGood DEF UvInv, UvHeld, HoldsOnly
  <2>3. CASE /\ s.taken < MaxUpload /\ UNCHANGED net
             /\ s' = [Supplies("uv_body") EXCEPT !.wired = @ + 1]
    <3>1. net' \in NetStates /\ Idle
      BY <2>3 DEF Common, Idle
    <3>2. /\ Supplied /\ Continues /\ s'.pc = "uv_body" /\ s'.held = s.held
          /\ s'.rc = s.rc /\ s'.res = s.res /\ s'.slips = s.slips
      BY <2>1, <2>3, <3>1, SuppliesIs
    <3> QED BY <1>0, <2>1, <2>3, <3>1, <3>2, SuppliedIsGood DEF UvInv, UvHeld, HoldsOnly
  <2>4. CASE /\ s' = [s EXCEPT !.pc = "uv_loop", !.aborted = TRUE,
                               !.slips = @ \cup {"upload error ignored"}]
             /\ UNCHANGED net
    <3>1. Good /\ Nothing' /\ s'.pc = "uv_loop" /\ s'.held = s.held /\ s'.res = s.res
      BY <2>1, <2>4, IgnoredIsGood
    <3> QED BY <1>0, <2>1, <2>4, <3>1 DEF UvInv, UvHeld, HoldsOnly
  <2>5. CASE Returns([s EXCEPT !.rc = "NOMEM", !.held = @ \ {"host", "path", "request buffer"}])
    <3>1. Returns([s EXCEPT !.rc = "NOMEM", !.held = @ \ UvRequest])
      BY <2>5 DEF UvRequest
    <3> QED BY <1>0, <2>1, <3>1, UvReturns
  <2> QED BY <1>5, <2>2, <2>3, <2>4, <2>5 DEF uv_build_body
<1> QED BY <1>1, <1>2, <1>3, <1>4, <1>5 DEF uv_build_request

LEMMA UvOpenSteps ==
  ASSUME backend = "libuv", Common, UvInv, uv_open_handles \/ uv_start_lookup
  PROVE  Good /\ UvInv'
<1> USE DEF SUCCESS, uv, At
<1>0. /\ "NOMEM" \in Errors /\ "UNREACH" \in Errors
      /\ {"uv_loop", "uv_tcp", "uv_timer", "uv_lookup"} \subseteq UvPrepares
      /\ "returned" \notin UvPrepares /\ "uv_run" \notin UvPrepares
      /\ "uv_loop_close" \notin UvPrepares /\ "uv_cleanup" \notin UvPrepares
      /\ UvMemory \subseteq UvThings /\ "late connection" \notin UvMemory
      /\ {"loop", "socket", "timer"} \subseteq UvThings
  BY DEF Errors, UvPrepares, UvMemory, UvThings, UvStrings, UvHandles
<1>1. CASE Try("uv_loop", {"loop"}, "uv_tcp", "NOMEM", "uv_cleanup")
  <2>1. /\ s.pc = "uv_loop" /\ Nothing /\ ~s.res /\ net.pending \subseteq {"timer"} /\ UvHeld
    BY <1>0, <1>1 DEF Try, UvInv
  <2>2. /\ Good /\ ~s'.res /\ UNCHANGED net /\ s'.slips = s.slips
        /\ \/ s'.pc = "uv_tcp" /\ Acquires({"loop"}) /\ Nothing'
           \/ s'.pc = "uv_cleanup" /\ Acquires({}) /\ s'.rc # SUCCESS
    BY <1>0, <1>1, <2>1, TryStep
  <2> QED BY <1>0, <2>1, <2>2 DEF UvInv, UvHeld, Acquires
<1>2. CASE Try("uv_tcp", {"socket"}, "uv_timer", "NOMEM", "uv_loop_close")
  <2>1. /\ s.pc = "uv_tcp" /\ Nothing /\ ~s.res /\ net.pending \subseteq {"timer"} /\ UvHeld
    BY <1>0, <1>2 DEF Try, UvInv
  <2>2. /\ Good /\ ~s'.res /\ UNCHANGED net /\ s'.slips = s.slips
        /\ \/ s'.pc = "uv_timer" /\ Acquires({"socket"}) /\ Nothing'
           \/ s'.pc = "uv_loop_close" /\ Acquires({}) /\ s'.rc # SUCCESS
    BY <1>0, <1>2, <2>1, TryStep
  <2> QED BY <1>0, <2>1, <2>2 DEF UvInv, UvHeld, Acquires
<1>3. CASE /\ uv("uv_timer") /\ UNCHANGED <<backend, request>>
           /\ \/ s' = Goto("uv_lookup") /\ UNCHANGED net
              \/ s' = Hold("uv_lookup", {"timer"}) /\ net' = UvPending({}, {"timer"})
              \/ s' = Fail("uv_loop_close", "NOMEM") /\ UNCHANGED net
  <2>1. /\ s.pc = "uv_timer" /\ Nothing /\ ~s.res /\ net.pending \subseteq {"timer"} /\ UvHeld
        /\ UNCHANGED <<backend, request>>
    BY <1>0, <1>3 DEF UvInv
  <2>2. /\ net' \in NetStates /\ Idle /\ net'.pending \subseteq {"timer"}
    BY <1>3, <2>1 DEF UvPending, Common, NetStates, Flags, Idle
  <2>3. /\ Eventless /\ Remains /\ s'.held \subseteq s.held \cup {"timer"} /\ s'.res = s.res
        /\ s'.slips = s.slips
        /\ \/ s'.pc = "uv_lookup" /\ s'.rc = s.rc
           \/ s'.pc = "uv_loop_close" /\ s'.rc # "SUCCESS"
    <3>1. CASE s' = Goto("uv_lookup")
      BY <2>1, <2>2, <3>1 DEF Goto, Common, CallRecord, Eventless, Remains
    <3>2. CASE s' = Hold("uv_lookup", {"timer"})
      BY <2>1, <2>2, <3>2 DEF Hold, Common, CallRecord, Eventless, Remains
    <3>3. CASE s' = Fail("uv_loop_close", "NOMEM")
      BY <1>0, <2>1, <2>2, <3>3 DEF Fail, Common, CallRecord, Eventless, Remains
    <3> QED BY <1>3, <3>1, <3>2, <3>3
  <2>4. Good /\ (s'.rc = s.rc => Nothing')
    BY <2>1, <2>2, <2>3, EventlessIsGood
  <2>5. s'.held \subseteq UvThings /\ ("late connection" \in s'.held => "late connection" \in s.held)
    BY <1>0, <2>1, <2>3 DEF UvHeld
  <2> QED BY <1>0, <2>1, <2>2, <2>3, <2>4, <2>5 DEF UvInv, UvHeld
<1>4. CASE uv_start_lookup
  <2>1. /\ s.pc = "uv_lookup" /\ Nothing /\ ~s.res /\ net.pending \subseteq {"timer"} /\ UvHeld
        /\ UNCHANGED <<backend, request>>
    BY <1>0, <1>4 DEF uv_start_lookup, UvInv
  <2>2. CASE s' = Goto("uv_run") /\ net' = UvPending({}, {"resolve"})
    <3>1. net' \in NetStates /\ Idle /\ net'.pending = net.pending \cup {"resolve"}
      BY <2>2 DEF UvPending, Common, NetStates, Flags, Idle
    <3>2. /\ Eventless /\ Remains /\ s'.pc = "uv_run" /\ s'.rc = s.rc
          /\ s'.held = s.held /\ s'.res = s.res /\ s'.slips = s.slips
      BY <2>1, <2>2, <3>1 DEF Goto, Common, CallRecord, Eventless, Remains
    <3>3. Good /\ Receiving'
      BY <2>1, <3>1, <3>2, EventlessIsGood, NothingIsReceiving
    <3>4. UvCallbacks' /\ ~uv_done' /\ "headers" \notin net'.pending
      BY <2>1, <3>1 DEF UvCallbacks, uv_done
    <3> QED BY <1>0, <2>1, <3>2, <3>3, <3>4 DEF UvInv, UvHeld, UvRunning, UvLate
  <2>3. CASE libuv_finish(Goto("uv_run"), "UNREACH")
    <3>1. ~uv_done
      BY <2>1 DEF uv_done
    <3>2. /\ s' = [Goto("uv_run") EXCEPT !.rc = "UNREACH", !.held = @ \ UvHandles]
          /\ net' = [net EXCEPT !.pending =
                       (@ \ {"connect", "write", "read", "timer"}) \cup {"done"}]
      BY <2>3, <3>1 DEF libuv_finish
    <3>3. net' \in NetStates /\ Idle /\ net'.pending = {"done"}
      BY <2>1, <3>2 DEF Common, NetStates, Flags, Idle
    <3>4. /\ Eventless /\ Remains /\ s'.pc = "uv_run" /\ s'.rc # "SUCCESS"
          /\ s'.held = s.held \ UvHandles /\ s'.res = s.res /\ s'.slips = s.slips
      BY <1>0, <2>1, <3>2, <3>3 DEF Goto, Common, CallRecord, Eventless, Remains
    <3>5. UvCallbacks' /\ uv_done' /\ ~UvLate' /\ "headers" \notin net'.pending
      BY <3>3 DEF UvCallbacks, uv_done, UvLate
    <3> QED BY <1>0, <2>1, <3>4, <3>5, EventlessIsGood DEF UvInv, UvHeld, UvRunning
  <2> QED BY <1>4, <2>2, <2>3 DEF uv_start_lookup
<1> QED BY <1>1, <1>2, <1>3, <1>4 DEF uv_open_handles

(* A callback that ends the transfer, and one that only goes on to the next. *)
LEMMA UvFinishStep ==
  ASSUME NEW error \in Errors, libuv_finish(s, error), backend = "libuv", Common, UvInv,
         s.pc = "uv_run", ~uv_done, UNCHANGED <<backend, request>>
  PROVE  Good /\ UvInv'
<1> USE DEF SUCCESS
<1>1. UvHeld /\ UvCallbacks /\ UvRunning /\ "uv_run" \notin UvPrepares
  BY DEF UvInv, UvPrepares
<1>2. Receiving /\ "late" \notin net.pending /\ ~Aborted
  BY <1>1 DEF UvRunning, UvCallbacks, Receiving, Common, Honest
<1>3. /\ s' = [s EXCEPT !.rc = error, !.held = @ \ UvHandles]
      /\ net' = [net EXCEPT !.pending =
                   (@ \ {"connect", "write", "read", "timer"}) \cup {"done"}]
  BY DEF libuv_finish
<1>4. /\ net' \in NetStates /\ Idle
      /\ net'.pending = (net.pending \ {"connect", "write", "read", "timer"}) \cup {"done"}
  BY <1>3 DEF Common, NetStates, Flags, Idle
<1>5. /\ Eventless /\ Remains /\ s'.pc = "uv_run" /\ s'.rc # "SUCCESS"
      /\ s'.held = s.held \ UvHandles /\ s'.res = s.res /\ s'.slips = s.slips
  BY <1>3, <1>4 DEF Common, CallRecord, Eventless, Remains, Errors
<1>6. Good /\ Gathered'
  BY <1>2, <1>4, <1>5, EventlessIsGood DEF Receiving
<1>7. ~Aborted'
  BY <1>2, <1>5 DEF Aborted, Eventless
<1>8. UvCallbacks' /\ uv_done'
  BY <1>1, <1>2, <1>4 DEF UvCallbacks, uv_done
<1>9. UvRunning'
  BY <1>1, <1>4, <1>5, <1>6, <1>7, <1>8 DEF UvRunning
<1>10. UvHeld'
  BY <1>1, <1>5 DEF UvHeld
<1> QED BY <1>1, <1>5, <1>6, <1>8, <1>9, <1>10 DEF UvInv

LEMMA UvGoesOn ==
  ASSUME NEW old \in {"resolve", "connect", "write"}, NEW new \in {"connect", "write", "read"},
         s' = s, net' = UvPending({old}, {new}), old \in net.pending,
         backend = "libuv", Common, UvInv,
         s.pc = "uv_run", ~uv_done, UNCHANGED <<backend, request>>
  PROVE  Good /\ UvInv'
<1> USE DEF SUCCESS
<1>1. UvHeld /\ UvCallbacks /\ UvRunning /\ "uv_run" \notin UvPrepares
  BY DEF UvInv, UvPrepares
<1>2. /\ net' \in NetStates /\ Idle /\ net'.pending = (net.pending \ {old}) \cup {new}
  BY DEF UvPending, Common, NetStates, Flags, Idle
<1>3. /\ Eventless /\ Remains /\ s'.pc = "uv_run" /\ s'.rc = s.rc
      /\ s'.held = s.held /\ s'.res = s.res /\ s'.slips = s.slips
  BY <1>2 DEF Common, CallRecord, Eventless, Remains
<1>4. Good /\ Receiving'
  BY <1>1, <1>2, <1>3, EventlessIsGood DEF UvRunning
<1>5. UvCallbacks' /\ ~uv_done'
  BY <1>1, <1>2 DEF UvCallbacks, uv_done
<1>6. UvRunning'
  BY <1>1, <1>2, <1>3, <1>4, <1>5 DEF UvRunning, UvLate
<1>7. UvHeld'
  BY <1>1, <1>3 DEF UvHeld
<1> QED BY <1>1, <1>3, <1>4, <1>5, <1>6, <1>7 DEF UvInv

(* A callback that finds uv_done set.                                      *)
LEMMA UvResolvedLate ==
  ASSUME backend = "libuv", Common, UvInv, libuv_on_resolved, uv_done
  PROVE  Good /\ UvInv'
<1> USE DEF SUCCESS, uv, At
<1>1. /\ UvHeld /\ UvCallbacks /\ UvRunning /\ "uv_run" \notin UvPrepares
      /\ s.pc = "uv_run" /\ "resolve" \in net.pending /\ UNCHANGED <<backend, request>>
  BY DEF libuv_on_resolved, UvInv, UvPrepares
<1>2. s.rc # "SUCCESS" /\ ~Aborted /\ Gathered
  BY <1>1 DEF UvRunning, UvLate
<1>3. CASE /\ s' = s
           /\ net' = [net EXCEPT !.pending = (@ \ {"resolve", "timer"}) \cup {"done"}]
  <2>1. /\ net' \in NetStates /\ Idle
        /\ net'.pending = (net.pending \ {"resolve", "timer"}) \cup {"done"}
    BY <1>3 DEF Common, NetStates, Flags, Idle
  <2>2. /\ Eventless /\ Remains /\ s'.pc = "uv_run" /\ s'.rc = s.rc
        /\ s'.held = s.held /\ s'.res = s.res /\ s'.slips = s.slips
    BY <1>1, <1>3, <2>1 DEF Common, CallRecord, Eventless, Remains
  <2>3. Good /\ Gathered' /\ ~Aborted'
    BY <1>2, <2>1, <2>2, EventlessIsGood DEF Aborted, Eventless
  <2>4. UvCallbacks' /\ uv_done'
    BY <1>1, <2>1 DEF UvCallbacks, uv_done
  <2>5. UvRunning'
    BY <1>1, <1>2, <2>1, <2>2, <2>3, <2>4 DEF UvRunning
  <2>6. UvHeld'
    BY <1>1, <2>2 DEF UvHeld
  <2> QED BY <1>1, <2>2, <2>3, <2>4, <2>5, <2>6 DEF UvInv
<1>4. CASE /\ s' = [s EXCEPT !.slips = @ \cup {"connects after time-out"},
                             !.held = @ \cup {"late connection"}]
           /\ net' = UvPending({"resolve"}, {"late"})
  <2>1. /\ net' \in NetStates /\ Idle
        /\ net'.pending = (net.pending \ {"resolve"}) \cup {"late"}
    BY <1>4 DEF UvPending, Common, NetStates, Flags, Idle
  <2>2. /\ Eventless /\ Remains /\ s'.pc = "uv_run" /\ s'.rc = s.rc
        /\ s'.held = s.held \cup {"late connection"} /\ s'.res = s.res
        /\ s'.slips = s.slips \cup {"connects after time-out"}
    BY <1>1, <1>4, <2>1 DEF Common, CallRecord, Eventless, Remains, AbortLost
  <2>3. Good /\ Gathered' /\ ~Aborted'
    BY <1>2, <2>1, <2>2, EventlessIsGood DEF Aborted, Eventless
  <2>4. UvCallbacks' /\ uv_done'
    BY <1>1, <2>1 DEF UvCallbacks, uv_done
  <2>5. UvRunning'
    BY <1>1, <1>2, <2>1, <2>2, <2>3, <2>4 DEF UvRunning
  <2>6. UvHeld'
    <3>1. "late connection" \in UvThings
      BY DEF UvThings
    <3> QED BY <1>1, <2>2, <3>1 DEF UvHeld
  <2> QED BY <1>1, <2>2, <2>3, <2>4, <2>5, <2>6 DEF UvInv
<1> QED BY <1>3, <1>4 DEF libuv_on_resolved

LEMMA UvResolved ==
  ASSUME backend = "libuv", Common, UvInv, libuv_on_resolved, ~uv_done
  PROVE  Good /\ UvInv'
<1> USE DEF SUCCESS, uv, At
<1>1. /\ UvHeld /\ UvCallbacks /\ UvRunning /\ "uv_run" \notin UvPrepares
      /\ s.pc = "uv_run" /\ "resolve" \in net.pending /\ UNCHANGED <<backend, request>>
  BY DEF libuv_on_resolved, UvInv, UvPrepares
<1>2. CASE s' = s /\ net' = UvPending({"resolve"}, {"connect"})
  BY <1>1, <1>2, UvGoesOn
<1>3. CASE /\ s' = [s EXCEPT !.rc = "UNREACH", !.held = @ \ UvHandles]
           /\ net' = [net EXCEPT !.pending = (@ \ {"resolve", "timer"}) \cup {"done"}]
  <2>1. /\ net' \in NetStates /\ Idle /\ "late" \notin net.pending
        /\ net'.pending = (net.pending \ {"resolve", "timer"}) \cup {"done"}
    BY <1>1, <1>3 DEF Common, NetStates, Flags, Idle, UvCallbacks
  <2>2. /\ Eventless /\ Remains /\ s'.pc = "uv_run" /\ s'.rc # "SUCCESS"
        /\ s'.held = s.held \ UvHandles /\ s'.res = s.res /\ s'.slips = s.slips
    BY <1>1, <1>3, <2>1 DEF Common, CallRecord, Eventless, Remains, Errors
  <2>3. Good
    BY <2>2, EventlessIsGood
  <2>4. UvCallbacks' /\ uv_done' /\ ~UvLate'
    BY <1>1, <2>1 DEF UvCallbacks, uv_done, UvLate
  <2>5. UvRunning'
    BY <1>1, <2>1, <2>2, <2>4 DEF UvRunning
  <2>6. UvHeld'
    BY <1>1, <2>2 DEF UvHeld
  <2> QED BY <1>1, <2>2, <2>3, <2>4, <2>5, <2>6 DEF UvInv
<1> QED BY <1>2, <1>3 DEF libuv_on_resolved

(* An error of on_chunk that libuv_finish does not keep any more.           *)
LEMMA LateAbortIsGood ==
  ASSUME Common, s' = [StreamFails("uv_run", s.rc) EXCEPT !.slips = @ \cup {"late abort ignored"}],
         More, net' \in NetStates, net.arrived < MaxBody, UNCHANGED <<backend, request>>,
         backend = "libuv", s.pc = "uv_run", request.streaming, Gathered, ~Aborted
  PROVE  /\ Good /\ Gathered' /\ ~Aborted'
         /\ s'.pc = "uv_run" /\ s'.held = s.held /\ s'.res = s.res /\ s'.rc = s.rc
         /\ s'.slips = s.slips \cup {"late abort ignored"}
<1> USE SendBounds DEF SUCCESS, Errors, LostUpload, AbortLost
<1>1. Append(s.given, Piece) \in Seq(Nat)
  <2>1. s.given \in Seq(Nat) /\ Piece \in Nat
    BY PieceFacts DEF Common, CallRecord
  <2> QED BY <2>1, AppendProperties
<1>2. /\ CallRecord(s)' /\ s'.given = Append(s.given, Piece) /\ s'.body = s.body
      /\ s'.taken = s.taken /\ s'.wired = s.wired /\ s'.pc = "uv_run" /\ s'.held = s.held
      /\ s'.res = s.res /\ s'.rc = s.rc /\ s'.slips = s.slips \cup {"late abort ignored"}
      /\ s'.sent = s.sent
  BY <1>1 DEF StreamFails, Common, CallRecord
<1>3. s.given = Collected /\ GivenBody = Collected /\ s.body = <<>>
  BY DEF GivenBody, Gathered
<1>4. Append(s.given, Piece) = Pieces(net.arrived + 1)
      /\ Append(s.given, Piece) = Collected'
  <2>1. /\ Append(Collected, Piece) = Pieces(net.arrived + 1)
        /\ More => Append(Collected, Piece) = Collected'
    BY PieceFacts
  <2> QED BY <1>3, <2>1
<1>5. GivenBody' = Pieces(net.arrived + 1)
  BY <1>2, <1>4 DEF GivenBody
<1>6. net.arrived + 1 \in Len(GivenBody)..MaxBody /\ net.arrived + 1 \in 0..MaxBody
  BY <1>3, NextPieceFits
<1>7. GivenInOrder'
  BY <1>5, <1>6 DEF GivenInOrder, Pieces
<1>8. ~Aborted'
  <2>1. "late abort ignored" \in s'.slips \cap AbortLost
    BY <1>2
  <2> QED BY <2>1 DEF Aborted
<1>9. Common'
  BY <1>2, <1>7, <1>8 DEF Common, Honest
<1>10. Gives
  BY <1>2, <1>5, <1>6 DEF Gives
<1>11. Gathered'
  BY <1>2, <1>3, <1>4 DEF Gathered
<1>12. BodyPassed => BodyPassed'
  BY <1>2 DEF BodyPassed, Common, CallRecord
<1> QED BY <1>2, <1>8, <1>9, <1>10, <1>11, <1>12 DEF Good, Kinds

LEMMA UvLateSteps ==
  ASSUME backend = "libuv", Common, UvInv, late_events
  PROVE  Good /\ UvInv'
<1> USE DEF SUCCESS, uv, At
<1>1. /\ UvHeld /\ UvCallbacks /\ UvRunning /\ "uv_run" \notin UvPrepares
      /\ s.pc = "uv_run" /\ "late" \in net.pending /\ UNCHANGED <<backend, request>>
  BY DEF late_events, UvInv, UvPrepares
<1>2. uv_done /\ s.rc # "SUCCESS" /\ ~Aborted /\ Gathered
  BY <1>1 DEF UvRunning, UvLate, UvCallbacks
<1>3. CASE s' = s /\ net' = UvPending({"late"}, {})
  <2>1. /\ net' \in NetStates /\ Idle /\ net'.pending = net.pending \ {"late"}
    BY <1>3 DEF UvPending, Common, NetStates, Flags, Idle
  <2>2. /\ Eventless /\ Remains /\ s'.pc = "uv_run" /\ s'.rc = s.rc
        /\ s'.held = s.held /\ s'.res = s.res /\ s'.slips = s.slips
    BY <1>1, <1>3, <2>1 DEF Common, CallRecord, Eventless, Remains
  <2>3. Good /\ Gathered' /\ ~Aborted'
    BY <1>2, <2>1, <2>2, EventlessIsGood DEF Aborted, Eventless
  <2>4. UvCallbacks' /\ uv_done'
    BY <1>1, <1>2, <2>1 DEF UvCallbacks, uv_done
  <2>5. UvRunning'
    BY <1>1, <1>2, <2>1, <2>2, <2>3, <2>4 DEF UvRunning
  <2>6. UvHeld'
    BY <1>1, <2>2 DEF UvHeld
  <2> QED BY <1>1, <2>2, <2>3, <2>4, <2>5, <2>6 DEF UvInv
<1>4. CASE request.streaming /\ Arrives /\ s' = Stream("uv_run")
  <2>1. /\ More /\ net' \in NetStates /\ net.arrived < MaxBody /\ net'.pending = net.pending
    BY <1>4, ArrivesIs
  <2>2. /\ Streamed /\ Continues /\ s'.pc = "uv_run" /\ s'.held = s.held
        /\ s'.res = s.res /\ s'.slips = s.slips /\ s'.rc = s.rc
    BY <1>1, <1>4, <2>1, StreamIs
  <2>3. Good
    BY <1>2, <1>4, <2>1, <2>2, <1>1, StreamedIsGood
  <2>4. ~Aborted' /\ Gathered'
    <3>1. s'.aborted = s.aborted
      BY <1>4 DEF Stream, Common, CallRecord
    <3>2. Append(s.given, Piece) = Collected'
      BY <1>2, <1>4, <2>1, PieceFacts DEF Gathered
    <3>3. request'.streaming /\ s'.given = Collected' /\ s'.body = <<>>
      BY <1>1, <1>2, <1>4, <2>2, <3>2 DEF Gathered, Streamed
    <3>4. Gathered'
      BY <3>3 DEF Gathered
    <3> QED BY <1>2, <2>2, <3>1, <3>4 DEF Aborted
  <2>5. UvCallbacks' /\ uv_done'
    BY <1>1, <1>2, <2>1 DEF UvCallbacks, uv_done
  <2>6. UvRunning'
    BY <1>1, <1>2, <2>1, <2>2, <2>4, <2>5 DEF UvRunning
  <2>7. UvHeld'
    BY <1>1, <2>2 DEF UvHeld
  <2> QED BY <1>1, <2>2, <2>3, <2>5, <2>6, <2>7 DEF UvInv
<1>5. CASE /\ request.streaming /\ Arrives
           /\ s' = [StreamFails("uv_run", s.rc) EXCEPT !.slips = @ \cup {"late abort ignored"}]
  <2>1. /\ More /\ net' \in NetStates /\ net.arrived < MaxBody /\ net'.pending = net.pending
    BY <1>5, ArrivesIs
  <2>2. /\ Good /\ Gathered' /\ ~Aborted'
        /\ s'.pc = "uv_run" /\ s'.held = s.held /\ s'.res = s.res /\ s'.rc = s.rc
        /\ s'.slips = s.slips \cup {"late abort ignored"}
    BY <1>1, <1>2, <1>5, <2>1, LateAbortIsGood
  <2>3. UvCallbacks' /\ uv_done'
    BY <1>1, <1>2, <2>1 DEF UvCallbacks, uv_done
  <2>4. UvRunning'
    BY <1>1, <1>2, <2>1, <2>2, <2>3 DEF UvRunning
  <2>5. UvHeld'
    BY <1>1, <2>2 DEF UvHeld
  <2> QED BY <1>1, <2>2, <2>3, <2>4, <2>5 DEF UvInv
<1> QED BY <1>3, <1>4, <1>5 DEF late_events

LEMMA UvReadSteps ==
  ASSUME backend = "libuv", Common, UvInv,
         libuv_alloc_cb \/ parse_headers \/ libuv_on_read_data \/ libuv_on_read_end
  PROVE  Good /\ UvInv'
<1> USE DEF SUCCESS, uv, At
<1>0. /\ UvHeld /\ UvCallbacks /\ UvRunning /\ "uv_run" \notin UvPrepares
      /\ s.pc = "uv_run" /\ "read" \in net.pending /\ UNCHANGED <<backend, request>>
  BY DEF libuv_alloc_cb, parse_headers, libuv_on_read_data, libuv_on_read_end, uv_reading,
         UvInv, UvPrepares
<1>1. /\ ~uv_done /\ Receiving /\ "resolve" \notin net.pending /\ "late" \notin net.pending
      /\ s.rc = "SUCCESS"
  BY <1>0 DEF UvCallbacks, UvRunning, Receiving
<1>2. /\ "REFUSED" \in Errors /\ "NOMEM" \in Errors /\ "CANCELED" \in Errors
      /\ {"receive buffer", "response"} \subseteq UvThings
  BY DEF Errors, UvThings, UvMemory, UvStrings
<1>3. ASSUME NEW e \in Errors, libuv_finish(s, e)
      PROVE  Good /\ UvInv'
  BY <1>0, <1>1, <1>3, UvFinishStep
<1>4. CASE s' = Hold("uv_run", {"receive buffer"}) /\ UNCHANGED net
  <2>1. net' \in NetStates /\ Idle
    BY <1>4 DEF Common, Idle
  <2>2. /\ Eventless /\ Remains /\ s'.pc = "uv_run" /\ s'.rc = s.rc
        /\ s'.held = s.held \cup {"receive buffer"} /\ s'.res = s.res /\ s'.slips = s.slips
    BY <1>0, <1>4, <2>1 DEF Hold, Common, CallRecord, Eventless, Remains
  <2>3. Good /\ Receiving'
    BY <1>1, <2>1, <2>2, EventlessIsGood
  <2>4. UvCallbacks' /\ ~uv_done'
    BY <1>0, <1>1, <1>4 DEF UvCallbacks, uv_done
  <2>5. UvRunning'
    BY <1>0, <1>4, <2>2, <2>3, <2>4 DEF UvRunning, UvLate
  <2>6. UvHeld'
    BY <1>0, <1>2, <2>2 DEF UvHeld
  <2> QED BY <1>0, <2>2, <2>3, <2>4, <2>5, <2>6 DEF UvInv
<1>5. CASE /\ s' = [Hold("uv_run", {"response"}) EXCEPT !.res = TRUE]
           /\ net' = UvPending({}, {"headers"})
  <2>1. /\ net' \in NetStates /\ Idle /\ net'.pending = net.pending \cup {"headers"}
    BY <1>5 DEF UvPending, Common, NetStates, Flags, Idle
  <2>2. /\ Eventless /\ Remains /\ s'.pc = "uv_run" /\ s'.rc = s.rc
        /\ s'.held = s.held \cup {"response"} /\ s'.res /\ s'.slips = s.slips
    BY <1>0, <1>5, <2>1 DEF Hold, Common, CallRecord, Eventless, Remains
  <2>3. Good /\ Receiving'
    BY <1>1, <2>1, <2>2, EventlessIsGood
  <2>4. UvCallbacks' /\ ~uv_done'
    BY <1>0, <1>1, <2>1 DEF UvCallbacks, uv_done
  <2>5. UvRunning'
    BY <2>2, <2>3, <2>4 DEF UvRunning, UvLate
  <2>6. UvHeld'
    BY <1>0, <1>2, <2>2 DEF UvHeld
  <2> QED BY <1>0, <2>2, <2>3, <2>4, <2>5, <2>6 DEF UvInv
<1>6. CASE /\ "headers" \in net.pending /\ Arrives
           /\ s' = IF request.streaming THEN Stream("uv_run") ELSE Store("uv_run")
  <2>1. /\ More /\ net' \in NetStates /\ net.arrived < MaxBody /\ net'.pending = net.pending
    BY <1>6, ArrivesIs
  <2>2. IF request.streaming THEN s' \in {Stream("uv_run"), StreamFails("uv_run", "NOMEM")}
        ELSE s' \in {Store("uv_run"), Fail("uv_run", "NOMEM")}
    BY <1>6
  <2>3. /\ Good /\ s'.held = s.held /\ s'.res = s.res /\ s'.slips = s.slips
        /\ s'.pc = "uv_run" /\ (Receiving' \/ s'.rc # SUCCESS)
    BY <1>0, <1>1, <1>2, <1>6, <2>2, PlainPieceStep
  <2>4. s'.rc = "SUCCESS"
    BY <1>1, <1>6 DEF Stream, Store, Common, CallRecord
  <2>5. UvCallbacks' /\ ~uv_done'
    BY <1>0, <1>1, <2>1 DEF UvCallbacks, uv_done
  <2>6. UvRunning'
    BY <1>0, <2>1, <2>3, <2>4, <2>5 DEF UvRunning, UvLate
  <2>7. UvHeld'
    BY <1>0, <2>3 DEF UvHeld
  <2> QED BY <1>0, <2>3, <2>5, <2>6, <2>7 DEF UvInv
<1>7. CASE /\ request.streaming /\ net.arrived < MaxBody
           /\ libuv_finish(StreamFails("uv_run", s.rc), "CANCELED")
  <2>1. /\ s' = [StreamFails("uv_run", s.rc) EXCEPT !.rc = "CANCELED", !.held = @ \ UvHandles]
        /\ net' = [net EXCEPT !.pending =
                     (@ \ {"connect", "write", "read", "timer"}) \cup {"done"}]
    BY <1>1, <1>7 DEF libuv_finish
  <2>2. /\ net' \in NetStates
        /\ net'.pending = (net.pending \ {"connect", "write", "read", "timer"}) \cup {"done"}
    BY <2>1 DEF Common, NetStates, Flags
  <2>3. Append(s.given, Piece) \in Seq(Nat)
    <3>1. s.given \in Seq(Nat) /\ Piece \in Nat
      BY PieceFacts DEF Common, CallRecord
    <3> QED BY <3>1, AppendProperties
  <2>4. /\ Streamed /\ Continues /\ s'.pc = "uv_run" /\ s'.held = s.held \ UvHandles
        /\ s'.res = s.res /\ s'.slips = s.slips /\ s'.rc # "SUCCESS"
    BY <1>0, <1>2, <2>1, <2>2, <2>3
       DEF StreamFails, Common, CallRecord, Streamed, Continues, Errors
  <2>5. Good
    BY <1>0, <1>1, <1>7, <2>4, StreamedIsGood DEF Receiving
  <2>6. UvCallbacks' /\ uv_done' /\ ~UvLate'
    BY <1>0, <1>1, <2>2 DEF UvCallbacks, uv_done, UvLate
  <2>7. UvRunning'
    BY <1>0, <2>2, <2>4, <2>6 DEF UvRunning
  <2>8. UvHeld'
    BY <1>0, <2>4 DEF UvHeld
  <2> QED BY <1>0, <2>4, <2>5, <2>6, <2>7, <2>8 DEF UvInv
<1>8. CASE \E how \in {"whole", "cut"} :
             /\ how = "whole" => "headers" \in net.pending
             /\ net' = [net EXCEPT !.end = how,
                                   !.pending = (@ \ {"read", "timer"}) \cup {"done"}]
             /\ s' = [s EXCEPT !.held = @ \ UvHandles]
  <2>1. PICK how \in {"whole", "cut"} :
             /\ how = "whole" => "headers" \in net.pending
             /\ net' = [net EXCEPT !.end = how,
                                   !.pending = (@ \ {"read", "timer"}) \cup {"done"}]
             /\ s' = [s EXCEPT !.held = @ \ UvHandles]
    BY <1>8
  <2>2. /\ net' \in NetStates /\ net'.end = how /\ net'.arrived = net.arrived
        /\ net'.pending = (net.pending \ {"read", "timer"}) \cup {"done"}
    BY <2>1 DEF Common, NetStates, Flags
  <2>3. /\ Eventless /\ Remains /\ s'.pc = "uv_run" /\ s'.rc = s.rc
        /\ s'.held = s.held \ UvHandles /\ s'.res = s.res /\ s'.slips = s.slips
    BY <1>0, <2>1, <2>2 DEF Common, CallRecord, Eventless, Remains
  <2>4. UvEnded'
    <3>1. Gathered'
      BY <1>1, <2>2, <2>3 DEF Receiving, Gathered, Collected, Pieces, Eventless, Remains
    <3>2. how = "whole" => s.res
      BY <1>0, <2>1 DEF UvRunning
    <3> QED BY <2>2, <2>3, <3>1, <3>2 DEF UvEnded, ReadToEnd
  <2>5. Good
    BY <2>3, EventlessIsGood
  <2>6. UvCallbacks' /\ uv_done' /\ ~UvLate'
    <3>1. "connect" \notin net'.pending /\ "write" \notin net'.pending
      BY <1>0, <2>2 DEF UvCallbacks
    <3> QED BY <1>0, <1>1, <2>2, <3>1 DEF UvCallbacks, uv_done, UvLate
  <2>7. UvRunning'
    BY <1>0, <2>2, <2>3, <2>4, <2>6 DEF UvRunning
  <2>8. UvHeld'
    BY <1>0, <2>3 DEF UvHeld
  <2> QED BY <1>0, <2>3, <2>5, <2>6, <2>7, <2>8 DEF UvInv
<1> QED BY <1>2, <1>3, <1>4, <1>5, <1>6, <1>7, <1>8
        DEF libuv_alloc_cb, parse_headers, libuv_on_read_data, libuv_on_read_end

LEMMA UvCloseSteps ==
  ASSUME backend = "libuv", Common, UvInv, uv_run_returns \/ uv_loop_close \/ uv_cleanup
  PROVE  Good /\ UvInv'
<1> USE DEF SUCCESS, uv, At
<1>0. /\ UvHeld /\ "uv_loop_close" \notin UvPrepares /\ "uv_cleanup" \notin UvPrepares
      /\ "returned" \notin UvPrepares /\ s.pc # "returned"
      /\ UNCHANGED <<backend, request>>
  BY DEF uv_run_returns, uv_loop_close, uv_cleanup, UvInv, UvPrepares
<1>1. CASE uv_run_returns
  <2>1. /\ s.pc = "uv_run" /\ UNCHANGED net /\ net' \in NetStates /\ Idle
        /\ s' = Goto("uv_loop_close")
    BY <1>1 DEF uv_run_returns, Common, Idle
  <2>2. uv_done /\ UvRunning
    BY <1>1, <2>1 DEF uv_run_returns, UvInv, UvCallbacks
  <2>3. /\ Eventless /\ Remains /\ s'.pc = "uv_loop_close" /\ s'.rc = s.rc
        /\ s'.held = s.held /\ s'.res = s.res /\ s'.slips = s.slips
    BY <1>0, <2>1 DEF Goto, Common, CallRecord, Eventless, Remains
  <2>4. UvEnded => UvEnded'
    BY <2>1, <2>3, EventlessIsGood DEF UvEnded, ReadToEnd
  <2>5. Good /\ UvHeld'
    BY <1>0, <2>3, EventlessIsGood DEF UvHeld
  <2> QED BY <1>0, <2>2, <2>3, <2>4, <2>5 DEF UvInv, UvRunning
<1>2. CASE uv_loop_close
  <2>1. /\ s.pc = "uv_loop_close" /\ UNCHANGED net /\ net' \in NetStates /\ Idle
        /\ s.rc = "SUCCESS" => UvEnded
    BY <1>2 DEF uv_loop_close, Common, Idle, UvInv
  <2>2. CASE s.held \cap UvHandles = {} /\ s' = Drop("uv_cleanup", {"loop"})
    <3>1. /\ Eventless /\ Remains /\ s'.pc = "uv_cleanup" /\ s'.rc = s.rc
          /\ s'.held = s.held \ {"loop"} /\ s'.res = s.res /\ s'.slips = s.slips
      BY <1>0, <2>1, <2>2 DEF Drop, Common, CallRecord, Eventless, Remains
    <3>2. UvEnded => UvEnded'
      BY <2>1, <3>1, EventlessIsGood DEF UvEnded, ReadToEnd
    <3>3. UvHeld'
      <4>1. s'.slips \cap NotReleased = {} => "late connection" \notin s.held
        BY <1>0, <3>1 DEF UvHeld, NotReleased
      <4>2. "late connection" \notin s.held => s'.held \subseteq UvMemory
        BY <1>0, <2>2, <3>1 DEF UvHeld, UvThings
      <4> QED BY <1>0, <3>1, <4>1, <4>2 DEF UvHeld
    <3> QED BY <1>0, <2>1, <3>1, <3>2, <3>3, EventlessIsGood DEF UvInv
  <2>3. CASE s' = [s EXCEPT !.pc = "uv_cleanup", !.slips = @ \cup {"loop not closed"}]
    <3>1. /\ Eventless /\ Remains /\ s'.pc = "uv_cleanup" /\ s'.rc = s.rc
          /\ s'.held = s.held /\ s'.res = s.res
          /\ s'.slips = s.slips \cup {"loop not closed"}
      BY <1>0, <2>1, <2>3 DEF Common, CallRecord, Eventless, Remains, AbortLost
    <3>2. UvEnded => UvEnded'
      BY <2>1, <3>1, EventlessIsGood DEF UvEnded, ReadToEnd
    <3>3. UvHeld'
      <4>1. s'.slips \cap NotReleased # {}
        BY <3>1 DEF NotReleased
      <4> QED BY <1>0, <3>1, <4>1 DEF UvHeld
    <3> QED BY <1>0, <2>1, <3>1, <3>2, <3>3, EventlessIsGood DEF UvInv
  <2> QED BY <1>2, <2>2, <2>3 DEF uv_loop_close
<1>3. CASE uv_cleanup
  <2>1. /\ s.pc = "uv_cleanup" /\ (s.rc = "SUCCESS" => UvEnded)
    BY <1>3 DEF uv_cleanup, UvInv
  <2>2. /\ s' = [[s EXCEPT !.held = @ \ (UvStrings \cup {"response"}),
                           !.res = @ /\ s.rc = SUCCESS] EXCEPT !.pc = "returned"]
        /\ net' \in NetStates /\ Idle
    BY <1>3, ReturnsIs DEF uv_cleanup
  <2>3. /\ Eventless /\ Remains /\ s'.pc = "returned" /\ s'.rc = s.rc
        /\ s'.held = s.held \ UvMemory /\ s'.res = (s.res /\ s.rc = "SUCCESS")
        /\ s'.slips = s.slips
    BY <1>0, <2>2 DEF Common, CallRecord, Eventless, Remains, UvMemory
  <2>4. Good /\ Honest'
    BY <2>3, EventlessIsGood DEF Good, Common
  <2>5. UvHeld'
    BY <1>0, <2>3 DEF UvHeld
  <2>6. s'.slips \cap NotReleased = {} => s'.held = {}
    BY <1>0, <2>1, <2>3 DEF UvHeld
  <2>7. ResponseReceived'
    <3>1. CASE s.rc # "SUCCESS"
      BY <2>3, <3>1 DEF ResponseReceived, ReceivedWhole, Succeeded
    <3>2. CASE s.rc = "SUCCESS"
      <4>1. UvEnded'
        BY <2>1, <2>2, <2>3, <3>2, EventlessIsGood DEF UvEnded, ReadToEnd, Idle
      <4>2. net'.end \in {"whole", "cut"} /\ backend' = "libuv"
        BY <1>0, <2>2, <4>1 DEF UvEnded, ReadToEnd, NetStates
      <4>3. (net'.end = "whole") => /\ s'.res
                                  /\ (IF request.streaming THEN GivenBody ELSE s.body)' = Collected'
        BY <4>1, <4>2 DEF UvEnded, ReadToEnd, Gathered, GivenBody
      <4>4. (s'.slips \cap LostUpload = {}) => s'.wired = s'.taken
        BY <2>3, <2>4, <3>2 DEF Honest, LostUpload
      <4> QED BY <4>2, <4>3, <4>4 DEF ResponseReceived, ReceivedWhole, ReadsToEof, LostUpload
    <3> QED BY <3>1, <3>2
  <2> QED BY <1>0, <2>3, <2>4, <2>5, <2>6, <2>7 DEF UvInv, Left
<1> QED BY <1>1, <1>2, <1>3

LEMMA UvSteps ==
  ASSUME backend = "libuv", Common, UvInv, uv_steps \/ uv_network
  PROVE  Good /\ UvInv'
<1> USE DEF uv, At
<1>1. CASE libuv_on_timeout \/ libuv_on_connect \/ libuv_on_write
  <2>1. /\ s.pc = "uv_run" /\ UvCallbacks /\ UNCHANGED <<backend, request>> /\ ~uv_done
    BY <1>1 DEF libuv_on_timeout, libuv_on_connect, libuv_on_write, UvInv, UvCallbacks
  <2>2. "TIMEOUT" \in Errors /\ "REFUSED" \in Errors /\ "IO" \in Errors
    BY DEF Errors
  <2>3. ASSUME NEW e \in Errors, libuv_finish(s, e)
        PROVE  Good /\ UvInv'
    BY <2>1, <2>3, UvFinishStep
  <2>4. CASE libuv_on_timeout
    BY <2>2, <2>3, <2>4 DEF libuv_on_timeout
  <2>5. CASE libuv_on_connect
    <3>1. CASE s' = s /\ net' = UvPending({"connect"}, {"write"})
      BY <2>1, <2>5, <3>1, UvGoesOn DEF libuv_on_connect
    <3> QED BY <2>1, <2>2, <2>3, <2>5, <3>1 DEF libuv_on_connect, UvFailed
  <2>6. CASE libuv_on_write
    <3>1. CASE s' = s /\ net' = UvPending({"write"}, {"read"})
      BY <2>1, <2>6, <3>1, UvGoesOn DEF libuv_on_write
    <3> QED BY <2>1, <2>2, <2>3, <2>6, <3>1 DEF libuv_on_write, UvFailed
  <2> QED BY <1>1, <2>4, <2>5, <2>6
<1>2. CASE libuv_on_resolved
  BY <1>2, UvResolved, UvResolvedLate
<1>3. CASE late_events
  BY <1>3, UvLateSteps
<1>4. CASE libuv_alloc_cb \/ parse_headers \/ libuv_on_read_data \/ libuv_on_read_end
  BY <1>4, UvReadSteps
<1>5. CASE uv_parse_url \/ uv_build_request \/ uv_build_body
  BY <1>5, UvPrepareSteps
<1>6. CASE uv_open_handles \/ uv_start_lookup
  BY <1>6, UvOpenSteps
<1>7. CASE uv_run_returns \/ uv_loop_close \/ uv_cleanup
  BY <1>7, UvCloseSteps
<1> QED BY <1>1, <1>2, <1>3, <1>4, <1>5, <1>6, <1>7 DEF uv_steps, uv_network

-----------------------------------------------------------------------------
(* The sends of all backends: a client has one of them.                     *)
BackendInv ==
  /\ backend = "curl" => CurlInv
  /\ backend = "libuv" => UvInv
  /\ backend = "libevent" => EventInv
  /\ backend = "raw" => RawInv
  /\ backend = "winhttp" => WinHttpInv
  /\ backend = "wininet" => WinInetInv
  /\ backend = "libsoup3" => SoupInv
  /\ backend = "fetch" => FetchInv
  /\ backend = "wasm" => WasmInv
  /\ backend = "apple" => AppleInv
  /\ backend = "msh3" => Msh3Inv
  /\ backend = "picoquic" => PicoquicInv
  /\ backend = "xquic" => XquicInv

SendsInv ==
  /\ backend \in {"curl", "libuv", "libevent", "raw", "winhttp", "wininet", "libsoup3",
                  "fetch", "wasm", "msh3", "picoquic", "xquic", "apple"}
  /\ calls \in Nat
  /\ Common
  /\ BackendInv
  /\ UploadInv

LEMMA FreshIsCommon ==
  ASSUME s = FreshCall, net = [FreshNet EXCEPT !.stale = net.stale],
         request \in Requests, net \in NetStates
  PROVE  Common /\ GivenBody = <<>> /\ ~Aborted
<1> USE SendBounds DEF SUCCESS, Errors, LostUpload, AbortLost
<1>1. CallRecord(s) /\ s.pc = "begin" /\ s.given = <<>> /\ s.taken = 0 /\ s.wired = 0
      /\ s.rc = "SUCCESS" /\ ~s.aborted
  BY DEF FreshCall, CallRecord
<1>2. GivenBody = <<>> /\ ~Aborted
  BY <1>1 DEF GivenBody, Aborted
<1>3. GivenInOrder
  <2>1. 0 \in 0..MaxBody /\ GivenBody = Pieces(0)
    BY <1>2, PiecesGrow
  <2> QED BY <2>1 DEF GivenInOrder
<1> QED BY <1>1, <1>2, <1>3 DEF Common, Honest, Fresh

LEMMA BeginKeepsBackendInv == Common /\ s.pc = "begin" => BackendInv
<1> SUFFICES ASSUME Common, s.pc = "begin"
             PROVE  BackendInv
  OBVIOUS
<1>1. Nothing /\ ~s.res /\ s.held = {} /\ net.pending = {}
  BY BeginIs
<1> QED BY <1>1 DEF BackendInv, CurlInv, UvInv, UvHeld, EventInv, EventLate, RawInv, RawLate,
                    WinHttpInv, WinHttpLate, WinInetInv, WinInetLate, SoupInv, FetchInv,
                    WasmInv, AppleInv, Msh3Inv, Msh3Prepares, PicoquicInv, XquicInv

LEMMA BeginKeepsBackendInvNext == (Common /\ s.pc = "begin" => BackendInv)'
BY BeginKeepsBackendInv, PTL

(* A step of the peer or the network never ends the call.                   *)
LEMMA NetworkGoesOn ==
  ASSUME Network, Common
  PROVE  s'.pc # "returned"
<1> USE DEF At, Goto, Fail, Hold, Stream, StreamFails, Store, CallRecord, Common
<1>1. CASE backend = "curl" /\ curl_network
  BY <1>1 DEF curl_network, curl, math_write_memory_callback, curl_easy_perform, BodyEnd
<1>2. CASE backend = "libuv" /\ uv_network
  BY <1>2 DEF uv_network, uv, libuv_on_connect, libuv_on_write, libuv_alloc_cb, parse_headers,
              libuv_on_read_data, libuv_on_read_end, late_events, uv_reading, UvFailed,
              libuv_finish
<1>3. CASE backend = "libevent" /\ event_network
  BY <1>3 DEF event_network, event, http_chunked_cb, http_request_done
<1>4. CASE backend = "raw" /\ raw_network
  BY <1>4 DEF raw_network, raw, recv_data, recv_end
<1>5. CASE backend = "winhttp" /\ winhttp_network
  BY <1>5 DEF winhttp_network, winhttp, WinHttpReadData, BodyPiece, BodyEnd
<1>6. CASE backend = "wininet" /\ wininet_network
  BY <1>6 DEF wininet_network, wininet, InternetReadFile, BodyPiece, BodyEnd
<1>7. CASE backend = "libsoup3" /\ soup_network
  BY <1>7 DEF soup_network, soup, soup_session_send_and_read
<1>8. CASE backend = "fetch" /\ fetch_network
  BY <1>8 DEF fetch_network, fetch, fread_piece, fread_end, BodyEnd
<1>9. CASE backend = "wasm" /\ wasm_network
  BY <1>9 DEF wasm_network, wasm, wasm_fetch_exec
<1>10. CASE backend = "apple" /\ apple_network
  BY <1>10 DEF apple_network, apple, apple_stream_cb, apple_end, BodyEnd
<1>11. CASE backend = "msh3" /\ (msh3_network \/ msh3_wait)
  BY <1>11 DEF msh3_network, msh3, msh3_running, msh3_wait, msh3_data_received,
               msh3_shutdown_complete
<1> QED BY <1>1, <1>2, <1>3, <1>4, <1>5, <1>6, <1>7, <1>8, <1>9, <1>10, <1>11 DEF Network

-----------------------------------------------------------------------------
(* The body of the request.  A step from a place where it is still to be    *)
(* passed on stays at such a place, passes it on, fails or slips; the steps *)
(* from other places keep what the first did.                              *)
Passes == s'.pc \in Uploading \/ BodyPassed'

LEMMA TryPasses ==
  ASSUME Common, NEW place, NEW things, NEW next, next \in Uploading, NEW error \in Errors,
         NEW onError, Try(place, things, next, error, onError)
  PROVE  Passes
<1> USE DEF SUCCESS, Errors
<1>1. CASE s' = Hold(next, things)
  BY <1>1 DEF Hold, Passes, Common, CallRecord
<1>2. CASE s' = Fail(onError, error)
  BY <1>2 DEF Fail, Passes, BodyPassed, Common, CallRecord
<1> QED BY <1>1, <1>2 DEF Try

LEMMA ReturnPasses ==
  ASSUME NEW call, Returns(call), CallRecord(call), call.rc # SUCCESS
  PROVE  Passes
<1>1. s' = [call EXCEPT !.pc = "returned"]
  BY DEF Returns
<1>2. s'.rc = call.rc
  BY <1>1 DEF CallRecord
<1> QED BY <1>2 DEF Passes, BodyPassed

LEMMA LeavePasses ==
  ASSUME Common, NEW released, NEW error \in Errors,
         \/ Returns([s EXCEPT !.rc = error])
         \/ Returns([s EXCEPT !.held = @ \ released, !.rc = error])
         \/ Returns([s EXCEPT !.rc = error, !.held = @ \ released])
         \/ Returns([Drop("", released) EXCEPT !.rc = error])
         \/ Returns([Drop("", released) EXCEPT !.rc = error, !.res = FALSE])
  PROVE  Passes
<1>1. ASSUME NEW call, Returns(call),
             \/ call = [s EXCEPT !.rc = error]
             \/ call = [s EXCEPT !.held = @ \ released, !.rc = error]
             \/ call = [s EXCEPT !.rc = error, !.held = @ \ released]
             \/ call = [Drop("", released) EXCEPT !.rc = error]
             \/ call = [Drop("", released) EXCEPT !.rc = error, !.res = FALSE]
      PROVE  Passes
  <2>1. CallRecord(call) /\ call.rc # SUCCESS
    BY <1>1 DEF Common, CallRecord, Drop, SUCCESS, Errors
  <2> QED BY <1>1, <2>1, ReturnPasses
<1> QED BY <1>1

LEMMA TryOrLeavePasses ==
  ASSUME Common, NEW place, NEW things, NEW next, next \in Uploading, NEW error \in Errors,
         NEW released, TryOrLeave(place, things, next, error, released)
  PROVE  Passes
<1>1. CASE s' = Hold(next, things)
  BY <1>1 DEF Hold, Passes, Common, CallRecord
<1>2. CASE Returns([s EXCEPT !.held = @ \ released, !.rc = error])
  BY <1>2, LeavePasses
<1> QED BY <1>1, <1>2 DEF TryOrLeave

LEMMA SentPasses ==
  ASSUME Common, NEW place, NEW things, NEW forms,
         s' = PassesOn(Hold(place, things), forms) \/ s' = PassesOn(Goto(place), forms)
  PROVE  Passes
<1>1. Goto(place) = Hold(place, {}) /\ CallRecord(Goto(place)) /\ CallRecord(Hold(place, things))
  BY DEF Goto, Hold, Common, CallRecord
<1>2. ASSUME NEW call, CallRecord(call), s' = PassesOn(call, forms)
      PROVE  s'.sent \/ "body not sent" \in s'.slips
  BY <1>2 DEF PassesOn, CallRecord
<1>3. s'.sent \/ "body not sent" \in s'.slips
  BY <1>1, <1>2
<1> QED BY <1>3 DEF Passes, BodyPassed, LostUpload

LEMMA LoopPasses ==
  ASSUME Common, NEW place, place \in Uploading, NEW next, NEW onError,
         NEW errors \in SUBSET Errors, UploadLoop(place, next, onError, errors)
  PROVE  Passes
<1> USE DEF SUCCESS, Errors
<1>1. CASE s' = BodySent(next)
  BY <1>1, SentPasses DEF BodySent
<1>2. CASE s' = [Supplies(place) EXCEPT !.wired = @ + 1]
  BY <1>2 DEF Supplies, Passes, Common, CallRecord
<1>3. CASE s' = [Supplies(onError) EXCEPT !.rc = "IO"]
  BY <1>3 DEF Supplies, Passes, BodyPassed, Common, CallRecord
<1>4. ASSUME NEW e \in errors, s' = ReadFails(onError, e)
      PROVE  Passes
  BY <1>4 DEF ReadFails, Passes, BodyPassed, Common, CallRecord
<1> QED BY <1>1, <1>2, <1>3, <1>4 DEF UploadLoop

LEMMA HeldPasses ==
  ASSUME Common, NEW place, place \in Uploading, NEW things,
         \/ s' = Hold(place, things) \/ s' = Goto(place) \/ s' = Drop(place, things)
         \/ s' = [Hold(place, things) EXCEPT !.res = TRUE]
         \/ s' = [Supplies(place) EXCEPT !.wired = @ + 1]
  PROVE  Passes
BY DEF Hold, Goto, Drop, Supplies, Passes, Common, CallRecord

LEMMA SlippedPasses ==
  ASSUME Common, NEW slip \in LostUpload, NEW place,
         \/ s' = [s EXCEPT !.pc = place, !.slips = @ \cup {slip}]
         \/ s' = [s EXCEPT !.pc = place, !.aborted = TRUE, !.slips = @ \cup {slip}]
         \/ s' = [Supplies(place) EXCEPT !.slips = @ \cup {slip}]
  PROVE  Passes
<1>1. slip \in s'.slips
  BY DEF Supplies, Common, CallRecord
<1> QED BY <1>1 DEF Passes, BodyPassed

LEMMA FailedPasses ==
  ASSUME Common, NEW place, NEW error \in Errors,
         s' = Fail(place, error) \/ s' = ReadFails(place, error)
  PROVE  Passes
BY DEF Fail, ReadFails, Passes, BodyPassed, Common, CallRecord, SUCCESS, Errors

LEMMA WindowsPasses ==
  ASSUME Common, s.pc \in Uploading,
         \/ backend = "winhttp" /\ (winhttp_steps \/ winhttp_network)
         \/ backend = "wininet" /\ (wininet_steps \/ wininet_network)
  PROVE  Passes
<1> USE DEF At
<1>0. /\ "NOMEM" \in Errors /\ "INVAL" \in Errors /\ "IO" \in Errors
      /\ {"callback"} \in SUBSET Errors
  BY DEF Errors
<1>1. CASE winhttp_strings \/ winhttp_open \/ winhttp_headers \/ winhttp_upload
  <2>1. CASE winhttp_strings
    BY <1>0, <2>1, TryOrLeavePasses DEF winhttp_strings, Uploading
  <2>2. CASE winhttp_open \/ winhttp_headers
    BY <1>0, <2>2, TryPasses DEF winhttp_open, winhttp_headers, Uploading
  <2>3. CASE winhttp_upload
    BY <1>0, <2>3, TryPasses, LoopPasses DEF winhttp_upload, Uploading
  <2> QED BY <1>1, <2>1, <2>2, <2>3
<1>2. CASE wininet_strings \/ wininet_open \/ wininet_headers \/ wininet_upload
  <2>1. CASE wininet_strings
    BY <1>0, <2>1, TryPasses, TryOrLeavePasses, LeavePasses
       DEF wininet_strings, Uploading
  <2>2. CASE wininet_open \/ wininet_headers
    BY <1>0, <2>2, TryPasses DEF wininet_open, wininet_headers, Uploading
  <2>3. CASE Try("wininet_send_request", {}, "wininet_write", "IO", "wininet_cleanup")
    BY <1>0, <2>3, TryPasses DEF Uploading
  <2>4. CASE UploadLoop("wininet_write", "wininet_end", "wininet_cleanup", {"callback"})
    BY <1>0, <2>4, LoopPasses DEF Uploading
  <2>5. ~Try("wininet_end", {}, "wininet_receive", "IO", "wininet_cleanup")
    BY DEF Try, Uploading
  <2> QED BY <1>2, <2>1, <2>2, <2>3, <2>4, <2>5 DEF wininet_upload
<1>3. ~(WinHttpReceiveResponse \/ WinHttpReadFails \/ winhttp_response \/ winhttp_cookies
        \/ winhttp_cleanup \/ winhttp_network)
  <2>1. WinHttpReceiveResponse => s.pc \in {"winhttp_receive", "winhttp_buffer"}
    BY DEF WinHttpReceiveResponse, Try
  <2>2. WinHttpReadFails \/ winhttp_network => s.pc = "winhttp_read"
    BY DEF WinHttpReadFails, winhttp_network, WinHttpReadData, BodyPiece, BodyEnd, BodyFails
  <2>3. winhttp_response \/ winhttp_cookies \/ winhttp_cleanup =>
          s.pc \in {"winhttp_response", "winhttp_cookies", "winhttp_cleanup"}
    BY DEF winhttp_response, winhttp_cookies, winhttp_cleanup, winhttp
  <2> QED BY <2>1, <2>2, <2>3 DEF Uploading
<1>4. ~(HttpQueryInfo \/ InternetReadFails \/ wininet_response \/ wininet_cleanup
        \/ wininet_network)
  <2>1. HttpQueryInfo => s.pc \in {"wininet_receive", "wininet_cookies", "wininet_buffer"}
    BY DEF HttpQueryInfo, Try
  <2>2. InternetReadFails \/ wininet_network => s.pc = "wininet_read"
    BY DEF InternetReadFails, wininet_network, InternetReadFile, BodyPiece, BodyEnd, BodyFails
  <2>3. wininet_response \/ wininet_cleanup => s.pc \in {"wininet_response", "wininet_cleanup"}
    BY DEF wininet_response, wininet_cleanup, wininet
  <2> QED BY <2>1, <2>2, <2>3 DEF Uploading
<1> QED BY <1>1, <1>2, <1>3, <1>4 DEF winhttp_steps, wininet_steps

LEMMA SoupPasses ==
  ASSUME Common, s.pc \in Uploading, soup_steps \/ soup_network
  PROVE  Passes
<1> USE DEF At, soup
<1>0. "INVAL" \in Errors /\ "IO" \in Errors /\ "soup_body" \in Uploading
  BY DEF Errors, Uploading
<1>1. CASE soup_message_new
  BY <1>0, <1>1, LeavePasses, HeldPasses DEF soup_message_new
<1>2. CASE soup_set_body
  <2>1. CASE s' = BodySent("soup_send")
    BY <2>1, SentPasses DEF BodySent
  <2>2. CASE s' = [Supplies("soup_body") EXCEPT !.wired = @ + 1]
    BY <1>0, <2>2, HeldPasses
  <2>3. CASE s' = ReadFails("soup_cleanup", "IO")
    BY <1>0, <2>3, FailedPasses
  <2> QED BY <1>2, <2>1, <2>2, <2>3 DEF soup_set_body
<1>3. ~(soup_session_fails \/ soup_response \/ soup_cleanup \/ soup_network)
  <2>1. soup_session_fails \/ soup_response \/ soup_cleanup \/ soup_network =>
          s.pc \in {"soup_send", "soup_response", "soup_cleanup"}
    BY DEF soup_session_fails, soup_response, soup_cleanup, soup_network,
           soup_session_send_and_read, BodyFails
  <2> QED BY <2>1 DEF Uploading
<1> QED BY <1>1, <1>2, <1>3 DEF soup_steps

LEMMA FetchPasses ==
  ASSUME Common, s.pc \in Uploading, fetch_steps \/ fetch_network
  PROVE  Passes
<1> USE DEF At, fetch
<1>0. /\ "INVAL" \in Errors /\ "NOMEM" \in Errors /\ "callback" \in Errors
      /\ {"fetch_environment", "fetch_upload", "fetch_pieces"} \subseteq Uploading
  BY DEF Errors, Uploading
<1>1. CASE fetch_parse_url
  BY <1>0, <1>1, LeavePasses, HeldPasses DEF fetch_parse_url
<1>2. CASE fetch_setenv
  BY <1>0, <1>2, HeldPasses DEF fetch_setenv
<1>3. CASE fetch_read_upload
  <2>1. CASE s' = BodySent("fetch_request")
    BY <2>1, SentPasses DEF BodySent
  <2>2. CASE TryOrLeave("fetch_upload", {"upload"}, "fetch_pieces", "NOMEM", {"url"})
    BY <1>0, <2>2, TryOrLeavePasses
  <2>3. CASE s' = [Supplies("fetch_pieces") EXCEPT !.wired = @ + 1]
    BY <1>0, <2>3, HeldPasses
  <2>4. CASE \/ Returns([Drop("", {"upload", "url"}) EXCEPT !.rc = "NOMEM"])
             \/ Returns([Drop("", {"upload", "url"}) EXCEPT !.rc = "callback",
                                                             !.aborted = TRUE])
    <3>1. ASSUME NEW call \in {[Drop("", {"upload", "url"}) EXCEPT !.rc = "NOMEM"],
                               [Drop("", {"upload", "url"}) EXCEPT !.rc = "callback",
                                                                   !.aborted = TRUE]}
          PROVE  CallRecord(call) /\ call.rc # SUCCESS
      BY <1>0 DEF Drop, Common, CallRecord, SUCCESS
    <3> QED BY <2>4, <3>1, ReturnPasses
  <2> QED BY <1>3, <2>1, <2>2, <2>3, <2>4 DEF fetch_read_upload
<1>4. ~(fetchReqHTTP \/ fetch_response \/ fread_fails \/ fetch_close \/ fetch_network)
  <2>1. fetchReqHTTP \/ fetch_response \/ fread_fails \/ fetch_close \/ fetch_network =>
          s.pc \in {"fetch_request", "fetch_response", "fetch_read", "fetch_close"}
    BY DEF fetchReqHTTP, fetch_response, fread_fails, fetch_close, fetch_network, fread_piece,
           fread_end, TryOrLeave, BodyEnd
  <2> QED BY <2>1 DEF Uploading
<1> QED BY <1>1, <1>2, <1>3, <1>4 DEF fetch_steps

LEMMA WasmPasses ==
  ASSUME Common, s.pc \in Uploading, wasm_steps \/ wasm_network
  PROVE  Passes
<1> USE DEF At, wasm
<1>0. /\ "INVAL" \in Errors /\ "NOMEM" \in Errors /\ "CANCELED" \in Errors
      /\ {"wasm_headers", "wasm_upload", "wasm_pieces"} \subseteq Uploading
  BY DEF Errors, Uploading
<1>1. CASE wasm_fetch_attr_init
  BY <1>0, <1>1, LeavePasses, HeldPasses DEF wasm_fetch_attr_init
<1>2. CASE wasm_request_headers
  BY <1>0, <1>2, TryOrLeavePasses DEF wasm_request_headers
<1>3. CASE wasm_read_upload
  <2>1. CASE s' = BodySent("wasm_exec")
    BY <2>1, SentPasses DEF BodySent
  <2>2. CASE Try("wasm_upload", {"upload"}, "wasm_pieces", "NOMEM", "wasm_cleanup")
    BY <1>0, <2>2, TryPasses
  <2>3. CASE s' = [Supplies("wasm_pieces") EXCEPT !.wired = @ + 1]
    BY <1>0, <2>3, HeldPasses
  <2>4. CASE s' = Fail("wasm_cleanup", "NOMEM") \/ s' = ReadFails("wasm_cleanup", "CANCELED")
    BY <1>0, <2>4, FailedPasses
  <2> QED BY <1>3, <2>1, <2>2, <2>3, <2>4 DEF wasm_read_upload
<1>4. ~(\/ wasm_fetch_exec \/ wasm_fetch_fails \/ wasm_response \/ wasm_body
        \/ wasm_response_headers \/ wasm_cleanup \/ wasm_network)
  <2>1. (\/ wasm_fetch_exec \/ wasm_fetch_fails \/ wasm_response \/ wasm_body
         \/ wasm_response_headers \/ wasm_cleanup \/ wasm_network) =>
          s.pc \in {"wasm_exec", "wasm_response", "wasm_body", "wasm_lines", "wasm_cleanup"}
    BY DEF wasm_fetch_exec, wasm_fetch_fails, wasm_response, wasm_body, wasm_response_headers,
           wasm_cleanup, wasm_network
  <2>2. s.pc \notin {"wasm_exec", "wasm_response", "wasm_body", "wasm_lines", "wasm_cleanup"}
    BY DEF Uploading
  <2> QED BY <2>1, <2>2
<1> QED BY <1>1, <1>2, <1>3, <1>4 DEF wasm_steps

LEMMA EventPasses ==
  ASSUME Common, s.pc \in Uploading, backend = "libevent", event_steps \/ event_network
  PROVE  Passes
<1> USE DEF At, event
<1>0. /\ "NOMEM" \in Errors /\ "event_connection" \in Uploading
      /\ "event_request" \in Uploading /\ "event_body" \in Uploading
  BY DEF Errors, Uploading
<1>1. CASE make_objects
  BY <1>0, <1>1, TryOrLeavePasses DEF make_objects
<1>2. CASE fill_output
  <2>1. CASE s' = BodySent("event_method")
    BY <2>1, SentPasses DEF BodySent
  <2>2. CASE s' = [Supplies("event_body") EXCEPT !.wired = @ + 1]
    BY <1>0, <2>2, HeldPasses
  <2>3. CASE \/ s' = [s EXCEPT !.pc = "event_method", !.slips = @ \cup {"body not sent"}]
             \/ s' = [Supplies("event_body") EXCEPT !.slips = @ \cup {"upload piece lost"}]
             \/ s' = [s EXCEPT !.pc = "event_method", !.aborted = TRUE,
                               !.slips = @ \cup {"upload error ignored"}]
    <3>1. /\ "body not sent" \in LostUpload /\ "upload piece lost" \in LostUpload
          /\ "upload error ignored" \in LostUpload
      BY DEF LostUpload
    <3> QED BY <2>3, <3>1, SlippedPasses
  <2> QED BY <1>2, <2>1, <2>2, <2>3 DEF fill_output
<1>3. ~(\/ get_method_cmd \/ evhttp_make_request \/ http_request_failed \/ event_result
        \/ event_network)
  <2>1. (\/ get_method_cmd \/ evhttp_make_request \/ http_request_failed \/ event_result
         \/ event_network) =>
          s.pc \in {"event_method", "event_make", "event_dispatch", "event_result"}
    BY DEF get_method_cmd, evhttp_make_request, http_request_failed, event_result,
           event_network, http_chunked_cb, http_request_done, TryOrLeave
  <2>2. s.pc \notin {"event_method", "event_make", "event_dispatch", "event_result"}
    BY DEF Uploading
  <2> QED BY <2>1, <2>2
<1> QED BY <1>1, <1>2, <1>3 DEF event_steps

LEMMA RawPasses ==
  ASSUME Common, s.pc \in Uploading, backend = "raw", raw_steps \/ raw_network
  PROVE  Passes
<1> USE DEF At, raw
<1>0. /\ "INVAL" \in Errors /\ "NOMEM" \in Errors /\ "IO" \in Errors
      /\ "raw_resolve" \in Uploading /\ "raw_socket" \in Uploading
      /\ "raw_connect" \in Uploading /\ "raw_writable" \in Uploading
      /\ "raw_buffer" \in Uploading /\ "raw_line" \in Uploading /\ "raw_grow" \in Uploading
  BY DEF Errors, Uploading
<1>1. CASE parse_url
  BY <1>0, <1>1, LeavePasses, HeldPasses DEF parse_url
<1>2. CASE resolve_and_connect \/ wait_writable
  BY <1>0, <1>2, TryOrLeavePasses DEF resolve_and_connect, wait_writable
<1>3. CASE send_request
  <2>1. CASE TryOrLeave("raw_buffer", {"request buffer"}, "raw_line", "NOMEM",
                        {"socket", "host", "path"})
    BY <1>0, <2>1, TryOrLeavePasses
  <2>2. CASE s' = Drop("raw_grow", {"host", "path"})
    BY <1>0, <2>2, HeldPasses
  <2>3. CASE \/ s' = PassesOn(Goto("raw_send"), {"none", "body"})
             \/ Returns([s EXCEPT !.rc = "NOMEM", !.held = @ \ {"request buffer", "socket"}])
    BY <1>0, <2>3, SentPasses, LeavePasses
  <2>4. s.pc # "raw_send"
    BY DEF Uploading
  <2> QED BY <1>3, <2>1, <2>2, <2>3, <2>4 DEF send_request
<1>4. ~(\/ allocate_response \/ recv_fails \/ close_socket \/ parse_response
        \/ raw_network)
  <2>1. \/ allocate_response \/ recv_fails \/ close_socket \/ parse_response \/ raw_network =>
          s.pc \in {"raw_response", "raw_body", "raw_recv", "raw_close", "raw_parse"}
    BY DEF allocate_response, recv_fails, close_socket, parse_response, raw_network,
           recv_data, recv_end
  <2> QED BY <2>1 DEF Uploading
<1> QED BY <1>1, <1>2, <1>3, <1>4 DEF raw_steps

LEMMA ApplePasses ==
  ASSUME Common, s.pc \in Uploading, backend = "apple", apple_steps \/ apple_network
  PROVE  Passes
<1> USE DEF At, apple
<1>0. /\ "INVAL" \in Errors /\ "NOMEM" \in Errors /\ "callback" \in Errors
      /\ "apple_request" \in Uploading /\ "apple_body" \in Uploading
  BY DEF Errors, Uploading
<1>1. CASE apple_response
  BY <1>0, <1>1, LeavePasses, HeldPasses DEF apple_response, apple_fails
<1>2. CASE apple_create_request
  BY <1>0, <1>2, LeavePasses, HeldPasses DEF apple_create_request, apple_fails
<1>3. CASE apple_set_body
  <2>1. CASE s' = BodySent("apple_stream")
    BY <2>1, SentPasses DEF BodySent
  <2>2. CASE apple_fails("NOMEM") \/ s' = [Supplies("apple_body") EXCEPT !.wired = @ + 1]
    BY <1>0, <2>2, LeavePasses, HeldPasses DEF apple_fails
  <2>3. CASE apple_error([s EXCEPT !.aborted = TRUE], "callback")
    <3>1. s'.rc = "callback"
      BY <2>3 DEF apple_error, Returns, Common, CallRecord
    <3> QED BY <3>1 DEF Passes, BodyPassed, SUCCESS
  <2> QED BY <1>3, <2>1, <2>2, <2>3 DEF apple_set_body
<1>4. ~(\/ apple_open_stream \/ apple_stream_error \/ apple_extract_response
        \/ apple_network)
  <2>1. (\/ apple_open_stream \/ apple_stream_error \/ apple_extract_response
         \/ apple_network) => s.pc \in {"apple_stream", "apple_run", "apple_done"}
    BY DEF apple_open_stream, apple_stream_error, apple_extract_response, apple_network,
           apple_stream_cb, apple_end, BodyEnd, BodyFails
  <2>2. s.pc \notin {"apple_stream", "apple_run", "apple_done"}
    BY DEF Uploading
  <2> QED BY <2>1, <2>2
<1> QED BY <1>1, <1>2, <1>3, <1>4 DEF apple_steps

LEMMA Msh3Passes ==
  ASSUME Common, s.pc \in Uploading, backend = "msh3",
         msh3_steps \/ msh3_network \/ msh3_wait
  PROVE  Passes
<1> USE DEF At, msh3
<1>0. /\ "INVAL" \in Errors /\ "NOMEM" \in Errors /\ "IO" \in Errors
      /\ "msh3_response" \in Uploading /\ "msh3_resolve" \in Uploading
      /\ "msh3_open" \in Uploading /\ "msh3_mutex" \in Uploading
      /\ "msh3_cond" \in Uploading /\ "msh3_request" \in Uploading
  BY DEF Errors, Uploading
<1>1. ASSUME NEW place, NEW things, NEW next, next \in Uploading, NEW error \in Errors,
             Msh3Tries(place, things, next, error)
      PROVE  Passes
  BY <1>1, LeavePasses, HeldPasses DEF Msh3Tries, Msh3Leaves
<1>2. CASE msh3_parse_url \/ msh3_connect \/ msh3_sync_init
  BY <1>0, <1>1, <1>2 DEF msh3_parse_url, msh3_connect, msh3_sync_init
<1>3. CASE msh3_response
  BY <1>0, <1>3, LeavePasses, HeldPasses DEF msh3_response, Msh3Leaves
<1>4. CASE msh3_request
  <2>1. CASE s' = Fail("msh3_close", "NOMEM")
    BY <1>0, <2>1, FailedPasses
  <2>2. CASE s' = [Hold("msh3_close", {"request"}) EXCEPT !.rc = "IO"]
    BY <2>2 DEF Hold, Passes, BodyPassed, Common, CallRecord, SUCCESS
  <2>3. CASE s' = PassesOn(Hold("msh3_wait", {"request"}), {"none"})
    BY <2>3, SentPasses
  <2> QED BY <1>4, <2>1, <2>2, <2>3 DEF msh3_request
<1>5. ~(msh3_network \/ msh3_wait \/ msh3_close)
  <2>1. msh3_network \/ msh3_wait \/ msh3_close => s.pc \in {"msh3_wait", "msh3_close"}
    BY DEF msh3_network, msh3_data_received, msh3_shutdown_complete, msh3_running,
           msh3_wait, msh3_close
  <2> QED BY <2>1 DEF Uploading
<1> QED BY <1>2, <1>3, <1>4, <1>5 DEF msh3_steps

LEMMA QuicPasses ==
  ASSUME Common, http_picoquic_send \/ http_xquic_send
  PROVE  Passes
<1>0. /\ "INVAL" \in Errors /\ "NOMEM" \in Errors /\ "IO" \in Errors
      /\ "quic_connection" \in Uploading
  BY DEF Errors, Uploading
<1> QED BY <1>0, LeavePasses, HeldPasses DEF http_picoquic_send, http_xquic_send

LEMMA UvPasses ==
  ASSUME Common, s.pc \in Uploading, backend = "libuv", uv_steps \/ uv_network
  PROVE  Passes
<1> USE DEF At, uv
<1>0. /\ "INVAL" \in Errors /\ "NOMEM" \in Errors /\ "uv_method" \in Uploading
      /\ "uv_buffer" \in Uploading /\ "uv_header_lines" \in Uploading
      /\ "uv_body" \in Uploading
  BY DEF Errors, Uploading
<1>1. CASE uv_parse_url
  BY <1>0, <1>1, LeavePasses, HeldPasses DEF uv_parse_url
<1>2. CASE uv_build_request
  BY <1>0, <1>2, TryOrLeavePasses DEF uv_build_request
<1>3. CASE uv_build_body
  <2>1. CASE s' = BodySent("uv_loop")
    BY <2>1, SentPasses DEF BodySent
  <2>2. CASE s' = [Supplies("uv_body") EXCEPT !.wired = @ + 1]
    BY <1>0, <2>2, HeldPasses
  <2>3. CASE s' = [s EXCEPT !.pc = "uv_loop", !.aborted = TRUE,
                            !.slips = @ \cup {"upload error ignored"}]
    <3>1. "upload error ignored" \in LostUpload
      BY DEF LostUpload
    <3> QED BY <2>3, <3>1, SlippedPasses
  <2>4. CASE Returns([s EXCEPT !.rc = "NOMEM",
                               !.held = @ \ {"host", "path", "request buffer"}])
    BY <1>0, <2>4, LeavePasses
  <2> QED BY <1>3, <2>1, <2>2, <2>3, <2>4 DEF uv_build_body
<1>4. ~(\/ uv_open_handles \/ uv_start_lookup \/ libuv_on_timeout \/ libuv_on_resolved
        \/ uv_run_returns \/ uv_loop_close \/ uv_cleanup \/ uv_network)
  <2>1. (\/ uv_open_handles \/ uv_start_lookup \/ libuv_on_timeout \/ libuv_on_resolved
         \/ uv_run_returns \/ uv_loop_close \/ uv_cleanup \/ uv_network) =>
          s.pc \in {"uv_loop", "uv_tcp", "uv_timer", "uv_lookup", "uv_run",
                    "uv_loop_close", "uv_cleanup"}
    <3>1. uv_open_handles => s.pc \in {"uv_loop", "uv_tcp", "uv_timer"}
      BY DEF uv_open_handles, Try
    <3>2. uv_start_lookup \/ uv_run_returns \/ uv_loop_close \/ uv_cleanup =>
            s.pc \in {"uv_lookup", "uv_run", "uv_loop_close", "uv_cleanup"}
      BY DEF uv_start_lookup, uv_run_returns, uv_loop_close, uv_cleanup
    <3>3. libuv_on_timeout \/ libuv_on_resolved \/ uv_network => s.pc = "uv_run"
      BY DEF libuv_on_timeout, libuv_on_resolved, uv_network, libuv_on_connect,
             libuv_on_write, libuv_alloc_cb, parse_headers, libuv_on_read_data,
             libuv_on_read_end, late_events, uv_reading
    <3> QED BY <3>1, <3>2, <3>3
  <2>2. s.pc \notin {"uv_loop", "uv_tcp", "uv_timer", "uv_lookup", "uv_run",
                 "uv_loop_close", "uv_cleanup"}
    BY DEF Uploading
  <2> QED BY <2>1, <2>2
<1> QED BY <1>1, <1>2, <1>3, <1>4 DEF uv_steps

LEMMA UploadGoesOn ==
  ASSUME Common, s.pc \in Uploading, Step \/ Network, UNCHANGED backend
  PROVE  Passes
<1>1. CASE backend = "curl" /\ (curl_steps \/ curl_network)
  BY <1>1 DEF Passes, BodyPassed
<1>2. CASE \/ backend = "winhttp" /\ (winhttp_steps \/ winhttp_network)
           \/ backend = "wininet" /\ (wininet_steps \/ wininet_network)
  BY <1>2, WindowsPasses
<1>3. CASE backend = "libuv" /\ (uv_steps \/ uv_network)
  BY <1>3, UvPasses
<1>4. CASE backend = "libevent" /\ (event_steps \/ event_network)
  BY <1>4, EventPasses
<1>5. CASE backend = "raw" /\ (raw_steps \/ raw_network)
  BY <1>5, RawPasses
<1>6. CASE backend = "libsoup3" /\ (soup_steps \/ soup_network)
  BY <1>6, SoupPasses
<1>7. CASE backend = "fetch" /\ (fetch_steps \/ fetch_network)
  BY <1>7, FetchPasses
<1>8. CASE backend = "wasm" /\ (wasm_steps \/ wasm_network)
  BY <1>8, WasmPasses
<1>9. CASE backend = "apple" /\ (apple_steps \/ apple_network)
  BY <1>9, ApplePasses
<1>10. CASE backend = "msh3" /\ (msh3_steps \/ msh3_network \/ msh3_wait)
  BY <1>10, Msh3Passes
<1>11. CASE http_picoquic_send \/ http_xquic_send
  BY <1>11, QuicPasses
<1> QED BY <1>1, <1>2, <1>3, <1>4, <1>5, <1>6, <1>7, <1>8, <1>9, <1>10, <1>11
        DEF Step, Network

-----------------------------------------------------------------------------
(* Every step of a send is of a kind that the contract knows.               *)
LEMMA CodeSteps ==
  ASSUME SendsInv, Step \/ Network
  PROVE  Good /\ BackendInv'
<1> USE DEF SendsInv, BackendInv
<1>1. CASE backend = "curl" /\ (curl_steps \/ curl_network)
  BY <1>1, CurlSteps DEF Good
<1>2. CASE backend = "libuv" /\ (uv_steps \/ uv_network)
  BY <1>2, UvSteps DEF Good
<1>3. CASE backend = "libevent" /\ (event_steps \/ event_network)
  BY <1>3, EventSteps DEF Good
<1>4. CASE backend = "raw" /\ (raw_steps \/ raw_network)
  BY <1>4, RawSteps DEF Good
<1>5. CASE backend = "winhttp" /\ (winhttp_steps \/ winhttp_network)
  BY <1>5, WinHttpSteps DEF Good
<1>6. CASE backend = "wininet" /\ (wininet_steps \/ wininet_network)
  BY <1>6, WinInetSteps DEF Good
<1>7. CASE backend = "libsoup3" /\ (soup_steps \/ soup_network)
  BY <1>7, SoupSteps DEF Good
<1>8. CASE backend = "fetch" /\ (fetch_steps \/ fetch_network)
  BY <1>8, FetchSteps DEF Good
<1>9. CASE backend = "wasm" /\ (wasm_steps \/ wasm_network)
  BY <1>9, WasmSteps DEF Good
<1>10. CASE backend = "apple" /\ (apple_steps \/ apple_network)
  BY <1>10, AppleSteps DEF Good
<1>11. CASE backend = "msh3" /\ (msh3_steps \/ msh3_network \/ msh3_wait)
  BY <1>11, Msh3Steps DEF Good
<1>12. CASE http_picoquic_send
  <2>1. backend = "picoquic"
    BY <1>12 DEF http_picoquic_send, At
  <2> QED BY <1>12, <2>1, PicoquicSteps DEF Good
<1>13. CASE http_xquic_send
  <2>1. backend = "xquic"
    BY <1>13 DEF http_xquic_send, At
  <2> QED BY <1>13, <2>1, XquicSteps DEF Good
<1> QED BY <1>1, <1>2, <1>3, <1>4, <1>5, <1>6, <1>7, <1>8, <1>9, <1>10, <1>11, <1>12, <1>13
        DEF Step, Network

LEMMA SendsInit == Init => SendsInv
<1> SUFFICES ASSUME Init
             PROVE  SendsInv
  OBVIOUS
<1>1. s = FreshCall /\ net = FreshNet /\ request \in Requests /\ calls = 0
      /\ backend \in Backends
  BY DEF Init
<1>2. net \in NetStates /\ net = [FreshNet EXCEPT !.stale = net.stale]
  BY <1>1, SendBounds DEF FreshNet, NetStates
<1>3. Common
  BY <1>1, <1>2, FreshIsCommon
<1>4. BackendInv
  BY <1>1, <1>3, BeginKeepsBackendInv DEF FreshCall
<1>5. UploadInv
  BY <1>1 DEF FreshCall, UploadInv, Uploading
<1> QED BY <1>1, <1>3, <1>4, <1>5, BackendNames DEF SendsInv

LEMMA NextSendIsFresh ==
  ASSUME SendsInv, NextSend
  PROVE  Common' /\ GivenBody' = <<>> /\ ~Aborted' /\ s'.pc = "begin" /\ s'.taken = 0
<1> USE SendBounds DEF SUCCESS, Errors, LostUpload, AbortLost
<1>1. s' = FreshCall /\ net' = [FreshNet EXCEPT !.stale = net.stale]
      /\ request' \in Requests /\ net.stale \in SUBSET Pointers
  BY DEF NextSend, SendsInv, Common, NetStates
<1>2. /\ net' \in NetStates /\ net'.stale = net.stale
      /\ net' = [FreshNet EXCEPT !.stale = net'.stale]
  BY <1>1 DEF FreshNet, NetStates
<1>3. CallRecord(s)' /\ s'.pc = "begin" /\ s'.given = <<>> /\ s'.taken = 0 /\ s'.wired = 0
      /\ s'.rc = "SUCCESS" /\ ~s'.aborted
  BY <1>1 DEF FreshCall, CallRecord
<1>4. GivenBody' = <<>> /\ ~Aborted'
  BY <1>3 DEF GivenBody, Aborted
<1>5. GivenInOrder'
  BY <1>4, PiecesGrow DEF GivenInOrder, Pieces
<1> QED BY <1>1, <1>2, <1>3, <1>4, <1>5 DEF Common, Honest, Fresh

LEMMA SendsNext == SendsInv /\ [Next]_sendVars => SendsInv'
<1> SUFFICES ASSUME SendsInv, [Next]_sendVars
             PROVE  SendsInv'
  OBVIOUS
<1>1. CASE Step \/ Network
  <2>1. Good /\ BackendInv'
    BY <1>1, CodeSteps
  <2>2. calls' \in Nat
    BY <1>1 DEF Step, Network, SendsInv
  <2>3. UploadInv'
    BY <1>1, <2>1, UploadGoesOn DEF SendsInv, Good, UploadInv, Passes
  <2> QED BY <2>1, <2>2, <2>3 DEF SendsInv, Good
<1>2. CASE NextSend
  <2>1. Common' /\ s'.pc = "begin"
    BY <1>2, NextSendIsFresh
  <2>2. BackendInv'
    BY <2>1, BeginKeepsBackendInvNext
  <2>3. UploadInv'
    BY <2>1 DEF UploadInv, Uploading
  <2> QED BY <1>2, <2>1, <2>2, <2>3 DEF SendsInv, NextSend
<1>3. CASE UNCHANGED sendVars
  <2>1. backend' = backend /\ request' = request /\ s' = s /\ net' = net /\ calls' = calls
    BY <1>3 DEF sendVars
  <2>2. Common'
    <3>1. CallRecord(s)' /\ GivenBody' = GivenBody /\ Aborted' = Aborted
      BY <2>1 DEF SendsInv, Common, CallRecord, GivenBody, Aborted
    <3>2. GivenInOrder'
      BY <3>1 DEF SendsInv, Common, Honest, GivenInOrder, Pieces
    <3> QED BY <2>1, <3>1, <3>2 DEF SendsInv, Common, Honest, Fresh
  <2>3. /\ Nothing => Nothing'
        /\ Gathered => Gathered'
        /\ Receiving => Receiving'
        /\ Received => Received'
        /\ Waiting => Waiting'
        /\ ReadToEnd => ReadToEnd'
        /\ Collected' = Collected /\ Aborted' = Aborted
    BY <2>1 DEF Nothing, Gathered, Receiving, Received, Waiting, ReadToEnd, Collected, Pieces,
                Aborted
  <2>4. Left => Left'
    BY <2>1, <2>3 DEF Left, ResponseReceived, ReceivedWhole, Succeeded, Returned, GivenBody
  <2>5. CurlInv => CurlInv'
    BY <2>1, <2>3, <2>4 DEF CurlInv, SUCCESS
  <2>6. UvInv => UvInv'
    BY <2>1, <2>3, <2>4 DEF UvInv, UvHeld, UvCallbacks, UvRunning, UvLate, UvEnded,
                uv_done, UvPrepares, UvMemory, UvThings, UvStrings, UvHandles, UvRequest, SUCCESS,
                NotReleased
  <2>7. EventInv => EventInv'
    BY <2>1, <2>3, <2>4 DEF EventInv, EventLate, EventHeld, SUCCESS
  <2>8. RawInv => RawInv'
    <3>1. RawHeaders' = RawHeaders
      BY <2>1 DEF RawHeaders
    <3>2. RawGathered => RawGathered'
      BY <2>1, <2>3, <3>1 DEF RawGathered
    <3>3. RawRead => RawRead'
      BY <2>1, <3>1, <3>2 DEF RawRead
    <3> QED BY <2>1, <2>3, <2>4, <3>2, <3>3 DEF RawInv, RawLate, SUCCESS
  <2>9. WinHttpInv => WinHttpInv'
    BY <2>1, <2>3, <2>4 DEF WinHttpInv, WinHttpLate, WinHttpHeld, WinHttpStrings,
                SUCCESS
  <2>10. WinInetInv => WinInetInv'
    BY <2>1, <2>3, <2>4 DEF WinInetInv, WinInetLate, WinInetHeld, WinInetStrings,
                SUCCESS
  <2>11. SoupInv => SoupInv'
    BY <2>1, <2>3, <2>4 DEF SoupInv, SUCCESS
  <2>12. (FetchInv => FetchInv') /\ (WasmInv => WasmInv')
    BY <2>1, <2>3, <2>4 DEF FetchInv, WasmInv, SUCCESS
  <2>13. AppleInv => AppleInv'
    BY <2>1, <2>3, <2>4 DEF AppleInv, AppleGathered, AppleHeld, SUCCESS
  <2>14. Msh3Inv => Msh3Inv'
    BY <2>1, <2>3, <2>4 DEF Msh3Inv, Msh3Gathered, Msh3Held, Msh3Prepares, SUCCESS
  <2>15. (PicoquicInv => PicoquicInv') /\ (XquicInv => XquicInv')
    BY <2>1, <2>3, <2>4 DEF PicoquicInv, XquicInv
  <2>16. UploadInv => UploadInv'
    BY <2>1 DEF UploadInv, BodyPassed
  <2> QED BY <2>1, <2>2, <2>5, <2>6, <2>7, <2>8, <2>9, <2>10, <2>11, <2>12, <2>13, <2>14,
             <2>15, <2>16 DEF SendsInv, BackendInv
<1> QED BY <1>1, <1>2, <1>3 DEF Next, Done

(* What a call that has returned leaves, whatever the backend.              *)
LEMMA ReturnedLeft == SendsInv => ResponseComplete /\ NothingLeftBehind
<1> SUFFICES ASSUME SendsInv
             PROVE  ResponseComplete /\ NothingLeftBehind
  OBVIOUS
<1>1. Returned => Left
  BY DEF SendsInv, BackendInv, Returned, CurlInv, UvInv, EventInv, RawInv, WinHttpInv,
         WinInetInv, SoupInv, FetchInv, WasmInv, AppleInv, Msh3Inv, PicoquicInv, XquicInv
<1>2. (backend = "curl" /\ s.pc = "curl_perform") =>
        net.stale \cap {"POSTFIELDS", "READDATA", "HTTPHEADER", "WRITEDATA"} = {}
  BY DEF SendsInv, BackendInv, CurlInv
<1>3. ASSUME Succeeded
      PROVE  SentWhole
  <2>1. BodyPassed /\ s.rc = SUCCESS
    BY <1>3 DEF SendsInv, UploadInv, Uploading, Succeeded, Returned
  <2>2. (s.slips \cap LostUpload = {}) => s.wired = s.taken
    BY <2>1 DEF SendsInv, Common, Honest
  <2> QED BY <2>1, <2>2 DEF SentWhole, BodyPassed
<1>4. ResponseComplete
  <2>1. Succeeded => ReceivedWhole
    BY <1>1 DEF Left, ResponseReceived, Succeeded
  <2> QED BY <1>3, <2>1 DEF ResponseComplete
<1> QED BY <1>1, <1>2, <1>4 DEF Left, NothingLeftBehind

(* A send that succeeds has the whole message, on every backend, for every  *)
(* number of calls and of pieces.                                          *)
THEOREM CompleteTheorem == Spec => []ResponseComplete
<1>1. Init => SendsInv
  BY SendsInit
<1>2. SendsInv /\ [Next]_sendVars => SendsInv'
  BY SendsNext
<1>3. SendsInv => ResponseComplete
  BY ReturnedLeft
<1> QED BY <1>1, <1>2, <1>3, PTL DEF Spec

(* A send gives back all it acquired whatever fails and wherever, and the   *)
(* reused handle of curl never points to a call that has returned.          *)
THEOREM LeavesTheorem == Spec => []NothingLeftBehind
<1>1. Init => SendsInv
  BY SendsInit
<1>2. SendsInv /\ [Next]_sendVars => SendsInv'
  BY SendsNext
<1>3. SendsInv => NothingLeftBehind
  BY ReturnedLeft
<1> QED BY <1>1, <1>2, <1>3, PTL DEF Spec

(* The refinement: each kind of step is a step of the contract.             *)
LEMMA ContractInit == Init => Contract!Init
<1> SUFFICES ASSUME Init
             PROVE  Contract!Init
  OBVIOUS
<1>1. s = FreshCall /\ calls = 0
  BY DEF Init
<1> QED BY <1>1 DEF Contract!Init, FreshCall, GivenBody, Returned

LEMMA ContractNext ==
  SendsInv /\ SendsInv' /\ [Next]_sendVars => [Contract!Next]_(Contract!contractVars)
<1> SUFFICES ASSUME SendsInv, SendsInv', [Next]_sendVars
             PROVE  [Contract!Next]_(Contract!contractVars)
  OBVIOUS
<1> USE DEF SUCCESS, Contract!contractVars
<1>1. CASE Step \/ Network
  <2>1. Kinds
    BY <1>1, CodeSteps DEF Good
  <2>2. /\ s.taken \in 0..MaxUpload /\ s'.taken \in 0..MaxUpload
        /\ s.aborted \in BOOLEAN /\ s'.aborted \in BOOLEAN
    BY DEF SendsInv, Common, CallRecord, Honest
  <2>3. calls' = IF s'.pc = "returned" THEN calls + 1 ELSE calls
    BY <1>1, NetworkGoesOn DEF Step, Network, SendsInv
  <2>4. CASE Quiet
    BY <2>3, <2>4 DEF Quiet, Aborted, Returned
  <2>5. CASE Takes
    <3>1. ~Returned /\ ~Returned' /\ calls' = calls
      BY <2>3, <2>5 DEF Takes, Returned
    <3>2. s'.taken \in {s.taken} \cup {n \in 1..MaxUpload : n = s.taken + 1}
      BY <2>2, <2>5, SendBounds DEF Takes
    <3>3. Aborted' = (s'.taken = s.taken) /\ ~Aborted /\ GivenBody' = GivenBody
      <4>1. s.taken + 1 # s.taken
        BY <2>2, SendBounds
      <4>2. CASE s'.taken = s.taken + 1 /\ ~Aborted'
        BY <2>5, <4>1, <4>2 DEF Takes, Aborted
      <4>3. CASE s'.taken = s.taken /\ Aborted'
        BY <2>2, <2>5, <4>3 DEF Takes, Aborted
      <4> QED BY <2>5, <4>2, <4>3 DEF Takes
    <3> QED BY <3>1, <3>2, <3>3
            DEF Contract!Next, Contract!TakePiece, Contract!Running, Aborted
  <2>6. CASE Gives
    <3>1. ~Returned /\ ~Returned' /\ calls' = calls
      BY <2>3, <2>6 DEF Gives, Returned
    <3>2. /\ \E n \in Len(GivenBody)..MaxBody : GivenBody' = [i \in 1..n |-> i]
          /\ s'.taken = s.taken /\ ~Aborted
      BY <2>6 DEF Gives, Pieces
    <3> QED BY <3>1, <3>2
            DEF Contract!Next, Contract!GivePieces, Contract!Running, Aborted
  <2>7. CASE Finishes
    <3>1. ~Returned /\ Returned' /\ calls' = calls + 1
      BY <2>3, <2>7 DEF Finishes, Returned
    <3>2. /\ GivenBody' = GivenBody /\ s'.taken = s.taken /\ (Aborted => Aborted')
          /\ (s'.rc # "SUCCESS" \/ ~Aborted')
      BY <2>7 DEF Finishes
    <3>3. CASE Aborted' = Aborted
      BY <3>1, <3>2, <3>3 DEF Contract!Next, Contract!Finish, Aborted
    <3>4. CASE ~Aborted /\ Aborted'
      BY <3>1, <3>2, <3>4
         DEF Contract!Next, Contract!AbortAndFail, Contract!Running, Aborted
    <3> QED BY <3>2, <3>3, <3>4 DEF Aborted
  <2> QED BY <2>1, <2>4, <2>5, <2>6, <2>7 DEF Kinds
<1>2. CASE NextSend
  <2>1. GivenBody' = <<>> /\ ~Aborted' /\ s'.pc = "begin" /\ s'.taken = 0
    BY <1>2, NextSendIsFresh
  <2>2. Returned /\ ~Returned' /\ calls' = calls
    BY <1>2, <2>1 DEF NextSend, Returned
  <2> QED BY <2>1, <2>2 DEF Contract!Next, Contract!SendAgain, Aborted
<1>3. CASE UNCHANGED sendVars
  BY <1>3 DEF sendVars, GivenBody, Returned
<1> QED BY <1>1, <1>2, <1>3 DEF Next, Done

(* The send of every backend implements the contract of HttpClient.send:    *)
(* pieces in order and once, no callback after one that aborted, and no     *)
(* success then.                                                           *)
THEOREM SendTheorem == Spec => ImplementsSend
<1>1. Init => SendsInv
  BY SendsInit
<1>2. SendsInv /\ [Next]_sendVars => SendsInv'
  BY SendsNext
<1>3. Init => Contract!Init
  BY ContractInit
<1>4. SendsInv /\ SendsInv' /\ [Next]_sendVars => [Contract!Next]_(Contract!contractVars)
  BY ContractNext
<1> QED BY <1>1, <1>2, <1>3, <1>4, PTL DEF Spec, ImplementsSend, Contract!Spec
=============================================================================
