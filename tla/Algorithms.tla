----------------------------- MODULE Algorithms -----------------------------
(***************************************************************************)
(* The pure algorithms of the library, each applied to every input of a    *)
(* bounded set and compared with what it should compute.  A state is one   *)
(* input; a step goes from an input to a larger one.                       *)
(***************************************************************************)
EXTENDS WsParser, FiniteSets, SequencesExt

CONSTANTS Payloads,      \* WebSocket: the payloads of the frames of pairs
          Fragments,     \* WebSocket: the payloads, among these, of triples
          NULL,          \* the null pointer
          Strings,       \* IPC: the strings of messages, all but NULL
          LineRoom,      \* events: the first line buffer, scaled
          DataRoom,      \* events: the first data buffer, scaled
          MaxLine,       \* events: the limit on both, scaled
          Lines,         \* events: the lines of streams
          MaxLines,      \* events: the longest stream, in lines
          Texts          \* texts, as sequences of bytes

VARIABLE input

(* Or no first fragment could be taken.                                    *)
ASSUME RoomAssumption == MaxFrame \in Nat /\ FirstRoom \in 1 .. MaxFrame

(* The limits of http_ws.h, for the headers alone.                         *)
RealParser == INSTANCE WsParser WITH MaxFrame <- 1048576, FirstRoom <- 4096

Ipc == INSTANCE IpcCodec
Sse == INSTANCE SseParser
Text == INSTANCE TextCodecs

-----------------------------------------------------------------------------
(* Frames as a server may send them: any bits, masked or not, the length   *)
(* in 7, 16 or 64 bits whether it needs them or not.                       *)
Key == <<1, 2, 3, 255>>

FrameOf(rsv, fin, op, key, width, payload) ==
    [rsv |-> rsv, fin |-> fin, op |-> op, key |-> key, width |-> width, payload |-> payload]

Opcodes == {0, 1, 8, 9}

AnyFrame == {FrameOf(rsv, fin, op, key, width, p) :
               rsv \in {0, 1}, fin \in BOOLEAN, op \in Opcodes, key \in {<<>>, Key},
               width \in {7, 16, 64}, p \in Payloads}

Mixed(f) == f.rsv = 0 /\ (f.key = Key <=> f.width = 16) /\ f.width # 64

PlainFrame == {FrameOf(0, fin, op, <<>>, 7, p) :
                 fin \in BOOLEAN, op \in Opcodes \ {8}, p \in Fragments}

StreamOf(frames) == [algorithm |-> "frames", frames |-> frames]

FrameInputs == {StreamOf(<<f>>) : f \in AnyFrame}

(* The stream goes on: pairs of mixed frames, triples of plain ones.       *)
AddFrame ==
    /\ input.algorithm = "frames"
    /\ \/ /\ Len(input.frames) = 1
          /\ Mixed(input.frames[1])
          /\ \E f \in {g \in AnyFrame : Mixed(g)} : input' = StreamOf(Append(input.frames, f))
       \/ /\ Len(input.frames) = 2
          /\ ToSet(input.frames) \subseteq PlainFrame
          /\ \E f \in PlainFrame : input' = StreamOf(Append(input.frames, f))

(* What an application sends.                                              *)
SendInputs ==
    {[algorithm |-> "send", op |-> op, size |-> n] :
        op \in Opcodes, n \in {0, 1, 2, 3, 124, 125, 126, 127, 128, 255, 256, 65534, 65535, 65536}}

(* Messages between processes: up to two headers, a body, none, or one that *)
(* is streamed and so has a length alone.                                  *)
Headers == UNION {[1 .. n -> [key : Strings, value : Strings]] : n \in 0 .. 2}

Bodies == {[body |-> b, body_len |-> Len(b)] : b \in Strings}
            \cup {[body |-> NULL, body_len |-> n] : n \in {0, 1}}

RequestMessages == {[method |-> 3, url |-> url, headers |-> h] @@ b :
                      url \in Strings \cup {NULL}, h \in Headers, b \in Bodies}

ResponseMessages == {[status_code |-> 200, headers |-> h] @@ b : h \in Headers, b \in Bodies}

IpcInputs == [algorithm : {"ipc"}, kind : {"request"}, message : RequestMessages]
               \cup [algorithm : {"ipc"}, kind : {"response"}, message : ResponseMessages]

(* Streams of events, with one or two characters at the end of a line.     *)
EventInputs == {[algorithm |-> "events", cr |-> cr, lines |-> <<>>] : cr \in BOOLEAN}

AddLine ==
    /\ input.algorithm = "events" /\ Len(input.lines) < MaxLines
    /\ \E l \in Lines : input' = [input EXCEPT !.lines = Append(@, l)]

TextInputs == {[algorithm |-> "text", text |-> t] : t \in Texts}

Init == input \in FrameInputs \cup SendInputs \cup IpcInputs
                   \cup EventInputs \cup TextInputs

Next == AddFrame \/ AddLine

Spec == Init /\ [][Next]_input

-----------------------------------------------------------------------------
(* Frames against their meaning.                                           *)

(* The bytes of a frame, by RFC 6455; there is a key if it is masked.      *)
First(f) == (IF f.fin THEN 128 ELSE 0) + 16 * f.rsv + f.op

TwoBytes(n) == <<n \div 256, n % 256>>
EightBytes(n) ==
    <<0, 0, 0, 0, n \div 16777216, (n \div 65536) % 256, (n \div 256) % 256, n % 256>>

LenBytes(f) ==
    LET n == Len(f.payload)
        masked == IF f.key = <<>> THEN 0 ELSE 128
    IN  CASE f.width = 7 -> <<masked + n>>
          [] f.width = 16 -> <<masked + 126>> \o TwoBytes(n)
          [] OTHER -> <<masked + 127>> \o EightBytes(n)

OnWire(f) == IF f.key = <<>> THEN f.payload ELSE ws_apply_mask(f.payload, f.key)

Bytes(f) == <<First(f)>> \o LenBytes(f) \o f.key \o OnWire(f)

(* The first k frames.                                                     *)
Stream(s, k) == FlattenSeq([j \in 1 .. k |-> Bytes(s[j])])

(* However the transport cuts a stream of frames into chunks, the parser   *)
(* calls the same callbacks and is in the same state (http_ws.c:494-752):  *)
(* one cut anywhere is enough, since the rest may be cut again.            *)
CutsDontMatter ==
    input.algorithm = "frames" =>
      LET bytes == Stream(input.frames, Len(input.frames))
      IN  \A cut \in 0 .. Len(bytes) :
            Fed(bytes) = ws_parser_feed(Fed(SubSeq(bytes, 1, cut)),
                                        SubSeq(bytes, cut + 1, Len(bytes)))

Control(f) == f.op >= 8
EndsMessage(f) == ~Control(f) /\ f.fin

(* The message that frame k belongs to begins behind this frame.           *)
Before(s, k) == Max({0} \cup {j \in 1 .. k - 1 : EndsMessage(s[j])})

(* The data of the frames behind i, up to k.                               *)
Data(s, i, k) ==
    FlattenSeq([j \in 1 .. k - i |-> IF Control(s[i + j]) THEN <<>> ELSE s[i + j].payload])

SoFar(s, k) == Data(s, Before(s, k), k)

(* What RFC 6455 allows: control frames whole and anywhere, a message as a *)
(* frame that names its type and continuations up to the final one.        *)
Legal(s) ==
    \A k \in DOMAIN s :
      /\ s[k].rsv = 0 /\ s[k].op \in {0, 1, 2, 8, 9, 10}
      /\ IF Control(s[k]) THEN s[k].fin
         ELSE s[k].op = 0 <=> \E j \in Before(s, k) + 1 .. k - 1 : ~Control(s[j])

(* As 1048576 is 4096, doubled a number of times.                          *)
LimitIsDoubled ==
    \E rooms \in SUBSET (FirstRoom .. MaxFrame) :
      /\ FirstRoom \in rooms /\ MaxFrame \in rooms
      /\ \A r \in rooms \ {MaxFrame} : 2 * r \in rooms

(* Frames with a length in 64 bits stay within the limit, and so do the    *)
(* fragments before the last one of a message.  The buffer keeps the       *)
(* length of the longest message, and doubles from there: once a message   *)
(* came in fragments, only half of the limit is sure to be taken.          *)
Fits(s) ==
    LET fragmented(k) == EndsMessage(s[k]) /\ SoFar(s, k) # s[k].payload
    IN  \A k \in DOMAIN s :
          /\ s[k].width = 64 => Len(s[k].payload) <= MaxFrame
          /\ ~s[k].fin => \/ 2 * Len(SoFar(s, k)) <= MaxFrame + 1
                         \/ /\ LimitIsDoubled
                            /\ Len(SoFar(s, k)) <= MaxFrame
                            /\ \A j \in 1 .. k : ~fragmented(j)

Meaning(s, k) ==
    LET f == s[k]
    IN  IF f.op = 8
        THEN Closed(IF Len(f.payload) < 2 THEN 1005 ELSE f.payload[1] * 256 + f.payload[2])
        ELSE Message(f.op, IF Control(f) THEN f.payload ELSE SoFar(s, k))

(* What the first k frames mean.                                           *)
Meanings(s, k) ==
    FlattenSeq([j \in 1 .. k |-> IF s[j].fin THEN <<Meaning(s, j)>> ELSE <<>>])

(* A legal stream of frames is never refused, and each message, however    *)
(* fragmented and with whatever control frames in between, is delivered    *)
(* once, whole and in order.  A frame without payload at the very end is   *)
(* left out here: EveryMessageDelivered is about it (http_ws.c:494-752).   *)
MessagesReassembled ==
    (input.algorithm = "frames" /\ Legal(input.frames) /\ Fits(input.frames)) =>
      LET s == input.frames
          n == Len(s)
          got == Fed(Stream(s, n))
      IN  /\ got.rc = "success"
          /\ got.out = Meanings(s, IF s[n].payload = <<>> THEN n - 1 ELSE n)

(* Every complete message is delivered once its last byte was fed          *)
(* (http_ws.h: "Callback invoked when a complete WebSocket message is      *)
(* received.").                                                            *)
EveryMessageDelivered ==
    (input.algorithm = "frames" /\ Legal(input.frames) /\ Fits(input.frames)) =>
      LET n == Len(input.frames)
      IN  Fed(Stream(input.frames, n)).out = Meanings(input.frames, n)

(* Reading the header that ws_send packs gives back the frame's type, its  *)
(* mask and its exact length at every boundary of the three formats, and a *)
(* short frame as a whole gives back its payload.                          *)
SentFrameParses(op, size) ==
    LET header == RealParser!ws_pack_header(TRUE, op, TRUE, size) \o Key
        read == RealParser!ws_parser_feed(RealParser!ws_parser_init, header)
        payload == [i \in 1 .. size |-> 250 + i]
        sent == RealParser!ws_send(op, payload, Key)
    IN  /\ read.state = "READ_PAYLOAD" /\ read.fin /\ read.mask
        /\ read.opcode = op /\ read.len = size /\ read.key = Key
        /\ size \in 1 .. 3 /\ op # 8 =>
             RealParser!ws_parser_feed(RealParser!ws_parser_init, sent).out
               = <<RealParser!Message(op, payload)>>

-----------------------------------------------------------------------------
(* Messages between processes.                                             *)

Written(kind, m) ==
    IF kind = "request" THEN Ipc!serialize_request(m) ELSE Ipc!serialize_response(m)

Read(kind, buf) ==
    IF kind = "request" THEN Ipc!deserialize_request(buf) ELSE Ipc!deserialize_response(buf)

(* Headers are not empty and a body that has a length has bytes: the code  *)
(* refuses to read the others back.                                        *)
Encodable(m) ==
    /\ \A i \in DOMAIN m.headers : m.headers[i].key # <<>> /\ m.headers[i].value # <<>>
    /\ m.body_len > 0 => m.body # NULL

NullIfEmpty(str) == IF str = <<>> THEN NULL ELSE str

AsRead(m) == [f \in DOMAIN m |-> IF f \in {"url", "body"} THEN NullIfEmpty(m[f]) ELSE m[f]]

(* The buffer that is estimated before writing is large enough, the message *)
(* is read back, and no proper prefix of it is taken for a shorter message. *)
IpcRoundTrip(kind, m) ==
    LET bytes == Written(kind, m)
        back == Read(kind, bytes)
    IN  /\ Len(bytes) <= IF kind = "request" THEN Ipc!est_request(m) ELSE Ipc!est_response(m)
        /\ Encodable(m) => back.ok /\ back.val = AsRead(m) /\ back.rest = <<>>
        /\ \A n \in 0 .. Len(bytes) - 1 : ~Read(kind, SubSeq(bytes, 1, n)).ok

-----------------------------------------------------------------------------
(* Events against their meaning.                                           *)

Blank == [field |-> <<>>, colon |-> FALSE, space |-> FALSE, value |-> <<>>]

Tokens(l) == l.field \o (IF l.colon THEN <<":">> ELSE <<>>)
               \o (IF l.space THEN <<" ">> ELSE <<>>) \o l.value

LineEnd == IF input.cr THEN <<"CR", "LF">> ELSE <<"LF">>

ValuesOf(field, lines) ==
    LET those == SelectSeq(lines, LAMBDA l : l.field = field)
    IN  [i \in DOMAIN those |-> those[i].value]

LastOr(default, values) == IF values = <<>> THEN default ELSE Last(values)

(* What the blank line k stands for: the lines since the blank line before *)
(* it, and the last id of all.                                             *)
EventAt(lines, k) ==
    LET start == Max({0} \cup {j \in 1 .. k - 1 : lines[j] = Blank})
        own == SubSeq(lines, start + 1, k - 1)
        data == ValuesOf(<<"data">>, own)
    IN  IF data = <<>> THEN <<>>
        ELSE <<[id |-> LastOr(NULL, ValuesOf(<<"id">>, SubSeq(lines, 1, k - 1))),
                event |-> LastOr(<<"message">>, ValuesOf(<<"event">>, own)),
                data |-> FlattenSeq([i \in DOMAIN data |->
                                       IF i = 1 THEN data[i] ELSE <<"LF">> \o data[i]])]>>

(* Each event is reported once, at its blank line, with its type, the last *)
(* id and its lines of data joined; comments and unknown fields leave no   *)
(* trace, and nothing of an event leaks into the next, also while the      *)
(* buffers grow (http_sse.c:175-366).                                      *)
EventsReported ==
    input.algorithm = "events" =>
      LET lines == Append(input.lines, Blank)
          stream == FlattenSeq([k \in DOMAIN lines |-> Tokens(lines[k]) \o LineEnd])
          got == Sse!sse_parser_feed(Sse!sse_parser_init(NULL), stream)
      IN  /\ got.rc = "success" /\ got.line = <<>>
          /\ got.out = FlattenSeq([k \in DOMAIN lines |->
                                     IF lines[k] = Blank THEN EventAt(lines, k) ELSE <<>>])

-----------------------------------------------------------------------------
(* Texts.                                                                  *)

(* The bytes that base64 digits stand for, bit by bit (RFC 4648).          *)
Base64Bytes(digits) ==
    LET d == SelectSeq(digits, LAMBDA x : x # Text!Padding)
    IN  [i \in 1 .. (Len(d) * 6) \div 8 |->
           LET first == (8 * (i - 1)) \div 6
               skip == (8 * (i - 1)) % 6
           IN  ((d[first + 1] * 64 + d[first + 2]) \div (2 ^ (4 - skip))) % 256]

(* Both encodings have the length that is allocated for them.              *)
TextRoundTrip(text) ==
    LET url == Text!urlencode_append(text)
        b64 == Text!base64_encode(text)
    IN  /\ Text!urldecode_alloc(url) = text
        /\ Len(url) = Text!math_urlencode_len(text)
        /\ Base64Bytes(b64) = text
        /\ Len(b64) = 4 * ((Len(text) + 2) \div 3)

(* The server finds the state in the URL, whether its endpoint has a query  *)
(* of its own or not, and the redirect brings it back with the code.       *)
RedirectRoundTrip(text) ==
    \A endpoint \in {<<47>>, <<47, Text!Question, 47, Text!Equals, 47>>} :
      LET parameters == <<<<Text!ResponseType, <<65>>>>, <<Text!ClientId, text>>,
                          <<Text!State, text>>>>
          url == Text!http_oauth2_build_authorization_url(endpoint, parameters)
          redirect == <<47, Text!Question>>
                        \o Text!Joined(<<<<Text!Code, <<66>> \o text>>, <<Text!State, text>>>>)
                        \o <<Text!Space, 72>>
      IN  /\ Len(url) = Text!authorization_url_len(endpoint, parameters)
          /\ Text!Intercepted(url, Text!State) = {text}
          /\ Text!Intercepted(redirect, Text!State) = {text}
          /\ Text!Intercepted(redirect, Text!Code) = {<<66>> \o text}
          /\ Text!Intercepted(redirect, Text!ClientId) = {}

(* What one side encodes the other side reads: a frame that ws_send packs; *)
(* a request or response in another process, but for an empty URL or body, *)
(* which becomes a null pointer; a text in base64 and in a form, with      *)
(* every byte and with an escape at the very end; and the state and code   *)
(* of an authorization, on the way to the server and back                  *)
(* (http_ws.c:390-445, 973-1044, process.c:565-823,                        *)
(* http_types.c:1082-1211, 1996-2107, 2133-2164, 2257-2309).               *)
CodecsInvert ==
    /\ input.algorithm = "send" => SentFrameParses(input.op, input.size)
    /\ input.algorithm = "ipc" => IpcRoundTrip(input.kind, input.message)
    /\ input.algorithm = "text" => TextRoundTrip(input.text) /\ RedirectRoundTrip(input.text)
=============================================================================
