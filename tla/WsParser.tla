------------------------------ MODULE WsParser ------------------------------
(***************************************************************************)
(* The incremental parser of WebSocket frames and the packing of frame     *)
(* headers (src/http_ws.c), as operators on sequences of bytes.  A call of *)
(* ws_parser_feed maps a context and a chunk to the next context, in which *)
(* "out" records the callbacks.  Memory is taken to be there.              *)
(***************************************************************************)
EXTENDS Integers, Sequences, FiniteSetsExt

CONSTANTS MaxFrame,     \* C_ABSTRACT_HTTP_WS_MAX_FRAME_SIZE
          FirstRoom     \* what is first allocated for reassembly: 4096

Byte == 0 .. 255

(* a ^ b, bit by bit.                                                      *)
Xor(a, b) ==
    LET bit(w) == (a \div w + b \div w) % 2
    IN  bit(1) + 2 * bit(2) + 4 * bit(4) + 8 * bit(8)
          + 16 * bit(16) + 32 * bit(32) + 64 * bit(64) + 128 * bit(128)

CONTINUATION == 0
TEXT == 1
CLOSE == 8
PING == 9

FRAMING == "framing"
EMSGSIZE == "too large"

(* parts is the reassembly buffer up to its offset, room its capacity.     *)
ws_parser_init ==
    [state |-> "READ_OPCODE", fin |-> FALSE, opcode |-> 0, mask |-> FALSE,
     len |-> 0, ext |-> <<>>, key |-> <<>>, payload |-> <<>>,
     parts |-> <<>>, room |-> 0, out |-> <<>>, rc |-> "success"]

Message(op, bytes) == [event |-> "message", opcode |-> op, payload |-> bytes]
Closed(status) == [event |-> "close", status |-> status]

Tell(c, event) == [c EXCEPT !.out = Append(@, event)]

(* on_error is called and the error returned: the caller feeds no more.    *)
Fail(c, code) ==
    [Tell(c, [event |-> "error", code |-> code]) EXCEPT !.rc = code]

-----------------------------------------------------------------------------
(* The bytes of a header.                                                  *)

read_opcode(c, b) ==
    LET d == [c EXCEPT !.fin = b >= 128, !.opcode = b % 16]
        reserved == (b \div 16) % 8 # 0
    IN  IF reserved \/ (~d.fin /\ d.opcode >= 8)
        THEN Fail(d, FRAMING)
        ELSE [d EXCEPT !.state = "READ_LEN"]

KnownLen(c, n) ==
    [c EXCEPT !.len = n, !.payload = <<>>,
              !.state = IF c.mask THEN "READ_MASK" ELSE "READ_PAYLOAD"]

read_len(c, b) ==
    LET d == [c EXCEPT !.mask = b >= 128, !.ext = <<>>]
        base_len == b % 128
    IN  CASE base_len = 126 -> [d EXCEPT !.state = "READ_EXT_LEN_16"]
          [] base_len = 127 -> [d EXCEPT !.state = "READ_EXT_LEN_64"]
          [] OTHER -> KnownLen(d, base_len)

(* math_ws_ntohs, math_ws_ntohll.  Lengths above MaxFrame are all refused, *)
(* so that the number need not be told exactly there.                      *)
Huge == Max({MaxFrame + 1, 65536})
AddByte(n, b) == Min({n * 256 + b, Huge})

math_ws_ntoh(bytes) ==
    LET value[i \in 0 .. Len(bytes)] ==
          IF i = 0 THEN 0 ELSE AddByte(value[i - 1], bytes[i])
    IN  value[Len(bytes)]

read_ext_len_16(c, b) ==
    LET d == [c EXCEPT !.ext = Append(@, b)]
    IN  IF Len(d.ext) < 2 THEN d ELSE KnownLen(d, math_ws_ntoh(d.ext))

read_ext_len_64(c, b) ==
    LET d == [c EXCEPT !.ext = Append(@, b)]
        e == KnownLen(d, math_ws_ntoh(d.ext))
    IN  IF Len(d.ext) < 8 THEN d
        ELSE IF e.len > MaxFrame THEN Fail(e, EMSGSIZE) ELSE e

read_mask(c, b) ==
    LET d == [c EXCEPT !.key = Append(@, b)]
    IN  IF Len(d.key) < 4 THEN d ELSE [d EXCEPT !.state = "READ_PAYLOAD", !.payload = <<>>]

-----------------------------------------------------------------------------
(* A complete frame.                                                       *)

Mutant_no_reset_after_message(c) ==
    Tell(c, Message(c.opcode, c.parts \o c.payload))

(* The last frame of a message.                                            *)
final_frame(c) ==
    IF c.parts = <<>> THEN Tell(c, Message(c.opcode, c.payload))
    ELSE LET whole == c.parts \o c.payload
         IN  [Tell(c, Message(c.opcode, whole))
                EXCEPT !.parts = <<>>, !.room = Max({@, Len(whole)})]

Doubled(room, n) ==
    LET doubled[r \in Nat \ {0}] == IF r >= n THEN r ELSE doubled[2 * r]
    IN  doubled[room]

(* A frame that others follow: the buffer doubles until it fits.           *)
data_fragment(c) ==
    LET n == Len(c.parts) + c.len
        room == IF n <= c.room THEN c.room
                ELSE Doubled(IF c.room = 0 THEN FirstRoom ELSE 2 * c.room, n)
    IN  IF c.opcode # CONTINUATION /\ c.parts # <<>> THEN Fail(c, FRAMING)
        ELSE IF n > c.room /\ room > MaxFrame THEN Fail(c, EMSGSIZE)
        ELSE [c EXCEPT !.parts = @ \o c.payload, !.room = room]

frame_complete(c) ==
    CASE c.opcode = CLOSE ->
           Tell(c, Closed(IF c.len >= 2 THEN math_ws_ntoh(SubSeq(c.payload, 1, 2)) ELSE 1005))
      [] c.opcode \in {PING, PING + 1} -> Tell(c, Message(c.opcode, c.payload))
      [] OTHER -> IF c.fin THEN final_frame(c) ELSE data_fragment(c)

next_frame(c) ==
    [c EXCEPT !.state = "READ_OPCODE", !.ext = <<>>, !.key = <<>>, !.fin = FALSE,
              !.opcode = 0, !.mask = FALSE, !.len = 0, !.payload = <<>>]

Mutant_mask_from_chunk(c, bytes) ==
    [i \in DOMAIN bytes |->
        IF c.mask THEN Xor(bytes[i], c.key[((i - 1) % 4) + 1]) ELSE bytes[i]]

(* The i-th byte of this chunk is unmasked by its place in the frame.      *)
Unmasked(c, bytes) ==
    [i \in DOMAIN bytes |->
        IF c.mask THEN Xor(bytes[i], c.key[((Len(c.payload) + i - 1) % 4) + 1])
        ELSE bytes[i]]

(* Takes what the chunk has of the payload, which may be all of it.        *)
PayloadPart(c, chunk) == Min({c.len - Len(c.payload), Len(chunk)})

read_payload(c, chunk) ==
    LET d == [c EXCEPT !.payload = @ \o Unmasked(c, SubSeq(chunk, 1, PayloadPart(c, chunk)))]
        e == frame_complete(d)
    IN  IF Len(d.payload) < d.len THEN d
        ELSE IF e.rc # "success" THEN e ELSE next_frame(e)

-----------------------------------------------------------------------------

(* One turn of the loop in ws_parser_feed, and the bytes it takes.         *)
Turn(c, chunk) ==
    LET b == Head(chunk)
    IN  CASE c.state = "READ_OPCODE" -> read_opcode(c, b)
          [] c.state = "READ_LEN" -> read_len(c, b)
          [] c.state = "READ_EXT_LEN_16" -> read_ext_len_16(c, b)
          [] c.state = "READ_EXT_LEN_64" -> read_ext_len_64(c, b)
          [] c.state = "READ_MASK" -> read_mask(c, b)
          [] c.state = "READ_PAYLOAD" -> read_payload(c, chunk)

Taken(c, chunk) == IF c.state = "READ_PAYLOAD" THEN PayloadPart(c, chunk) ELSE 1

Rest(c, chunk) == SubSeq(chunk, Taken(c, chunk) + 1, Len(chunk))

(* The loop runs while bytes are left, so that a frame without payload is  *)
(* complete only when the byte after its header arrives.                   *)
Loop(l) ==
    IF l.rest = <<>> \/ l.ctx.rc # "success" THEN l
    ELSE [ctx |-> Turn(l.ctx, l.rest), rest |-> Rest(l.ctx, l.rest)]

(* A turn that completes such a frame takes no byte, but the next one does. *)
ws_parser_feed(c, chunk) ==
    LET after[n \in Nat] ==
          IF n = 0 THEN [ctx |-> c, rest |-> chunk] ELSE Loop(after[n - 1])
    IN  after[2 * Len(chunk)].ctx

Fed(bytes) == ws_parser_feed(ws_parser_init, bytes)

-----------------------------------------------------------------------------
(* Packing.                                                                *)

(* math_ws_htons and math_ws_htonll: n as w bytes, the highest first.      *)
math_ws_hton(n, w) == [i \in 1 .. w |-> IF w - i > 3 THEN 0 ELSE (n \div 256 ^ (w - i)) % 256]

FirstByte(fin, op) == (IF fin THEN 128 ELSE 0) + op
LenByte(mask, n) == (IF mask THEN 128 ELSE 0) + n

(* The header that ws_send chooses: small, medium or large.                *)
ws_pack_header(fin, op, mask, n) ==
    CASE n <= 125 -> <<FirstByte(fin, op), LenByte(mask, n)>>
      [] n > 125 /\ n <= 65535 -> <<FirstByte(fin, op), LenByte(mask, 126)>> \o math_ws_hton(n, 2)
      [] OTHER -> <<FirstByte(fin, op), LenByte(mask, 127)>> \o math_ws_hton(n, 8)

ws_apply_mask(bytes, key) == [i \in DOMAIN bytes |-> Xor(bytes[i], key[((i - 1) % 4) + 1])]

(* What ws_send appends to the queue.                                      *)
ws_send(op, bytes, key) ==
    ws_pack_header(TRUE, op, TRUE, Len(bytes)) \o key \o ws_apply_mask(bytes, key)
=============================================================================
