------------------------------ MODULE IpcCodec ------------------------------
(***************************************************************************)
(* The encoding in which requests and responses pass between processes     *)
(* (src/process.c), as operators on a buffer of cells.  An int, a size_t   *)
(* and a character are one cell each; a string is NULL or a sequence of    *)
(* characters.  Memory is taken to be there.                               *)
(***************************************************************************)
EXTENDS Naturals, Sequences, SequencesExt

CONSTANT NULL

StrLen(str) == IF str = NULL THEN 0 ELSE Len(str)

-----------------------------------------------------------------------------
(* Writing.                                                                *)

write_str(str) == IF str = NULL THEN <<0>> ELSE <<Len(str)>> \o str

write_headers(headers) ==
    <<Len(headers)>>
      \o FlattenSeq([i \in DOMAIN headers |->
                       write_str(headers[i].key) \o write_str(headers[i].value)])

(* A body that is streamed has a length and no bytes.                      *)
write_body(m) == <<m.body_len>> \o (IF m.body_len > 0 /\ m.body # NULL THEN m.body ELSE <<>>)

serialize_request(req) ==
    <<req.method>> \o write_str(req.url) \o write_headers(req.headers) \o write_body(req)

serialize_response(res) == <<res.status_code>> \o write_headers(res.headers) \o write_body(res)

(* What is allocated for the buffer before it is written.                  *)
est_headers(headers) ==
    FoldLeft(LAMBDA n, h : n + 2 + StrLen(h.key) + StrLen(h.value), 0, headers)
est_request(req) == 2 + 1 + StrLen(req.url) + 1 + est_headers(req.headers) + req.body_len
est_response(res) == 2 + 1 + est_headers(res.headers) + res.body_len

-----------------------------------------------------------------------------
(* Reading: what was read and the cells after it, or a refusal.            *)

Parsed(val, rest) == [ok |-> TRUE, val |-> val, rest |-> rest]
Refused == [ok |-> FALSE, val |-> NULL, rest |-> <<>>]

(* parse_int and parse_size.                                               *)
parse_cell(p) == IF p = <<>> THEN Refused ELSE Parsed(Head(p), Tail(p))

(* len bytes, of which none is NULL.                                       *)
parse_bytes(p) ==
    LET len == parse_cell(p)
    IN  CASE ~len.ok -> Refused
          [] len.ok /\ len.val = 0 -> Parsed(NULL, len.rest)
          [] len.ok /\ len.val > Len(len.rest) -> Refused
          [] OTHER -> Parsed(SubSeq(len.rest, 1, len.val),
                             SubSeq(len.rest, len.val + 1, Len(len.rest)))

parse_str(p) == parse_bytes(p)

http_headers_add(headers, key, value) ==
    IF key = NULL \/ value = NULL THEN Refused
    ELSE Parsed(Append(headers, [key |-> key, value |-> value]), <<>>)

(* One header more, as long as none is refused.                            *)
parse_header(before) ==
    LET key == parse_str(before.rest)
        value == parse_str(key.rest)
        more == http_headers_add(before.val, key.val, value.val)
    IN  IF before.ok /\ key.ok /\ value.ok /\ more.ok THEN Parsed(more.val, value.rest)
        ELSE Refused

parse_headers(hcount, p) ==
    FoldLeft(LAMBDA before, i : parse_header(before), Parsed(<<>>, p), [i \in 1 .. hcount |-> i])

(* The part that requests and responses share.                             *)
parse_rest(p) ==
    LET hcount == parse_cell(p)
        headers == IF hcount.ok THEN parse_headers(hcount.val, hcount.rest) ELSE Refused
        body == parse_bytes(headers.rest)
    IN  IF ~headers.ok \/ ~body.ok THEN Refused
        ELSE Parsed([headers |-> headers.val, body |-> body.val, body_len |-> StrLen(body.val)],
                    body.rest)

deserialize_request(buf) ==
    LET method == parse_cell(buf)
        url == parse_str(method.rest)
        rest == parse_rest(url.rest)
    IN  IF ~method.ok \/ ~url.ok \/ ~rest.ok THEN Refused
        ELSE Parsed([method |-> method.val, url |-> url.val] @@ rest.val, rest.rest)

deserialize_response(buf) ==
    LET status_code == parse_cell(buf)
        rest == parse_rest(status_code.rest)
    IN  IF ~status_code.ok \/ ~rest.ok THEN Refused
        ELSE Parsed([status_code |-> status_code.val] @@ rest.val, rest.rest)
=============================================================================
