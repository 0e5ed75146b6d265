----------------------------- MODULE SseParser ------------------------------
(***************************************************************************)
(* The parser of server-sent events (src/http_sse.c).  The stream is a     *)
(* sequence of tokens: "CR", "LF", ":", " ", the field names and other     *)
(* text.  A field name is one token, since the parser collects a line      *)
(* before it looks at any of it.  Memory is taken to be there.             *)
(***************************************************************************)
EXTENDS Integers, Sequences, SequencesExt

CONSTANTS LineRoom,   \* what is first allocated for a line: 1024
          DataRoom,   \* what is first allocated for the data: 4096
          MaxLine,    \* C_ABSTRACT_HTTP_SSE_MAX_LINE_SIZE
          NULL

(* The data has its final line feeds; out records the callbacks.           *)
sse_parser_init(last_event_id) ==
    [line |-> <<>>, line_room |-> LineRoom, data |-> <<>>, data_room |-> DataRoom,
     event |-> <<"message">>, id |-> last_event_id, out |-> <<>>, rc |-> "success"]

Doubled(room, n) ==
    LET doubled[r \in Nat \ {0}] == IF r >= n THEN r ELSE doubled[2 * r]
    IN  doubled[room]

Mutant_event_outlives_dispatch(c) ==
    LET told == IF c.data = <<>> THEN c
                ELSE [c EXCEPT !.out = Append(@, [id |-> c.id, event |-> c.event,
                                                  data |-> Front(c.data)])]
    IN  [told EXCEPT !.data = <<>>]

(* An empty line reports the event, if it has data, and starts a new one.  *)
dispatch(c) ==
    LET told == IF c.data = <<>> THEN c
                ELSE [c EXCEPT !.out = Append(@, [id |-> c.id, event |-> c.event,
                                                  data |-> Front(c.data)])]
    IN  [told EXCEPT !.event = <<"message">>, !.data = <<>>]

(* A line of data and its line feed.                                       *)
append_data(c, value) ==
    LET n == Len(c.data) + Len(value) + 1
        room == IF n > c.data_room THEN Doubled(2 * c.data_room, n + 1) ELSE c.data_room
    IN  IF n > c.data_room /\ room > MaxLine
        THEN [c EXCEPT !.rc = "too large", !.out = Append(@, [error |-> "too large"])]
        ELSE [c EXCEPT !.data = @ \o value \o <<"LF">>, !.data_room = room]

(* Unknown fields are ignored, and so is retry, whose value is only stored.*)
process_field(c, field, value) ==
    CASE field = <<"event">> -> [c EXCEPT !.event = value]
      [] field = <<"data">> -> append_data(c, value)
      [] field = <<"id">> -> [c EXCEPT !.id = value]
      [] OTHER -> c

WithoutSpace(value) == IF value # <<>> /\ Head(value) = " " THEN Tail(value) ELSE value

sse_process_line(c, line) ==
    LET colon == SelectInSeq(line, LAMBDA t : t = ":")
    IN  CASE line = <<>> -> dispatch(c)
          [] colon = 1 -> c
          [] line # <<>> /\ colon = 0 -> process_field(c, line, <<>>)
          [] OTHER -> process_field(c, SubSeq(line, 1, colon - 1),
                                    WithoutSpace(SubSeq(line, colon + 1, Len(line))))

collect(c, t) ==
    LET full == Len(c.line) + 1 >= c.line_room
    IN  IF full /\ 2 * c.line_room > MaxLine
        THEN [c EXCEPT !.rc = "no memory", !.out = Append(@, [error |-> "no memory"])]
        ELSE [c EXCEPT !.line = Append(@, t), !.line_room = IF full THEN 2 * @ ELSE @]

(* One turn of the loop: carriage returns are dropped wherever they are.   *)
Turn(c, t) ==
    CASE c.rc # "success" \/ t = "CR" -> c
      [] c.rc = "success" /\ t = "LF" ->
           LET d == sse_process_line(c, c.line)
           IN  IF d.rc = "success" THEN [d EXCEPT !.line = <<>>] ELSE d
      [] OTHER -> collect(c, t)

sse_parser_feed(c, chunk) == FoldLeft(Turn, c, chunk)
=============================================================================
