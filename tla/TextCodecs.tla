----------------------------- MODULE TextCodecs -----------------------------
(***************************************************************************)
(* The text encodings of src/http_types.c, as operators on sequences of    *)
(* bytes.  Memory is taken to be there.                                    *)
(***************************************************************************)
EXTENDS Integers, Sequences, SequencesExt, FiniteSetsExt

-----------------------------------------------------------------------------
(* base64_encode, for Basic authorization.  A digit is its value, 0 to 63, *)
(* and the padding character comes after these.                            *)

Padding == 64

ByteOr0(src, i) == IF i <= Len(src) THEN src[i] ELSE 0

(* The four digits of the g-th three bytes.                                *)
Quartet(src, g) ==
    LET triple == ByteOr0(src, 3 * g - 2) * 65536 + ByteOr0(src, 3 * g - 1) * 256
                    + ByteOr0(src, 3 * g)
    IN  [k \in 1 .. 4 |-> (triple \div (64 ^ (4 - k))) % 64]

base64_encode(src) ==
    LET groups == (Len(src) + 2) \div 3
        digits == FlattenSeq([g \in 1 .. groups |-> Quartet(src, g)])
        pad == (3 - (Len(src) % 3)) % 3
    IN  [j \in DOMAIN digits |-> IF j > Len(digits) - pad THEN Padding ELSE digits[j]]

-----------------------------------------------------------------------------
(* Form encoding, for OAuth 2.                                             *)

Unreserved(c) == \/ c \in 97 .. 122 \/ c \in 65 .. 90 \/ c \in 48 .. 57
                 \/ c \in {45, 95, 46, 126}
Space == 32
Plus == 43
Percent == 37

HexDigit(n) == IF n < 10 THEN 48 + n ELSE 55 + n

Encoded(c) == CASE Unreserved(c) -> <<c>>
                [] c = Space -> <<Plus>>
                [] OTHER -> <<Percent, HexDigit(c \div 16), HexDigit(c % 16)>>

urlencode_append(src) == FlattenSeq([i \in DOMAIN src |-> Encoded(src[i])])

(* What is allocated for it.                                               *)
math_urlencode_len(src) ==
    LET len[i \in 0 .. Len(src)] ==
          IF i = 0 THEN 0
          ELSE len[i - 1] + IF Unreserved(src[i]) \/ src[i] = Space THEN 1 ELSE 3
    IN  len[Len(src)]

(* A digit, or a letter of either case; others give some number.           *)
ToLower(c) == IF c \in 65 .. 90 THEN c + 32 ELSE c
HexValue(c) == IF c \in 48 .. 57 THEN c - 48 ELSE ToLower(c) - 97 + 10

(* (hi << 4) | lo, in the byte that it is cut to.                          *)
Escaped(a, b) ==
    LET bit(w) == Max({((16 * HexValue(a)) \div w) % 2, (HexValue(b) \div w) % 2})
    IN  bit(1) + 2 * bit(2) + 4 * bit(4) + 8 * bit(8)
          + 16 * bit(16) + 32 * bit(32) + 64 * bit(64) + 128 * bit(128)

Mutant_escape_needs_a_byte_after(src, i) == i + 3 <= Len(src)

(* Both digits of the escape at i are there.                               *)
EscapeFits(src, i) == i + 2 <= Len(src)

(* A percent sign too near the end is dropped.                             *)
urldecode_alloc(src) ==
    LET from[i \in 1 .. Len(src) + 1] ==
          IF i > Len(src) THEN <<>>
          ELSE IF src[i] = Percent
               THEN IF EscapeFits(src, i) THEN <<Escaped(src[i + 1], src[i + 2])>> \o from[i + 3]
                    ELSE from[i + 1]
          ELSE <<IF src[i] = Plus THEN Space ELSE src[i]>> \o from[i + 1]
    IN  from[1]

-----------------------------------------------------------------------------
(* The URL that sends a user to the authorization server, and the request   *)
(* that the redirect back to localhost makes.  A parameter's name is one    *)
(* token, beyond the bytes.                                                 *)
Ampersand == 38
Equals == 61
Question == 63

ResponseType == 1001
ClientId == 1002
State == 1003
Code == 1004

Parameter(name, value) == <<name, Equals>> \o urlencode_append(value)

Joined(parameters) ==
    FlattenSeq([i \in DOMAIN parameters |->
                  (IF i = 1 THEN <<>> ELSE <<Ampersand>>)
                    \o Parameter(parameters[i][1], parameters[i][2])])

http_oauth2_build_authorization_url(endpoint, parameters) ==
    endpoint \o <<IF Question \in ToSet(endpoint) THEN Ampersand ELSE Question>>
      \o Joined(parameters)

(* What is allocated for it, but for the end of the string.                *)
authorization_url_len(endpoint, parameters) ==
    FoldLeft(LAMBDA n, p : n + 3 + math_urlencode_len(p[2]), Len(endpoint), parameters)

Before(str, stops) ==
    SubSeq(str, 1, Min({i \in DOMAIN str : str[i] \in stops} \cup {Len(str) + 1}) - 1)

(* The query of a request line: behind the question mark, up to the blank.  *)
Query(line) ==
    LET path == Before(line, {Question, Space, 13, 10})
    IN  IF Len(path) = Len(line) \/ line[Len(path) + 1] # Question THEN <<>>
        ELSE Before(SubSeq(line, Len(path) + 2, Len(line)), {Space})

(* The decoded value of the last parameter of that name, if there is one    *)
(* (http_oauth2_localhost_intercept behind "GET ").                         *)
Intercepted(line, name) ==
    LET query == Query(line)
        at == {i \in 1 .. Len(query) - 1 :
                 /\ query[i] = name /\ query[i + 1] = Equals
                 /\ i = 1 \/ query[i - 1] = Ampersand}
    IN  IF at = {} THEN {}
        ELSE {urldecode_alloc(Before(SubSeq(query, Max(at) + 2, Len(query)), {Ampersand}))}
=============================================================================
