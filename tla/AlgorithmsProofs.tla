-------------------------- MODULE AlgorithmsProofs --------------------------
(***************************************************************************)
(* The parser of WebSocket frames, for any frames, bytes and chunks; and    *)
(* the encoding of texts in URLs, for any text.                            *)
(***************************************************************************)
EXTENDS Algorithms, SequenceTheorems, WellFoundedInduction, TLAPS

-----------------------------------------------------------------------------
(* Iteration.                                                              *)

(* A set of numbers that is not empty has a least one.                      *)
LEMMA LeastNumber ==
  ASSUME NEW T \in SUBSET Nat, T # {}
  PROVE  \E x \in T : \A y \in T : x <= y
<1>1. PICK x \in T : \A y \in T : ~ (<<y, x>> \in OpToRel(<, Nat))
  BY NatLessThanWellFounded, WFMin, Zenon
<1>2. \A y \in T : ~ (y < x)
  BY <1>1 DEF OpToRel
<1> QED BY <1>2

(* The loop from l, turn by turn.                                          *)
Turns(l, f) == f = [n \in Nat |-> IF n = 0 THEN l ELSE Loop(f[n - 1])]

TurnsUpTo(l, m, f) == f = [n \in 0 .. m |-> IF n = 0 THEN l ELSE Loop(f[n - 1])]

(* Two runs of the loop from l agree on the turns both have.               *)
LEMMA UpToAgree ==
  ASSUME NEW l, NEW m \in Nat, NEW k \in Nat, m <= k, NEW f, NEW g,
         TurnsUpTo(l, m, f), TurnsUpTo(l, k, g)
  PROVE  \A n \in 0 .. m : f[n] = g[n]
<1> DEFINE T == {n \in 0 .. m : f[n] # g[n]}
<1> SUFFICES ASSUME T # {} PROVE FALSE
  OBVIOUS
<1>1. PICK n \in T : \A i \in T : n <= i
  BY LeastNumber, T \subseteq Nat
<1>2. f[n] = IF n = 0 THEN l ELSE Loop(f[n - 1])
  BY DEF TurnsUpTo
<1>3. g[n] = IF n = 0 THEN l ELSE Loop(g[n - 1])
  BY DEF TurnsUpTo
<1>4. n # 0 => n - 1 \in 0 .. m /\ n - 1 \notin T
  BY <1>1
<1> QED BY <1>2, <1>3, <1>4

(* The loop runs for any number of turns.                                  *)
LEMMA UpToExists ==
  ASSUME NEW l
  PROVE  \A m \in Nat : \E f : TurnsUpTo(l, m, f)
<1> DEFINE T == {m \in Nat : ~ \E f : TurnsUpTo(l, m, f)}
<1> SUFFICES ASSUME T # {} PROVE FALSE
  OBVIOUS
<1>1. PICK m \in T : \A i \in T : m <= i
  BY LeastNumber, T \subseteq Nat
<1>2. CASE m = 0
  <2> DEFINE f == [n \in 0 .. 0 |-> l]
  <2>1. f = [n \in 0 .. 0 |-> IF n = 0 THEN l ELSE Loop(f[n - 1])]
    OBVIOUS
  <2> HIDE DEF f
  <2>2. TurnsUpTo(l, 0, f)
    BY <2>1 DEF TurnsUpTo
  <2> QED BY <1>1, <1>2, <2>2
<1>3. CASE m # 0
  <2>1. m - 1 \in Nat /\ m - 1 \notin T
    BY <1>1, <1>3
  <2>2. PICK f : TurnsUpTo(l, m - 1, f)
    BY <2>1
  <2> DEFINE g == [n \in 0 .. m |-> IF n = m THEN Loop(f[m - 1]) ELSE f[n]]
  <2>3. ASSUME NEW n \in 0 .. m
        PROVE  g[n] = IF n = 0 THEN l ELSE Loop(g[n - 1])
    <3>1. CASE n = m
      <4>1. g[n] = Loop(f[m - 1])
        BY <3>1
      <4>2. g[n - 1] = f[m - 1]
        BY <1>3, <2>1, <3>1
      <4> QED BY <1>3, <3>1, <4>1, <4>2
    <3>2. CASE n # m
      <4>1. n \in 0 .. m - 1
        BY <2>1, <3>2
      <4>2. f[n] = IF n = 0 THEN l ELSE Loop(f[n - 1])
        BY <4>1, <2>2 DEF TurnsUpTo
      <4>3. g[n] = f[n]
        BY <3>2
      <4>4. n # 0 => g[n - 1] = f[n - 1]
        BY <4>1
      <4> QED BY <4>2, <4>3, <4>4
    <3> QED BY <3>1, <3>2
  <2>4. g = [n \in 0 .. m |-> IF n = 0 THEN l ELSE Loop(g[n - 1])]
    <3>1. g = [n \in 0 .. m |-> g[n]]
      OBVIOUS
    <3> HIDE DEF g
    <3> QED BY <2>3, <3>1
  <2> HIDE DEF g
  <2>5. TurnsUpTo(l, m, g)
    BY <2>4 DEF TurnsUpTo
  <2> QED BY <1>1, <2>5
<1> QED BY <1>2, <1>3

(* The unbounded sequence of turns exists.                                 *)
LEMMA TurnsExist == \A l : \E f : Turns(l, f)
<1> SUFFICES ASSUME NEW l PROVE \E f : Turns(l, f)
  OBVIOUS
<1> DEFINE upto(m) == CHOOSE f : TurnsUpTo(l, m, f)
           f == [n \in Nat |-> upto(n)[n]]
<1>1. \A m \in Nat : TurnsUpTo(l, m, upto(m))
  BY UpToExists
<1> HIDE DEF upto
<1>2. ASSUME NEW n \in Nat PROVE f[n] = IF n = 0 THEN l ELSE Loop(f[n - 1])
  <2>1. upto(n)[n] = IF n = 0 THEN l ELSE Loop(upto(n)[n - 1])
    BY <1>1 DEF TurnsUpTo
  <2>2. n # 0 => n - 1 \in Nat /\ n - 1 <= n /\ n - 1 \in 0 .. n - 1
    OBVIOUS
  <2>3. n # 0 => upto(n)[n - 1] = upto(n - 1)[n - 1]
    BY <1>1, <2>2, UpToAgree
  <2>4. f[n] = upto(n)[n] /\ (n # 0 => f[n - 1] = upto(n - 1)[n - 1])
    BY <2>2
  <2> HIDE DEF f
  <2> QED BY <2>1, <2>3, <2>4
<1>3. f = [n \in Nat |-> f[n]]
  OBVIOUS
<1> HIDE DEF f
<1>4. f = [n \in Nat |-> IF n = 0 THEN l ELSE Loop(f[n - 1])]
  BY <1>2, <1>3
<1> QED BY <1>4 DEF Turns

(* Its turns follow one another.                                           *)
LEMMA TurnsAre ==
  ASSUME NEW l, NEW f, Turns(l, f)
  PROVE  f[0] = l /\ \A n \in Nat : f[n + 1] = Loop(f[n])
<1>1. f[0] = l
  BY DEF Turns
<1>2. ASSUME NEW n \in Nat PROVE f[n + 1] = Loop(f[n])
  <2>1. n + 1 \in Nat /\ n + 1 # 0 /\ n + 1 - 1 = n
    OBVIOUS
  <2> QED BY <2>1 DEF Turns
<1> QED BY <1>1, <1>2

(* After its first turn the loop goes on as from there.                     *)
LEMMA TurnsShift ==
  ASSUME NEW l, NEW f, Turns(l, f), NEW g, Turns(Loop(l), g)
  PROVE  \A n \in Nat : f[n + 1] = g[n]
<1> DEFINE T == {n \in Nat : f[n + 1] # g[n]}
<1> SUFFICES ASSUME T # {} PROVE FALSE
  OBVIOUS
<1>1. PICK n \in T : \A i \in T : n <= i
  BY LeastNumber, T \subseteq Nat
<1>2. CASE n = 0
  <2>1. f[0 + 1] = Loop(f[0]) /\ f[0] = l /\ g[0] = Loop(l)
    BY TurnsAre, 0 \in Nat
  <2> QED BY <1>1, <1>2, <2>1
<1>3. CASE n # 0
  <2>1. n - 1 \in Nat /\ n - 1 \notin T /\ n - 1 + 1 = n
    BY <1>1, <1>3
  <2>2. f[n] = g[n - 1]
    BY <2>1
  <2>3. f[n + 1] = Loop(f[n])
    BY TurnsAre
  <2>4. g[n] = Loop(g[n - 1])
    BY <2>1, TurnsAre
  <2> QED BY <1>1, <2>2, <2>3, <2>4
<1> QED BY <1>2, <1>3

-----------------------------------------------------------------------------
(* Numbers.                                                                *)

(* Min of FiniteSetsExt on two numbers.                                    *)
LEMMA MinIs ==
  ASSUME NEW a \in Int, NEW b \in Int
  PROVE  Min({a, b}) = IF a <= b THEN a ELSE b
<1>1. \E x \in {a, b} : \A y \in {a, b} : x <= y
  OBVIOUS
<1>2. Min({a, b}) \in {a, b} /\ \A y \in {a, b} : Min({a, b}) <= y
  BY <1>1 DEF Min
<1> QED BY <1>2

(* Max of FiniteSetsExt on two numbers.                                    *)
LEMMA MaxIs ==
  ASSUME NEW a \in Int, NEW b \in Int
  PROVE  Max({a, b}) = IF a >= b THEN a ELSE b
<1>1. \E x \in {a, b} : \A y \in {a, b} : x >= y
  OBVIOUS
<1>2. Max({a, b}) \in {a, b} /\ \A y \in {a, b} : Max({a, b}) >= y
  BY <1>1 DEF Max
<1> QED BY <1>2

(* Bytes are numbers.                                                      *)
LEMMA ByteNat == Byte \subseteq Nat
BY DEF Byte

(* The cap of a length is above the limit of a frame.                      *)
LEMMA HugeIs ==
  ASSUME MaxFrame \in Nat
  PROVE  Huge \in Nat /\ Huge > MaxFrame /\ Huge >= 65536
<1>1. Max({MaxFrame + 1, 65536}) = IF MaxFrame + 1 >= 65536 THEN MaxFrame + 1 ELSE 65536
  BY MaxIs
<1> QED BY <1>1 DEF Huge

(* One byte more of a big-endian number, capped.                           *)
LEMMA AddByteIs ==
  ASSUME MaxFrame \in Nat, NEW n \in Nat, NEW b \in Byte
  PROVE  /\ AddByte(n, b) \in Nat
         /\ AddByte(n, b) = IF n * 256 + b <= Huge THEN n * 256 + b ELSE Huge
<1>1. n * 256 + b \in Nat /\ Huge \in Nat
  BY HugeIs, ByteNat
<1> QED BY <1>1, MinIs DEF AddByte

(* The values of the first bytes of a number in network order.              *)
Values(bytes, v) ==
  v = [i \in 0 .. Len(bytes) |-> IF i = 0 THEN 0 ELSE AddByte(v[i - 1], bytes[i])]

ValuesUpTo(bytes, m, v) ==
  /\ v \in [0 .. m -> Nat]
  /\ v[0] = 0
  /\ \A i \in 1 .. m : v[i] = AddByte(v[i - 1], bytes[i])

(* The values of the prefixes of a byte sequence exist.                    *)
LEMMA ValuesExist ==
  ASSUME MaxFrame \in Nat, NEW bytes \in Seq(Byte)
  PROVE  \E v : ValuesUpTo(bytes, Len(bytes), v)
<1> DEFINE N == Len(bytes)
           T == {m \in 0 .. N : ~ \E v : ValuesUpTo(bytes, m, v)}
<1>0. N \in Nat /\ \A i \in 1 .. N : bytes[i] \in Byte
  OBVIOUS
<1> HIDE DEF N
<1>1. ASSUME T # {} PROVE FALSE
  <2>1. PICK m \in T : \A i \in T : m <= i
    BY <1>0, <1>1, LeastNumber, T \subseteq Nat
  <2>2. CASE m = 0
    <3> DEFINE v == [i \in 0 .. 0 |-> 0]
    <3>1. ValuesUpTo(bytes, 0, v)
      BY DEF ValuesUpTo
    <3> QED BY <2>1, <2>2, <3>1
  <2>3. CASE m # 0
    <3>1. m - 1 \in 0 .. N /\ m - 1 \notin T /\ m \in 1 .. N /\ bytes[m] \in Byte
      BY <1>0, <2>1, <2>3
    <3>2. PICK u : ValuesUpTo(bytes, m - 1, u)
      BY <3>1
    <3> DEFINE last == AddByte(u[m - 1], bytes[m])
               v == [i \in 0 .. m |-> IF i = m THEN last ELSE u[i]]
    <3>3. u[m - 1] \in Nat /\ u \in [0 .. m - 1 -> Nat]
      BY <3>1, <3>2 DEF ValuesUpTo
    <3>4. last \in Nat
      BY <3>1, <3>3, AddByteIs
    <3>5. v \in [0 .. m -> Nat] /\ v[0] = 0
      <4>1. \A i \in 0 .. m : i # m => i \in 0 .. m - 1
        BY <3>1
      <4> HIDE DEF last
      <4>2. v \in [0 .. m -> Nat]
        BY <3>3, <3>4, <4>1
      <4>3. v[0] = u[0]
        BY <2>3, <3>1
      <4> QED BY <3>2, <4>2, <4>3 DEF ValuesUpTo
    <3>6. ASSUME NEW i \in 1 .. m PROVE v[i] = AddByte(v[i - 1], bytes[i])
      <4>1. i - 1 \in 0 .. m /\ i - 1 # m /\ v[i - 1] = u[i - 1]
        BY <3>1
      <4>2. CASE i = m
        BY <4>1, <4>2
      <4>3. CASE i # m
        <5>1. i \in 1 .. m - 1 /\ v[i] = u[i]
          BY <3>1, <4>3
        <5> HIDE DEF v
        <5> QED BY <3>2, <4>1, <5>1 DEF ValuesUpTo
      <4> QED BY <4>2, <4>3
    <3> HIDE DEF v
    <3>7. ValuesUpTo(bytes, m, v)
      BY <3>5, <3>6 DEF ValuesUpTo
    <3> QED BY <2>1, <3>7
  <2> QED BY <2>2, <2>3
<1>2. N \in 0 .. N
  BY <1>0
<1> QED BY <1>1, <1>2 DEF N

(* What math_ws_ntohs and math_ws_ntohll add up.                            *)
LEMMA NtohIs ==
  ASSUME MaxFrame \in Nat, NEW bytes \in Seq(Byte)
  PROVE  \E v : ValuesUpTo(bytes, Len(bytes), v) /\ math_ws_ntoh(bytes) = v[Len(bytes)]
<1> DEFINE v == CHOOSE v : v = [i \in 0 .. Len(bytes) |->
                  IF i = 0 THEN 0 ELSE AddByte(v[i - 1], bytes[i])]
<1>0. Len(bytes) \in Nat
  OBVIOUS
<1>1. PICK u : ValuesUpTo(bytes, Len(bytes), u)
  BY ValuesExist
<1>2. Values(bytes, u)
  <2>1. u = [i \in 0 .. Len(bytes) |-> u[i]]
    BY <1>1 DEF ValuesUpTo
  <2>2. ASSUME NEW i \in 0 .. Len(bytes)
        PROVE  u[i] = IF i = 0 THEN 0 ELSE AddByte(u[i - 1], bytes[i])
    <3>1. i # 0 => i \in 1 .. Len(bytes)
      BY <1>0
    <3> QED BY <1>1, <3>1 DEF ValuesUpTo
  <2> QED BY <2>1, <2>2 DEF Values
<1>3. Values(bytes, v)
  BY <1>2 DEF Values
<1>4. math_ws_ntoh(bytes) = v[Len(bytes)]
  BY DEF math_ws_ntoh
<1> HIDE DEF v
<1>5. ASSUME NEW i \in 0 .. Len(bytes)
      PROVE  /\ v[i] = IF i = 0 THEN 0 ELSE AddByte(v[i - 1], bytes[i])
             /\ u[i] = IF i = 0 THEN 0 ELSE AddByte(u[i - 1], bytes[i])
  BY <1>2, <1>3 DEF Values
<1> DEFINE T == {i \in 0 .. Len(bytes) : v[i] # u[i]}
<1>6. ASSUME T # {} PROVE FALSE
  <2>1. PICK i \in T : \A j \in T : i <= j
    BY <1>6, LeastNumber, T \subseteq Nat
  <2>2. i # 0 => i - 1 \in 0 .. Len(bytes) /\ i - 1 \notin T
    BY <1>0, <2>1
  <2> QED BY <1>5, <2>1, <2>2
<1>7. v[Len(bytes)] = u[Len(bytes)]
  <2>1. Len(bytes) \in 0 .. Len(bytes)
    BY <1>0
  <2> QED BY <1>6, <2>1
<1> QED BY <1>1, <1>4, <1>7

(* A length read from the wire is a number.                                *)
LEMMA NtohNat ==
  ASSUME MaxFrame \in Nat, NEW bytes \in Seq(Byte)
  PROVE  math_ws_ntoh(bytes) \in Nat
<1>1. PICK v : ValuesUpTo(bytes, Len(bytes), v) /\ math_ws_ntoh(bytes) = v[Len(bytes)]
  BY NtohIs
<1>2. Len(bytes) \in 0 .. Len(bytes)
  OBVIOUS
<1> QED BY <1>1, <1>2 DEF ValuesUpTo

(* Masking a byte gives a byte.                                            *)
LEMMA XorByte ==
  ASSUME NEW a \in Byte, NEW b \in Byte
  PROVE  Xor(a, b) \in Byte
<1> DEFINE bit(w) == (a \div w + b \div w) % 2
<1>1. \A w \in {1, 2, 4, 8, 16, 32, 64, 128} : bit(w) \in {0, 1}
  <2>1. ASSUME NEW w \in {1, 2, 4, 8, 16, 32, 64, 128} PROVE bit(w) \in {0, 1}
    <3>1. a \div w \in Int /\ b \div w \in Int
      BY DEF Byte
    <3> QED BY <3>1
  <2> QED BY <2>1
<1>2. Xor(a, b) = bit(1) + 2 * bit(2) + 4 * bit(4) + 8 * bit(8)
          + 16 * bit(16) + 32 * bit(32) + 64 * bit(64) + 128 * bit(128)
  BY DEF Xor
<1> HIDE DEF bit
<1> QED BY <1>1, <1>2 DEF Byte

-----------------------------------------------------------------------------
(* What the parser keeps.                                                  *)

Fields == {"state", "fin", "opcode", "mask", "len", "ext", "key", "payload",
           "parts", "room", "out", "rc"}

Header == {"READ_OPCODE", "READ_LEN", "READ_EXT_LEN_16", "READ_EXT_LEN_64"}
States == Header \cup {"READ_MASK", "READ_PAYLOAD"}

(* The key is read only after the length, a frame's payload only after the  *)
(* whole key, and never more of it than the header said.                    *)
Wf(c) ==
  /\ DOMAIN c = Fields
  /\ c.state \in States
  /\ c.mask \in BOOLEAN
  /\ c.len \in Nat
  /\ c.ext \in Seq(Byte) /\ c.key \in Seq(Byte) /\ c.payload \in Seq(Byte)
  /\ c.state \in Header => c.key = <<>>
  /\ c.state = "READ_MASK" => Len(c.key) < 4
  /\ c.state = "READ_PAYLOAD" => Len(c.payload) <= c.len /\ (c.mask => Len(c.key) = 4)

(* d differs from c in what was reassembled, told and returned only.        *)
SameFrame(c, d) ==
  /\ DOMAIN d = DOMAIN c
  /\ \A f \in {"state", "mask", "len", "ext", "key", "payload"} : d[f] = c[f]

(* A context with the same frame fields is as well formed.                 *)
LEMMA SameFrameWf ==
  ASSUME NEW c, NEW d, Wf(c), SameFrame(c, d)
  PROVE  Wf(d)
<1>1. /\ d.state = c.state /\ d.mask = c.mask /\ d.len = c.len
      /\ d.ext = c.ext /\ d.key = c.key /\ d.payload = c.payload
  BY DEF SameFrame
<1>2. DOMAIN d = Fields
  BY DEF SameFrame, Wf
<1> QED BY <1>1, <1>2 DEF Wf

(* An event changes no frame field.                                        *)
LEMMA TellSame ==
  ASSUME NEW c, NEW e, DOMAIN c = Fields
  PROVE  SameFrame(c, Tell(c, e))
BY DEF SameFrame, Tell, Fields

(* Neither does an error.                                                  *)
LEMMA FailSame ==
  ASSUME NEW c, NEW e, DOMAIN c = Fields
  PROVE  SameFrame(c, Fail(c, e)) /\ Fail(c, e).rc = e
<1> DEFINE d == Tell(c, [event |-> "error", code |-> e])
<1>1. SameFrame(c, d) /\ DOMAIN d = Fields
  BY TellSame DEF SameFrame
<1> HIDE DEF d
<1>2. Fail(c, e) = [d EXCEPT !.rc = e]
  BY DEF Fail, d
<1> QED BY <1>1, <1>2 DEF SameFrame, Fields

(* Nor does the completion of a frame, before its reset.                   *)
LEMMA CompleteSame ==
  ASSUME NEW c, DOMAIN c = Fields
  PROVE  SameFrame(c, frame_complete(c))
<1>1. SameFrame(c, final_frame(c))
  <2>1. CASE c.parts = <<>>
    BY <2>1, TellSame DEF final_frame
  <2>2. CASE c.parts # <<>>
    <3> DEFINE whole == c.parts \o c.payload
               d == Tell(c, Message(c.opcode, whole))
    <3>1. SameFrame(c, d) /\ DOMAIN d = Fields
      BY TellSame DEF SameFrame
    <3>2. final_frame(c) = [d EXCEPT !.parts = <<>>, !.room = Max({@, Len(whole)})]
      BY <2>2 DEF final_frame
    <3> HIDE DEF d
    <3> QED BY <3>1, <3>2 DEF SameFrame, Fields
  <2> QED BY <2>1, <2>2
<1>2. SameFrame(c, data_fragment(c))
  <2> DEFINE n == Len(c.parts) + c.len
             room == IF n <= c.room THEN c.room
                     ELSE Doubled(IF c.room = 0 THEN FirstRoom ELSE 2 * c.room, n)
  <2>1. CASE c.opcode # CONTINUATION /\ c.parts # <<>>
    BY <2>1, FailSame DEF data_fragment
  <2>2. CASE ~(c.opcode # CONTINUATION /\ c.parts # <<>>) /\ (n > c.room /\ room > MaxFrame)
    <3>1. data_fragment(c) = Fail(c, EMSGSIZE)
      BY <2>2 DEF data_fragment
    <3> QED BY <3>1, FailSame
  <2>3. CASE ~(c.opcode # CONTINUATION /\ c.parts # <<>>) /\ ~(n > c.room /\ room > MaxFrame)
    <3>1. data_fragment(c) = [c EXCEPT !.parts = @ \o c.payload, !.room = room]
      BY <2>3 DEF data_fragment
    <3> HIDE DEF room
    <3> QED BY <3>1 DEF SameFrame, Fields
  <2> QED BY <2>1, <2>2, <2>3
<1> QED BY <1>1, <1>2, TellSame DEF frame_complete

-----------------------------------------------------------------------------
(* A turn of the loop, state by state.                                     *)

(* The first byte of a header keeps a context well formed.                 *)
LEMMA OpcodeTurn ==
  ASSUME NEW c, Wf(c), c.state = "READ_OPCODE", NEW b \in Byte
  PROVE  Wf(read_opcode(c, b))
<1> DEFINE d == [c EXCEPT !.fin = b >= 128, !.opcode = b % 16]
<1>1. SameFrame(c, d) /\ DOMAIN d = Fields
  BY DEF SameFrame, Wf, Fields
<1>2. Wf(d) /\ d.state = "READ_OPCODE"
  BY <1>1, SameFrameWf DEF SameFrame
<1>3. Wf(Fail(d, FRAMING))
  <2> HIDE DEF d
  <2> QED BY <1>1, <1>2, FailSame, SameFrameWf
<1>4. Wf([d EXCEPT !.state = "READ_LEN"])
  <2> HIDE DEF d
  <2> QED BY <1>1, <1>2 DEF Wf, Fields, Header, States
<1>5. read_opcode(c, b) \in {Fail(d, FRAMING), [d EXCEPT !.state = "READ_LEN"]}
  BY DEF read_opcode
<1> QED BY <1>3, <1>4, <1>5

(* So does a length that is now known,                                     *)
LEMMA KnownLenWf ==
  ASSUME NEW c, Wf(c), c.state \in Header, NEW n \in Nat
  PROVE  Wf(KnownLen(c, n))
<1> DEFINE d == KnownLen(c, n)
<1>1. /\ DOMAIN d = Fields
      /\ d.state = IF c.mask THEN "READ_MASK" ELSE "READ_PAYLOAD"
      /\ d.mask = c.mask /\ d.len = n /\ d.ext = c.ext /\ d.key = c.key
      /\ d.payload = <<>>
  BY DEF KnownLen, Wf, Fields
<1> HIDE DEF d
<1>2. c.key = <<>> /\ c.mask \in BOOLEAN /\ c.ext \in Seq(Byte) /\ <<>> \in Seq(Byte)
  BY DEF Wf
<1>3. Len(<<>>) = 0
  OBVIOUS
<1>4. Wf(d)
  BY <1>1, <1>2, <1>3 DEF Wf, States, Header
<1> QED BY <1>4 DEF d

(* the second byte of a header,                                            *)
LEMMA LenTurn ==
  ASSUME NEW c, Wf(c), c.state = "READ_LEN", NEW b \in Byte
  PROVE  Wf(read_len(c, b))
<1> DEFINE d == [c EXCEPT !.mask = b >= 128, !.ext = <<>>]
<1>1. Wf(d) /\ d.state = "READ_LEN"
  BY DEF Wf, Fields, Header, States
<1> HIDE DEF d
<1>2. Wf([d EXCEPT !.state = "READ_EXT_LEN_16"]) /\ Wf([d EXCEPT !.state = "READ_EXT_LEN_64"])
  BY <1>1 DEF Wf, Fields, Header, States
<1>3. Wf(KnownLen(d, b % 128))
  <2>1. b % 128 \in Nat
    BY DEF Byte
  <2> QED BY <1>1, <2>1, KnownLenWf DEF Header
<1>4. read_len(c, b) \in {[d EXCEPT !.state = "READ_EXT_LEN_16"],
                          [d EXCEPT !.state = "READ_EXT_LEN_64"], KnownLen(d, b % 128)}
  BY DEF read_len, d
<1> QED BY <1>2, <1>3, <1>4

(* a byte of an extended length,                                           *)
LEMMA ExtTurn ==
  ASSUME MaxFrame \in Nat,
         NEW c, Wf(c), c.state \in {"READ_EXT_LEN_16", "READ_EXT_LEN_64"}, NEW b \in Byte
  PROVE  Wf(read_ext_len_16(c, b)) /\ Wf(read_ext_len_64(c, b))
<1> DEFINE d == [c EXCEPT !.ext = Append(@, b)]
           e == KnownLen(d, math_ws_ntoh(d.ext))
<1>1. Wf(d) /\ d.state = c.state /\ d.ext \in Seq(Byte)
  BY DEF Wf, Fields
<1>2. Wf(e)
  <2> HIDE DEF d
  <2> QED BY <1>1, NtohNat, KnownLenWf DEF Header
<1>3. Wf(Fail(e, EMSGSIZE))
  <2> HIDE DEF e
  <2>1. SameFrame(e, Fail(e, EMSGSIZE))
    BY <1>2, FailSame DEF Wf
  <2> QED BY <1>2, <2>1, SameFrameWf
<1>4. read_ext_len_16(c, b) \in {d, e} /\ read_ext_len_64(c, b) \in {d, e, Fail(e, EMSGSIZE)}
  BY DEF read_ext_len_16, read_ext_len_64
<1> HIDE DEF d, e
<1> QED BY <1>1, <1>2, <1>3, <1>4

(* and a byte of the mask.                                                 *)
LEMMA MaskTurn ==
  ASSUME NEW c, Wf(c), c.state = "READ_MASK", NEW b \in Byte
  PROVE  Wf(read_mask(c, b))
<1> DEFINE d == [c EXCEPT !.key = Append(@, b)]
<1>1. /\ DOMAIN d = Fields /\ d.state = "READ_MASK" /\ d.key = Append(c.key, b)
      /\ \A f \in Fields \ {"key"} : d[f] = c[f]
  BY DEF Wf, Fields
<1>2. d.key \in Seq(Byte) /\ Len(d.key) = Len(c.key) + 1 /\ Len(c.key) < 4 /\ Len(c.key) \in Nat
  BY <1>1 DEF Wf
<1>3. d.mask \in BOOLEAN /\ d.len \in Nat /\ d.ext \in Seq(Byte) /\ d.payload \in Seq(Byte)
  BY <1>1 DEF Wf, Fields
<1> HIDE DEF d
<1>4. CASE Len(d.key) < 4
  <2>1. read_mask(c, b) = d
    BY <1>4 DEF read_mask, d
  <2> QED BY <1>1, <1>2, <1>3, <1>4, <2>1 DEF Wf, States, Header
<1>5. CASE Len(d.key) = 4
  <2> DEFINE e == [d EXCEPT !.state = "READ_PAYLOAD", !.payload = <<>>]
  <2>1. read_mask(c, b) = e
    BY <1>5 DEF read_mask, d
  <2>2. /\ DOMAIN e = Fields /\ e.state = "READ_PAYLOAD" /\ e.payload = <<>>
        /\ e.mask = d.mask /\ e.len = d.len /\ e.ext = d.ext /\ e.key = d.key
    BY <1>1 DEF Fields
  <2> HIDE DEF e
  <2>3. e.payload \in Seq(Byte) /\ Len(e.payload) = 0
    BY <2>2
  <2>4. Wf(e)
    BY <1>2, <1>3, <1>5, <2>2, <2>3 DEF Wf, States, Header
  <2> QED BY <2>1, <2>4
<1> QED BY <1>2, <1>4, <1>5

(* The part of a chunk that a payload takes.                               *)
LEMMA PartIs ==
  ASSUME NEW c, Wf(c), c.state = "READ_PAYLOAD", NEW s \in Seq(Byte)
  PROVE  /\ PayloadPart(c, s) \in 0 .. Len(s)
         /\ PayloadPart(c, s) = IF c.len - Len(c.payload) <= Len(s)
                                THEN c.len - Len(c.payload) ELSE Len(s)
<1>1. c.len \in Nat /\ Len(c.payload) \in Nat /\ Len(s) \in Nat /\ Len(c.payload) <= c.len
  BY DEF Wf
<1>2. c.len - Len(c.payload) \in Nat
  BY <1>1
<1> QED BY <1>1, <1>2, MinIs DEF PayloadPart

(* Unmasking keeps the length of a part.                                   *)
LEMMA UnmaskedIs ==
  ASSUME NEW c, Wf(c), c.state = "READ_PAYLOAD", NEW s \in Seq(Byte)
  PROVE  Unmasked(c, s) \in Seq(Byte) /\ Len(Unmasked(c, s)) = Len(s)
<1>1. ASSUME NEW i \in 1 .. Len(s)
      PROVE  (IF c.mask THEN Xor(s[i], c.key[((Len(c.payload) + i - 1) % 4) + 1])
              ELSE s[i]) \in Byte
  <2>1. s[i] \in Byte
    OBVIOUS
  <2>2. CASE c.mask
    <3>1. ((Len(c.payload) + i - 1) % 4) + 1 \in 1 .. 4
      <4> DEFINE n == Len(c.payload) + i - 1
      <4>1. Len(c.payload) \in Nat
        BY DEF Wf
      <4>2. n \in Nat
        BY <4>1
      <4> HIDE DEF n
      <4>3. (n % 4) + 1 \in 1 .. 4
        BY <4>2
      <4> QED BY <4>3 DEF n
    <3>2. c.key \in Seq(Byte) /\ Len(c.key) = 4
      BY <2>2 DEF Wf
    <3>3. c.key[((Len(c.payload) + i - 1) % 4) + 1] \in Byte
      <4> DEFINE n == ((Len(c.payload) + i - 1) % 4) + 1
      <4>1. n \in 1 .. Len(c.key)
        BY <3>1, <3>2
      <4> HIDE DEF n
      <4>2. c.key[n] \in Byte
        BY <3>2, <4>1
      <4> QED BY <4>2 DEF n
    <3> QED BY <2>1, <2>2, <3>3, XorByte
  <2>3. CASE ~c.mask
    BY <2>1, <2>3
  <2> QED BY <2>2, <2>3
<1>2. DOMAIN s = 1 .. Len(s) /\ Len(s) \in Nat
  OBVIOUS
<1>3. Unmasked(c, s) \in [1 .. Len(s) -> Byte]
  BY <1>1, <1>2 DEF Unmasked
<1> QED BY <1>2, <1>3

(* What read_payload appends.                                              *)
WithPart(c, s) == [c EXCEPT !.payload = @ \o Unmasked(c, SubSeq(s, 1, PayloadPart(c, s)))]

(* A part added to the payload keeps the context well formed.              *)
LEMMA WithPartIs ==
  ASSUME NEW c, Wf(c), c.state = "READ_PAYLOAD", NEW s \in Seq(Byte)
  PROVE  /\ Wf(WithPart(c, s))
         /\ WithPart(c, s).state = "READ_PAYLOAD"
         /\ WithPart(c, s).len = c.len
         /\ WithPart(c, s).rc = c.rc
         /\ WithPart(c, s).mask = c.mask
         /\ WithPart(c, s).key = c.key
         /\ Len(WithPart(c, s).payload) = Len(c.payload) + PayloadPart(c, s)
<1> DEFINE p == PayloadPart(c, s)
           u == Unmasked(c, SubSeq(s, 1, p))
           d == WithPart(c, s)
<1>1. p \in 0 .. Len(s) /\ p <= c.len - Len(c.payload)
  BY PartIs, Wf(c), Len(s) \in Nat DEF Wf
<1>2. SubSeq(s, 1, p) \in Seq(Byte) /\ Len(SubSeq(s, 1, p)) = p
  <2> HIDE DEF p
  <2> QED BY <1>1
<1>3. u \in Seq(Byte) /\ Len(u) = p
  BY <1>2, UnmaskedIs
<1>4. /\ DOMAIN d = Fields /\ d.payload = c.payload \o u
      /\ \A f \in Fields \ {"payload"} : d[f] = c[f]
  BY DEF WithPart, Wf, Fields
<1> HIDE DEF p, u, d
<1>5. d.payload \in Seq(Byte) /\ Len(d.payload) = Len(c.payload) + p
  <2>1. c.payload \in Seq(Byte)
    BY DEF Wf
  <2>2. c.payload \o u \in Seq(Byte) /\ Len(c.payload \o u) = Len(c.payload) + Len(u)
    BY <1>3, <2>1
  <2> QED BY <1>3, <1>4, <2>2
<1>6. /\ d.state = "READ_PAYLOAD" /\ d.len = c.len /\ d.rc = c.rc
      /\ d.mask = c.mask /\ d.key = c.key /\ d.ext = c.ext
  BY <1>4 DEF Fields
<1>7. Len(d.payload) <= d.len /\ (d.mask => Len(d.key) = 4)
  BY <1>1, <1>5, <1>6 DEF Wf
<1>8. Wf(d)
  BY <1>4, <1>5, <1>6, <1>7 DEF Wf, Header, States
<1> QED BY <1>5, <1>6, <1>8 DEF d, p

(* A turn in the payload either lacks a byte, or ends the frame or the feed. *)
LEMMA PayloadTurn ==
  ASSUME NEW c, Wf(c), c.state = "READ_PAYLOAD", NEW s \in Seq(Byte)
  PROVE  /\ Wf(read_payload(c, s))
         /\ c.len - Len(c.payload) > Len(s) => read_payload(c, s) = WithPart(c, s)
         /\ c.len - Len(c.payload) <= Len(s) =>
              \/ read_payload(c, s).state = "READ_OPCODE"
              \/ read_payload(c, s).rc # "success"
<1> DEFINE d == WithPart(c, s)
           e == frame_complete(d)
<1>1. Wf(d) /\ d.len = c.len /\ Len(d.payload) = Len(c.payload) + PayloadPart(c, s)
  BY WithPartIs
<1>2. read_payload(c, s) = IF Len(d.payload) < d.len THEN d
                          ELSE IF e.rc # "success" THEN e ELSE next_frame(e)
  BY DEF read_payload, WithPart
<1>3. c.len \in Nat /\ Len(c.payload) \in Nat /\ Len(s) \in Nat
  BY DEF Wf
<1> HIDE DEF d
<1>4. DOMAIN d = Fields /\ SameFrame(d, e)
  BY <1>1, CompleteSame DEF Wf
<1> HIDE DEF e
<1>5. Wf(e) /\ DOMAIN e = Fields
  BY <1>1, <1>4, SameFrameWf DEF SameFrame
<1>6. Wf(next_frame(e)) /\ next_frame(e).state = "READ_OPCODE"
  BY <1>5 DEF Wf, next_frame, Fields, Header, States
<1>7. CASE Len(d.payload) < d.len
  <2>1. read_payload(c, s) = d
    BY <1>2, <1>7
  <2>2. c.len - Len(c.payload) <= Len(s) => PayloadPart(c, s) = c.len - Len(c.payload)
    BY PartIs
  <2>3. ~(c.len - Len(c.payload) <= Len(s))
    BY <1>1, <1>3, <1>7, <2>2
  <2> QED BY <1>1, <2>1, <2>3 DEF d
<1>8. CASE ~(Len(d.payload) < d.len)
  <2>1. read_payload(c, s) \in {e, next_frame(e)}
        /\ (read_payload(c, s) = next_frame(e) \/ e.rc # "success")
    BY <1>2, <1>8
  <2>2. ~(c.len - Len(c.payload) > Len(s))
    BY <1>1, <1>3, <1>8, PartIs
  <2> QED BY <1>5, <1>6, <2>1, <2>2
<1> QED BY <1>7, <1>8

-----------------------------------------------------------------------------
(* The loop.                                                               *)

(* Every turn of the loop keeps the context well formed.                   *)
LEMMA TurnWf ==
  ASSUME MaxFrame \in Nat,
         NEW c, Wf(c), NEW s \in Seq(Byte), s # <<>>
  PROVE  Wf(Turn(c, s))
<1>1. Head(s) \in Byte
  OBVIOUS
<1>2. CASE c.state = "READ_OPCODE"
  <2>1. Turn(c, s) = read_opcode(c, Head(s))
    BY <1>2 DEF Turn
  <2> QED BY <1>1, <1>2, <2>1, OpcodeTurn
<1>3. CASE c.state = "READ_LEN"
  <2>1. Turn(c, s) = read_len(c, Head(s))
    BY <1>3 DEF Turn
  <2> QED BY <1>1, <1>3, <2>1, LenTurn
<1>4. CASE c.state = "READ_EXT_LEN_16"
  <2>1. Turn(c, s) = read_ext_len_16(c, Head(s))
    BY <1>4 DEF Turn
  <2> QED BY <1>1, <1>4, <2>1, ExtTurn
<1>5. CASE c.state = "READ_EXT_LEN_64"
  <2>1. Turn(c, s) = read_ext_len_64(c, Head(s))
    BY <1>5 DEF Turn
  <2> QED BY <1>1, <1>5, <2>1, ExtTurn
<1>6. CASE c.state = "READ_MASK"
  <2>1. Turn(c, s) = read_mask(c, Head(s))
    BY <1>6 DEF Turn
  <2> QED BY <1>1, <1>6, <2>1, MaskTurn
<1>7. CASE c.state = "READ_PAYLOAD"
  <2>1. Turn(c, s) = read_payload(c, s)
    BY <1>7 DEF Turn
  <2> QED BY <1>7, <2>1, PayloadTurn
<1> QED BY <1>2, <1>3, <1>4, <1>5, <1>6, <1>7 DEF Wf, States, Header

(* A turn takes bytes from the front and leaves the others.                *)
LEMMA RestIs ==
  ASSUME NEW c, Wf(c), NEW s \in Seq(Byte), s # <<>>
  PROVE  /\ Taken(c, s) \in 0 .. Len(s)
         /\ c.state # "READ_PAYLOAD" => Taken(c, s) = 1
         /\ Rest(c, s) \in Seq(Byte)
         /\ Len(Rest(c, s)) = Len(s) - Taken(c, s)
<1>1. Len(s) \in Nat \ {0}
  OBVIOUS
<1>2. Taken(c, s) \in 0 .. Len(s) /\ (c.state # "READ_PAYLOAD" => Taken(c, s) = 1)
  BY <1>1, PartIs DEF Taken
<1>3. \A n \in 0 .. Len(s) : /\ SubSeq(s, n + 1, Len(s)) \in Seq(Byte)
                             /\ Len(SubSeq(s, n + 1, Len(s))) = Len(s) - n
  BY <1>1
<1> QED BY <1>2, <1>3 DEF Rest

(* The loop still runs.                                                    *)
Runs(l) == l.rest # <<>> /\ l.ctx.rc = "success"

(* How many turns are left at the most: a turn that completes a frame       *)
(* without payload takes no byte, the one after it does.                    *)
Turnsleft(l) ==
  IF Runs(l) THEN 2 * Len(l.rest) - (IF l.ctx.state = "READ_PAYLOAD" THEN 0 ELSE 1) ELSE 0

LoopOk(l) == /\ DOMAIN l = {"ctx", "rest"}
             /\ Wf(l.ctx)
             /\ l.rest \in Seq(Byte)

(* Every turn lowers Turnsleft until the loop stops.                       *)
LEMMA LoopStep ==
  ASSUME MaxFrame \in Nat, NEW l, LoopOk(l)
  PROVE  /\ LoopOk(Loop(l))
         /\ Turnsleft(l) \in Nat
         /\ Turnsleft(l) <= 2 * Len(l.rest)
         /\ Turnsleft(l) # 0 => Turnsleft(Loop(l)) < Turnsleft(l)
         /\ Turnsleft(l) = 0 => Loop(l) = l
<1>0. Len(l.rest) \in Nat /\ (l.rest # <<>> => Len(l.rest) # 0)
  BY DEF LoopOk
<1>1. CASE ~Runs(l)
  <2>1. Loop(l) = l
    BY <1>1 DEF Loop, Runs
  <2> QED BY <1>0, <1>1, <2>1 DEF Turnsleft
<1>2. CASE Runs(l)
  <2> DEFINE c == l.ctx
             s == l.rest
             m == Loop(l)
  <2>1. m = [ctx |-> Turn(c, s), rest |-> Rest(c, s)]
    BY <1>2 DEF Loop, Runs
  <2>2. Wf(c) /\ s \in Seq(Byte) /\ s # <<>> /\ Len(s) \in Nat \ {0}
    BY <1>0, <1>2 DEF LoopOk, Runs
  <2>3. Wf(Turn(c, s))
    BY <2>2, TurnWf
  <2>4. /\ Taken(c, s) \in 0 .. Len(s) /\ (c.state # "READ_PAYLOAD" => Taken(c, s) = 1)
        /\ Rest(c, s) \in Seq(Byte) /\ Len(Rest(c, s)) = Len(s) - Taken(c, s)
    BY <2>2, RestIs
  <2>5. /\ m.ctx = Turn(c, s) /\ m.rest = Rest(c, s) /\ DOMAIN m = {"ctx", "rest"}
    BY <2>1
  <2>6. Turnsleft(l) = 2 * Len(s) - (IF c.state = "READ_PAYLOAD" THEN 0 ELSE 1)
    BY <1>2 DEF Turnsleft
  <2>7. Turnsleft(m) \in Nat /\ Turnsleft(m) <= 2 * Len(m.rest)
    <3>1. Len(m.rest) \in Nat /\ (m.rest # <<>> => Len(m.rest) # 0)
      BY <2>4, <2>5
    <3> HIDE DEF m
    <3> DEFINE k == IF m.ctx.state = "READ_PAYLOAD" THEN 0 ELSE 1
    <3>2. k \in {0, 1} /\ Turnsleft(m) = IF Runs(m) THEN 2 * Len(m.rest) - k ELSE 0
      BY DEF Turnsleft
    <3>3. Runs(m) => Len(m.rest) # 0
      BY <3>1 DEF Runs
    <3> HIDE DEF k
    <3> QED BY <3>1, <3>2, <3>3
  <2>8. Turnsleft(m) < Turnsleft(l)
    <3>1. CASE c.state # "READ_PAYLOAD"
      <4>1. Len(m.rest) = Len(s) - 1
        BY <2>4, <2>5, <3>1
      <4> HIDE DEF m, s, c
      <4> QED BY <2>2, <2>6, <2>7, <3>1, <4>1
    <3>2. CASE c.state = "READ_PAYLOAD"
      <4>1. Turn(c, s) = read_payload(c, s) /\ Taken(c, s) = PayloadPart(c, s)
        BY <3>2 DEF Turn, Taken
      <4>2. CASE c.len - Len(c.payload) > Len(s)
        <5>1. Len(m.rest) = 0
          <6>1. c.len \in Nat /\ Len(c.payload) \in Nat
            BY <2>2 DEF Wf
          <6> QED BY <2>2, <2>4, <2>5, <3>2, <4>1, <4>2, <6>1, PartIs
        <5> HIDE DEF m, s, c
        <5> QED BY <2>2, <2>6, <2>7, <3>2, <5>1
      <4>3. CASE c.len - Len(c.payload) <= Len(s)
        <5>1. m.ctx.state = "READ_OPCODE" \/ m.ctx.rc # "success"
          BY <2>2, <2>5, <3>2, <4>1, <4>3, PayloadTurn
        <5>2. Len(m.rest) \in Nat /\ Len(m.rest) <= Len(s)
          BY <2>2, <2>4, <2>5
        <5>3. Turnsleft(m) = 0 \/ Turnsleft(m) = 2 * Len(m.rest) - 1
          BY <5>1 DEF Turnsleft, Runs
        <5> HIDE DEF m, s, c
        <5> QED BY <2>2, <2>6, <3>2, <5>2, <5>3
      <4>4. c.len - Len(c.payload) \in Int
        BY <2>2 DEF Wf
      <4> QED BY <2>2, <4>2, <4>3, <4>4
    <3> QED BY <3>1, <3>2
  <2>9. Turnsleft(l) \in Nat \ {0} /\ Turnsleft(l) <= 2 * Len(s)
    <3> DEFINE k == IF c.state = "READ_PAYLOAD" THEN 0 ELSE 1
    <3>1. k \in {0, 1} /\ Turnsleft(l) = 2 * Len(s) - k
      BY <2>6
    <3> HIDE DEF k, s
    <3> QED BY <2>2, <3>1
  <2> QED BY <2>3, <2>4, <2>5, <2>8, <2>9 DEF LoopOk
<1> QED BY <1>1, <1>2

-----------------------------------------------------------------------------
(* A call of ws_parser_feed.                                               *)

At(c, s) == [ctx |-> c, rest |-> s]

(* ws_parser_feed is the loop after two turns per byte.                    *)
LEMMA FeedTurns ==
  ASSUME NEW c, NEW s
  PROVE  \E f : Turns(At(c, s), f) /\ ws_parser_feed(c, s) = f[2 * Len(s)].ctx
<1> DEFINE f == CHOOSE f : f = [n \in Nat |-> IF n = 0 THEN At(c, s) ELSE Loop(f[n - 1])]
<1>1. Turns(At(c, s), f)
  BY TurnsExist DEF Turns
<1>2. ws_parser_feed(c, s) = f[2 * Len(s)].ctx
  BY DEF ws_parser_feed, At
<1> QED BY <1>1, <1>2

(* After n turns at least n are no longer left.                            *)
LEMMA TurnsKeep ==
  ASSUME MaxFrame \in Nat, NEW l, LoopOk(l), NEW f, Turns(l, f)
  PROVE  \A n \in Nat : /\ LoopOk(f[n])
                        /\ Turnsleft(f[n]) = 0 \/ Turnsleft(f[n]) + n <= Turnsleft(l)
<1> DEFINE Good(n) == /\ LoopOk(f[n])
                      /\ Turnsleft(f[n]) = 0 \/ Turnsleft(f[n]) + n <= Turnsleft(l)
           T == {n \in Nat : ~Good(n)}
<1> SUFFICES ASSUME T # {} PROVE FALSE
  OBVIOUS
<1>1. PICK n \in T : \A i \in T : n <= i
  BY LeastNumber, T \subseteq Nat
<1>2. CASE n = 0
  <2>1. f[0] = l /\ Turnsleft(l) \in Nat
    BY TurnsAre, LoopStep
  <2> QED BY <1>1, <1>2, <2>1
<1>3. CASE n # 0
  <2>1. n - 1 \in Nat /\ n - 1 \notin T /\ f[n] = Loop(f[n - 1])
    <3>1. n - 1 \in Nat /\ n - 1 \notin T /\ n - 1 + 1 = n
      BY <1>1, <1>3
    <3> QED BY <3>1, TurnsAre
  <2>2. Good(n - 1)
    BY <2>1
  <2> DEFINE k == f[n - 1]
  <2>3. LoopOk(k) /\ LoopOk(Loop(k)) /\ Turnsleft(Loop(k)) \in Nat
    BY <2>2, LoopStep
  <2>4. /\ Turnsleft(k) \in Nat /\ Turnsleft(l) \in Nat
        /\ Turnsleft(k) # 0 => Turnsleft(Loop(k)) < Turnsleft(k)
        /\ Turnsleft(k) = 0 => Loop(k) = k
    BY <2>3, LoopStep
  <2>5. Good(n)
    <3>1. CASE Turnsleft(k) = 0
      BY <2>1, <2>3, <2>4, <3>1
    <3>2. CASE Turnsleft(k) # 0
      <4>1. Turnsleft(k) + (n - 1) <= Turnsleft(l)
        BY <2>2, <3>2
      <4>2. Turnsleft(Loop(k)) + n <= Turnsleft(l)
        <5> HIDE DEF k
        <5> QED BY <1>1, <2>3, <2>4, <3>2, <4>1
      <4> QED BY <2>1, <2>3, <4>2
    <3> QED BY <3>1, <3>2
  <2> QED BY <1>1, <2>5
<1> QED BY <1>2, <1>3

(* When no turn is left, nothing changes any more.                         *)
LEMMA TurnsEnd ==
  ASSUME MaxFrame \in Nat, NEW l, LoopOk(l), NEW f, Turns(l, f)
  PROVE  \A n \in Nat : n >= Turnsleft(l) => f[n] = f[Turnsleft(l)] /\ Turnsleft(f[n]) = 0
<1>0. Turnsleft(l) \in Nat
  BY LoopStep
<1>1. ASSUME NEW n \in Nat, n >= Turnsleft(l)
      PROVE  Turnsleft(f[n]) = 0
  <2>1. Turnsleft(f[n]) \in Nat
    BY TurnsKeep, LoopStep
  <2>2. Turnsleft(f[n]) = 0 \/ Turnsleft(f[n]) + n <= Turnsleft(l)
    BY TurnsKeep
  <2> QED BY <1>0, <1>1, <2>1, <2>2
<1> DEFINE T == {n \in Nat : n >= Turnsleft(l) /\ f[n] # f[Turnsleft(l)]}
<1>2. ASSUME T # {} PROVE FALSE
  <2>1. PICK n \in T : \A i \in T : n <= i
    BY <1>2, LeastNumber, T \subseteq Nat
  <2>2. n # Turnsleft(l)
    BY <2>1
  <2>3. n - 1 \in Nat /\ n - 1 >= Turnsleft(l) /\ n - 1 \notin T /\ n - 1 + 1 = n
    BY <1>0, <2>1, <2>2
  <2>4. f[n] = Loop(f[n - 1]) /\ LoopOk(f[n - 1])
    BY <2>3, TurnsAre, TurnsKeep
  <2>5. Loop(f[n - 1]) = f[n - 1]
    BY <1>1, <2>3, <2>4, LoopStep
  <2> QED BY <2>1, <2>3, <2>4, <2>5
<1> QED BY <1>1, <1>2

(* The loop starts well formed.                                            *)
LEMMA AtOk ==
  ASSUME NEW c, Wf(c), NEW s \in Seq(Byte)
  PROVE  LoopOk(At(c, s)) /\ At(c, s).ctx = c /\ At(c, s).rest = s
BY DEF LoopOk, At

(* The feed is what any number of turns that is enough leads to.            *)
LEMMA FeedAfter ==
  ASSUME MaxFrame \in Nat, NEW c, Wf(c), NEW s \in Seq(Byte)
  PROVE  \E f : /\ Turns(At(c, s), f)
                /\ Wf(ws_parser_feed(c, s))
                /\ \A n \in Nat : n >= Turnsleft(At(c, s)) => ws_parser_feed(c, s) = f[n].ctx
<1> DEFINE l == At(c, s)
<1>1. LoopOk(l) /\ l.rest = s
  BY AtOk
<1>2. PICK f : Turns(l, f) /\ ws_parser_feed(c, s) = f[2 * Len(s)].ctx
  BY FeedTurns
<1>3. 2 * Len(s) \in Nat /\ Turnsleft(l) <= 2 * Len(s) /\ Turnsleft(l) \in Nat
  <2>1. Len(s) \in Nat
    OBVIOUS
  <2>2. Turnsleft(l) <= 2 * Len(l.rest) /\ Turnsleft(l) \in Nat
    BY <1>1, LoopStep
  <2> QED BY <1>1, <2>1, <2>2
<1> HIDE DEF l
<1>4. f[2 * Len(s)] = f[Turnsleft(l)] /\ LoopOk(f[2 * Len(s)])
  BY <1>1, <1>2, <1>3, TurnsEnd, TurnsKeep
<1>5. \A n \in Nat : n >= Turnsleft(l) => f[n] = f[Turnsleft(l)]
  BY <1>1, <1>2, TurnsEnd
<1> QED BY <1>2, <1>4, <1>5 DEF LoopOk, l

(* Nothing to read or an error: ws_parser_feed returns at once.            *)
LEMMA FeedStops ==
  ASSUME MaxFrame \in Nat, NEW c, Wf(c), NEW s \in Seq(Byte), s = <<>> \/ c.rc # "success"
  PROVE  ws_parser_feed(c, s) = c
<1>1. Turnsleft(At(c, s)) = 0
  BY DEF Turnsleft, Runs, At
<1>2. PICK f : /\ Turns(At(c, s), f)
               /\ \A n \in Nat : n >= Turnsleft(At(c, s)) => ws_parser_feed(c, s) = f[n].ctx
  BY FeedAfter
<1>3. f[0] = At(c, s)
  BY <1>2, TurnsAre
<1> QED BY <1>1, <1>2, <1>3, AtOk

(* Otherwise it takes one turn and goes on with the rest.                  *)
LEMMA FeedGoesOn ==
  ASSUME MaxFrame \in Nat, NEW c, Wf(c), NEW s \in Seq(Byte), s # <<>>, c.rc = "success"
  PROVE  ws_parser_feed(c, s) = ws_parser_feed(Turn(c, s), Rest(c, s))
<1> DEFINE l == At(c, s)
           m == At(Turn(c, s), Rest(c, s))
<1>1. LoopOk(l) /\ l.ctx = c /\ l.rest = s
  BY AtOk
<1>2. Wf(Turn(c, s)) /\ Rest(c, s) \in Seq(Byte)
  BY TurnWf, RestIs
<1>3. Loop(l) = m
  BY <1>1 DEF Loop, At
<1>4. PICK f : /\ Turns(l, f)
               /\ \A n \in Nat : n >= Turnsleft(l) => ws_parser_feed(c, s) = f[n].ctx
  BY FeedAfter
<1>5. PICK g : /\ Turns(m, g)
               /\ \A n \in Nat : n >= Turnsleft(m) =>
                    ws_parser_feed(Turn(c, s), Rest(c, s)) = g[n].ctx
  BY <1>2, FeedAfter
<1>6. Turnsleft(l) \in Nat /\ Turnsleft(m) \in Nat /\ (Turnsleft(l) # 0 => Turnsleft(m) < Turnsleft(l))
  <2>1. LoopOk(m)
    BY <1>2, AtOk
  <2> QED BY <1>1, <1>3, <2>1, LoopStep
<1> HIDE DEF l, m
<1> DEFINE n == Turnsleft(m) + Turnsleft(l)
<1>7. n \in Nat /\ n + 1 \in Nat /\ n + 1 >= Turnsleft(l) /\ n >= Turnsleft(m)
  BY <1>6
<1>8. f[n + 1] = g[n]
  <2>1. Turns(Loop(l), g)
    BY <1>3, <1>5
  <2>2. \A i \in Nat : f[i + 1] = g[i]
    BY <1>4, <2>1, TurnsShift
  <2> HIDE DEF n
  <2> QED BY <1>7, <2>2
<1> HIDE DEF n
<1> QED BY <1>4, <1>5, <1>7, <1>8

-----------------------------------------------------------------------------
(* A stream in two chunks.                                                 *)

(* Joining sequences is associative.                                       *)
LEMMA Associative ==
  \A s, t, u \in Seq(Byte) : (s \o t) \o u = s \o (t \o u)
BY ConcatAssociative

(* Where the parts of s \o b lie.                                          *)
LEMMA JoinedIs ==
  ASSUME NEW s \in Seq(Byte), NEW b \in Seq(Byte)
  PROVE  /\ s \o b \in Seq(Byte)
         /\ Len(s \o b) = Len(s) + Len(b)
         /\ \A p \in 0 .. Len(s) : /\ SubSeq(s \o b, 1, p) = SubSeq(s, 1, p)
                                  /\ SubSeq(s \o b, p + 1, Len(s \o b)) = SubSeq(s, p + 1, Len(s)) \o b
         /\ \A q \in 0 .. Len(b) : /\ SubSeq(s \o b, 1, Len(s) + q) = s \o SubSeq(b, 1, q)
                                  /\ SubSeq(s \o b, Len(s) + q + 1, Len(s \o b)) = SubSeq(b, q + 1, Len(b))
<1> DEFINE t == s \o b
           N == Len(s) + Len(b)
<1>0. Len(s) \in Nat /\ Len(b) \in Nat /\ N \in Nat
  OBVIOUS
<1>1. /\ t \in Seq(Byte) /\ Len(t) = N
      /\ \A i \in 1 .. N : t[i] = IF i <= Len(s) THEN s[i] ELSE b[i - Len(s)]
  BY ConcatProperties
<1>2. ASSUME NEW u \in Seq(Byte), NEW m \in 1 .. Len(u) + 1, NEW n \in m - 1 .. Len(u)
      PROVE  /\ SubSeq(u, m, n) \in Seq(Byte) /\ Len(SubSeq(u, m, n)) = n - m + 1
             /\ \A i \in 1 .. n - m + 1 : SubSeq(u, m, n)[i] = u[m + i - 1]
  <2>1. \A i \in m .. n : u[i] \in Byte
    OBVIOUS
  <2>2. Len(u) \in Nat /\ m \in Int /\ n \in Int /\ (~(m <= n) => n - m + 1 = 0)
    OBVIOUS
  <2> QED BY <2>1, <2>2, SubSeqProperties
<1> HIDE DEF t
<1>3. ASSUME NEW p \in 0 .. Len(s)
      PROVE  SubSeq(t, 1, p) = SubSeq(s, 1, p)
  <2>1. p \in 1 - 1 .. Len(s) /\ p \in 1 - 1 .. Len(t) /\ 1 \in 1 .. Len(s) + 1 /\ 1 \in 1 .. Len(t) + 1
        /\ p - 1 + 1 = p
    BY <1>0, <1>1
  <2>2. /\ SubSeq(t, 1, p) \in Seq(Byte) /\ Len(SubSeq(t, 1, p)) = p
        /\ SubSeq(s, 1, p) \in Seq(Byte) /\ Len(SubSeq(s, 1, p)) = p
    BY <1>1, <1>2, <2>1
  <2>3. \A i \in 1 .. p : SubSeq(t, 1, p)[i] = t[1 + i - 1] /\ SubSeq(s, 1, p)[i] = s[1 + i - 1]
    BY <1>1, <1>2, <2>1
  <2>4. \A i \in 1 .. p : 1 + i - 1 = i /\ t[i] = s[i]
    BY <1>0, <1>1
  <2> QED BY <2>2, <2>3, <2>4, SeqEqual
<1>4. ASSUME NEW p \in 0 .. Len(s)
      PROVE  SubSeq(t, p + 1, Len(t)) = SubSeq(s, p + 1, Len(s)) \o b
  <2> DEFINE x == SubSeq(t, p + 1, N)
             y == SubSeq(s, p + 1, Len(s))
  <2>1. p + 1 \in 1 .. Len(s) + 1 /\ p + 1 \in 1 .. Len(t) + 1
        /\ Len(s) \in p + 1 - 1 .. Len(s) /\ N \in p + 1 - 1 .. Len(t)
        /\ N - (p + 1) + 1 = N - p /\ Len(s) - (p + 1) + 1 = Len(s) - p
    BY <1>0, <1>1
  <2>2. /\ x \in Seq(Byte) /\ Len(x) = N - p /\ \A i \in 1 .. N - p : x[i] = t[p + 1 + i - 1]
        /\ y \in Seq(Byte) /\ Len(y) = Len(s) - p /\ \A i \in 1 .. Len(s) - p : y[i] = s[p + 1 + i - 1]
    <3>1. x \in Seq(Byte) /\ Len(x) = N - p /\ \A i \in 1 .. N - p : x[i] = t[p + 1 + i - 1]
      <4> DEFINE m == p + 1
      <4>1. x = SubSeq(t, m, N) /\ m \in 1 .. Len(t) + 1 /\ N \in m - 1 .. Len(t)
            /\ N - m + 1 = N - p
        BY <2>1
      <4> HIDE DEF m, x, N
      <4>2. /\ x \in Seq(Byte) /\ Len(x) = N - p /\ \A i \in 1 .. N - p : x[i] = t[m + i - 1]
        BY <1>1, <1>2, <4>1
      <4> QED BY <4>2 DEF m
    <3>2. y \in Seq(Byte) /\ Len(y) = Len(s) - p /\ \A i \in 1 .. Len(s) - p : y[i] = s[p + 1 + i - 1]
      <4> DEFINE m == p + 1
      <4>1. y = SubSeq(s, m, Len(s)) /\ m \in 1 .. Len(s) + 1 /\ Len(s) \in m - 1 .. Len(s)
            /\ Len(s) - m + 1 = Len(s) - p
        BY <2>1
      <4> HIDE DEF m, y
      <4>2. /\ y \in Seq(Byte) /\ Len(y) = Len(s) - p /\ \A i \in 1 .. Len(s) - p : y[i] = s[m + i - 1]
        BY <1>2, <4>1
      <4> QED BY <4>2 DEF m
    <3> QED BY <3>1, <3>2
  <2> HIDE DEF x, y
  <2>3. /\ y \o b \in Seq(Byte) /\ Len(y \o b) = Len(s) - p + Len(b)
        /\ \A i \in 1 .. Len(s) - p + Len(b) :
             (y \o b)[i] = IF i <= Len(s) - p THEN y[i] ELSE b[i - (Len(s) - p)]
    <3>1. /\ y \o b \in Seq(Byte) /\ Len(y \o b) = Len(y) + Len(b)
          /\ \A i \in 1 .. Len(y) + Len(b) :
               (y \o b)[i] = IF i <= Len(y) THEN y[i] ELSE b[i - Len(y)]
      BY <2>2, ConcatProperties, ZenonT(30)
    <3>2. Len(y) = Len(s) - p
      BY <2>2
    <3> QED BY <3>1, <3>2
  <2>4. ASSUME NEW i \in 1 .. N - p PROVE x[i] = (y \o b)[i]
    <3>1. p + 1 + i - 1 = p + i /\ p + i \in 1 .. N /\ i \in 1 .. Len(s) - p + Len(b)
      BY <1>0
    <3>2. x[i] = IF p + i <= Len(s) THEN s[p + i] ELSE b[p + i - Len(s)]
      BY <1>1, <2>2, <3>1
    <3>3. CASE p + i <= Len(s)
      <4>1. i \in 1 .. Len(s) - p /\ i <= Len(s) - p
        BY <1>0, <3>3
      <4> QED BY <2>2, <2>3, <3>1, <3>2, <3>3, <4>1
    <3>4. CASE ~(p + i <= Len(s))
      <4>1. ~(i <= Len(s) - p) /\ p + i - Len(s) = i - (Len(s) - p)
        BY <1>0, <3>4
      <4> QED BY <2>3, <3>1, <3>2, <3>4, <4>1
    <3> QED BY <3>3, <3>4
  <2>5. x = y \o b
    <3>1. Len(x) = Len(y \o b)
      BY <1>0, <2>2, <2>3
    <3> QED BY <2>2, <2>3, <2>4, <3>1, SeqEqual
  <2> QED BY <1>1, <2>5 DEF x, y
<1>5. ASSUME NEW q \in 0 .. Len(b)
      PROVE  SubSeq(t, 1, Len(s) + q) = s \o SubSeq(b, 1, q)
  <2> DEFINE x == SubSeq(t, 1, Len(s) + q)
             y == SubSeq(b, 1, q)
  <2>1. 1 \in 1 .. Len(b) + 1 /\ 1 \in 1 .. Len(t) + 1
        /\ q \in 1 - 1 .. Len(b) /\ Len(s) + q \in 1 - 1 .. Len(t)
        /\ Len(s) + q - 1 + 1 = Len(s) + q /\ q - 1 + 1 = q
    BY <1>0, <1>1
  <2>2. /\ x \in Seq(Byte) /\ Len(x) = Len(s) + q /\ \A i \in 1 .. Len(s) + q : x[i] = t[1 + i - 1]
        /\ y \in Seq(Byte) /\ Len(y) = q /\ \A i \in 1 .. q : y[i] = b[1 + i - 1]
    BY <1>1, <1>2, <2>1
  <2> HIDE DEF x, y
  <2>3. /\ s \o y \in Seq(Byte) /\ Len(s \o y) = Len(s) + q
        /\ \A i \in 1 .. Len(s) + q :
             (s \o y)[i] = IF i <= Len(s) THEN s[i] ELSE y[i - Len(s)]
    BY <2>2, ConcatProperties
  <2>4. ASSUME NEW i \in 1 .. Len(s) + q PROVE x[i] = (s \o y)[i]
    <3>1. 1 + i - 1 = i /\ i \in 1 .. N
      BY <1>0
    <3>2. x[i] = IF i <= Len(s) THEN s[i] ELSE b[i - Len(s)]
      BY <1>1, <2>2, <3>1
    <3>3. ~(i <= Len(s)) => i - Len(s) \in 1 .. q /\ 1 + (i - Len(s)) - 1 = i - Len(s)
      BY <1>0
    <3> QED BY <2>2, <2>3, <3>2, <3>3
  <2>5. x = s \o y
    BY <2>2, <2>3, <2>4, SeqEqual
  <2> QED BY <2>5 DEF x, y
<1>6. ASSUME NEW q \in 0 .. Len(b)
      PROVE  SubSeq(t, Len(s) + q + 1, Len(t)) = SubSeq(b, q + 1, Len(b))
  <2> DEFINE x == SubSeq(t, Len(s) + q + 1, N)
             y == SubSeq(b, q + 1, Len(b))
             k == Len(b) - q
  <2>1. q + 1 \in 1 .. Len(b) + 1 /\ Len(s) + q + 1 \in 1 .. Len(t) + 1
        /\ Len(b) \in q + 1 - 1 .. Len(b) /\ N \in Len(s) + q + 1 - 1 .. Len(t)
        /\ N - (Len(s) + q + 1) + 1 = k /\ Len(b) - (q + 1) + 1 = k
    BY <1>0, <1>1
  <2>2. /\ x \in Seq(Byte) /\ Len(x) = k /\ \A i \in 1 .. k : x[i] = t[Len(s) + q + 1 + i - 1]
        /\ y \in Seq(Byte) /\ Len(y) = k /\ \A i \in 1 .. k : y[i] = b[q + 1 + i - 1]
    <3>1. x \in Seq(Byte) /\ Len(x) = k /\ \A i \in 1 .. k : x[i] = t[Len(s) + q + 1 + i - 1]
      <4> DEFINE m == Len(s) + q + 1
      <4>1. x = SubSeq(t, m, N) /\ m \in 1 .. Len(t) + 1 /\ N \in m - 1 .. Len(t) /\ N - m + 1 = k
        BY <2>1
      <4> HIDE DEF m, x, N, k
      <4>2. x \in Seq(Byte) /\ Len(x) = k /\ \A i \in 1 .. k : x[i] = t[m + i - 1]
        BY <1>1, <1>2, <4>1
      <4> QED BY <4>2 DEF m
    <3>2. y \in Seq(Byte) /\ Len(y) = k /\ \A i \in 1 .. k : y[i] = b[q + 1 + i - 1]
      <4> DEFINE m == q + 1
      <4>1. y = SubSeq(b, m, Len(b)) /\ m \in 1 .. Len(b) + 1 /\ Len(b) \in m - 1 .. Len(b)
            /\ Len(b) - m + 1 = k
        BY <2>1
      <4> HIDE DEF m, y, k
      <4>2. y \in Seq(Byte) /\ Len(y) = k /\ \A i \in 1 .. k : y[i] = b[m + i - 1]
        BY <1>2, <4>1
      <4> QED BY <4>2 DEF m
    <3> QED BY <3>1, <3>2
  <2>3. ASSUME NEW i \in 1 .. k
        PROVE  t[Len(s) + q + 1 + i - 1] = b[q + 1 + i - 1]
    <3>1. /\ Len(s) + q + 1 + i - 1 \in 1 .. N /\ ~(Len(s) + q + 1 + i - 1 <= Len(s))
          /\ Len(s) + q + 1 + i - 1 - Len(s) = q + 1 + i - 1
      BY <1>0
    <3> QED BY <1>1, <3>1
  <2> HIDE DEF x, y, k
  <2>4. x = y
    BY <2>2, <2>3, SeqEqual
  <2> QED BY <1>1, <2>4 DEF x, y
<1> QED BY <1>1, <1>3, <1>4, <1>5, <1>6 DEF t

(* What follows a chunk that has all the bytes the turn wants does not      *)
(* matter to the turn.                                                      *)
LEMMA TurnFits ==
  ASSUME NEW c, Wf(c), NEW s \in Seq(Byte), s # <<>>, NEW b \in Seq(Byte),
         c.state = "READ_PAYLOAD" => c.len - Len(c.payload) <= Len(s)
  PROVE  Turn(c, s \o b) = Turn(c, s) /\ Rest(c, s \o b) = Rest(c, s) \o b
<1> DEFINE t == s \o b
<1>1. t \in Seq(Byte) /\ Len(t) = Len(s) + Len(b) /\ Len(s) \in Nat \ {0} /\ Len(b) \in Nat
  OBVIOUS
<1>2. Head(t) = Head(s)
  OBVIOUS
<1>3. ASSUME NEW p \in 0 .. Len(s)
      PROVE  /\ SubSeq(t, 1, p) = SubSeq(s, 1, p)
             /\ SubSeq(t, p + 1, Len(t)) = SubSeq(s, p + 1, Len(s)) \o b
  <2>1. \A i \in 0 .. Len(s) :
          /\ SubSeq(t, 1, i) = SubSeq(s, 1, i)
          /\ SubSeq(t, i + 1, Len(t)) = SubSeq(s, i + 1, Len(s)) \o b
    <3>1. t = s \o b
      OBVIOUS
    <3> HIDE DEF t
    <3> QED BY <3>1, JoinedIs
  <2> QED BY <2>1
<1>4. CASE c.state = "READ_PAYLOAD"
  <2> DEFINE p == c.len - Len(c.payload)
  <2>1. p <= Len(s) /\ p <= Len(t) /\ p \in Nat
    BY <1>1, <1>4 DEF Wf
  <2>2. PayloadPart(c, s) = p /\ PayloadPart(c, t) = p
    <3> HIDE DEF t
    <3> QED BY <1>1, <1>4, <2>1, PartIs
  <2>3. p \in 0 .. Len(s)
    BY <1>1, <2>1
  <2> HIDE DEF p, t
  <2>4. read_payload(c, t) = read_payload(c, s)
    BY <1>3, <2>2, <2>3 DEF read_payload
  <2>5. Taken(c, s) = p /\ Taken(c, t) = p
    BY <1>4, <2>2 DEF Taken
  <2>6. Rest(c, t) = Rest(c, s) \o b
    BY <1>3, <2>3, <2>5 DEF Rest
  <2>7. Turn(c, t) = read_payload(c, t) /\ Turn(c, s) = read_payload(c, s)
    BY <1>4 DEF Turn
  <2> QED BY <2>4, <2>6, <2>7 DEF t
<1>5. CASE c.state # "READ_PAYLOAD"
  <2>1. Taken(c, s) = 1 /\ Taken(c, t) = 1 /\ 1 \in 0 .. Len(s)
    BY <1>1, <1>5 DEF Taken
  <2> HIDE DEF t
  <2>2. Rest(c, t) = Rest(c, s) \o b
    BY <1>3, <2>1 DEF Rest
  <2>3. Turn(c, t) = Turn(c, s)
    BY <1>2, <1>5 DEF Turn, Wf, States, Header
  <2> QED BY <2>2, <2>3 DEF t
<1> QED BY <1>4, <1>5

(* The payload of a frame may come in parts.                                *)
LEMMA PartsJoin ==
  ASSUME NEW c, Wf(c), c.state = "READ_PAYLOAD",
         NEW s \in Seq(Byte), c.len - Len(c.payload) > Len(s), NEW b \in Seq(Byte)
  PROVE  /\ WithPart(WithPart(c, s), b) = WithPart(c, s \o b)
         /\ PayloadPart(c, s \o b) = Len(s) + PayloadPart(WithPart(c, s), b)
<1> DEFINE d == WithPart(c, s)
           t == s \o b
           q == PayloadPart(d, b)
           v == SubSeq(b, 1, q)
<1>1. t \in Seq(Byte) /\ Len(t) = Len(s) + Len(b) /\ Len(s) \in Nat /\ Len(b) \in Nat
  OBVIOUS
<1>2. c.len \in Nat /\ Len(c.payload) \in Nat /\ c.payload \in Seq(Byte) /\ DOMAIN c = Fields
  BY DEF Wf
<1>3. PayloadPart(c, s) = Len(s) /\ SubSeq(s, 1, Len(s)) = s
  <2>1. ~(c.len - Len(c.payload) <= Len(s))
    BY <1>1, <1>2
  <2> QED BY <2>1, PartIs
<1>4. d = [c EXCEPT !.payload = c.payload \o Unmasked(c, s)]
  BY <1>3 DEF WithPart
<1>5. /\ Wf(d) /\ d.state = "READ_PAYLOAD" /\ d.len = c.len
      /\ d.mask = c.mask /\ d.key = c.key /\ Len(d.payload) = Len(c.payload) + Len(s)
  BY <1>3, WithPartIs
<1> HIDE DEF d
<1>6. q \in 0 .. Len(b) /\ PayloadPart(c, t) = Len(s) + q
  <2>1. q \in 0 .. Len(b)
        /\ q = IF d.len - Len(d.payload) <= Len(b) THEN d.len - Len(d.payload) ELSE Len(b)
    BY <1>5, PartIs
  <2>2. PayloadPart(c, t) = IF c.len - Len(c.payload) <= Len(t)
                            THEN c.len - Len(c.payload) ELSE Len(t)
    <3> HIDE DEF t
    <3> QED BY <1>1, PartIs
  <2> DEFINE k == c.len - Len(c.payload)
  <2>3. k \in Nat /\ d.len - Len(d.payload) = k - Len(s) /\ k - Len(s) \in Nat
    BY <1>1, <1>2, <1>5
  <2> HIDE DEF q, t, k
  <2>4. PayloadPart(c, t) = Len(s) + q
    <3>1. q = IF k - Len(s) <= Len(b) THEN k - Len(s) ELSE Len(b)
      BY <2>1, <2>3
    <3>2. PayloadPart(c, t) = IF k <= Len(t) THEN k ELSE Len(t)
      BY <2>2 DEF k
    <3> QED BY <1>1, <2>3, <3>1, <3>2
  <2> QED BY <2>1, <2>4
<1> HIDE DEF q
<1>7. v \in Seq(Byte) /\ Len(v) = q
  BY <1>6
<1>8. SubSeq(t, 1, Len(s) + q) = s \o v
  BY <1>6, JoinedIs
<1> HIDE DEF v
<1>9. Unmasked(c, s \o v) = Unmasked(c, s) \o Unmasked(d, v)
  <2>1. s \o v \in Seq(Byte) /\ Len(s \o v) = Len(s) + q
    BY <1>7
  <2>2. /\ Unmasked(c, s) \in Seq(Byte) /\ Len(Unmasked(c, s)) = Len(s)
        /\ Unmasked(d, v) \in Seq(Byte) /\ Len(Unmasked(d, v)) = q
        /\ Unmasked(c, s \o v) \in Seq(Byte) /\ Len(Unmasked(c, s \o v)) = Len(s) + q
    <3>1. Unmasked(c, s) \in Seq(Byte) /\ Len(Unmasked(c, s)) = Len(s)
      BY UnmaskedIs
    <3>2. Unmasked(d, v) \in Seq(Byte) /\ Len(Unmasked(d, v)) = q
      BY <1>5, <1>7, UnmaskedIs
    <3>3. Unmasked(c, s \o v) \in Seq(Byte) /\ Len(Unmasked(c, s \o v)) = Len(s) + q
      BY <2>1, UnmaskedIs
    <3> QED BY <3>1, <3>2, <3>3
  <2>3. ASSUME NEW i \in 1 .. Len(s) + q
        PROVE  Unmasked(c, s \o v)[i] = (Unmasked(c, s) \o Unmasked(d, v))[i]
    <3>0. /\ (Unmasked(c, s) \o Unmasked(d, v))[i] = IF i <= Len(s) THEN Unmasked(c, s)[i]
                                                   ELSE Unmasked(d, v)[i - Len(s)]
          /\ (s \o v)[i] = IF i <= Len(s) THEN s[i] ELSE v[i - Len(s)]
      <4>1. i \in 1 .. Len(s) + Len(v) /\ i \in 1 .. Len(Unmasked(c, s)) + Len(Unmasked(d, v))
        BY <1>7, <2>2
      <4> QED BY <1>7, <2>2, <4>1, ConcatProperties
    <3>1. Unmasked(c, s \o v)[i] = IF c.mask THEN Xor((s \o v)[i], c.key[((Len(c.payload) + i - 1) % 4) + 1])
                                   ELSE (s \o v)[i]
      <4>1. i \in DOMAIN (s \o v)
        BY <2>1, LenProperties
      <4> QED BY <4>1 DEF Unmasked
    <3>2. CASE i <= Len(s)
      <4>1. i \in 1 .. Len(s) /\ (s \o v)[i] = s[i]
            /\ (Unmasked(c, s) \o Unmasked(d, v))[i] = Unmasked(c, s)[i]
        BY <1>1, <3>0, <3>2
      <4>2. Unmasked(c, s)[i] = IF c.mask THEN Xor(s[i], c.key[((Len(c.payload) + i - 1) % 4) + 1])
                                ELSE s[i]
        <5>1. i \in DOMAIN s
          BY <4>1, LenProperties
        <5> QED BY <5>1 DEF Unmasked
      <4> QED BY <3>1, <4>1, <4>2
    <3>3. CASE i > Len(s)
      <4> DEFINE j == i - Len(s)
      <4>1. j \in 1 .. q
        BY <1>1, <1>6, <3>3
      <4>2. (s \o v)[i] = v[j] /\ (Unmasked(c, s) \o Unmasked(d, v))[i] = Unmasked(d, v)[j]
        BY <1>1, <3>0, <3>3
      <4>3. Unmasked(d, v)[j] = IF d.mask THEN Xor(v[j], d.key[((Len(d.payload) + j - 1) % 4) + 1])
                                ELSE v[j]
        <5>1. j \in DOMAIN v
          BY <1>7, <4>1, LenProperties
        <5> HIDE DEF j
        <5> QED BY <5>1 DEF Unmasked
      <4>4. Len(d.payload) + j - 1 = Len(c.payload) + i - 1
        BY <1>1, <1>2, <1>5
      <4> HIDE DEF j
      <4> QED BY <1>5, <3>1, <4>2, <4>3, <4>4
    <3>4. i <= Len(s) \/ i > Len(s)
      BY <1>1, <1>6
    <3> QED BY <3>2, <3>3, <3>4
  <2> DEFINE x == Unmasked(c, s \o v)
             y == Unmasked(c, s) \o Unmasked(d, v)
  <2>4. x \in Seq(Byte) /\ y \in Seq(Byte) /\ Len(x) = Len(s) + q /\ Len(y) = Len(s) + q
    BY <2>2, ConcatProperties
  <2> HIDE DEF x, y
  <2>5. x = y
    BY <2>3, <2>4, SeqEqual DEF x, y
  <2> QED BY <2>5 DEF x, y
<1>10. c.payload \o (Unmasked(c, s) \o Unmasked(d, v)) = d.payload \o Unmasked(d, v)
  <2>1. d.payload = c.payload \o Unmasked(c, s)
    BY <1>2, <1>4 DEF Fields
  <2>2. Unmasked(c, s) \in Seq(Byte) /\ Unmasked(d, v) \in Seq(Byte)
    BY <1>5, <1>7, UnmaskedIs
  <2> DEFINE x == Unmasked(c, s)
             y == Unmasked(d, v)
  <2>3. c.payload \in Seq(Byte) /\ x \in Seq(Byte) /\ y \in Seq(Byte)
    BY <1>2, <2>2
  <2> HIDE DEF x, y
  <2>4. (c.payload \o x) \o y = c.payload \o (x \o y)
    BY <2>3, Associative
  <2> QED BY <2>1, <2>4 DEF x, y
<1>11. WithPart(d, b) = [d EXCEPT !.payload = d.payload \o Unmasked(d, v)]
  BY DEF WithPart, v, q
<1>12. WithPart(c, t) = [c EXCEPT !.payload = d.payload \o Unmasked(d, v)]
  <2>1. WithPart(c, t) = [c EXCEPT !.payload = c.payload \o Unmasked(c, SubSeq(t, 1, PayloadPart(c, t)))]
    BY DEF WithPart
  <2> HIDE DEF t
  <2> QED BY <1>6, <1>8, <1>9, <1>10, <2>1
<1>13. WithPart(d, b) = WithPart(c, t)
  <2> DEFINE x == d.payload \o Unmasked(d, v)
             y == c.payload \o Unmasked(c, s)
  <2>1. d = [c EXCEPT !.payload = y]
    BY <1>4
  <2>2. WithPart(d, b) = [d EXCEPT !.payload = x] /\ WithPart(c, t) = [c EXCEPT !.payload = x]
    BY <1>11, <1>12
  <2> HIDE DEF x, y
  <2> QED BY <2>1, <2>2
<1> QED BY <1>6, <1>13 DEF d, t, q

(* Feeding two chunks is feeding them joined: the core of CutsTheorem.     *)
LEMMA FeedJoins ==
  ASSUME MaxFrame \in Nat, NEW c, Wf(c), NEW s \in Seq(Byte), NEW b \in Seq(Byte)
  PROVE  ws_parser_feed(c, s \o b) = ws_parser_feed(ws_parser_feed(c, s), b)
<1> DEFINE Joins(x, r) == ws_parser_feed(x, r \o b) = ws_parser_feed(ws_parser_feed(x, r), b)
           Bad(m) == \E x : \E r \in Seq(Byte) :
                       Wf(x) /\ Turnsleft(At(x, r)) = m /\ ~Joins(x, r)
           T == {m \in Nat : Bad(m)}
<1>0. \A x : \A r \in Seq(Byte) : Wf(x) => Turnsleft(At(x, r)) \in Nat
  BY AtOk, LoopStep
<1> SUFFICES ASSUME ~Joins(c, s) PROVE FALSE
  OBVIOUS
<1>1. Turnsleft(At(c, s)) \in T
  BY <1>0
<1>2. PICK m \in T : \A i \in T : m <= i
  BY <1>1, LeastNumber, T \subseteq Nat
<1>3. PICK x : \E r \in Seq(Byte) : Wf(x) /\ Turnsleft(At(x, r)) = m /\ ~Joins(x, r)
  BY <1>2
<1>4. PICK r \in Seq(Byte) : Wf(x) /\ Turnsleft(At(x, r)) = m /\ ~Joins(x, r)
  BY <1>3
<1>5. r # <<>> /\ b # <<>> /\ x.rc = "success"
  <2>1. ASSUME r = <<>> PROVE FALSE
    <3>1. r \o b = b /\ ws_parser_feed(x, r) = x
      BY <1>4, <2>1, FeedStops, ConcatEmptySeq
    <3> QED BY <1>4, <3>1
  <2>2. ASSUME b = <<>> PROVE FALSE
    <3>1. r \o b = r /\ Wf(ws_parser_feed(x, r))
      BY <1>4, <2>2, FeedAfter, ConcatEmptySeq
    <3>2. ws_parser_feed(ws_parser_feed(x, r), b) = ws_parser_feed(x, r)
      BY <2>2, <3>1, FeedStops
    <3> QED BY <1>4, <3>1, <3>2
  <2>3. ASSUME x.rc # "success" PROVE FALSE
    <3>1. r \o b \in Seq(Byte)
      BY <1>4
    <3>2. ws_parser_feed(x, r \o b) = x /\ ws_parser_feed(x, r) = x /\ ws_parser_feed(x, b) = x
      BY <1>4, <2>3, <3>1, FeedStops
    <3> QED BY <1>4, <3>2
  <2> QED BY <2>1, <2>2, <2>3
<1>6. r \o b \in Seq(Byte) /\ r \o b # <<>>
  BY <1>5
<1>7. /\ ws_parser_feed(x, r) = ws_parser_feed(Turn(x, r), Rest(x, r))
      /\ ws_parser_feed(x, r \o b) = ws_parser_feed(Turn(x, r \o b), Rest(x, r \o b))
  BY <1>4, <1>5, <1>6, FeedGoesOn
<1>8. CASE x.state = "READ_PAYLOAD" => x.len - Len(x.payload) <= Len(r)
  <2> DEFINE y == Turn(x, r)
             q == Rest(x, r)
  <2>1. Turn(x, r \o b) = y /\ Rest(x, r \o b) = q \o b
    BY <1>4, <1>5, <1>8, TurnFits
  <2>2. Wf(y) /\ q \in Seq(Byte)
    BY <1>4, <1>5, TurnWf, RestIs
  <2>3. Turnsleft(At(y, q)) < m /\ Turnsleft(At(y, q)) \in Nat
    <3>1. Loop(At(x, r)) = At(y, q) /\ LoopOk(At(x, r)) /\ LoopOk(At(y, q))
      BY <1>4, <1>5, <2>2, AtOk DEF Loop, At
    <3>2. m # 0
      <4>1. Runs(At(x, r))
        BY <1>5 DEF Runs, At
      <4>2. Len(r) \in Nat \ {0}
        BY <1>5
      <4> DEFINE k == IF x.state = "READ_PAYLOAD" THEN 0 ELSE 1
      <4>3. Turnsleft(At(x, r)) = 2 * Len(r) - k /\ k \in {0, 1}
        BY <4>1 DEF Turnsleft, At
      <4> HIDE DEF k
      <4> QED BY <1>4, <4>2, <4>3
    <3> QED BY <1>4, <3>1, <3>2, LoopStep
  <2> HIDE DEF y, q
  <2>4. Joins(y, q)
    <3>1. Turnsleft(At(y, q)) \notin T
      BY <1>2, <2>3
    <3> QED BY <2>2, <2>3, <3>1
  <2> QED BY <1>4, <1>7, <2>1, <2>4 DEF y, q
<1>9. CASE x.state = "READ_PAYLOAD" /\ ~(x.len - Len(x.payload) <= Len(r))
  <2> DEFINE d == WithPart(x, r)
  <2>1. x.len - Len(x.payload) > Len(r) /\ Len(r) \in Nat /\ x.len - Len(x.payload) \in Nat
    <3>1. x.len \in Nat /\ Len(x.payload) \in Nat /\ Len(x.payload) <= x.len
      BY <1>4, <1>9 DEF Wf
    <3>2. Len(r) \in Nat
      OBVIOUS
    <3> QED BY <1>9, <3>1, <3>2
  <2>2. PayloadPart(x, r) = Len(r) /\ Turn(x, r) = d
    BY <1>4, <1>9, PartIs, PayloadTurn, <2>1 DEF Turn
  <2>3. Wf(d) /\ d.state = "READ_PAYLOAD" /\ d.rc = "success"
    BY <1>4, <1>5, <1>9, WithPartIs
  <2>4. Rest(x, r) = <<>>
    BY <1>9, <2>1, <2>2 DEF Rest, Taken
  <2> HIDE DEF d
  <2>5. ws_parser_feed(x, r) = d
    <3>1. ws_parser_feed(x, r) = ws_parser_feed(d, <<>>)
      BY <1>7, <2>2, <2>4
    <3> QED BY <2>3, <3>1, FeedStops, EmptySeq
  <2>6. ws_parser_feed(d, b) = ws_parser_feed(Turn(d, b), Rest(d, b))
    BY <1>5, <2>3, FeedGoesOn
  <2>7. WithPart(d, b) = WithPart(x, r \o b)
        /\ PayloadPart(x, r \o b) = Len(r) + PayloadPart(d, b)
    BY <1>4, <1>9, <2>1, PartsJoin DEF d
  <2>8. Turn(d, b) = Turn(x, r \o b)
    <3>1. Turn(d, b) = read_payload(d, b) /\ Turn(x, r \o b) = read_payload(x, r \o b)
      BY <1>9, <2>3 DEF Turn
    <3>2. \A y, z : read_payload(y, z) =
            LET e == frame_complete(WithPart(y, z))
            IN  IF Len(WithPart(y, z).payload) < WithPart(y, z).len THEN WithPart(y, z)
                ELSE IF e.rc # "success" THEN e ELSE next_frame(e)
      BY DEF read_payload, WithPart
    <3> QED BY <2>7, <3>1, <3>2
  <2>9. Rest(d, b) = Rest(x, r \o b)
    <3>1. PayloadPart(d, b) \in 0 .. Len(b)
      BY <2>3, PartIs
    <3>2. Taken(d, b) = PayloadPart(d, b) /\ Taken(x, r \o b) = Len(r) + PayloadPart(d, b)
      BY <1>9, <2>3, <2>7 DEF Taken
    <3>3. \A p \in 0 .. Len(b) :
            SubSeq(r \o b, Len(r) + p + 1, Len(r \o b)) = SubSeq(b, p + 1, Len(b))
      BY JoinedIs
    <3> QED BY <3>1, <3>2, <3>3 DEF Rest
  <2> QED BY <1>4, <1>7, <2>5, <2>6, <2>8, <2>9
<1> QED BY <1>8, <1>9

(* A new parser is well formed.                                            *)
LEMMA InitWf == Wf(ws_parser_init)
BY DEF Wf, ws_parser_init, Fields, Header, States

(* A stream of bytes in two chunks.                                        *)
LEMMA CutOnce ==
  ASSUME MaxFrame \in Nat, NEW bytes \in Seq(Byte), NEW cut \in 0 .. Len(bytes)
  PROVE  Fed(bytes) = ws_parser_feed(Fed(SubSeq(bytes, 1, cut)), SubSeq(bytes, cut + 1, Len(bytes)))
<1> DEFINE s == SubSeq(bytes, 1, cut)
           b == SubSeq(bytes, cut + 1, Len(bytes))
<1>1. s \in Seq(Byte) /\ b \in Seq(Byte) /\ bytes = s \o b
  <2>1. 1 \in 1 .. Len(bytes) + 1 /\ cut \in 1 - 1 .. Len(bytes) /\ Len(bytes) \in cut .. Len(bytes)
    OBVIOUS
  <2>2. bytes = s \o b
    BY <2>1, ConcatAdjacentSubSeq, SubSeqFull
  <2>3. s \in Seq(Byte) /\ b \in Seq(Byte)
    OBVIOUS
  <2> QED BY <2>2, <2>3
<1> HIDE DEF s, b
<1>2. ws_parser_feed(ws_parser_init, s \o b) = ws_parser_feed(ws_parser_feed(ws_parser_init, s), b)
  BY <1>1, InitWf, FeedJoins
<1> QED BY <1>1, <1>2 DEF Fed, s, b

-----------------------------------------------------------------------------
(* Sequences of sequences.                                                 *)

(* f joins the first i of m sequences, for each i.                          *)
JoinsUpTo(q, m, S, f) ==
  /\ f \in [1 .. m -> Seq(S)]
  /\ f[1] = q[1]
  /\ \A i \in 2 .. m : f[i] = f[i - 1] \o q[i]

(* The prefixes of a sequence of sequences can be joined.                  *)
LEMMA JoinsExist ==
  ASSUME NEW S, NEW q \in Seq(Seq(S)), Len(q) # 0
  PROVE  \E f : JoinsUpTo(q, Len(q), S, f)
<1> DEFINE N == Len(q)
           T == {m \in 1 .. N : ~ \E f : JoinsUpTo(q, m, S, f)}
<1>0. N \in Nat \ {0} /\ \A i \in 1 .. N : q[i] \in Seq(S)
  OBVIOUS
<1> HIDE DEF N
<1>1. ASSUME T # {} PROVE FALSE
  <2>1. PICK m \in T : \A i \in T : m <= i
    BY <1>0, <1>1, LeastNumber, T \subseteq Nat
  <2>2. CASE m = 1
    <3> DEFINE f == [i \in 1 .. 1 |-> q[1]]
    <3>1. q[1] \in Seq(S)
      BY <1>0
    <3>2. f \in [1 .. 1 -> Seq(S)] /\ f[1] = q[1]
      BY <3>1
    <3>3. JoinsUpTo(q, 1, S, f)
      BY <3>2 DEF JoinsUpTo
    <3> QED BY <2>1, <2>2, <3>3
  <2>3. CASE m # 1
    <3>0. m \in 1 .. N /\ m \in 2 .. N /\ m - 1 \in 1 .. N /\ ~(m <= m - 1)
      BY <1>0, <2>1, <2>3
    <3>1. m - 1 \in 1 .. N /\ m - 1 \notin T /\ m \in 2 .. N /\ q[m] \in Seq(S)
      BY <1>0, <2>1, <3>0
    <3>2. PICK u : JoinsUpTo(q, m - 1, S, u)
      BY <3>1
    <3> DEFINE last == u[m - 1] \o q[m]
               f == [i \in 1 .. m |-> IF i = m THEN last ELSE u[i]]
    <3>3. u[m - 1] \in Seq(S) /\ u \in [1 .. m - 1 -> Seq(S)]
      BY <3>1, <3>2 DEF JoinsUpTo
    <3>4. last \in Seq(S)
      BY <3>1, <3>3, ConcatProperties
    <3>5. f \in [1 .. m -> Seq(S)] /\ f[1] = q[1]
      <4>1. \A i \in 1 .. m : i # m => i \in 1 .. m - 1
        BY <3>1
      <4> HIDE DEF last
      <4>2. f \in [1 .. m -> Seq(S)]
        BY <3>3, <3>4, <4>1
      <4>3. f[1] = u[1]
        BY <2>3, <3>1
      <4> QED BY <3>2, <4>2, <4>3 DEF JoinsUpTo
    <3>6. ASSUME NEW i \in 2 .. m PROVE f[i] = f[i - 1] \o q[i]
      <4>1. i - 1 \in 1 .. m /\ i - 1 # m /\ f[i - 1] = u[i - 1]
        BY <3>1
      <4>2. CASE i = m
        <5>1. m \in 1 .. m
          BY <3>1
        <5>2. f[m] = last
          <6> HIDE DEF last
          <6> QED BY <5>1
        <5> HIDE DEF f
        <5> QED BY <4>1, <4>2, <5>2
      <4>3. CASE i # m
        <5>1. i \in 2 .. m - 1 /\ f[i] = u[i]
          BY <3>1, <4>3
        <5> HIDE DEF f
        <5> QED BY <3>2, <4>1, <5>1 DEF JoinsUpTo
      <4> QED BY <4>2, <4>3
    <3> HIDE DEF f
    <3>7. JoinsUpTo(q, m, S, f)
      BY <3>5, <3>6 DEF JoinsUpTo
    <3> QED BY <2>1, <3>7
  <2> QED BY <2>2, <2>3
<1>2. N \in 1 .. N
  BY <1>0
<1> QED BY <1>1, <1>2 DEF N

(* FlattenSeq is the last of those joins.                                  *)
LEMMA FlattenIs ==
  ASSUME NEW S, NEW q \in Seq(Seq(S)), Len(q) # 0
  PROVE  \E f : JoinsUpTo(q, Len(q), S, f) /\ FlattenSeq(q) = f[Len(q)]
<1> DEFINE N == Len(q)
           f == CHOOSE f : f = [i \in 1 .. Len(q) |-> IF i = 1 THEN q[i] ELSE f[i - 1] \o q[i]]
<1>0. N \in Nat \ {0}
  OBVIOUS
<1>1. PICK u : JoinsUpTo(q, N, S, u)
  BY JoinsExist
<1>2. u = [i \in 1 .. N |-> IF i = 1 THEN q[i] ELSE u[i - 1] \o q[i]]
  <2>1. u = [i \in 1 .. N |-> u[i]]
    BY <1>1 DEF JoinsUpTo
  <2>2. ASSUME NEW i \in 1 .. N
        PROVE  u[i] = IF i = 1 THEN q[i] ELSE u[i - 1] \o q[i]
    <3>1. i # 1 => i \in 2 .. N
      BY <1>0
    <3> QED BY <1>1, <3>1 DEF JoinsUpTo
  <2> QED BY <2>1, <2>2
<1>3. f = [i \in 1 .. N |-> IF i = 1 THEN q[i] ELSE f[i - 1] \o q[i]]
  BY <1>2
<1>4. FlattenSeq(q) = f[N]
  BY <1>0 DEF FlattenSeq
<1> HIDE DEF f, N
<1>8. ASSUME NEW i \in 1 .. N
      PROVE  /\ f[i] = IF i = 1 THEN q[i] ELSE f[i - 1] \o q[i]
             /\ u[i] = IF i = 1 THEN q[i] ELSE u[i - 1] \o q[i]
  BY <1>2, <1>3
<1> DEFINE T == {i \in 1 .. N : f[i] # u[i]}
<1>5. ASSUME T # {} PROVE FALSE
  <2>1. PICK i \in T : \A j \in T : i <= j
    BY <1>5, LeastNumber, T \subseteq Nat
  <2>2. i # 1 => i - 1 \in 1 .. N /\ i - 1 \notin T
    BY <1>0, <2>1
  <2> QED BY <1>8, <2>1, <2>2
<1>6. N \in 1 .. N
  BY <1>0
<1>7. FlattenSeq(q) = u[N]
  BY <1>4, <1>5, <1>6
<1> QED BY <1>1, <1>7 DEF N

(* One sequence more.                                                      *)
LEMMA FlattenGrows ==
  ASSUME NEW S, NEW p \in Seq(Seq(S)), NEW q \in Seq(Seq(S)), Len(q) = Len(p) + 1,
         \A i \in 1 .. Len(p) : p[i] = q[i]
  PROVE  /\ FlattenSeq(p) \in Seq(S)
         /\ FlattenSeq(q) = FlattenSeq(p) \o q[Len(q)]
<1> DEFINE n == Len(p)
           m == Len(q)
<1>1. n \in Nat /\ m \in Nat /\ m = n + 1 /\ m \in 1 .. Len(q) /\ q[m] \in Seq(S)
  OBVIOUS
<1>2. PICK g : JoinsUpTo(q, m, S, g) /\ FlattenSeq(q) = g[m]
  <2>1. Len(q) # 0
    BY <1>1
  <2> QED BY <2>1, FlattenIs
<1>3. CASE n = 0
  <2>1. FlattenSeq(p) = <<>>
    BY <1>3 DEF FlattenSeq
  <2>2. g[1] = q[1] /\ m = 1
    BY <1>1, <1>2, <1>3 DEF JoinsUpTo
  <2>3. <<>> \o q[1] = q[1] /\ <<>> \in Seq(S)
    BY <1>1, <1>3, ConcatEmptySeq
  <2> QED BY <1>1, <1>2, <1>3, <2>1, <2>2, <2>3
<1>4. CASE n # 0
  <2>1. PICK f : JoinsUpTo(p, n, S, f) /\ FlattenSeq(p) = f[n]
    BY <1>4, FlattenIs
  <2>2. n \in 1 .. n /\ m \in 2 .. m /\ m - 1 = n /\ \A i \in 1 .. n : p[i] = q[i]
    BY <1>1, <1>4
  <2> HIDE DEF n, m
  <2> DEFINE T == {i \in 1 .. n : f[i] # g[i]}
  <2>3. ASSUME T # {} PROVE FALSE
    <3>1. PICK i \in T : \A j \in T : i <= j
      BY <2>3, LeastNumber, T \subseteq Nat
    <3>2. CASE i = 1
      BY <1>2, <2>1, <2>2, <3>1, <3>2 DEF JoinsUpTo
    <3>3. CASE i # 1
      <4>1. i - 1 \in 1 .. n /\ i - 1 \notin T /\ i \in 2 .. n /\ i \in 2 .. m
        BY <1>1, <3>1, <3>3
      <4>2. f[i] = f[i - 1] \o p[i] /\ g[i] = g[i - 1] \o q[i] /\ p[i] = q[i]
        BY <1>2, <2>1, <2>2, <4>1 DEF JoinsUpTo
      <4> QED BY <3>1, <4>1, <4>2
    <3> QED BY <3>2, <3>3
  <2>4. g[m] = g[m - 1] \o q[m]
    BY <1>2, <2>2 DEF JoinsUpTo
  <2>5. f[n] \in Seq(S)
    BY <2>1, <2>2 DEF JoinsUpTo
  <2>6. f[n] = g[n]
    BY <2>2, <2>3
  <2>7. g[m] = f[n] \o q[m]
    <3>1. m - 1 = n
      BY <2>2
    <3> QED BY <2>4, <2>6, <3>1
  <2> QED BY <1>2, <2>1, <2>5, <2>7 DEF m
<1> QED BY <1>3, <1>4

-----------------------------------------------------------------------------
(* Streams of frames.                                                      *)

Longest(width) == IF width = 7 THEN 125 ELSE IF width = 16 THEN 65535 ELSE 4294967295

(* All frames that can be sent: any bits, any key, and a payload as long as *)
(* the format of its length allows, up to four of the eight bytes.         *)
Frames ==
  {f \in [rsv : 0 .. 7, fin : BOOLEAN, op : 0 .. 15, key : {<<>>} \cup {k \in Seq(Byte) : Len(k) = 4},
          width : {7, 16, 64}, payload : Seq(Byte)] :
     Len(f.payload) <= Longest(f.width)}

(* The first byte of a frame is a byte.                                    *)
LEMMA FirstIs ==
  ASSUME NEW f \in Frames
  PROVE  First(f) \in Byte
<1>1. f.rsv \in 0 .. 7 /\ f.op \in 0 .. 15 /\ f.fin \in BOOLEAN
  BY DEF Frames
<1> QED BY <1>1, SMT DEF First, Byte

(* A payload fits the length form of its frame.                            *)
LEMMA LengthIs ==
  ASSUME NEW f \in Frames, NEW n, n = Len(f.payload)
  PROVE  /\ n \in Nat /\ f.width \in {7, 16, 64}
         /\ f.width = 7 => n <= 125
         /\ f.width = 16 => n <= 65535
         /\ f.width = 64 => n <= 4294967295
<1>1. n \in Nat /\ f.width \in {7, 16, 64} /\ n <= Longest(f.width)
  BY DEF Frames
<1> QED BY <1>1, SMT DEF Longest

(* The two bytes of a 16-bit length.                                       *)
LEMMA TwoBytesAre ==
  ASSUME NEW n \in Nat, n <= 65535
  PROVE  TwoBytes(n) \in Seq(Byte) /\ Len(TwoBytes(n)) = 2
<1>1. n \div 256 \in Byte /\ n % 256 \in Byte
  BY SMT DEF Byte
<1> QED BY <1>1 DEF TwoBytes

(* The eight bytes of a 64-bit length.                                     *)
LEMMA EightBytesAre ==
  ASSUME NEW n \in Nat, n <= 4294967295
  PROVE  EightBytes(n) \in Seq(Byte) /\ Len(EightBytes(n)) = 8
<1>1. 0 \in Byte /\ n \div 16777216 \in Byte
  BY SMT DEF Byte
<1>2. (n \div 65536) % 256 \in Byte /\ (n \div 256) % 256 \in Byte /\ n % 256 \in Byte
  BY SMT DEF Byte
<1> QED BY <1>1, <1>2, SMT DEF EightBytes

(* The length field of a frame is bytes.                                   *)
LEMMA LenBytesAre ==
  ASSUME NEW f \in Frames
  PROVE  LenBytes(f) \in Seq(Byte)
<1> DEFINE n == Len(f.payload)
           masked == IF f.key = <<>> THEN 0 ELSE 128
<1>1. /\ n \in Nat /\ f.width \in {7, 16, 64}
      /\ f.width = 7 => n <= 125
      /\ f.width = 16 => n <= 65535
      /\ f.width = 64 => n <= 4294967295
  BY LengthIs, SMT
<1>2. masked \in {0, 128}
  OBVIOUS
<1> HIDE DEF n, masked
<1>3. CASE f.width = 7
  <2>1. masked + n \in Byte
    BY <1>1, <1>2, <1>3, SMT DEF Byte
  <2>2. LenBytes(f) = <<masked + n>>
    <3>1. 7 # 16
      OBVIOUS
    <3> QED BY <1>3, <3>1, Zenon DEF LenBytes, n, masked
  <2> QED BY <2>1, <2>2
<1>4. CASE f.width = 16
  <2>1. masked + 126 \in Byte
    BY <1>2, SMT DEF Byte
  <2>2. LenBytes(f) = <<masked + 126>> \o TwoBytes(n)
    <3>1. 16 # 7
      OBVIOUS
    <3> QED BY <1>4, <3>1, Zenon DEF LenBytes, n, masked
  <2>3. n <= 65535
    BY <1>1, <1>4
  <2> QED BY <1>1, <2>1, <2>2, <2>3, TwoBytesAre, ConcatProperties
<1>5. CASE f.width = 64
  <2>1. masked + 127 \in Byte
    BY <1>2, SMT DEF Byte
  <2>2. LenBytes(f) = <<masked + 127>> \o EightBytes(n)
    <3>1. 64 # 7 /\ 64 # 16
      OBVIOUS
    <3> QED BY <1>5, <3>1, Zenon DEF LenBytes, n, masked
  <2>3. n <= 4294967295
    BY <1>1, <1>5, SMT
  <2>4. EightBytes(n) \in Seq(Byte)
    BY <1>1, <2>3, EightBytesAre, SMT
  <2> QED BY <2>1, <2>2, <2>4, ConcatProperties
<1> QED BY <1>1, <1>3, <1>4, <1>5, SMT

(* A payload on the wire is as long as the payload.                        *)
LEMMA OnWireIs ==
  ASSUME NEW f \in Frames
  PROVE  OnWire(f) \in Seq(Byte) /\ Len(OnWire(f)) = Len(f.payload)
<1>1. f.payload \in Seq(Byte) /\ (f.key = <<>> \/ (f.key \in Seq(Byte) /\ Len(f.key) = 4))
  BY DEF Frames
<1>2. CASE f.key = <<>>
  BY <1>1, <1>2 DEF OnWire
<1>3. CASE f.key # <<>>
  <2> DEFINE p == f.payload
             w == [i \in 1 .. Len(p) |-> Xor(p[i], f.key[((i - 1) % 4) + 1])]
  <2>1. ASSUME NEW i \in 1 .. Len(p)
        PROVE  Xor(p[i], f.key[((i - 1) % 4) + 1]) \in Byte
    <3>1. ((i - 1) % 4) + 1 \in 1 .. 4
      OBVIOUS
    <3>2. p[i] \in Byte /\ f.key[((i - 1) % 4) + 1] \in Byte
      BY <1>1, <1>3, <3>1
    <3> QED BY <3>2, XorByte
  <2>2. Len(p) \in Nat /\ DOMAIN p = 1 .. Len(p)
    BY <1>1
  <2>3. w \in [1 .. Len(p) -> Byte]
    BY <2>1
  <2>4. OnWire(f) = w
    BY <1>3, <2>2 DEF OnWire, ws_apply_mask
  <2> HIDE DEF w
  <2> QED BY <2>2, <2>3, <2>4
<1> QED BY <1>2, <1>3

(* A frame on the wire is at least one byte.                               *)
LEMMA BytesSeq ==
  ASSUME NEW f \in Frames
  PROVE  Bytes(f) \in Seq(Byte) /\ Bytes(f) # <<>>
<1>1. <<First(f)>> \in Seq(Byte)
  BY FirstIs
<1>2. f.key \in Seq(Byte)
  <2>1. f.key = <<>> \/ f.key \in Seq(Byte)
    BY DEF Frames
  <2> QED BY <2>1, EmptySeq
<1>3. \A s, t \in Seq(Byte) : s \o t \in Seq(Byte) /\ Len(s \o t) = Len(s) + Len(t)
  OBVIOUS
<1>4. <<First(f)>> \o LenBytes(f) \in Seq(Byte) /\ Len(<<First(f)>> \o LenBytes(f)) # 0
  BY <1>1, <1>3, LenBytesAre
<1>5. <<First(f)>> \o LenBytes(f) \o f.key \in Seq(Byte)
      /\ Len(<<First(f)>> \o LenBytes(f) \o f.key) # 0
  <2> DEFINE u == <<First(f)>> \o LenBytes(f)
  <2>1. u \in Seq(Byte) /\ Len(u) # 0 /\ Len(u) \in Nat /\ Len(f.key) \in Nat
    BY <1>2, <1>4
  <2> HIDE DEF u
  <2>2. u \o f.key \in Seq(Byte) /\ Len(u \o f.key) = Len(u) + Len(f.key)
    BY <1>2, <1>3, <2>1
  <2>3. Len(u \o f.key) # 0
    BY <2>1, <2>2
  <2> QED BY <2>2, <2>3 DEF u
<1>6. /\ <<First(f)>> \o LenBytes(f) \o f.key \o OnWire(f) \in Seq(Byte)
      /\ Len(<<First(f)>> \o LenBytes(f) \o f.key \o OnWire(f)) # 0
  <2> DEFINE u == <<First(f)>> \o LenBytes(f) \o f.key
  <2>0. u \in Seq(Byte) /\ Len(u) # 0
    BY <1>5, Zenon
  <2> HIDE DEF u
  <2>1. Len(u) \in Nat
    BY <2>0
  <2>2. OnWire(f) \in Seq(Byte) /\ Len(OnWire(f)) \in Nat
    BY OnWireIs
  <2>3. u \o OnWire(f) \in Seq(Byte) /\ Len(u \o OnWire(f)) = Len(u) + Len(OnWire(f))
    BY <1>3, <2>0, <2>2
  <2>4. Len(u \o OnWire(f)) # 0
    BY <2>0, <2>1, <2>2, <2>3
  <2> QED BY <2>3, <2>4 DEF u
<1> QED BY <1>6, EmptySeq DEF Bytes

(* No frames, no bytes.                                                    *)
LEMMA StreamStarts ==
  ASSUME NEW s
  PROVE  Stream(s, 0) = <<>>
<1>1. [j \in 1 .. 0 |-> Bytes(s[j])] = <<>>
  OBVIOUS
<1> QED BY <1>1 DEF Stream, FlattenSeq

(* One frame more adds its bytes at the end of the stream.                 *)
LEMMA StreamGrows ==
  ASSUME NEW s \in Seq(Frames), NEW k \in Nat, k < Len(s)
  PROVE  /\ Stream(s, k) \in Seq(Byte)
         /\ Stream(s, k + 1) = Stream(s, k) \o Bytes(s[k + 1])
<1> DEFINE p == [j \in 1 .. k |-> Bytes(s[j])]
           q == [j \in 1 .. k + 1 |-> Bytes(s[j])]
<1>1. \A j \in 1 .. k + 1 : s[j] \in Frames
  OBVIOUS
<1>2. \A j \in 1 .. k + 1 : Bytes(s[j]) \in Seq(Byte)
  BY <1>1, BytesSeq
<1>3. p \in Seq(Seq(Byte)) /\ Len(p) = k
  BY <1>2
<1>4. q \in Seq(Seq(Byte)) /\ Len(q) = k + 1
  BY <1>2
<1>5. (\A i \in 1 .. Len(p) : p[i] = q[i]) /\ q[Len(q)] = Bytes(s[k + 1])
  BY <1>3, <1>4
<1> HIDE DEF p, q
<1>6. FlattenSeq(p) \in Seq(Byte) /\ FlattenSeq(q) = FlattenSeq(p) \o q[Len(q)]
  BY <1>3, <1>4, <1>5, FlattenGrows
<1> QED BY <1>5, <1>6 DEF p, q, Stream

(* A stream is bytes.                                                      *)
LEMMA StreamSeq ==
  ASSUME NEW s \in Seq(Frames), NEW k \in 0 .. Len(s)
  PROVE  Stream(s, k) \in Seq(Byte)
<1>1. CASE k < Len(s)
  BY <1>1, StreamGrows
<1>2. CASE k = Len(s) /\ k # 0
  <2> DEFINE i == k - 1
  <2>1. i \in Nat /\ i < Len(s) /\ i + 1 = k /\ s[k] \in Frames
    BY <1>2
  <2> HIDE DEF i
  <2>2. Stream(s, i) \in Seq(Byte) /\ Stream(s, i + 1) = Stream(s, i) \o Bytes(s[i + 1])
    BY <2>1, StreamGrows
  <2> QED BY <2>1, <2>2, BytesSeq, ConcatProperties
<1>3. CASE k = 0
  BY <1>3, StreamStarts, EmptySeq
<1> QED BY <1>1, <1>2, <1>3

(* For any frames at all, however long, however many and whether they are  *)
(* legal or not: wherever the stream is cut in two, the parser calls the   *)
(* same callbacks and ends in the same state (http_ws.c:494-752).          *)
THEOREM CutsTheorem ==
  ASSUME MaxFrame \in Nat, input.frames \in Seq(Frames)
  PROVE  CutsDontMatter
<1> DEFINE bytes == Stream(input.frames, Len(input.frames))
<1>1. bytes \in Seq(Byte)
  BY StreamSeq
<1> HIDE DEF bytes
<1>2. ASSUME NEW cut \in 0 .. Len(bytes)
      PROVE  Fed(bytes) = ws_parser_feed(Fed(SubSeq(bytes, 1, cut)),
                                         SubSeq(bytes, cut + 1, Len(bytes)))
  BY <1>1, CutOnce
<1> QED BY <1>2 DEF CutsDontMatter, bytes

-----------------------------------------------------------------------------
(* A frame, byte by byte.                                                  *)

(* The same, field by field.                                               *)
ContextIs(c, state, fin, op, mask, len, ext, key, payload, parts, room, out) ==
  /\ c = [f \in Fields |-> c[f]]
  /\ c.state = state /\ c.fin = fin /\ c.opcode = op /\ c.mask = mask
  /\ c.len = len /\ c.ext = ext /\ c.key = key /\ c.payload = payload
  /\ c.parts = parts /\ c.room = room /\ c.out = out /\ c.rc = "success"

(* The fields read_opcode reads from the first byte of f.                  *)
LEMMA OpcodeRead ==
  ASSUME NEW f \in Frames, f.rsv = 0, f.op < 8 \/ f.fin, NEW p, NEW r, NEW o,
         NEW c, ContextIs(c, "READ_OPCODE", FALSE, 0, FALSE, 0, <<>>, <<>>, <<>>, p, r, o)
  PROVE  ContextIs(read_opcode(c, First(f)), "READ_LEN", f.fin, f.op, FALSE, 0, <<>>,
                   <<>>, <<>>, p, r, o)
<1>1. f.op \in 0 .. 15 /\ f.fin \in BOOLEAN
  BY DEF Frames
<1>2. /\ (First(f) >= 128) = f.fin
      /\ First(f) % 16 = f.op
      /\ (First(f) \div 16) % 8 = 0
      /\ ~(~f.fin /\ f.op >= 8)
  BY <1>1, SMT DEF First
<1> QED BY <1>2 DEF read_opcode, ContextIs, Fields

(* The context once the length is known.                                   *)
LEMMA KnownCtx ==
  ASSUME NEW st, NEW fin, NEW op, NEW m \in BOOLEAN, NEW len, NEW ext, NEW p, NEW r, NEW o, NEW n, NEW pay,
         NEW c, ContextIs(c, st, fin, op, m, len, ext, <<>>, pay, p, r, o)
  PROVE  ContextIs(KnownLen(c, n), IF m THEN "READ_MASK" ELSE "READ_PAYLOAD", fin, op, m,
                   n, ext, <<>>, <<>>, p, r, o)
<1>1. CASE m = TRUE
  BY <1>1 DEF KnownLen, ContextIs, Fields
<1>2. CASE m = FALSE
  BY <1>2 DEF KnownLen, ContextIs, Fields
<1> QED BY <1>1, <1>2

(* Setting one field of a context, and what next_frame resets.             *)
LEMMA PutCtx ==
  ASSUME NEW st, NEW fin, NEW op, NEW m, NEW len, NEW ext, NEW key, NEW pay, NEW p, NEW r, NEW o, NEW c,
         ContextIs(c, st, fin, op, m, len, ext, key, pay, p, r, o), NEW x
  PROVE  /\ ContextIs([c EXCEPT !.ext = x], st, fin, op, m, len, x, key, pay, p, r, o)
         /\ ContextIs([c EXCEPT !.key = x], st, fin, op, m, len, ext, x, pay, p, r, o)
         /\ ContextIs([c EXCEPT !.payload = x], st, fin, op, m, len, ext, key, x, p, r, o)
         /\ ContextIs(Tell(c, x), st, fin, op, m, len, ext, key, pay, p, r, Append(o, x))
         /\ ContextIs(next_frame(c), "READ_OPCODE", FALSE, 0, FALSE, 0, <<>>, <<>>, <<>>, p, r, o)
BY DEF ContextIs, Fields, Tell, next_frame

(* The parameters of ContextIs after each part of the header of frame f.           *)
MaskBit(m) == IF m THEN 128 ELSE 0
AfterLen(m) == IF m THEN "READ_MASK" ELSE "READ_PAYLOAD"

HasOpcode(c, f, g) ==
  ContextIs(c, "READ_LEN", f.fin, f.op, FALSE, 0, <<>>, <<>>, <<>>, g.parts, g.room, g.out)
InLength(c, f, st, m, ext, g) ==
  ContextIs(c, st, f.fin, f.op, m, 0, ext, <<>>, <<>>, g.parts, g.room, g.out)
HasLength(c, f, m, n, ext, g) ==
  ContextIs(c, AfterLen(m), f.fin, f.op, m, n, ext, <<>>, <<>>, g.parts, g.room, g.out)

HasKey(c, f, m, n, ext, key, g) ==
  ContextIs(c, "READ_PAYLOAD", f.fin, f.op, m, n, ext, key, <<>>, g.parts, g.room, g.out)

ExtStates == {"READ_EXT_LEN_16", "READ_EXT_LEN_64"}
ExtLen(st) == IF st = "READ_EXT_LEN_16" THEN 2 ELSE 8
LenTaken(st, n) == st = "READ_EXT_LEN_64" => n <= MaxFrame

(* What read_len reads, for each of the three length forms.                *)
LEMMA LenRead ==
  ASSUME NEW f \in Frames, NEW n, n = Len(f.payload), NEW g,
         NEW m \in BOOLEAN, NEW c, HasOpcode(c, f, g)
  PROVE  /\ f.width = 7 => HasLength(read_len(c, MaskBit(m) + n), f, m, n, <<>>, g)
         /\ f.width = 16 => InLength(read_len(c, MaskBit(m) + 126), f, "READ_EXT_LEN_16", m, <<>>, g)
         /\ f.width = 64 => InLength(read_len(c, MaskBit(m) + 127), f, "READ_EXT_LEN_64", m, <<>>, g)
<1> DEFINE p == g.parts
           r == g.room
           o == g.out
           big == MaskBit(m)
<1>00. /\ ContextIs(c, "READ_LEN", f.fin, f.op, FALSE, 0, <<>>, <<>>, <<>>, p, r, o)
       /\ big = IF m THEN 128 ELSE 0
  BY DEF HasOpcode, MaskBit
<1> HIDE DEF p, r, o, big
<1>0. n \in Nat /\ (f.width = 7 => n <= 125)
  BY LengthIs, SMT
<1>1. \A x \in 0 .. 127 : (big + x >= 128) = m /\ (big + x) % 128 = x
  BY <1>00, SMT
<1>2. ASSUME f.width = 7
      PROVE  ContextIs(read_len(c, big + n), IF m THEN "READ_MASK" ELSE "READ_PAYLOAD",
                f.fin, f.op, m, n, <<>>, <<>>, <<>>, p, r, o)
  <2> DEFINE d == [c EXCEPT !.mask = m, !.ext = <<>>]
  <2>1. n \in 0 .. 127 /\ n # 126 /\ n # 127
    <3>1. \A x \in Nat : x <= 125 => x \in 0 .. 127 /\ x # 126 /\ x # 127
      OBVIOUS
    <3> QED BY <1>0, <1>2, <3>1, Zenon
  <2>2. (big + n >= 128) = m /\ (big + n) % 128 = n
    BY <1>1, <2>1
  <2>3. read_len(c, big + n) = KnownLen(d, n)
    BY <2>1, <2>2 DEF read_len
  <2>4. ContextIs(d, "READ_LEN", f.fin, f.op, m, 0, <<>>, <<>>, <<>>, p, r, o)
    BY <1>00 DEF ContextIs, Fields
  <2> HIDE DEF d
  <2> QED BY <2>3, <2>4, KnownCtx
<1>3. ASSUME f.width = 16
      PROVE  ContextIs(read_len(c, big + 126), "READ_EXT_LEN_16", f.fin, f.op, m, 0,
                       <<>>, <<>>, <<>>, p, r, o)
  <2> DEFINE d == [c EXCEPT !.mask = m, !.ext = <<>>]
  <2>1. (big + 126 >= 128) = m /\ (big + 126) % 128 = 126 /\ 126 # 127
    BY <1>1
  <2>2. read_len(c, big + 126) = [d EXCEPT !.state = "READ_EXT_LEN_16"]
    BY <2>1, Zenon DEF read_len
  <2>3. ContextIs(d, "READ_LEN", f.fin, f.op, m, 0, <<>>, <<>>, <<>>, p, r, o)
    BY <1>00 DEF ContextIs, Fields
  <2> HIDE DEF d
  <2> QED BY <2>2, <2>3 DEF ContextIs, Fields
<1>4. ASSUME f.width = 64
      PROVE  ContextIs(read_len(c, big + 127), "READ_EXT_LEN_64", f.fin, f.op, m, 0,
                       <<>>, <<>>, <<>>, p, r, o)
  <2> DEFINE d == [c EXCEPT !.mask = m, !.ext = <<>>]
  <2>1. (big + 127 >= 128) = m /\ (big + 127) % 128 = 127 /\ 127 # 126
    BY <1>1
  <2>2. read_len(c, big + 127) = [d EXCEPT !.state = "READ_EXT_LEN_64"]
    BY <2>1, Zenon DEF read_len
  <2>3. ContextIs(d, "READ_LEN", f.fin, f.op, m, 0, <<>>, <<>>, <<>>, p, r, o)
    BY <1>00 DEF ContextIs, Fields
  <2> HIDE DEF d
  <2> QED BY <2>2, <2>3 DEF ContextIs, Fields
<1> QED BY <1>2, <1>3, <1>4 DEF HasLength, InLength, AfterLen, p, r, o, big

(* s takes the parser from c to d, whatever follows.                       *)
Goes(c, s, d) ==
  Wf(d) /\ \A t \in Seq(Byte) : ws_parser_feed(c, s \o t) = ws_parser_feed(d, t)

(* One header byte is one turn.                                            *)
LEMMA GoesByte ==
  ASSUME MaxFrame \in Nat, NEW c, Wf(c), c.rc = "success", c.state # "READ_PAYLOAD", NEW b \in Byte
  PROVE  Goes(c, <<b>>, Turn(c, <<b>>))
<1>1. <<b>> \in Seq(Byte) /\ <<b>> # <<>> /\ Len(<<b>>) = 1
  OBVIOUS
<1>0. Wf(Turn(c, <<b>>))
  BY <1>1, TurnWf
<1> SUFFICES ASSUME NEW t \in Seq(Byte)
             PROVE  ws_parser_feed(c, <<b>> \o t) = ws_parser_feed(Turn(c, <<b>>), t)
  BY <1>0 DEF Goes
<1>2. Turn(c, <<b>> \o t) = Turn(c, <<b>>) /\ Rest(c, <<b>> \o t) = Rest(c, <<b>>) \o t
  BY <1>1, TurnFits
<1>3. Rest(c, <<b>>) \in Seq(Byte) /\ Len(Rest(c, <<b>>)) = 0
  <2>1. /\ Taken(c, <<b>>) = 1
        /\ Rest(c, <<b>>) \in Seq(Byte)
        /\ Len(Rest(c, <<b>>)) = Len(<<b>>) - Taken(c, <<b>>)
    BY <1>1, RestIs
  <2> QED BY <1>1, <2>1
<1>4. Rest(c, <<b>>) = <<>>
  BY <1>3, EmptySeq
<1>5. <<b>> \o t \in Seq(Byte) /\ <<b>> \o t # <<>>
  OBVIOUS
<1>6. Rest(c, <<b>> \o t) = t
  BY <1>2, <1>4, ConcatEmptySeq
<1> QED BY <1>2, <1>5, <1>6, FeedGoesOn

(* Two ways in a row are a way along the joined bytes.                     *)
LEMMA GoesOn ==
  ASSUME NEW c, NEW d, NEW e, NEW s \in Seq(Byte), NEW u \in Seq(Byte), Goes(c, s, d), Goes(d, u, e)
  PROVE  Goes(c, s \o u, e)
<1> SUFFICES ASSUME NEW t \in Seq(Byte)
             PROVE  ws_parser_feed(c, (s \o u) \o t) = ws_parser_feed(e, t)
  BY DEF Goes
<1>1. (s \o u) \o t = s \o (u \o t) /\ u \o t \in Seq(Byte)
  BY Associative, ConcatProperties
<1>2. ws_parser_feed(c, s \o (u \o t)) = ws_parser_feed(d, u \o t)
  BY <1>1 DEF Goes
<1>3. ws_parser_feed(d, u \o t) = ws_parser_feed(e, t)
  BY DEF Goes
<1> QED BY <1>1, <1>2, <1>3

(* No bytes lead nowhere.                                                  *)
LEMMA GoesNowhere ==
  ASSUME NEW c, Wf(c)
  PROVE  Goes(c, <<>>, c)
<1>1. \A t \in Seq(Byte) : <<>> \o t = t
  BY ConcatEmptySeq
<1> QED BY <1>1 DEF Goes

(* From the start of a feed, a way is what ws_parser_feed returns.         *)
LEMMA GoesThere ==
  ASSUME MaxFrame \in Nat, NEW c, NEW d, NEW s \in Seq(Byte), Goes(c, s, d)
  PROVE  ws_parser_feed(c, s) = d
<1>1. s \o <<>> = s /\ <<>> \in Seq(Byte)
  BY ConcatEmptySeq, EmptySeq
<1>2. ws_parser_feed(c, s \o <<>>) = ws_parser_feed(d, <<>>)
  BY <1>1 DEF Goes
<1> QED BY <1>1, <1>2, FeedStops DEF Goes

(* The first i + 1 items are the first i and one more.                     *)
LEMMA FirstOf ==
  ASSUME NEW bs \in Seq(Byte), NEW i \in Nat, i + 1 \in 1 .. Len(bs)
  PROVE  /\ SubSeq(bs, 1, i) \in Seq(Byte) /\ Len(SubSeq(bs, 1, i)) = i
         /\ bs[i + 1] \in Byte
         /\ SubSeq(bs, 1, i + 1) = Append(SubSeq(bs, 1, i), bs[i + 1])
         /\ SubSeq(bs, 1, i + 1) = SubSeq(bs, 1, i) \o <<bs[i + 1]>>
<1>1. SubSeq(bs, 1, i) \in Seq(Byte) /\ Len(SubSeq(bs, 1, i)) = i /\ bs[i + 1] \in Byte
  OBVIOUS
<1>2. SubSeq(bs, 1, i + 1) = Append(SubSeq(bs, 1, i), bs[i + 1])
  OBVIOUS
<1>3. \A s \in Seq(Byte), b \in Byte : Append(s, b) = s \o <<b>>
  OBVIOUS
<1> QED BY <1>1, <1>2, <1>3

(* A byte of a length in sixteen or sixty-four bits, or of a key.           *)
LEMMA ByteOfExt ==
  ASSUME NEW st \in ExtStates,
         NEW fin, NEW op, NEW m, NEW ext \in Seq(Byte), NEW p, NEW r, NEW o,
         NEW c, ContextIs(c, st, fin, op, m, 0, ext, <<>>, <<>>, p, r, o), NEW b \in Byte
  PROVE  /\ Turn(c, <<b>>) = IF st = "READ_EXT_LEN_16" THEN read_ext_len_16(c, b) ELSE read_ext_len_64(c, b)
         /\ ContextIs([c EXCEPT !.ext = Append(@, b)], st, fin, op, m, 0, Append(ext, b),
                      <<>>, <<>>, p, r, o)
<1>1. Head(<<b>>) = b
  OBVIOUS
<1>2. c.state = st
  BY DEF ContextIs
<1>3. ContextIs([c EXCEPT !.ext = Append(c.ext, b)], st, fin, op, m, 0, Append(ext, b),
                <<>>, <<>>, p, r, o)
  BY DEF ContextIs, Fields
<1>4. CASE st = "READ_EXT_LEN_16"
  BY <1>1, <1>2, <1>3, <1>4 DEF Turn
<1>5. CASE st = "READ_EXT_LEN_64"
  BY <1>1, <1>2, <1>3, <1>5 DEF Turn
<1> QED BY <1>4, <1>5 DEF ExtStates

(* One byte of the masking key.                                            *)
LEMMA ByteOfKey ==
  ASSUME NEW fin, NEW op, NEW m, NEW len, NEW ext, NEW key \in Seq(Byte), NEW p, NEW r, NEW o,
         NEW c, ContextIs(c, "READ_MASK", fin, op, m, len, ext, key, <<>>, p, r, o), NEW b \in Byte,
         NEW k, k = Append(key, b)
  PROVE  /\ Len(k) < 4 => ContextIs(Turn(c, <<b>>), "READ_MASK", fin, op, m, len, ext, k,
                                    <<>>, p, r, o)
         /\ ~(Len(k) < 4) => ContextIs(Turn(c, <<b>>), "READ_PAYLOAD", fin, op, m, len,
                                       ext, k, <<>>, p, r, o)
<1> DEFINE d == [c EXCEPT !.key = Append(@, b)]
<1>1. Head(<<b>>) = b
  OBVIOUS
<1>2. c.state = "READ_MASK"
  BY DEF ContextIs
<1>3. Turn(c, <<b>>) = read_mask(c, b)
  BY <1>1, <1>2 DEF Turn
<1>4. ContextIs(d, "READ_MASK", fin, op, m, len, ext, k, <<>>, p, r, o)
  BY DEF ContextIs, Fields
<1>5. read_mask(c, b) = IF Len(d.key) < 4 THEN d
                        ELSE [d EXCEPT !.state = "READ_PAYLOAD", !.payload = <<>>]
  BY DEF read_mask
<1>6. d.key = k
  BY <1>4 DEF ContextIs
<1> HIDE DEF d
<1>7. ContextIs([d EXCEPT !.state = "READ_PAYLOAD", !.payload = <<>>],
         "READ_PAYLOAD", fin, op, m, len, ext, k, <<>>, p, r, o)
  BY <1>4 DEF ContextIs, Fields
<1> QED BY <1>3, <1>4, <1>5, <1>6, <1>7

(* The four bytes of the key lead to the payload.                          *)
LEMMA KeyGoes ==
  ASSUME MaxFrame \in Nat,
         NEW f, NEW m \in BOOLEAN, m, NEW len \in Nat, NEW ext \in Seq(Byte), NEW g,
         NEW c, Wf(c), HasLength(c, f, m, len, ext, g),
         NEW key \in Seq(Byte), Len(key) = 4
  PROVE  \E d : HasKey(d, f, m, len, ext, key, g) /\ Goes(c, key, d)
<1> DEFINE st(i) == IF i < 4 THEN "READ_MASK" ELSE "READ_PAYLOAD"
           fin == f.fin
           op == f.op
           p == g.parts
           r == g.room
           o == g.out
           Ok(i) == \E d : /\ ContextIs(d, st(i), fin, op, m, len, ext, SubSeq(key, 1,
                                        i), <<>>, p, r, o)
                           /\ Goes(c, SubSeq(key, 1, i), d)
<1>0. ContextIs(c, "READ_MASK", fin, op, m, len, ext, <<>>, <<>>, p, r, o)
  BY DEF HasLength, AfterLen
<1> HIDE DEF fin, op, p, r, o
<1>1. Ok(0)
  <2>1. SubSeq(key, 1, 0) = <<>> /\ st(0) = "READ_MASK"
    OBVIOUS
  <2> QED BY <1>0, <2>1, GoesNowhere
<1>2. ASSUME NEW i \in 0 .. 3, Ok(i) PROVE Ok(i + 1)
  <2>1. PICK d : /\ ContextIs(d, st(i), fin, op, m, len, ext, SubSeq(key, 1, i), <<>>, p, r, o)
                 /\ Goes(c, SubSeq(key, 1, i), d)
    BY <1>2
  <2> DEFINE k == SubSeq(key, 1, i)
             n == SubSeq(key, 1, i + 1)
             b == key[i + 1]
  <2>2. k \in Seq(Byte) /\ Len(k) = i /\ b \in Byte /\ n = Append(k, b) /\ n = k \o <<b>>
    BY FirstOf
  <2>3. Len(n) = i + 1 /\ n \in Seq(Byte)
    BY <2>2
  <2> HIDE DEF k, n, b
  <2>0. st(i) = "READ_MASK" /\ (i < 3 \/ i = 3)
    OBVIOUS
  <2>4. ContextIs(d, "READ_MASK", fin, op, m, len, ext, k, <<>>, p, r, o) /\ Goes(c, k, d)
    BY <2>0, <2>1 DEF k
  <2>5. Wf(d)
    BY <2>4 DEF Goes
  <2>6. d.rc = "success" /\ d.state # "READ_PAYLOAD"
    BY <2>4 DEF ContextIs
  <2>7. Goes(d, <<b>>, Turn(d, <<b>>))
    BY <2>2, <2>5, <2>6, GoesByte
  <2>8. Goes(c, k \o <<b>>, Turn(d, <<b>>))
    <3>1. <<b>> \in Seq(Byte)
      BY <2>2
    <3> QED BY <2>2, <2>4, <2>7, <3>1, GoesOn
  <2>9. ContextIs(Turn(d, <<b>>), st(i + 1), fin, op, m, len, ext, n, <<>>, p, r, o)
    <3>1. CASE i < 3
      <4>1. st(i + 1) = "READ_MASK" /\ Len(n) < 4
        BY <2>3, <3>1
      <4> QED BY <2>2, <2>4, <4>1, ByteOfKey
    <3>2. CASE i = 3
      <4>1. st(i + 1) = "READ_PAYLOAD" /\ ~(Len(n) < 4)
        BY <2>3, <3>2
      <4> QED BY <2>2, <2>4, <4>1, ByteOfKey
    <3> QED BY <2>0, <3>1, <3>2
  <2> QED BY <2>2, <2>8, <2>9 DEF n
<1>3. SubSeq(key, 1, 4) = key /\ st(4) = "READ_PAYLOAD"
  BY SubSeqFull
<1> HIDE DEF Ok
<1>4. Ok(1) /\ Ok(2) /\ Ok(3) /\ Ok(4)
  <2>1. Ok(1)
    BY <1>1, <1>2, 0 \in 0 .. 3, 0 + 1 = 1
  <2>2. Ok(2)
    BY <1>2, <2>1, 1 \in 0 .. 3, 1 + 1 = 2
  <2>3. Ok(3)
    BY <1>2, <2>2, 2 \in 0 .. 3, 2 + 1 = 3
  <2>4. Ok(4)
    BY <1>2, <2>3, 3 \in 0 .. 3, 3 + 1 = 4
  <2> QED BY <2>1, <2>2, <2>3, <2>4
<1> QED BY <1>3, <1>4 DEF Ok, HasKey, fin, op, p, r, o

(* math_ws_ntoh of two bytes.                                              *)
LEMMA NtohTwo ==
  ASSUME MaxFrame \in Nat, NEW x \in Byte, NEW y \in Byte
  PROVE  math_ws_ntoh(<<x, y>>) = 256 * x + y
<1> DEFINE bs == <<x, y>>
<1>1. bs \in Seq(Byte) /\ Len(bs) = 2 /\ bs[1] = x /\ bs[2] = y
  OBVIOUS
<1> HIDE DEF bs
<1>2. PICK v : ValuesUpTo(bs, Len(bs), v) /\ math_ws_ntoh(bs) = v[Len(bs)]
  BY <1>1, NtohIs
<1>3. v[0] = 0 /\ v[1] = AddByte(v[0], x) /\ v[2] = AddByte(v[1], y)
  <2>1. 1 \in 1 .. 2 /\ 2 \in 1 .. 2 /\ 1 - 1 = 0 /\ 2 - 1 = 1
    OBVIOUS
  <2> QED BY <1>1, <1>2, <2>1 DEF ValuesUpTo
<1>4. x \in 0 .. 255 /\ y \in 0 .. 255 /\ Huge \in Nat /\ Huge >= 65536
  BY HugeIs, SMT DEF Byte
<1>5. v[1] = x
  <2>1. 0 \in Nat /\ 0 * 256 + x <= Huge /\ 0 * 256 + x = x
    BY <1>4, SMT
  <2> QED BY <1>3, <2>1, AddByteIs
<1>6. v[2] = x * 256 + y
  <2>1. x \in Nat /\ x * 256 + y <= Huge
    BY <1>4, SMT
  <2> QED BY <1>3, <1>5, <2>1, AddByteIs
<1>7. x * 256 + y = 256 * x + y
  BY <1>4, SMT
<1> QED BY <1>1, <1>2, <1>6, <1>7 DEF bs

(* math_ws_ntoh of eight bytes whose high four are zero.                   *)
LEMMA NtohEight ==
  ASSUME MaxFrame \in Nat, NEW a \in Byte, NEW b \in Byte, NEW e \in Byte, NEW g \in Byte,
         NEW n1 \in Nat, n1 = a * 256 + b, NEW n2 \in Nat, n2 = n1 * 256 + e,
         NEW n \in Nat, n = n2 * 256 + g, n <= MaxFrame
  PROVE  math_ws_ntoh(<<0, 0, 0, 0, a, b, e, g>>) = n
<1> DEFINE bs == <<0, 0, 0, 0, a, b, e, g>>
<1>0. 0 \in Byte
  BY DEF Byte
<1>1. /\ bs \in Seq(Byte) /\ Len(bs) = 8
      /\ bs[1] = 0 /\ bs[2] = 0 /\ bs[3] = 0 /\ bs[4] = 0
      /\ bs[5] = a /\ bs[6] = b /\ bs[7] = e /\ bs[8] = g
  BY <1>0
<1>2. /\ a \in Nat /\ b \in Nat /\ e \in Nat /\ g \in Nat
      /\ a <= n1 /\ n1 <= n2 /\ n2 <= n
  BY SMT DEF Byte
<1> HIDE DEF bs
<1>3. PICK v : ValuesUpTo(bs, Len(bs), v) /\ math_ws_ntoh(bs) = v[Len(bs)]
  BY <1>1, NtohIs
<1>4. v[0] = 0 /\ \A i \in 1 .. 8 : v[i] = AddByte(v[i - 1], bs[i])
  BY <1>1, <1>3 DEF ValuesUpTo
<1>5. Huge \in Nat /\ n <= Huge /\ 0 * 256 + 0 = 0 /\ 0 <= Huge
  <2>1. Huge \in Nat /\ Huge > MaxFrame
    BY HugeIs
  <2> QED BY <2>1, SMT
<1>6. \A x \in Nat, y \in Byte : x * 256 + y <= Huge => AddByte(x, y) = x * 256 + y
  BY AddByteIs
<1>7. AddByte(0, 0) = 0 /\ AddByte(0, a) = a
  <2>1. 0 * 256 + a = a /\ a <= Huge
    BY <1>2, <1>5, SMT
  <2> QED BY <1>0, <1>5, <1>6, <2>1
<1>8. v[4] = 0
  <2>1. v[1] = AddByte(v[0], bs[1])
    BY <1>4, 1 \in 1 .. 8, 1 - 1 = 0
  <2>2. v[2] = AddByte(v[1], bs[2])
    BY <1>4, 2 \in 1 .. 8, 2 - 1 = 1
  <2>3. v[3] = AddByte(v[2], bs[3])
    BY <1>4, 3 \in 1 .. 8, 3 - 1 = 2
  <2>4. v[4] = AddByte(v[3], bs[4])
    BY <1>4, 4 \in 1 .. 8, 4 - 1 = 3
  <2> QED BY <1>1, <1>4, <1>7, <2>1, <2>2, <2>3, <2>4
<1>9. v[5] = a
  BY <1>1, <1>4, <1>7, <1>8, 5 \in 1 .. 8, 5 - 1 = 4
<1>10. v[6] = n1
  <2>1. v[6] = AddByte(v[5], bs[6])
    BY <1>4, 6 \in 1 .. 8, 6 - 1 = 5
  <2>2. a * 256 + b <= Huge
    BY <1>2, <1>5, SMT
  <2> QED BY <1>1, <1>2, <1>6, <1>9, <2>1, <2>2, SMT
<1>11. v[7] = n2
  <2>1. v[7] = AddByte(v[6], bs[7])
    BY <1>4, 7 \in 1 .. 8, 7 - 1 = 6
  <2>2. n1 * 256 + e <= Huge
    BY <1>2, <1>5, SMT
  <2> QED BY <1>1, <1>2, <1>6, <1>10, <2>1, <2>2, SMT
<1>12. v[8] = n
  <2>1. v[8] = AddByte(v[7], bs[8])
    BY <1>4, 8 \in 1 .. 8, 8 - 1 = 7
  <2>2. n2 * 256 + g <= Huge
    BY <1>2, <1>5, SMT
  <2> QED BY <1>1, <1>2, <1>6, <1>11, <2>1, <2>2, SMT
<1> QED BY <1>1, <1>3, <1>12 DEF bs

(* A length in sixteen or sixty-four bits.                                 *)
LEMMA ExtGoes ==
  ASSUME MaxFrame \in Nat, NEW st \in ExtStates,
         NEW f, NEW m \in BOOLEAN, NEW g,
         NEW c, Wf(c), InLength(c, f, st, m, <<>>, g),
         NEW bs \in Seq(Byte), Len(bs) = ExtLen(st),
         NEW n, n = math_ws_ntoh(bs), LenTaken(st, n)
  PROVE  \E d : HasLength(d, f, m, n, bs, g) /\ Goes(c, bs, d)
<1> DEFINE N == ExtLen(st)
           fin == f.fin
           op == f.op
           p == g.parts
           r == g.room
           o == g.out
           Ok(i) == \E d : /\ ContextIs(d, st, fin, op, m, 0, SubSeq(bs, 1, i), <<>>, <<>>, p, r, o)
                           /\ Goes(c, SubSeq(bs, 1, i), d)
<1>0. /\ ContextIs(c, st, fin, op, m, 0, <<>>, <<>>, <<>>, p, r, o)
      /\ N \in Nat /\ N = IF st = "READ_EXT_LEN_16" THEN 2 ELSE 8
      /\ Len(bs) = N
      /\ st = "READ_EXT_LEN_64" => n <= MaxFrame
      /\ st \in {"READ_EXT_LEN_16", "READ_EXT_LEN_64"}
  BY DEF InLength, ExtLen, LenTaken, ExtStates
<1> HIDE DEF N, fin, op, p, r, o
<1>1. Ok(0)
  <2>1. SubSeq(bs, 1, 0) = <<>>
    OBVIOUS
  <2> QED BY <1>0, <2>1, GoesNowhere
<1>2. ASSUME NEW i \in 0 .. N - 1, Ok(i)
      PROVE  /\ i + 1 < N => Ok(i + 1)
             /\ i + 1 = N =>
                  \E d : /\ ContextIs(d, IF m THEN "READ_MASK" ELSE "READ_PAYLOAD", fin,
                                      op, m, n, bs, <<>>, <<>>, p, r, o)
                         /\ Goes(c, bs, d)
  <2> DEFINE k == SubSeq(bs, 1, i)
             w == SubSeq(bs, 1, i + 1)
             b == bs[i + 1]
  <2>1. PICK d : ContextIs(d, st, fin, op, m, 0, k, <<>>, <<>>, p, r, o) /\ Goes(c, k, d)
    BY <1>2
  <2> DEFINE e == Turn(d, <<b>>)
             u == [d EXCEPT !.ext = Append(@, b)]
  <2>2. k \in Seq(Byte) /\ Len(k) = i /\ b \in Byte /\ w = Append(k, b) /\ w = k \o <<b>>
    <3>1. i \in Nat /\ i + 1 \in 1 .. Len(bs)
      BY <1>0
    <3> QED BY <3>1, FirstOf
  <2>3. Len(w) = i + 1 /\ w \in Seq(Byte) /\ <<b>> \in Seq(Byte)
    BY <2>2
  <2>4. i + 1 = N => w = bs
    BY <1>0, SubSeqFull
  <2> HIDE DEF k, w, b
  <2>5. Wf(d)
    BY <2>1 DEF Goes
  <2>6. d.rc = "success" /\ d.state = st /\ st # "READ_PAYLOAD"
    BY <1>0, <2>1 DEF ContextIs
  <2>7. Goes(c, w, e)
    <3>1. Goes(d, <<b>>, e)
      BY <2>2, <2>5, <2>6, GoesByte
    <3> HIDE DEF e
    <3> QED BY <2>1, <2>2, <2>3, <3>1, GoesOn
  <2>8. /\ e = IF st = "READ_EXT_LEN_16" THEN read_ext_len_16(d, b) ELSE read_ext_len_64(d, b)
        /\ ContextIs(u, st, fin, op, m, 0, w, <<>>, <<>>, p, r, o)
    <3>1. /\ e = IF st = "READ_EXT_LEN_16" THEN read_ext_len_16(d, b) ELSE read_ext_len_64(d, b)
          /\ ContextIs(u, st, fin, op, m, 0, Append(k, b), <<>>, <<>>, p, r, o)
      BY <2>1, <2>2, ByteOfExt
    <3> QED BY <2>2, <3>1
  <2>9. u.ext = w
    BY <2>8 DEF ContextIs
  <2>10. /\ read_ext_len_16(d, b) = IF Len(u.ext) < 2 THEN u ELSE KnownLen(u, math_ws_ntoh(u.ext))
         /\ read_ext_len_64(d, b) =
              IF Len(u.ext) < 8 THEN u
              ELSE IF KnownLen(u, math_ws_ntoh(u.ext)).len > MaxFrame
                   THEN Fail(KnownLen(u, math_ws_ntoh(u.ext)), EMSGSIZE)
                   ELSE KnownLen(u, math_ws_ntoh(u.ext))
    BY DEF read_ext_len_16, read_ext_len_64
  <2> HIDE DEF u, e
  <2>11. ASSUME i + 1 < N PROVE Ok(i + 1)
    <3>1. e = u
      BY <1>0, <2>3, <2>8, <2>9, <2>10, <2>11
    <3> QED BY <2>7, <2>8, <3>1 DEF w
  <2>12. ASSUME i + 1 = N
         PROVE  ContextIs(e, IF m THEN "READ_MASK" ELSE "READ_PAYLOAD", fin, op, m, n,
                          bs, <<>>, <<>>, p, r, o)
    <3> DEFINE q == KnownLen(u, n)
    <3>1. ContextIs(q, IF m THEN "READ_MASK" ELSE "READ_PAYLOAD", fin, op, m, n, bs,
                    <<>>, <<>>, p, r, o)
      BY <2>4, <2>8, <2>12, KnownCtx
    <3>2. q.len = n
      BY <3>1 DEF ContextIs
    <3>3. math_ws_ntoh(u.ext) = n /\ Len(u.ext) = N
      BY <1>0, <2>3, <2>4, <2>9, <2>12
    <3> HIDE DEF q
    <3>4. CASE st = "READ_EXT_LEN_16"
      <4>1. ~(Len(u.ext) < 2)
        BY <1>0, <3>3, <3>4
      <4>2. e = q
        BY <2>8, <2>10, <3>3, <3>4, <4>1 DEF q
      <4> QED BY <3>1, <4>2
    <3>5. CASE st = "READ_EXT_LEN_64"
      <4>0. n \in Nat /\ ~(n > MaxFrame)
        BY <1>0, <3>5, NtohNat
      <4>1. ~(Len(u.ext) < 8) /\ st # "READ_EXT_LEN_16"
        BY <1>0, <3>3, <3>5
      <4>2. e = q
        BY <2>8, <2>10, <3>2, <3>3, <4>0, <4>1 DEF q
      <4> QED BY <3>1, <4>2
    <3> QED BY <1>0, <3>4, <3>5
  <2> QED BY <2>4, <2>7, <2>11, <2>12
<1> HIDE DEF Ok
<1>3. ASSUME st = "READ_EXT_LEN_16"
      PROVE  \E d : /\ ContextIs(d, IF m THEN "READ_MASK" ELSE "READ_PAYLOAD", fin, op,
                                 m, n, bs, <<>>, <<>>, p, r, o)
                    /\ Goes(c, bs, d)
  <2>0. N = 2
    BY <1>0, <1>3
  <2>1. Ok(1)
    BY <1>1, <1>2, <2>0, 0 \in 0 .. 1, 0 + 1 = 1
  <2> QED BY <1>2, <2>0, <2>1, 1 \in 0 .. 1, 1 + 1 = 2
<1>4. ASSUME st = "READ_EXT_LEN_64"
      PROVE  \E d : /\ ContextIs(d, IF m THEN "READ_MASK" ELSE "READ_PAYLOAD", fin, op,
                                 m, n, bs, <<>>, <<>>, p, r, o)
                    /\ Goes(c, bs, d)
  <2>0. N = 8 /\ N - 1 = 7
    BY <1>0, <1>4
  <2> DEFINE T == {i \in 0 .. 7 : ~Ok(i)}
  <2>1. ASSUME T # {} PROVE FALSE
    <3>1. PICK i \in T : \A j \in T : i <= j
      BY <2>1, LeastNumber, T \subseteq Nat
    <3>2. CASE i = 0
      BY <1>1, <3>1, <3>2
    <3>3. CASE i # 0
      <4> DEFINE j == i - 1
      <4>1. j \in 0 .. 7 /\ j \notin T /\ j + 1 = i /\ i < 8
        BY <3>1, <3>3
      <4> HIDE DEF j
      <4>2. Ok(j)
        BY <4>1
      <4>3. Ok(i)
        BY <1>2, <2>0, <4>1, <4>2
      <4> QED BY <3>1, <4>3
    <3> QED BY <3>2, <3>3
  <2>2. Ok(7)
    BY <2>1, 7 \in 0 .. 7
  <2> QED BY <1>2, <2>0, <2>2, 7 \in 0 .. 7, 7 + 1 = 8
<1>5. \E d : /\ ContextIs(d, IF m THEN "READ_MASK" ELSE "READ_PAYLOAD", fin, op, m, n,
                          bs, <<>>, <<>>, p, r, o)
             /\ Goes(c, bs, d)
  BY <1>0, <1>3, <1>4
<1> QED BY <1>5 DEF HasLength, AfterLen, fin, op, p, r, o

(* The length field of f, for each of the three length forms.              *)
LEMMA LenBytesIs ==
  ASSUME NEW f \in Frames, NEW big, big = IF f.key # <<>> THEN 128 ELSE 0
  PROVE  /\ f.width = 7 => LenBytes(f) = <<big + Len(f.payload)>>
         /\ f.width = 16 => LenBytes(f) = <<big + 126>> \o TwoBytes(Len(f.payload))
         /\ f.width = 64 => LenBytes(f) = <<big + 127>> \o EightBytes(Len(f.payload))
<1>1. big = IF f.key = <<>> THEN 0 ELSE 128
  OBVIOUS
<1>2. 7 # 16 /\ 7 # 64 /\ 16 # 64
  OBVIOUS
<1> QED BY <1>1, <1>2, Zenon DEF LenBytes

(* A 16-bit length is read as it was written.                              *)
LEMMA TwoBytesRead ==
  ASSUME MaxFrame \in Nat, NEW n \in Nat, n <= 65535
  PROVE  math_ws_ntoh(TwoBytes(n)) = n
<1> DEFINE x == n \div 256
           y == n % 256
<1>2. x \in Byte /\ y \in Byte /\ n = x * 256 + y
  BY SMT DEF Byte
<1>3. TwoBytes(n) = <<x, y>>
  BY SMT DEF TwoBytes
<1> HIDE DEF x, y
<1>4. 256 * x + y = x * 256 + y
  BY <1>2, SMT DEF Byte
<1>5. math_ws_ntoh(<<x, y>>) = 256 * x + y
  BY <1>2, NtohTwo, SMT
<1> QED BY <1>2, <1>3, <1>4, <1>5, SMT

(* So is a 64-bit one within the limit.                                    *)
LEMMA EightBytesRead ==
  ASSUME MaxFrame \in Nat, NEW n \in Nat, n <= 4294967295, n <= MaxFrame
  PROVE  math_ws_ntoh(EightBytes(n)) = n
<1> DEFINE a == n \div 16777216
           b == (n \div 65536) % 256
           e == (n \div 256) % 256
           g == n % 256
           n1 == n \div 65536
           n2 == n \div 256
<1>1. /\ a \in Byte /\ b \in Byte /\ e \in Byte /\ g \in Byte
      /\ n1 \in Nat /\ n1 = a * 256 + b
      /\ n2 \in Nat /\ n2 = n1 * 256 + e
      /\ n = n2 * 256 + g
  BY SMT DEF Byte
<1>2. EightBytes(n) = <<0, 0, 0, 0, a, b, e, g>>
  BY SMT DEF EightBytes
<1> HIDE DEF a, b, e, g, n1, n2
<1>3. math_ws_ntoh(<<0, 0, 0, 0, a, b, e, g>>) = n
  BY <1>1, NtohEight, SMT
<1> QED BY <1>2, <1>3, SMT

(* m tells whether f is masked.                                            *)
Keyed(f, m) == m \in BOOLEAN /\ (m <=> f.key # <<>>)

(* The length field of f leads to a context that knows its length.         *)
LEMMA LenGoes ==
  ASSUME MaxFrame \in Nat, NEW f \in Frames, NEW n, n = Len(f.payload),
         f.width = 64 => n <= MaxFrame,
         NEW m, Keyed(f, m), NEW g,
         NEW c, Wf(c), HasOpcode(c, f, g)
  PROVE  \E d : \E ext \in Seq(Byte) : HasLength(d, f, m, n, ext, g) /\ Goes(c, LenBytes(f), d)
<1> DEFINE big == MaskBit(m)
<1>1. m \in BOOLEAN /\ big \in {0, 128} /\ <<>> \in Seq(Byte)
  BY EmptySeq DEF Keyed, MaskBit
<1>2. /\ n \in Nat /\ f.width \in {7, 16, 64}
      /\ f.width = 7 => n <= 125
      /\ f.width = 16 => n <= 65535
      /\ f.width = 64 => n <= 4294967295
  BY LengthIs, SMT
<1>3. \A b \in Byte : Turn(c, <<b>>) = read_len(c, b) /\ Goes(c, <<b>>, Turn(c, <<b>>)) /\ <<b>> \in Seq(Byte)
  <2>1. c.state = "READ_LEN" /\ c.rc = "success"
    BY DEF HasOpcode, ContextIs
  <2>3. \A b \in Byte : Head(<<b>>) = b /\ <<b>> \in Seq(Byte)
    OBVIOUS
  <2>4. \A b \in Byte : Turn(c, <<b>>) = read_len(c, b)
    BY <2>1, <2>3 DEF Turn
  <2> QED BY <2>1, <2>3, <2>4, GoesByte
<1>4. /\ f.width = 7 => HasLength(read_len(c, big + n), f, m, n, <<>>, g)
      /\ f.width = 16 => InLength(read_len(c, big + 126), f, "READ_EXT_LEN_16", m, <<>>, g)
      /\ f.width = 64 => InLength(read_len(c, big + 127), f, "READ_EXT_LEN_64", m, <<>>, g)
  BY <1>1, LenRead
<1>5. /\ f.width = 7 => LenBytes(f) = <<big + n>>
      /\ f.width = 16 => LenBytes(f) = <<big + 126>> \o TwoBytes(n)
      /\ f.width = 64 => LenBytes(f) = <<big + 127>> \o EightBytes(n)
  <2>1. big = IF f.key # <<>> THEN 128 ELSE 0
    BY DEF MaskBit, Keyed
  <2> HIDE DEF big
  <2> QED BY <2>1, LenBytesIs
<1> HIDE DEF big
<1>6. CASE f.width = 7
  <2>1. big + n \in Byte
    <3>1. \A x \in Nat : \A y \in {0, 128} : x <= 125 => y + x \in Byte
      BY DEF Byte
    <3>2. n \in Nat /\ n <= 125
      BY <1>2, <1>6, SMT
    <3> QED BY <1>1, <3>1, <3>2, Zenon
  <2> DEFINE b == big + n
             d == Turn(c, <<b>>)
  <2>2. HasLength(d, f, m, n, <<>>, g) /\ Goes(c, <<b>>, d)
    BY <1>3, <1>4, <1>6, <2>1
  <2> HIDE DEF d
  <2> QED BY <1>1, <1>5, <1>6, <2>2
<1>7. ASSUME NEW st \in ExtStates, NEW b \in Byte, NEW bs \in Seq(Byte),
             InLength(read_len(c, b), f, st, m, <<>>, g),
             Len(bs) = ExtLen(st), math_ws_ntoh(bs) = n, LenTaken(st, n),
             LenBytes(f) = <<b>> \o bs
      PROVE  \E d : \E ext \in Seq(Byte) : HasLength(d, f, m, n, ext, g) /\ Goes(c, LenBytes(f), d)
  <2> DEFINE d == Turn(c, <<b>>)
  <2>1. InLength(d, f, st, m, <<>>, g) /\ Goes(c, <<b>>, d) /\ <<b>> \in Seq(Byte)
    BY <1>3, <1>7
  <2> HIDE DEF d
  <2>2. Wf(d)
    BY <2>1 DEF Goes
  <2>3. PICK e : HasLength(e, f, m, n, bs, g) /\ Goes(d, bs, e)
    BY <1>1, <1>7, <2>1, <2>2, ExtGoes
  <2>4. Goes(c, <<b>> \o bs, e)
    BY <1>7, <2>1, <2>3, GoesOn
  <2> QED BY <1>7, <2>3, <2>4
<1>8. CASE f.width = 16
  <2> DEFINE b == big + 126
             bs == TwoBytes(n)
             st == "READ_EXT_LEN_16"
  <2>1. b \in Byte
    BY <1>1, SMT DEF Byte
  <2>2. n <= 65535
    BY <1>2, <1>8, SMT
  <2>3. bs \in Seq(Byte) /\ Len(bs) = 2 /\ math_ws_ntoh(bs) = n
    BY <1>2, <2>2, TwoBytesAre, TwoBytesRead, SMT
  <2>4. st \in ExtStates /\ ExtLen(st) = 2 /\ LenTaken(st, n)
    BY DEF ExtStates, ExtLen, LenTaken
  <2>5. InLength(read_len(c, b), f, st, m, <<>>, g) /\ LenBytes(f) = <<b>> \o bs
    BY <1>4, <1>5, <1>8, Zenon
  <2> HIDE DEF b, bs, st
  <2>6. Len(bs) = ExtLen(st)
    BY <2>3, <2>4
  <2> QED BY <1>7, <2>1, <2>3, <2>4, <2>5, <2>6
<1>9. CASE f.width = 64
  <2> DEFINE b == big + 127
             bs == EightBytes(n)
             st == "READ_EXT_LEN_64"
  <2>1. b \in Byte
    BY <1>1, SMT DEF Byte
  <2>2. n <= 4294967295 /\ n <= MaxFrame
    BY <1>2, <1>9, SMT
  <2>3. bs \in Seq(Byte) /\ Len(bs) = 8 /\ math_ws_ntoh(bs) = n
    BY <1>2, <2>2, EightBytesAre, EightBytesRead, SMT
  <2>4. st \in ExtStates /\ ExtLen(st) = 8 /\ LenTaken(st, n)
    BY <2>2, SMT DEF ExtStates, ExtLen, LenTaken
  <2>5. InLength(read_len(c, b), f, st, m, <<>>, g) /\ LenBytes(f) = <<b>> \o bs
    BY <1>4, <1>5, <1>9, Zenon
  <2> HIDE DEF b, bs, st
  <2>6. Len(bs) = ExtLen(st)
    BY <2>3, <2>4
  <2> QED BY <1>7, <2>1, <2>3, <2>4, <2>5, <2>6
<1> QED BY <1>2, <1>6, <1>8, <1>9, SMT

(* Between two frames.                                                     *)
Ready(c, g) ==
  ContextIs(c, "READ_OPCODE", FALSE, 0, FALSE, 0, <<>>, <<>>, <<>>, g.parts, g.room, g.out)

(* The first byte of f leads to a context that knows its opcode.           *)
LEMMA OpcodeGoes ==
  ASSUME MaxFrame \in Nat, NEW f \in Frames, f.rsv = 0, f.op < 8 \/ f.fin, NEW g,
         NEW c, Wf(c), Ready(c, g)
  PROVE  \E d : HasOpcode(d, f, g) /\ Goes(c, <<First(f)>>, d)
<1> DEFINE b == First(f)
           d == Turn(c, <<b>>)
           p == g.parts
           r == g.room
           o == g.out
<1>1. b \in Byte /\ <<b>> # <<>> /\ Head(<<b>>) = b
  BY FirstIs
<1>2. ContextIs(c, "READ_OPCODE", FALSE, 0, FALSE, 0, <<>>, <<>>, <<>>, p, r, o)
  BY DEF Ready
<1> HIDE DEF p, r, o
<1>3. c.state = "READ_OPCODE" /\ c.rc = "success"
  BY <1>2 DEF ContextIs
<1>4. d = read_opcode(c, b)
  BY <1>1, <1>3 DEF Turn
<1>5. ContextIs(read_opcode(c, b), "READ_LEN", f.fin, f.op, FALSE, 0, <<>>, <<>>, <<>>, p, r, o)
  BY <1>2, OpcodeRead
<1> HIDE DEF b
<1>6. Goes(c, <<b>>, d)
  BY <1>1, <1>3, GoesByte
<1>7. HasOpcode(d, f, g)
  BY <1>4, <1>5 DEF HasOpcode, p, r, o
<1> HIDE DEF d
<1> QED BY <1>6, <1>7 DEF b

(* The whole header of f leads to its payload.                             *)
LEMMA HeaderGoes ==
  ASSUME MaxFrame \in Nat, NEW f \in Frames, f.rsv = 0, f.op < 8 \/ f.fin,
         NEW n, n = Len(f.payload), f.width = 64 => n <= MaxFrame,
         NEW m, Keyed(f, m), NEW g, NEW c, Wf(c), Ready(c, g)
  PROVE  \E d : \E ext \in Seq(Byte) :
           /\ HasKey(d, f, m, n, ext, f.key, g)
           /\ Goes(c, <<First(f)>> \o LenBytes(f) \o f.key, d)
<1>0. /\ <<First(f)>> \in Seq(Byte) /\ LenBytes(f) \in Seq(Byte)
      /\ f.key = <<>> \/ (f.key \in Seq(Byte) /\ Len(f.key) = 4)
      /\ n \in Nat /\ m \in BOOLEAN
  BY FirstIs, LenBytesAre DEF Frames, Keyed
<1>1. PICK d1 : HasOpcode(d1, f, g) /\ Goes(c, <<First(f)>>, d1)
  BY OpcodeGoes
<1>2. Wf(d1)
  BY <1>1 DEF Goes
<1>3. PICK d2 : \E ext \in Seq(Byte) : HasLength(d2, f, m, n, ext, g) /\ Goes(d1, LenBytes(f), d2)
  BY <1>1, <1>2, LenGoes
<1>4. PICK ext \in Seq(Byte) : HasLength(d2, f, m, n, ext, g) /\ Goes(d1, LenBytes(f), d2)
  BY <1>3
<1> DEFINE h == <<First(f)>> \o LenBytes(f)
<1>5. Goes(c, h, d2)
  BY <1>0, <1>1, <1>4, GoesOn
<1>6. h \in Seq(Byte) /\ Wf(d2)
  BY <1>0, <1>4, ConcatProperties DEF Goes
<1> HIDE DEF h
<1>7. CASE m
  <2>1. f.key \in Seq(Byte) /\ Len(f.key) = 4
    BY <1>0, <1>7 DEF Keyed
  <2>2. PICK d : HasKey(d, f, m, n, ext, f.key, g) /\ Goes(d2, f.key, d)
    BY <1>0, <1>4, <1>6, <1>7, <2>1, KeyGoes
  <2>3. Goes(c, h \o f.key, d)
    BY <1>5, <1>6, <2>1, <2>2, GoesOn
  <2> QED BY <2>2, <2>3 DEF h
<1>8. CASE ~m
  <2>1. f.key = <<>> /\ h \o <<>> = h
    BY <1>6, <1>8, ConcatEmptySeq DEF Keyed
  <2>2. AfterLen(m) = "READ_PAYLOAD"
    BY <1>8 DEF AfterLen
  <2>3. HasKey(d2, f, m, n, ext, f.key, g)
    BY <1>4, <2>1, <2>2 DEF HasLength, HasKey
  <2>4. Goes(c, h \o f.key, d2)
    BY <1>5, <2>1
  <2> QED BY <2>3, <2>4 DEF h
<1> QED BY <1>0, <1>7, <1>8

-----------------------------------------------------------------------------
(* Masking twice.                                                          *)

Bit(x, w) == (x \div w) % 2

(* A byte is the sum of its eight bits.                                    *)
LEMMA BitsOf ==
  ASSUME NEW x \in Byte
  PROVE  x = Bit(x, 1) + 2 * Bit(x, 2) + 4 * Bit(x, 4) + 8 * Bit(x, 8)
               + 16 * Bit(x, 16) + 32 * Bit(x, 32) + 64 * Bit(x, 64) + 128 * Bit(x, 128)
BY SMTT(60) DEF Byte, Bit

(* The bits of a sum of eight bits are those bits.                         *)
LEMMA BitsFrom ==
  ASSUME NEW b1 \in 0 .. 1, NEW b2 \in 0 .. 1, NEW b3 \in 0 .. 1, NEW b4 \in 0 .. 1,
         NEW b5 \in 0 .. 1, NEW b6 \in 0 .. 1, NEW b7 \in 0 .. 1, NEW b8 \in 0 .. 1,
         NEW x, x = b1 + 2 * b2 + 4 * b3 + 8 * b4 + 16 * b5 + 32 * b6 + 64 * b7 + 128 * b8
  PROVE  /\ Bit(x, 1) = b1 /\ Bit(x, 2) = b2 /\ Bit(x, 4) = b3 /\ Bit(x, 8) = b4
         /\ Bit(x, 16) = b5 /\ Bit(x, 32) = b6 /\ Bit(x, 64) = b7 /\ Bit(x, 128) = b8
BY SMTT(60) DEF Bit

(* Adding the same bit twice changes no parity.                            *)
LEMMA Parity ==
  ASSUME NEW x \in Nat, NEW p \in Nat, NEW q \in Nat, x % 2 = (p + q) % 2
  PROVE  (x + q) % 2 = p % 2
BY SMTT(60)

(* Masking a byte twice with one key gives it back.                        *)
LEMMA XorTwice ==
  ASSUME NEW a \in Byte, NEW k \in Byte
  PROVE  Xor(Xor(a, k), k) = a
<1> DEFINE bit(y, w) == (y \div w + k \div w) % 2
           W == {1, 2, 4, 8, 16, 32, 64, 128}
           x == Xor(a, k)
<1>1. x \in Byte
  BY XorByte
<1>2. \A w \in W : bit(a, w) \in 0 .. 1 /\ a \div w \in Nat /\ k \div w \in Nat /\ x \div w \in Nat
  <2> HIDE DEF x
  <2> QED BY <1>1, SMT DEF Byte
<1>3. x = bit(a, 1) + 2 * bit(a, 2) + 4 * bit(a, 4) + 8 * bit(a, 8)
            + 16 * bit(a, 16) + 32 * bit(a, 32) + 64 * bit(a, 64) + 128 * bit(a, 128)
  BY DEF Xor
<1>4. \A w \in W : Bit(x, w) = bit(a, w)
  <2> HIDE DEF x, bit
  <2> QED BY <1>2, <1>3, BitsFrom
<1>5. \A w \in W : bit(x, w) = Bit(a, w)
  <2> SUFFICES ASSUME NEW w \in W PROVE bit(x, w) = Bit(a, w)
    OBVIOUS
  <2>1. (x \div w) % 2 = (a \div w + k \div w) % 2
    BY <1>4 DEF Bit
  <2> DEFINE y == x \div w
             p == a \div w
             q == k \div w
  <2>2. y \in Nat /\ p \in Nat /\ q \in Nat /\ y % 2 = (p + q) % 2
    BY <1>2, <2>1
  <2> HIDE DEF y, p, q
  <2>3. (y + q) % 2 = p % 2
    BY <2>2, Parity
  <2> QED BY <2>3 DEF y, p, q, Bit
<1>6. Xor(x, k) = bit(x, 1) + 2 * bit(x, 2) + 4 * bit(x, 4) + 8 * bit(x, 8)
            + 16 * bit(x, 16) + 32 * bit(x, 32) + 64 * bit(x, 64) + 128 * bit(x, 128)
  <2> HIDE DEF x
  <2> QED BY DEF Xor
<1> HIDE DEF x, bit
<1> QED BY <1>5, <1>6, BitsOf DEF x

-----------------------------------------------------------------------------
(* The payload of a frame.                                                 *)

(* A frame without its end, as read_payload leaves it to frame_complete.    *)
HasFrame(c, f, m, n, ext, g) ==
  ContextIs(c, "READ_PAYLOAD", f.fin, f.op, m, n, ext, f.key, f.payload, g.parts, g.room, g.out)

(* Sequences with the same items are the same.                             *)
LEMMA SameBytes ==
  ASSUME NEW s \in Seq(Byte), NEW t \in Seq(Byte), Len(s) = Len(t),
         \A i \in 1 .. Len(s) : s[i] = t[i]
  PROVE  s = t
OBVIOUS

(* The parser unmasks what the sender masked.                              *)
LEMMA UnmaskedOnWire ==
  ASSUME NEW f \in Frames, NEW m, Keyed(f, m), NEW n, NEW ext, NEW g,
         NEW c, Wf(c), HasKey(c, f, m, n, ext, f.key, g)
  PROVE  Unmasked(c, OnWire(f)) = f.payload
<1> DEFINE w == OnWire(f)
           p == f.payload
<1>0. c.payload = <<>> /\ c.mask = m /\ c.key = f.key /\ c.state = "READ_PAYLOAD"
  BY DEF HasKey, ContextIs
<1>1. /\ p \in Seq(Byte) /\ w \in Seq(Byte) /\ Len(w) = Len(p) /\ Len(p) \in Nat
      /\ f.key = <<>> \/ (f.key \in Seq(Byte) /\ Len(f.key) = 4)
  BY OnWireIs DEF Frames
<1>2. Unmasked(c, w) \in Seq(Byte) /\ Len(Unmasked(c, w)) = Len(w)
  BY <1>0, <1>1, UnmaskedIs
<1>3. DOMAIN w = 1 .. Len(p) /\ DOMAIN p = 1 .. Len(p)
  BY <1>1
<1>4. CASE ~m
  <2>1. w = p
    BY <1>4 DEF OnWire, Keyed
  <2>2. \A i \in 1 .. Len(p) : Unmasked(c, w)[i] = p[i]
    <3> HIDE DEF w
    <3> QED BY <1>0, <1>3, <1>4, <2>1 DEF Unmasked
  <2> HIDE DEF w, p
  <2> QED BY <1>1, <1>2, <2>2, SameBytes DEF p, w
<1>5. CASE m
  <2>1. f.key # <<>>
    BY <1>5 DEF Keyed
  <2>2. ASSUME NEW i \in 1 .. Len(p)
        PROVE  Unmasked(c, w)[i] = p[i]
    <3> DEFINE j == ((i - 1) % 4) + 1
               k == f.key
    <3>1. j \in 1 .. 4 /\ ((Len(<<>>) + i - 1) % 4) + 1 = j
      OBVIOUS
    <3>2. w[i] = Xor(p[i], k[j])
      BY <1>3, <2>1 DEF OnWire, ws_apply_mask
    <3> HIDE DEF w
    <3>3. Unmasked(c, w)[i] = Xor(w[i], k[((Len(<<>>) + i - 1) % 4) + 1])
      BY <1>0, <1>3, <1>5 DEF Unmasked
    <3> HIDE DEF j
    <3>4. Unmasked(c, w)[i] = Xor(Xor(p[i], k[j]), k[j])
      BY <3>1, <3>2, <3>3
    <3>5. p[i] \in Byte
      BY <1>1
    <3>6. k \in Seq(Byte) /\ Len(k) = 4
      BY <1>1, <2>1
    <3>7. k[j] \in Byte
      <4> HIDE DEF k
      <4>1. j \in 1 .. Len(k)
        BY <3>1, <3>6
      <4> QED BY <3>6, <4>1, ElementOfSeq
    <3> QED BY <3>4, <3>5, <3>7, XorTwice
  <2> HIDE DEF w, p
  <2> QED BY <1>1, <1>2, <2>2, SameBytes DEF p, w
<1>6. m \in BOOLEAN
  BY DEF Keyed
<1> QED BY <1>4, <1>5, <1>6

WithPayload(c, f) == [c EXCEPT !.payload = f.payload]

(* The turn that reads it, and what is left then.                          *)
PayloadEnds(c, f, t) ==
  /\ Turn(c, OnWire(f) \o t) =
       IF frame_complete(WithPayload(c, f)).rc # "success"
       THEN frame_complete(WithPayload(c, f))
       ELSE next_frame(frame_complete(WithPayload(c, f)))
  /\ Rest(c, OnWire(f) \o t) = t

(* The whole payload, whatever follows, but something has to.              *)
LEMMA PayloadRead ==
  ASSUME NEW f \in Frames, NEW m, Keyed(f, m), NEW n, n = Len(f.payload), NEW ext, NEW g,
         NEW c, Wf(c), HasKey(c, f, m, n, ext, f.key, g),
         NEW t \in Seq(Byte)
  PROVE  HasFrame(WithPayload(c, f), f, m, n, ext, g) /\ PayloadEnds(c, f, t)
<1> DEFINE w == OnWire(f)
           s == w \o t
           u == Unmasked(c, SubSeq(s, 1, PayloadPart(c, s)))
           d == [c EXCEPT !.payload = @ \o u]
<1>1. /\ f.payload \in Seq(Byte) /\ w \in Seq(Byte) /\ Len(w) = n /\ n \in Nat
      /\ s \in Seq(Byte) /\ Len(s) = n + Len(t) /\ Len(t) \in Nat
  <2>1. f.payload \in Seq(Byte)
    BY DEF Frames
  <2>2. w \in Seq(Byte) /\ Len(w) = n
    BY OnWireIs
  <2> HIDE DEF w
  <2>3. s = w \o t
    OBVIOUS
  <2>4. s \in Seq(Byte) /\ Len(s) = Len(w) + Len(t)
    BY <2>2, <2>3, ConcatProperties
  <2>5. n \in Nat /\ Len(t) \in Nat
    BY <2>1
  <2> QED BY <2>1, <2>2, <2>4, <2>5
<1>2. c.payload = <<>> /\ c.len = n /\ c.state = "READ_PAYLOAD" /\ Len(<<>>) = 0
  BY DEF HasKey, ContextIs
<1>3. PayloadPart(c, s) = n
  <2> HIDE DEF w
  <2>1. n - 0 \in Int /\ Len(s) \in Int /\ n - 0 <= Len(s) /\ n - 0 = n
    BY <1>1
  <2>2. Min({n - 0, Len(s)}) = n
    BY <2>1, MinIs
  <2> QED BY <1>2, <2>2 DEF PayloadPart
<1>4. SubSeq(s, 1, n) = w /\ SubSeq(s, n + 1, Len(s)) = t
  <2>1. w \in Seq(Byte) /\ Len(w) = n /\ n \in 0 .. Len(w)
    BY <1>1
  <2> HIDE DEF w
  <2>2. SubSeq(w, 1, Len(w)) = w /\ SubSeq(t, 1, Len(t)) = t
    BY <2>1, SubSeqFull
  <2>3. s = w \o t
    BY DEF w
  <2>4. /\ SubSeq(w \o t, 1, Len(w)) = SubSeq(w, 1, Len(w))
        /\ SubSeq(w \o t, Len(w) + 0 + 1, Len(w \o t)) = SubSeq(t, 0 + 1, Len(t))
    <3>1. Len(w) \in 0 .. Len(w) /\ 0 \in 0 .. Len(t)
      BY <1>1, <2>1
    <3> QED BY <2>1, <3>1, JoinedIs
  <2>5. Len(w) + 0 + 1 = n + 1 /\ 0 + 1 = 1
    BY <1>1, <2>1
  <2> QED BY <2>1, <2>2, <2>3, <2>4, <2>5
<1>5. u = f.payload
  BY <1>3, <1>4, UnmaskedOnWire
<1>6. <<>> \o u = f.payload
  BY <1>1, <1>5, ConcatEmptySeq
<1> HIDE DEF u
<1>7. HasFrame(d, f, m, n, ext, g)
  <2> DEFINE p == g.parts
             r == g.room
             o == g.out
             y == f.payload
  <2>1. ContextIs(c, "READ_PAYLOAD", f.fin, f.op, m, n, ext, f.key, <<>>, p, r, o) /\ <<>> \o u = y
    BY <1>6 DEF HasKey
  <2>2. d = [c EXCEPT !.payload = y]
    BY <1>2, <2>1
  <2> HIDE DEF d, p, r, o, y
  <2>3. ContextIs(d, "READ_PAYLOAD", f.fin, f.op, m, n, ext, f.key, y, p, r, o)
    BY <2>1, <2>2, PutCtx
  <2> QED BY <2>3 DEF HasFrame, p, r, o, y
<1>8. d.payload = f.payload /\ d.len = n
  BY <1>7 DEF HasFrame, ContextIs
<1>9. read_payload(c, s) = IF Len(d.payload) < d.len THEN d
                          ELSE IF frame_complete(d).rc # "success" THEN frame_complete(d)
                               ELSE next_frame(frame_complete(d))
  BY DEF read_payload, u
<1>10. Turn(c, s) = read_payload(c, s)
  BY <1>2 DEF Turn
<1>11. Rest(c, s) = t
  BY <1>2, <1>3, <1>4 DEF Rest, Taken
<1>13. d = WithPayload(c, f)
  BY <1>2, <1>6 DEF WithPayload
<1> HIDE DEF d
<1>12. ~(Len(d.payload) < d.len)
  BY <1>1, <1>8
<1> QED BY <1>7, <1>9, <1>10, <1>11, <1>12, <1>13 DEF PayloadEnds

-----------------------------------------------------------------------------
(* The room for fragments.                                                 *)

(* The doubling that data_fragment asks for, as it is computed.             *)
Doubles(n, S, f) ==
  f = [r \in S |-> f[r]] /\ \A r \in S : f[r] = IF r >= n THEN r ELSE f[2 * r]

(* The doubling of a room exists as a function,                            *)
LEMMA DoublesExist ==
  ASSUME NEW n \in Nat
  PROVE  \E f : Doubles(n, Nat \ {0}, f)
<1> DEFINE S(m) == {r \in Nat \ {0} : r >= n - m}
           T == {m \in 0 .. n : ~ \E f : Doubles(n, S(m), f)}
<1>1. ASSUME T # {} PROVE FALSE
  <2>1. PICK m \in T : \A i \in T : m <= i
    BY <1>1, LeastNumber, T \subseteq Nat
  <2>2. CASE m = 0
    <3> DEFINE f == [r \in S(0) |-> r]
    <3>1. \A r \in S(0) : f[r] = r /\ r >= n
      OBVIOUS
    <3>2. Doubles(n, S(0), f)
      <4>1. f = [r \in S(0) |-> f[r]]
        OBVIOUS
      <4> HIDE DEF f
      <4> QED BY <3>1, <4>1 DEF Doubles
    <3> QED BY <2>1, <2>2, <3>2
  <2>3. CASE m # 0
    <3> DEFINE i == m - 1
               z == n - m
    <3>1. i \in 0 .. n /\ i \notin T /\ z \in Nat /\ m \in Nat
      BY <2>1, <2>3
    <3>2. PICK g : Doubles(n, S(i), g)
      BY <3>1
    <3> DEFINE f == [r \in S(m) |-> IF r = z THEN g[2 * r] ELSE g[r]]
    <3>3. ASSUME NEW r \in S(m)
          PROVE  f[r] = IF r >= n THEN r ELSE f[2 * r]
      <4>1. r \in Nat \ {0} /\ r >= z /\ 2 * r \in Nat \ {0} /\ 2 * r > z
        BY <3>1
      <4>2. 2 * r \in S(i) /\ 2 * r \in S(m) /\ 2 * r # z
        BY <2>1, <3>1, <4>1
      <4>3. CASE r = z
        <5>1. ~(r >= n)
          BY <2>1, <2>3, <4>3
        <5>2. f[r] = g[2 * r] /\ f[2 * r] = g[2 * r]
          BY <4>2, <4>3
        <5> QED BY <5>1, <5>2
      <4>4. CASE r # z
        <5>1. r \in S(i)
          BY <2>1, <3>1, <4>1, <4>4
        <5>2. f[r] = g[r] /\ f[2 * r] = g[2 * r]
          BY <4>2, <4>4
        <5>3. g[r] = IF r >= n THEN r ELSE g[2 * r]
          BY <3>2, <5>1 DEF Doubles
        <5> QED BY <5>2, <5>3
      <4> QED BY <4>3, <4>4
    <3>4. Doubles(n, S(m), f)
      <4>1. f = [r \in S(m) |-> f[r]]
        OBVIOUS
      <4> HIDE DEF f
      <4> QED BY <3>3, <4>1 DEF Doubles
    <3> QED BY <2>1, <3>4
  <2> QED BY <2>2, <2>3
<1>2. S(n) = Nat \ {0} /\ n \in 0 .. n
  OBVIOUS
<1>3. \E f : Doubles(n, S(n), f)
  BY <1>1, <1>2
<1> QED BY <1>2, <1>3

(* is what Doubled computes,                                               *)
LEMMA DoubledIs ==
  ASSUME NEW n \in Nat
  PROVE  \E f : /\ Doubles(n, Nat \ {0}, f)
                /\ \A room \in Nat \ {0} : Doubled(room, n) = f[room]
<1> DEFINE F(f) == [r \in Nat \ {0} |-> IF r >= n THEN r ELSE f[2 * r]]
           f == CHOOSE f : f = F(f)
<1>1. PICK g : Doubles(n, Nat \ {0}, g)
  BY DoublesExist
<1>3. f = F(f)
  <2>0. g = [r \in Nat \ {0} |-> g[r]]
    BY <1>1 DEF Doubles
  <2>1. \A r \in Nat \ {0} : g[r] = IF r >= n THEN r ELSE g[2 * r]
    BY <1>1 DEF Doubles
  <2>2. g = F(g)
    BY <2>0, <2>1, Zenon
  <2> QED BY <2>2
<1>4. \A room \in Nat \ {0} : Doubled(room, n) = f[room]
  BY DEF Doubled
<1> HIDE DEF f
<1>5. Doubles(n, Nat \ {0}, f)
  <2>1. \A r \in Nat \ {0} : f[r] = IF r >= n THEN r ELSE f[2 * r]
    BY <1>3
  <2>2. f = [r \in Nat \ {0} |-> f[r]]
    BY <1>3
  <2> QED BY <2>1, <2>2 DEF Doubles
<1> QED BY <1>4, <1>5

NewRoom(r, n) == IF n <= r THEN r ELSE Doubled(IF r = 0 THEN FirstRoom ELSE 2 * r, n)

Rooms(D) ==
  /\ D \subseteq FirstRoom .. MaxFrame /\ FirstRoom \in D /\ MaxFrame \in D
  /\ \A r \in D \ {MaxFrame} : 2 * r \in D

(* ends below twice what is needed, and stays among the doublings.         *)
LEMMA DoubledFits ==
  ASSUME NEW n \in Nat, NEW z \in Nat \ {0}
  PROVE  /\ Doubled(z, n) \in Nat
         /\ Doubled(z, n) = z \/ Doubled(z, n) <= 2 * n - 2
         /\ \A D \in SUBSET Nat :
              z \in D /\ (\A r \in D : r < n => 2 * r \in D) => Doubled(z, n) \in D
<1> DEFINE P(x, v) == /\ v \in Nat
                      /\ v = x \/ v <= 2 * n - 2
                      /\ \A D \in SUBSET Nat :
                           x \in D /\ (\A r \in D : r < n => 2 * r \in D) => v \in D
<1>1. PICK f : /\ Doubles(n, Nat \ {0}, f)
               /\ \A room \in Nat \ {0} : Doubled(room, n) = f[room]
  BY DoubledIs
<1>2. \A x \in Nat \ {0} : f[x] = IF x >= n THEN x ELSE f[2 * x]
  BY <1>1 DEF Doubles
<1>3. \A x \in Nat : x >= n => P(x, x)
  OBVIOUS
<1>4. \A x \in Nat \ {0} : x < n => P(2 * x, 2 * x) /\ (2 * x <= 2 * n - 2) /\ 2 * x \in Nat \ {0}
  OBVIOUS
<1>5. \A x \in Nat \ {0} : \A v : x < n /\ P(2 * x, v) => P(x, v)
  <2> SUFFICES ASSUME NEW x \in Nat \ {0}, NEW v, x < n, P(2 * x, v)
               PROVE  P(x, v)
    OBVIOUS
  <2>1. v \in Nat /\ (v = 2 * x \/ v <= 2 * n - 2) /\ 2 * x <= 2 * n - 2
    BY <1>4
  <2>2. v <= 2 * n - 2
    BY <2>1
  <2>3. ASSUME NEW D \in SUBSET Nat, x \in D, \A r \in D : r < n => 2 * r \in D
        PROVE  v \in D
    <3>1. 2 * x \in D
      BY <2>3
    <3> QED BY <2>3, <3>1
  <2> QED BY <2>1, <2>2, <2>3
<1> HIDE DEF P
<1> DEFINE T == {i \in 0 .. n : \E x \in Nat \ {0} : x + i >= n /\ ~P(x, f[x])}
<1>6. ASSUME T # {} PROVE FALSE
  <2>1. PICK i \in T : \A j \in T : i <= j
    BY <1>6, LeastNumber, T \subseteq Nat
  <2>2. PICK x \in Nat \ {0} : x + i >= n /\ ~P(x, f[x])
    BY <2>1
  <2>3. CASE x >= n
    BY <1>2, <1>3, <2>2, <2>3
  <2>4. CASE x < n
    <3>1. ~P(2 * x, f[2 * x])
      BY <1>2, <1>5, <2>2, <2>4
    <3> DEFINE j == i - 1
    <3>2. j \in 0 .. n /\ 2 * x + j >= n /\ 2 * x \in Nat \ {0} /\ j < i
      BY <2>1, <2>2, <2>4
    <3> HIDE DEF j
    <3> QED BY <2>1, <3>1, <3>2
  <2> QED BY <2>2, <2>3, <2>4
<1>7. P(z, f[z])
  <2>1. n \in 0 .. n /\ z + n >= n
    OBVIOUS
  <2> QED BY <1>6, <2>1
<1>8. P(z, Doubled(z, n))
  BY <1>1, <1>7
<1> QED BY <1>8 DEF P

(* The room a message gets is within the limit when Fits says so.          *)
LEMMA NewRoomIs ==
  ASSUME MaxFrame \in Nat, FirstRoom \in 1 .. MaxFrame,
         NEW r \in Nat, NEW n \in Nat
  PROVE  /\ NewRoom(r, n) \in Nat
         /\ 2 * n <= MaxFrame + 1 /\ ~(n <= r) => NewRoom(r, n) <= MaxFrame
         /\ \A D : Rooms(D) /\ (r = 0 \/ r \in D) /\ n <= MaxFrame =>
              /\ NewRoom(r, n) = 0 \/ NewRoom(r, n) \in D
              /\ NewRoom(r, n) <= MaxFrame
<1> DEFINE z == IF r = 0 THEN FirstRoom ELSE 2 * r
<1>1. z \in Nat \ {0}
  OBVIOUS
<1>2. NewRoom(r, n) = IF n <= r THEN r ELSE Doubled(z, n)
  BY DEF NewRoom
<1>3. /\ Doubled(z, n) \in Nat
      /\ Doubled(z, n) = z \/ Doubled(z, n) <= 2 * n - 2
      /\ \A D \in SUBSET Nat :
           z \in D /\ (\A x \in D : x < n => 2 * x \in D) => Doubled(z, n) \in D
  <2> HIDE DEF z
  <2> QED BY <1>1, DoubledFits
<1>4. ~(n <= r) => z <= 2 * n - 2 \/ z <= MaxFrame
  OBVIOUS
<1>5. ASSUME NEW D, Rooms(D), r = 0 \/ r \in D, n <= MaxFrame
      PROVE  NewRoom(r, n) = 0 \/ NewRoom(r, n) \in D
  <2>1. CASE n <= r
    BY <1>2, <1>5, <2>1
  <2>2. CASE ~(n <= r)
    <3>1. D \in SUBSET Nat /\ \A x \in D : x < n => 2 * x \in D
      BY <1>5 DEF Rooms
    <3>2. z \in D
      BY <1>5, <2>2 DEF Rooms
    <3> HIDE DEF z
    <3> QED BY <1>2, <1>3, <2>2, <3>1, <3>2
  <2> QED BY <2>1, <2>2
<1>6. \A D : Rooms(D) => \A x \in D : x <= MaxFrame
  BY DEF Rooms
<1>7. \A D : Rooms(D) /\ (r = 0 \/ r \in D) /\ n <= MaxFrame =>
              /\ NewRoom(r, n) = 0 \/ NewRoom(r, n) \in D
              /\ NewRoom(r, n) <= MaxFrame
  BY <1>5, <1>6
<1> HIDE DEF z
<1>8. 2 * n <= MaxFrame + 1 /\ ~(n <= r) => NewRoom(r, n) <= MaxFrame
  BY <1>1, <1>2, <1>3, <1>4
<1> QED BY <1>2, <1>3, <1>7, <1>8

-----------------------------------------------------------------------------
(* The end of a frame.                                                     *)

Carry(parts, room, out) == [parts |-> parts, room |-> room, out |-> out]

(* What is carried over when the frame that c holds is complete.            *)
Leaves(c, g) == frame_complete(c).rc = "success" /\ Ready(next_frame(frame_complete(c)), g)

(* A frame that gives one event leaves that event at the end of out.       *)
LEMMA TellLeaves ==
  ASSUME NEW f, NEW m, NEW n, NEW ext, NEW g, NEW c, HasFrame(c, f, m, n, ext, g),
         NEW event, frame_complete(c) = Tell(c, event)
  PROVE  Leaves(c, Carry(g.parts, g.room, Append(g.out, event)))
<1> DEFINE p == g.parts
           r == g.room
           o == g.out
           q == Append(o, event)
           h == Carry(p, r, q)
<1>1. h.parts = p /\ h.room = r /\ h.out = q
  BY DEF Carry
<1>2. ContextIs(c, "READ_PAYLOAD", f.fin, f.op, m, n, ext, f.key, f.payload, p, r, o)
  BY DEF HasFrame
<1> HIDE DEF h, p, r, o
<1>3. ContextIs(Tell(c, event), "READ_PAYLOAD", f.fin, f.op, m, n, ext, f.key, f.payload, p, r, q)
  BY <1>2, PutCtx
<1> HIDE DEF q
<1> DEFINE e == Tell(c, event)
<1>4. ContextIs(e, "READ_PAYLOAD", f.fin, f.op, m, n, ext, f.key, f.payload, p, r, q)
  BY <1>3
<1> HIDE DEF e
<1>5. ContextIs(next_frame(e), "READ_OPCODE", FALSE, 0, FALSE, 0, <<>>, <<>>, <<>>, p, r, q)
  BY <1>4, PutCtx
<1>6. e.rc = "success"
  BY <1>4 DEF ContextIs
<1>7. Ready(next_frame(e), h)
  BY <1>1, <1>5 DEF Ready
<1>8. Leaves(c, h)
  BY <1>6, <1>7 DEF Leaves, e
<1> QED BY <1>8 DEF h, p, r, o, q

(* A control frame is told, a close with its status.                        *)
LEMMA ControlLeaves ==
  ASSUME MaxFrame \in Nat, NEW f \in Frames, f.op \in {8, 9, 10},
         NEW m, NEW n, n = Len(f.payload), NEW ext, NEW g, NEW c, HasFrame(c, f, m, n, ext, g)
  PROVE  Leaves(c, Carry(g.parts, g.room,
                         Append(g.out,
                           IF f.op = 8
                           THEN Closed(IF Len(f.payload) < 2 THEN 1005
                                       ELSE f.payload[1] * 256 + f.payload[2])
                           ELSE Message(f.op, f.payload))))
<1>1. c.opcode = f.op /\ c.len = n /\ c.payload = f.payload
  BY DEF HasFrame, ContextIs
<1>2. f.payload \in Seq(Byte) /\ n \in Nat
  BY DEF Frames
<1>3. CASE f.op = 8
  <2> DEFINE status == IF Len(f.payload) < 2 THEN 1005 ELSE f.payload[1] * 256 + f.payload[2]
  <2>1. (IF c.len >= 2 THEN math_ws_ntoh(SubSeq(c.payload, 1, 2)) ELSE 1005) = status
    <3>1. CASE n < 2
      <4>1. ~(c.len >= 2)
        BY <1>1, <1>2, <3>1
      <4> QED BY <3>1, <4>1
    <3>2. CASE n >= 2
      <4> DEFINE x == f.payload[1]
                 y == f.payload[2]
      <4>1. x \in Byte /\ y \in Byte
        BY <1>2, <3>2
      <4>2. SubSeq(f.payload, 1, 2) = <<x, y>>
        <5> DEFINE u == SubSeq(f.payload, 1, 2)
        <5>1. u \in Seq(Byte) /\ Len(u) = 2 /\ u[1] = x /\ u[2] = y
          BY <1>2, <3>2
        <5>2. <<x, y>> \in Seq(Byte) /\ Len(<<x, y>>) = 2 /\ <<x, y>>[1] = x /\ <<x, y>>[2] = y
          BY <4>1
        <5> HIDE DEF u, x, y
        <5>3. \A i \in 1 .. Len(u) : u[i] = <<x, y>>[i]
          BY <5>1, <5>2
        <5> QED BY <5>1, <5>2, <5>3, SameBytes DEF u
      <4> HIDE DEF x, y
      <4>3. math_ws_ntoh(<<x, y>>) = 256 * x + y
        BY <4>1, NtohTwo
      <4>4. 256 * x + y = x * 256 + y
        BY <4>1 DEF Byte
      <4>5. c.len >= 2 /\ ~(Len(f.payload) < 2)
        BY <1>1, <1>2, <3>2
      <4> QED BY <1>1, <4>2, <4>3, <4>4, <4>5 DEF x, y
    <3> QED BY <1>2, <3>1, <3>2
  <2>2. frame_complete(c) = Tell(c, Closed(IF c.len >= 2 THEN math_ws_ntoh(SubSeq(c.payload, 1, 2)) ELSE 1005))
    BY <1>1, <1>3 DEF frame_complete, CLOSE, PING
  <2> HIDE DEF status
  <2>3. frame_complete(c) = Tell(c, Closed(status))
    BY <2>1, <2>2
  <2>4. Leaves(c, Carry(g.parts, g.room, Append(g.out, Closed(status))))
    BY <2>3, TellLeaves
  <2> QED BY <1>3, <2>4 DEF status
<1>4. CASE f.op # 8
  <2>1. frame_complete(c) = Tell(c, Message(f.op, f.payload))
    BY <1>1, <1>4 DEF frame_complete, CLOSE, PING
  <2>2. Leaves(c, Carry(g.parts, g.room, Append(g.out, Message(f.op, f.payload))))
    BY <2>1, TellLeaves
  <2> QED BY <1>4, <2>2
<1> QED BY <1>3, <1>4

FinalRoom(f, g) ==
  IF g.parts = <<>> THEN g.room ELSE Max({g.room, Len(g.parts \o f.payload)})

(* The room after a final frame is a number.                               *)
LEMMA FinalRoomNat ==
  ASSUME NEW f \in Frames, NEW g, g.parts \in Seq(Byte), g.room \in Nat
  PROVE  FinalRoom(f, g) \in Nat
<1> DEFINE whole == g.parts \o f.payload
<1>1. f.payload \in Seq(Byte)
  BY DEF Frames
<1>2. whole \in Seq(Byte)
  BY <1>1, ConcatProperties
<1> HIDE DEF whole
<1>3. Len(whole) \in Nat
  BY <1>2
<1>4. Max({g.room, Len(whole)}) \in Nat
  BY <1>3, MaxIs
<1> QED BY <1>4 DEF FinalRoom, whole

(* The last frame of a message, with whatever came before it.               *)
LEMMA FinalLeaves ==
  ASSUME NEW f \in Frames, f.op \notin {8, 9, 10}, f.fin,
         NEW m, NEW n, NEW ext, NEW g, g.parts \in Seq(Byte), g.room \in Nat,
         NEW c, HasFrame(c, f, m, n, ext, g)
  PROVE  Leaves(c, Carry(<<>>, FinalRoom(f, g), Append(g.out, Message(f.op, g.parts \o f.payload))))
<1>1. c.opcode = f.op /\ c.fin = f.fin /\ c.payload = f.payload /\ c.parts = g.parts /\ c.room = g.room
  BY DEF HasFrame, ContextIs
<1>2. f.payload \in Seq(Byte)
  BY DEF Frames
<1>3. frame_complete(c) = final_frame(c)
  BY <1>1 DEF frame_complete, CLOSE, PING
<1>4. CASE g.parts = <<>>
  <2>1. g.parts \o f.payload = f.payload
    BY <1>2, <1>4, ConcatEmptySeq
  <2>2. frame_complete(c) = Tell(c, Message(f.op, f.payload))
    BY <1>1, <1>3, <1>4 DEF final_frame
  <2>3. Leaves(c, Carry(g.parts, g.room, Append(g.out, Message(f.op, f.payload))))
    BY <2>2, TellLeaves
  <2> QED BY <1>4, <2>1, <2>3 DEF FinalRoom
<1>5. CASE g.parts # <<>>
  <2> DEFINE whole == g.parts \o f.payload
             event == Message(f.op, whole)
             d == Tell(c, event)
             p == g.parts
             r == g.room
             o == g.out
             q == Append(o, event)
             room == Max({r, Len(whole)})
             e == [d EXCEPT !.parts = <<>>, !.room = room]
             h == Carry(<<>>, room, q)
  <2>0. h.parts = <<>> /\ h.room = room /\ h.out = q
    BY DEF Carry
  <2>2. ContextIs(c, "READ_PAYLOAD", f.fin, f.op, m, n, ext, f.key, f.payload, p, r, o)
    BY DEF HasFrame
  <2> HIDE DEF p, o, r
  <2>3. ContextIs(d, "READ_PAYLOAD", f.fin, f.op, m, n, ext, f.key, f.payload, p, r, q)
    <3> HIDE DEF event
    <3> QED BY <2>2, PutCtx
  <2>4. frame_complete(c) = e
    <3>1. d.room = c.room /\ c.room = r
      BY <2>2, <2>3 DEF ContextIs
    <3>2. final_frame(c) = [d EXCEPT !.parts = <<>>, !.room = Max({@, Len(whole)})]
      BY <1>1, <1>5 DEF final_frame
    <3> HIDE DEF d, whole
    <3> QED BY <1>3, <3>1, <3>2
  <2> HIDE DEF d, room, q, h
  <2>5. ContextIs(e, "READ_PAYLOAD", f.fin, f.op, m, n, ext, f.key, f.payload, <<>>, room, q)
    BY <2>3 DEF ContextIs, Fields
  <2>6. e.rc = "success"
    BY <2>5 DEF ContextIs
  <2> HIDE DEF e
  <2>7. ContextIs(next_frame(e), "READ_OPCODE", FALSE, 0, FALSE, 0, <<>>, <<>>, <<>>, <<>>, room, q)
    BY <2>5, PutCtx
  <2>8. Ready(next_frame(e), h)
    BY <2>0, <2>7 DEF Ready
  <2>9. Leaves(c, h)
    BY <2>4, <2>6, <2>8 DEF Leaves
  <2>10. FinalRoom(f, g) = room
    BY <1>5 DEF FinalRoom, room, r
  <2> QED BY <2>9, <2>10 DEF h, q, o
<1> QED BY <1>4, <1>5

(* A frame that others follow.                                             *)
LEMMA FragmentLeaves ==
  ASSUME NEW f \in Frames, f.op \notin {8, 9, 10}, ~f.fin, NEW m, NEW n, NEW ext, NEW g,
         NEW k, k = Len(g.parts) + n, NEW room, room = NewRoom(g.room, k),
         f.op # 0 => g.parts = <<>>, ~(k > g.room /\ room > MaxFrame),
         NEW c, HasFrame(c, f, m, n, ext, g)
  PROVE  Leaves(c, Carry(g.parts \o f.payload, room, g.out))
<1> DEFINE p == g.parts
           r == g.room
           o == g.out
           q == p \o f.payload
           e == [c EXCEPT !.parts = q, !.room = room]
           h == Carry(q, room, o)
<1>1. /\ c.opcode = f.op /\ c.fin = f.fin /\ c.payload = f.payload /\ c.parts = p
      /\ c.room = r /\ c.len = n
  BY DEF HasFrame, ContextIs
<1>2. frame_complete(c) = data_fragment(c)
  BY <1>1 DEF frame_complete, CLOSE, PING
<1>3. data_fragment(c) = [c EXCEPT !.parts = @ \o c.payload, !.room = room]
  <2>1. room = IF k <= c.room THEN c.room ELSE Doubled(IF c.room = 0 THEN FirstRoom ELSE 2 * c.room, k)
    BY <1>1 DEF NewRoom
  <2>2. k = Len(c.parts) + c.len
    BY <1>1
  <2>3. ~(c.opcode # CONTINUATION /\ c.parts # <<>>) /\ ~(k > c.room /\ room > MaxFrame)
    BY <1>1 DEF CONTINUATION
  <2> QED BY <2>1, <2>2, <2>3 DEF data_fragment
<1>4. frame_complete(c) = e
  BY <1>1, <1>2, <1>3
<1>5. h.parts = q /\ h.room = room /\ h.out = o
  BY DEF Carry
<1>6. ContextIs(c, "READ_PAYLOAD", f.fin, f.op, m, n, ext, f.key, f.payload, p, r, o)
  BY DEF HasFrame
<1> HIDE DEF p, r, o, q, h
<1>7. ContextIs(e, "READ_PAYLOAD", f.fin, f.op, m, n, ext, f.key, f.payload, q, room, o)
  BY <1>6 DEF ContextIs, Fields
<1>8. e.rc = "success"
  BY <1>7 DEF ContextIs
<1> HIDE DEF e
<1>9. ContextIs(next_frame(e), "READ_OPCODE", FALSE, 0, FALSE, 0, <<>>, <<>>, <<>>, q, room, o)
  BY <1>7, PutCtx
<1>10. Ready(next_frame(e), h)
  BY <1>5, <1>9 DEF Ready
<1>11. Leaves(c, h)
  BY <1>4, <1>8, <1>10 DEF Leaves
<1> QED BY <1>11 DEF h, q, p, o

-----------------------------------------------------------------------------
(* A whole frame.                                                          *)

(* What the parser accepts of one frame.                                   *)
Acceptable(f) ==
  /\ f \in Frames /\ f.rsv = 0
  /\ f.op < 8 \/ f.fin
  /\ f.width = 64 => Len(f.payload) <= MaxFrame

(* Whatever the header of f came as, its end leaves h.                      *)
FrameLeaves(f, g, h) ==
  \A c, m, ext : HasFrame(c, f, m, Len(f.payload), ext, g) => Leaves(c, h)

(* A key is bytes.                                                         *)
LEMMA KeySeq ==
  ASSUME NEW f \in Frames
  PROVE  f.key \in Seq(Byte)
<1>1. f.key = <<>> \/ f.key \in Seq(Byte)
  BY DEF Frames
<1> QED BY <1>1, EmptySeq

(* A frame is complete once its last byte was fed, but a frame without      *)
(* payload only when another byte comes.                                   *)
LEMMA FrameGoes ==
  ASSUME MaxFrame \in Nat, NEW f, Acceptable(f), NEW g, NEW h, NEW c, Wf(c), Ready(c, g),
         FrameLeaves(f, g, h)
  PROVE  \E e : /\ Wf(e) /\ Ready(e, h)
                /\ \A t \in Seq(Byte) : (f.payload # <<>> \/ t # <<>>) =>
                     ws_parser_feed(c, Bytes(f) \o t) = ws_parser_feed(e, t)
<1> DEFINE n == Len(f.payload)
           m == f.key # <<>>
           w == OnWire(f)
           head == <<First(f)>> \o LenBytes(f) \o f.key
<1>0. f \in Frames /\ f.rsv = 0 /\ (f.op < 8 \/ f.fin) /\ (f.width = 64 => n <= MaxFrame)
  BY DEF Acceptable
<1>1. Keyed(f, m)
  BY DEF Keyed
<1> HIDE DEF m
<1>2. PICK d1 : \E ext \in Seq(Byte) : HasKey(d1, f, m, n, ext, f.key, g) /\ Goes(c, head, d1)
  BY <1>0, <1>1, HeaderGoes
<1>3. PICK ext \in Seq(Byte) : HasKey(d1, f, m, n, ext, f.key, g) /\ Goes(c, head, d1)
  BY <1>2
<1>4. Wf(d1) /\ d1.state = "READ_PAYLOAD" /\ d1.rc = "success"
  BY <1>3 DEF Goes, HasKey, ContextIs
<1> DEFINE d == WithPayload(d1, f)
           e == next_frame(frame_complete(d))
<1>5. ASSUME NEW t \in Seq(Byte)
      PROVE  /\ HasFrame(d, f, m, n, ext, g)
             /\ Turn(d1, w \o t) = IF frame_complete(d).rc # "success" THEN frame_complete(d) ELSE e
             /\ Rest(d1, w \o t) = t
  <2>1. HasFrame(WithPayload(d1, f), f, m, n, ext, g) /\ PayloadEnds(d1, f, t)
    <3>1. n = Len(f.payload)
      OBVIOUS
    <3>2. f \in Frames /\ Keyed(f, m) /\ Wf(d1) /\ HasKey(d1, f, m, n, ext, f.key, g)
      BY <1>0, <1>1, <1>3, <1>4
    <3> HIDE DEF n, d, e, w
    <3> QED BY <3>1, <3>2, PayloadRead
  <2> QED BY <2>1 DEF PayloadEnds
<1>6. frame_complete(d).rc = "success" /\ Ready(e, h)
  <2>1. HasFrame(d, f, m, n, ext, g)
    BY <1>5, EmptySeq
  <2>2. Leaves(d, h)
    BY <2>1 DEF FrameLeaves
  <2> QED BY <2>2 DEF Leaves
<1> HIDE DEF d, e
<1>7. \A t \in Seq(Byte) : Turn(d1, w \o t) = e /\ Rest(d1, w \o t) = t
  BY <1>5, <1>6
<1>8. w \in Seq(Byte) /\ Len(w) = Len(f.payload) /\ f.payload \in Seq(Byte)
  BY <1>0, OnWireIs DEF Frames
<1> HIDE DEF w
<1>9. Wf(e)
  <2> DEFINE t == <<0>>
  <2>1. t \in Seq(Byte) /\ w \o t \in Seq(Byte) /\ w \o t # <<>>
    <3>1. 0 \in Byte
      BY DEF Byte
    <3> QED BY <1>8, <3>1
  <2> HIDE DEF t
  <2>2. Wf(Turn(d1, w \o t))
    BY <1>4, <2>1, TurnWf
  <2> QED BY <1>7, <2>1, <2>2
<1>10. head \in Seq(Byte)
  <2>1. <<First(f)>> \in Seq(Byte) /\ LenBytes(f) \in Seq(Byte)
    BY <1>0, FirstIs, LenBytesAre
  <2>2. f.key \in Seq(Byte)
    BY <1>0, KeySeq
  <2> DEFINE u == <<First(f)>> \o LenBytes(f)
  <2>3. u \in Seq(Byte)
    BY <2>1, ConcatProperties
  <2> HIDE DEF u
  <2>4. u \o f.key \in Seq(Byte)
    BY <2>2, <2>3, ConcatProperties
  <2> QED BY <2>4 DEF u
<1>11. Bytes(f) = head \o w
  BY DEF Bytes, w
<1> HIDE DEF head
<1>12. ASSUME NEW t \in Seq(Byte), f.payload # <<>> \/ t # <<>>
       PROVE  ws_parser_feed(c, Bytes(f) \o t) = ws_parser_feed(e, t)
  <2>1. w \o t \in Seq(Byte) /\ w \o t # <<>>
    <3>1. Len(w) # 0 \/ Len(t) # 0
      BY <1>8, <1>12, EmptySeq
    <3>2. w \o t \in Seq(Byte) /\ Len(w \o t) = Len(w) + Len(t)
      BY <1>8, ConcatProperties
    <3>4. Len(w) \in Nat /\ Len(t) \in Nat
      BY <1>8
    <3>3. Len(w \o t) # 0
      BY <3>1, <3>2, <3>4
    <3> QED BY <3>2, <3>3, EmptySeq
  <2>2. (head \o w) \o t = head \o (w \o t)
    BY <1>8, <1>10, Associative
  <2>3. ws_parser_feed(c, head \o (w \o t)) = ws_parser_feed(d1, w \o t)
    BY <1>3, <2>1 DEF Goes
  <2>4. ws_parser_feed(d1, w \o t) = ws_parser_feed(Turn(d1, w \o t), Rest(d1, w \o t))
    BY <1>4, <2>1, FeedGoesOn
  <2> QED BY <1>7, <1>11, <2>2, <2>3, <2>4
<1> QED BY <1>6, <1>9, <1>12

(* A frame without payload waits, unreported, for another byte.            *)
LEMMA FrameWaits ==
  ASSUME MaxFrame \in Nat, NEW f, Acceptable(f), f.payload = <<>>,
         NEW g, NEW c, Wf(c), Ready(c, g)
  PROVE  /\ ws_parser_feed(c, Bytes(f)).rc = "success"
         /\ ws_parser_feed(c, Bytes(f)).out = g.out
<1> DEFINE n == Len(f.payload)
           m == f.key # <<>>
           head == <<First(f)>> \o LenBytes(f) \o f.key
<1>0. f \in Frames /\ f.rsv = 0 /\ (f.op < 8 \/ f.fin) /\ (f.width = 64 => n <= MaxFrame)
  BY DEF Acceptable
<1>1. Keyed(f, m)
  BY DEF Keyed
<1> HIDE DEF m
<1>2. PICK d : \E ext \in Seq(Byte) : HasKey(d, f, m, n, ext, f.key, g) /\ Goes(c, head, d)
  BY <1>0, <1>1, HeaderGoes
<1>3. Goes(c, head, d) /\ d.rc = "success" /\ d.out = g.out
  BY <1>2 DEF HasKey, ContextIs
<1>4. OnWire(f) = <<>>
  <2>1. OnWire(f) \in Seq(Byte) /\ Len(OnWire(f)) = 0
    BY <1>0, OnWireIs
  <2> QED BY <2>1, EmptySeq
<1>5. head \in Seq(Byte)
  <2>1. <<First(f)>> \in Seq(Byte) /\ LenBytes(f) \in Seq(Byte)
    BY <1>0, FirstIs, LenBytesAre
  <2>2. f.key \in Seq(Byte)
    BY <1>0, KeySeq
  <2> DEFINE u == <<First(f)>> \o LenBytes(f)
  <2>3. u \in Seq(Byte)
    BY <2>1, ConcatProperties
  <2> HIDE DEF u
  <2>4. u \o f.key \in Seq(Byte)
    BY <2>2, <2>3, ConcatProperties
  <2> QED BY <2>4 DEF u
<1>6. Bytes(f) = head \o <<>>
  BY <1>4 DEF Bytes
<1> HIDE DEF head
<1>7. Bytes(f) = head
  BY <1>5, <1>6, ConcatEmptySeq
<1> QED BY <1>3, <1>5, <1>7, GoesThere

-----------------------------------------------------------------------------
(* What a stream means, frame by frame.                                    *)

Ends(s, k) == {j \in 1 .. k - 1 : EndsMessage(s[j])}

(* No frame ends a message before the first one.                           *)
LEMMA BeforeStarts == ASSUME NEW s PROVE Before(s, 1) = 0
<1>1. {0} \cup Ends(s, 1) = {0}
  BY DEF Ends
<1>2. \E x \in {0} : \A y \in {0} : x >= y
  OBVIOUS
<1>3. Max({0}) = 0
  BY <1>2 DEF Max
<1> QED BY <1>1, <1>3 DEF Before, Ends

(* The last frame that ended a message, one frame later.                   *)
LEMMA BeforeGrows ==
  ASSUME NEW s, NEW k \in Nat
  PROVE  Before(s, k + 2) = IF EndsMessage(s[k + 1]) THEN k + 1 ELSE Before(s, k + 1)
<1> DEFINE A == {0} \cup Ends(s, k + 1)
           B == {0} \cup Ends(s, k + 2)
<1>1. Before(s, k + 1) = Max(A) /\ Before(s, k + 2) = Max(B)
  BY DEF Before, Ends
<1>2. B \subseteq 0 .. k + 1 /\ k + 1 - 1 = k /\ k + 2 - 1 = k + 1
  BY DEF Ends
<1>3. B = IF EndsMessage(s[k + 1]) THEN A \cup {k + 1} ELSE A
  BY <1>2 DEF Ends
<1> HIDE DEF A, B
<1>4. CASE EndsMessage(s[k + 1])
  <2>1. k + 1 \in B /\ \A y \in B : k + 1 >= y
    BY <1>2, <1>3, <1>4
  <2>2. Max(B) \in B /\ Max(B) >= k + 1
    BY <2>1 DEF Max
  <2>3. Max(B) = k + 1
    <3> DEFINE x == Max(B)
    <3>1. x \in 0 .. k + 1 /\ x >= k + 1
      BY <1>2, <2>2
    <3> HIDE DEF x
    <3>2. x = k + 1
      BY <3>1
    <3> QED BY <3>2 DEF x
  <2> QED BY <1>1, <1>4, <2>3
<1>5. CASE ~EndsMessage(s[k + 1])
  BY <1>1, <1>3, <1>5
<1> QED BY <1>4, <1>5

Piece(f) == IF Control(f) THEN <<>> ELSE f.payload

(* No frames, no data.                                                     *)
LEMMA DataStarts ==
  ASSUME NEW s, NEW i \in Nat
  PROVE  Data(s, i, i) = <<>>
<1>1. [j \in 1 .. i - i |-> Piece(s[i + j])] = <<>>
  OBVIOUS
<1> QED BY <1>1 DEF Data, FlattenSeq, Piece

(* One frame more adds its piece to the data of a message.                 *)
LEMMA DataGrows ==
  ASSUME NEW s \in Seq(Frames), NEW k \in Nat, k < Len(s), NEW i \in 0 .. k
  PROVE  /\ Data(s, i, k) \in Seq(Byte)
         /\ Data(s, i, k + 1) = Data(s, i, k) \o Piece(s[k + 1])
<1> DEFINE l == k - i
           P(j) == Piece(s[i + j])
           p == [j \in 1 .. l |-> P(j)]
           q == [j \in 1 .. l + 1 |-> P(j)]
<1>0. l \in Nat /\ k + 1 - i = l + 1 /\ i + (l + 1) = k + 1
  OBVIOUS
<1>1. \A j \in 1 .. l + 1 : s[i + j] \in Frames
  OBVIOUS
<1>2. \A j \in 1 .. l + 1 : P(j) \in Seq(Byte)
  <2>1. \A f \in Frames : f.payload \in Seq(Byte)
    BY DEF Frames
  <2> QED BY <1>1, <2>1, EmptySeq DEF Piece
<1> HIDE DEF l, P
<1>3. p \in Seq(Seq(Byte)) /\ Len(p) = l
  BY <1>0, <1>2
<1>4. q \in Seq(Seq(Byte)) /\ Len(q) = l + 1
  BY <1>0, <1>2
<1>5. (\A j \in 1 .. Len(p) : p[j] = q[j]) /\ q[Len(q)] = Piece(s[k + 1])
  BY <1>0, <1>3, <1>4 DEF P
<1>6. Data(s, i, k) = FlattenSeq(p) /\ Data(s, i, k + 1) = FlattenSeq(q)
  BY <1>0 DEF Data, Piece, P, l
<1> HIDE DEF p, q
<1>7. FlattenSeq(p) \in Seq(Byte) /\ FlattenSeq(q) = FlattenSeq(p) \o q[Len(q)]
  <2>1. Len(q) = Len(p) + 1
    BY <1>3, <1>4
  <2> QED BY <1>3, <1>4, <1>5, <2>1, FlattenGrows
<1> QED BY <1>5, <1>6, <1>7

(* No frames mean nothing,                                                 *)
LEMMA MeaningsStart ==
  ASSUME NEW s
  PROVE  Meanings(s, 0) = <<>>
<1>1. [j \in 1 .. 0 |-> IF s[j].fin THEN <<Meaning(s, j)>> ELSE <<>>] = <<>>
  OBVIOUS
<1> QED BY <1>1 DEF Meanings, FlattenSeq

(* and one more adds its meaning when it is final.                         *)
LEMMA MeaningsGrow ==
  ASSUME NEW s, NEW k \in Nat
  PROVE  Meanings(s, k + 1) = IF s[k + 1].fin THEN Append(Meanings(s, k), Meaning(s, k + 1))
                              ELSE Meanings(s, k)
<1> DEFINE S == {Meaning(s, j) : j \in Nat}
           P(j) == IF s[j].fin THEN <<Meaning(s, j)>> ELSE <<>>
           p == [j \in 1 .. k |-> P(j)]
           q == [j \in 1 .. k + 1 |-> P(j)]
<1>1. \A j \in Nat : <<Meaning(s, j)>> \in Seq(S)
  OBVIOUS
<1>2. \A j \in Nat : P(j) \in Seq(S)
  BY <1>1, EmptySeq
<1> HIDE DEF P
<1>3. p \in Seq(Seq(S)) /\ Len(p) = k
  BY <1>2
<1>4. q \in Seq(Seq(S)) /\ Len(q) = k + 1
  BY <1>2
<1>5. (\A j \in 1 .. Len(p) : p[j] = q[j]) /\ q[Len(q)] = P(k + 1)
  BY <1>3, <1>4
<1>6. Meanings(s, k) = FlattenSeq(p) /\ Meanings(s, k + 1) = FlattenSeq(q)
  BY DEF Meanings, P
<1> HIDE DEF p, q, S
<1>7. FlattenSeq(p) \in Seq(S) /\ FlattenSeq(q) = FlattenSeq(p) \o q[Len(q)]
  <2>1. Len(q) = Len(p) + 1
    BY <1>3, <1>4
  <2> QED BY <1>3, <1>4, <1>5, <2>1, FlattenGrows
<1>8. CASE s[k + 1].fin
  <2>1. P(k + 1) = <<Meaning(s, k + 1)>>
    BY <1>8 DEF P
  <2> DEFINE x == Meaning(s, k + 1)
             u == FlattenSeq(p)
  <2>2. x \in S
    BY DEF S
  <2> HIDE DEF x, u
  <2>3. u \o <<x>> = Append(u, x)
    <3>1. u \in Seq(S)
      BY <1>7 DEF u
    <3> QED BY <2>2, <3>1
  <2> QED BY <1>5, <1>6, <1>7, <1>8, <2>1, <2>3 DEF x, u
<1>9. CASE ~s[k + 1].fin
  <2>1. P(k + 1) = <<>>
    BY <1>9 DEF P
  <2> QED BY <1>5, <1>6, <1>7, <1>9, <2>1, ConcatEmptySeq
<1> QED BY <1>8, <1>9

-----------------------------------------------------------------------------
(* A stream of frames, one after the other.                                *)

Fragmented(s, k) == EndsMessage(s[k]) /\ SoFar(s, k) # s[k].payload

(* What is carried over behind the first k frames: the data of the message  *)
(* that is not complete, a room for it, and what was told.                 *)
Carried(s, k, g) ==
  /\ Before(s, k + 1) \in 0 .. k
  /\ g.parts \in Seq(Byte) /\ g.parts = Data(s, Before(s, k + 1), k)
  /\ g.parts # <<>> => \E j \in Before(s, k + 1) + 1 .. k : ~Control(s[j])
  /\ g.out = Meanings(s, k)
  /\ g.room \in Nat
  /\ (\A j \in 1 .. k : ~Fragmented(s, j)) => \A D : Rooms(D) => g.room = 0 \/ g.room \in D

(* Before the first frame nothing is carried.                              *)
LEMMA CarriedStarts ==
  ASSUME NEW s
  PROVE  Carried(s, 0, Carry(<<>>, 0, <<>>))
<1> DEFINE g == Carry(<<>>, 0, <<>>)
<1>1. g.parts = <<>> /\ g.room = 0 /\ g.out = <<>>
  BY DEF Carry
<1>2. Before(s, 0 + 1) = 0
  BY BeforeStarts
<1>3. Data(s, 0, 0) = <<>> /\ Meanings(s, 0) = <<>> /\ <<>> \in Seq(Byte)
  BY DataStarts, MeaningsStart, EmptySeq
<1> HIDE DEF g
<1>4. Carried(s, 0, g)
  BY <1>1, <1>2, <1>3 DEF Carried
<1> QED BY <1>4 DEF g

(* The step behind frame k + 1, kind by kind.                               *)
FrameCarries(s, k, g, h) ==
  /\ Carried(s, k + 1, h)
  /\ FrameLeaves(s[k + 1], g, h)

(* A control frame carries the message on and reports its own event.       *)
LEMMA ControlCarried ==
  ASSUME MaxFrame \in Nat, NEW s \in Seq(Frames), NEW k \in Nat, k < Len(s), NEW g, Carried(s, k, g),
         s[k + 1].op \in {8, 9, 10}, s[k + 1].fin
  PROVE  \E h : FrameCarries(s, k, g, h)
<1> DEFINE f == s[k + 1]
           event == IF f.op = 8
                    THEN Closed(IF Len(f.payload) < 2 THEN 1005
                                ELSE f.payload[1] * 256 + f.payload[2])
                    ELSE Message(f.op, f.payload)
           h == Carry(g.parts, g.room, Append(g.out, event))
<1>1. f \in Frames /\ f.op \in {8, 9, 10} /\ f.fin /\ Control(f) /\ ~EndsMessage(f)
  BY DEF Control, EndsMessage
<1>2. Meaning(s, k + 1) = event
  BY <1>1 DEF Meaning
<1> HIDE DEF event
<1>3. h.parts = g.parts /\ h.room = g.room /\ h.out = Append(g.out, event)
  BY DEF Carry
<1> HIDE DEF h
<1>4. k + 1 + 1 = k + 2 /\ Before(s, k + 2) = Before(s, k + 1) /\ Before(s, k + 1) \in 0 .. k
  BY <1>1, BeforeGrows DEF Carried
<1>5. Data(s, Before(s, k + 1), k + 1) = Data(s, Before(s, k + 1), k)
  <2> DEFINE i == Before(s, k + 1)
  <2>0. i \in 0 .. k
    BY <1>4
  <2> HIDE DEF i
  <2>1. Data(s, i, k + 1) = Data(s, i, k) \o Piece(s[k + 1]) /\ Data(s, i, k) \in Seq(Byte)
    BY <2>0, DataGrows
  <2>2. Piece(s[k + 1]) = <<>>
    BY <1>1 DEF Piece
  <2> QED BY <2>1, <2>2, ConcatEmptySeq DEF i
<1>6. Meanings(s, k + 1) = Append(Meanings(s, k), event)
  BY <1>1, <1>2, MeaningsGrow
<1>7. /\ \A j \in 1 .. k : j \in 1 .. k + 1
      /\ \A j \in Before(s, k + 1) + 1 .. k : j \in Before(s, k + 1) + 1 .. k + 1
      /\ Before(s, k + 1) \in 0 .. k + 1
  BY <1>4
<1>8. Carried(s, k + 1, h)
  <2>1. g.parts # <<>> => \E j \in Before(s, k + 1) + 1 .. k + 1 : ~Control(s[j])
    BY <1>7 DEF Carried
  <2>2. (\A j \in 1 .. k + 1 : ~Fragmented(s, j)) => \A D : Rooms(D) => g.room = 0 \/ g.room \in D
    BY <1>7 DEF Carried
  <2> QED BY <1>3, <1>4, <1>5, <1>6, <1>7, <2>1, <2>2 DEF Carried
<1>9. ASSUME NEW c, NEW m, NEW ext, HasFrame(c, f, m, Len(f.payload), ext, g)
      PROVE  Leaves(c, h)
  BY <1>1, <1>9, ControlLeaves DEF h, event
<1>10. FrameLeaves(f, g, h)
  BY <1>9 DEF FrameLeaves
<1> QED BY <1>8, <1>10 DEF FrameCarries

(* A data frame joins its payload to what was carried.                     *)
LEMMA DataCarried ==
  ASSUME NEW s \in Seq(Frames), NEW k \in Nat, k < Len(s), NEW g, Carried(s, k, g),
         ~Control(s[k + 1])
  PROVE  /\ SoFar(s, k + 1) = g.parts \o s[k + 1].payload
         /\ Data(s, Before(s, k + 1), k + 1) = SoFar(s, k + 1)
         /\ SoFar(s, k + 1) \in Seq(Byte)
         /\ Len(SoFar(s, k + 1)) = Len(g.parts) + Len(s[k + 1].payload)
         /\ Len(g.parts) \in Nat /\ Len(s[k + 1].payload) \in Nat
<1> DEFINE f == s[k + 1]
           i == Before(s, k + 1)
<1>1. i \in 0 .. k /\ g.parts = Data(s, i, k) /\ g.parts \in Seq(Byte)
  BY DEF Carried
<1>2. SoFar(s, k + 1) = Data(s, i, k + 1)
  BY DEF SoFar
<1> HIDE DEF i
<1>3. Data(s, i, k + 1) = Data(s, i, k) \o Piece(f)
  BY <1>1, DataGrows
<1>4. Piece(f) = f.payload
  BY DEF Piece
<1>5. f.payload \in Seq(Byte)
  <2>1. f \in Frames
    OBVIOUS
  <2> QED BY <2>1 DEF Frames
<1>6. SoFar(s, k + 1) = g.parts \o f.payload
  BY <1>1, <1>2, <1>3, <1>4
<1> HIDE DEF f
<1>7. /\ g.parts \o f.payload \in Seq(Byte)
      /\ Len(g.parts \o f.payload) = Len(g.parts) + Len(f.payload)
  BY <1>1, <1>5, ConcatProperties
<1>8. Len(g.parts) \in Nat /\ Len(f.payload) \in Nat
  BY <1>1, <1>5
<1> QED BY <1>2, <1>6, <1>7, <1>8 DEF f, i

(* A final data frame reports the whole message.                           *)
LEMMA FinalCarried ==
  ASSUME NEW s \in Seq(Frames), NEW k \in Nat, k < Len(s), NEW g, Carried(s, k, g),
         s[k + 1].op \in {0, 1, 2}, s[k + 1].fin
  PROVE  \E h : FrameCarries(s, k, g, h)
<1> DEFINE f == s[k + 1]
           whole == g.parts \o f.payload
           event == Message(f.op, whole)
           room == FinalRoom(f, g)
           h == Carry(<<>>, room, Append(g.out, event))
<1>1. f \in Frames /\ f.op \notin {8, 9, 10} /\ f.fin /\ ~Control(f) /\ EndsMessage(f) /\ f.op # 8
  BY DEF Control, EndsMessage
<1>2. SoFar(s, k + 1) = whole /\ Len(whole) = Len(g.parts) + Len(f.payload)
      /\ Len(g.parts) \in Nat /\ Len(f.payload) \in Nat
  BY <1>1, DataCarried
<1>3. Meaning(s, k + 1) = event
  BY <1>1, <1>2 DEF Meaning
<1>4. g.parts \in Seq(Byte) /\ g.room \in Nat
  BY DEF Carried
<1>5. k + 1 + 1 = k + 2 /\ Before(s, k + 2) = k + 1 /\ Data(s, k + 1, k + 1) = <<>> /\ <<>> \in Seq(Byte)
  BY <1>1, BeforeGrows, DataStarts, EmptySeq
<1>6. Meanings(s, k + 1) = Append(Meanings(s, k), event)
  BY <1>1, <1>3, MeaningsGrow
<1>7. ASSUME \A j \in 1 .. k + 1 : ~Fragmented(s, j), NEW D, Rooms(D)
      PROVE  room = 0 \/ room \in D
  <2>1. whole = f.payload
    <3>1. ~Fragmented(s, k + 1)
      BY <1>7
    <3> QED BY <1>1, <1>2, <3>1 DEF Fragmented
  <2>2. Len(g.parts) = 0
    <3> DEFINE a == Len(g.parts)
               b == Len(f.payload)
    <3>1. Len(whole) = a + b /\ a \in Nat /\ b \in Nat
      BY <1>2
    <3>2. Len(whole) = b
      BY <2>1
    <3> HIDE DEF a, b, whole
    <3>3. a = 0
      BY <3>1, <3>2
    <3> QED BY <3>3 DEF a
  <2>3. g.parts = <<>>
    BY <1>4, <2>2, EmptySeq
  <2>4. room = g.room
    BY <2>3 DEF FinalRoom
  <2>5. \A j \in 1 .. k : ~Fragmented(s, j)
    BY <1>7
  <2> QED BY <1>7, <2>4, <2>5 DEF Carried
<1>8. room \in Nat /\ \A c, m, ext : HasFrame(c, f, m, Len(f.payload), ext, g) => Leaves(c, h)
  <2>1. ASSUME NEW c, NEW m, NEW ext, HasFrame(c, f, m, Len(f.payload), ext, g)
        PROVE  Leaves(c, h)
    BY <1>1, <1>4, <2>1, FinalLeaves
  <2>2. room \in Nat
    BY <1>1, <1>4, FinalRoomNat
  <2> QED BY <2>1, <2>2
<1>9. h.parts = <<>> /\ h.room = room /\ h.out = Append(g.out, event)
  BY DEF Carry
<1>11. FrameLeaves(f, g, h)
  BY <1>8 DEF FrameLeaves
<1> HIDE DEF h, event, whole, room, f
<1>10. Carried(s, k + 1, h)
  <2>1. g.out = Meanings(s, k)
    BY DEF Carried
  <2>2. k + 1 \in 0 .. k + 1
    OBVIOUS
  <2> QED BY <1>5, <1>6, <1>7, <1>8, <1>9, <2>1, <2>2 DEF Carried
<1> QED BY <1>10, <1>11 DEF FrameCarries, f

(* A fragment is stored: there is room for it.                             *)
LEMMA FragmentCarried ==
  ASSUME MaxFrame \in Nat, FirstRoom \in 1 .. MaxFrame,
         NEW s \in Seq(Frames), NEW k \in Nat, k < Len(s), NEW g, Carried(s, k, g),
         s[k + 1].op \in {0, 1, 2}, ~s[k + 1].fin,
         s[k + 1].op = 0 <=> \E j \in Before(s, k + 1) + 1 .. k : ~Control(s[j]),
         \/ 2 * Len(SoFar(s, k + 1)) <= MaxFrame + 1
         \/ /\ LimitIsDoubled
            /\ Len(SoFar(s, k + 1)) <= MaxFrame
            /\ \A j \in 1 .. k + 1 : ~Fragmented(s, j)
  PROVE  \E h : FrameCarries(s, k, g, h)
<1> DEFINE f == s[k + 1]
           whole == g.parts \o f.payload
           n == Len(g.parts) + Len(f.payload)
           room == NewRoom(g.room, n)
           h == Carry(whole, room, g.out)
<1>1. f \in Frames /\ f.op \notin {8, 9, 10} /\ ~f.fin /\ ~Control(f) /\ ~EndsMessage(f)
  BY DEF Control, EndsMessage
<1>2. /\ SoFar(s, k + 1) = whole /\ Data(s, Before(s, k + 1), k + 1) = whole
      /\ whole \in Seq(Byte) /\ Len(SoFar(s, k + 1)) = n /\ n \in Nat
  <2>1. /\ SoFar(s, k + 1) = g.parts \o s[k + 1].payload
        /\ Data(s, Before(s, k + 1), k + 1) = SoFar(s, k + 1)
        /\ SoFar(s, k + 1) \in Seq(Byte)
        /\ Len(SoFar(s, k + 1)) = Len(g.parts) + Len(s[k + 1].payload)
        /\ Len(g.parts) \in Nat /\ Len(s[k + 1].payload) \in Nat
    BY <1>1, DataCarried
  <2> DEFINE a == Len(g.parts)
             b == Len(f.payload)
  <2>2. a \in Nat /\ b \in Nat /\ n = a + b
    BY <2>1
  <2> HIDE DEF a, b
  <2>3. a + b \in Nat
    BY <2>2
  <2> HIDE DEF n
  <2>4. n \in Nat
    BY <2>2, <2>3
  <2>5. Len(SoFar(s, k + 1)) = n
    BY <2>1 DEF n
  <2> QED BY <2>1, <2>4, <2>5
<1>3. g.parts \in Seq(Byte) /\ g.room \in Nat /\ g.out = Meanings(s, k)
  BY DEF Carried
<1>4. k + 1 + 1 = k + 2 /\ Before(s, k + 2) = Before(s, k + 1) /\ Before(s, k + 1) \in 0 .. k + 1
      /\ k + 1 \in Before(s, k + 1) + 1 .. k + 1
  <2>1. Before(s, k + 1) \in 0 .. k
    BY DEF Carried
  <2>2. Before(s, k + 2) = Before(s, k + 1)
    BY <1>1, BeforeGrows
  <2> HIDE DEF f, whole, n
  <2> DEFINE i == Before(s, k + 1)
  <2>3. i \in 0 .. k
    BY <2>1
  <2> HIDE DEF i
  <2>4. i \in 0 .. k + 1 /\ k + 1 \in i + 1 .. k + 1 /\ k + 1 + 1 = k + 2
    BY <2>3
  <2> QED BY <2>2, <2>4 DEF i
<1>5. Meanings(s, k + 1) = Meanings(s, k)
  BY <1>1, MeaningsGrow
<1>6. f.op # 0 => g.parts = <<>>
  BY DEF Carried
<1> HIDE DEF f, whole, n
<1>7. /\ room \in Nat
      /\ 2 * n <= MaxFrame + 1 /\ ~(n <= g.room) => room <= MaxFrame
      /\ \A D : Rooms(D) /\ (g.room = 0 \/ g.room \in D) /\ n <= MaxFrame =>
           (room = 0 \/ room \in D) /\ room <= MaxFrame
  BY <1>2, <1>3, NewRoomIs
<1> HIDE DEF room
<1>8. n <= MaxFrame
  BY <1>2
<1>9. (\A j \in 1 .. k + 1 : ~Fragmented(s, j)) =>
         \A D : Rooms(D) => (g.room = 0 \/ g.room \in D)
  <2>1. \A j \in 1 .. k : j \in 1 .. k + 1
    OBVIOUS
  <2> QED BY <2>1 DEF Carried
<1>10. ~(n > g.room /\ room > MaxFrame)
  <2>1. CASE 2 * n <= MaxFrame + 1
    BY <1>2, <1>3, <1>7, <2>1
  <2>2. CASE LimitIsDoubled /\ \A j \in 1 .. k + 1 : ~Fragmented(s, j)
    <3>1. PICK D \in SUBSET (FirstRoom .. MaxFrame) :
                 /\ FirstRoom \in D /\ MaxFrame \in D
                 /\ \A r \in D \ {MaxFrame} : 2 * r \in D
      BY <2>2 DEF LimitIsDoubled
    <3>2. Rooms(D)
      BY <3>1 DEF Rooms
    <3>3. room <= MaxFrame
      BY <1>7, <1>8, <1>9, <2>2, <3>2
    <3> QED BY <1>7, <3>3
  <2> QED BY <1>2, <2>1, <2>2
<1>11. h.parts = whole /\ h.room = room /\ h.out = g.out
  BY DEF Carry
<1>12. \A c, m, ext : HasFrame(c, f, m, Len(f.payload), ext, g) => Leaves(c, h)
  <2> SUFFICES ASSUME NEW c, NEW m, NEW ext, HasFrame(c, f, m, Len(f.payload), ext, g)
               PROVE  Leaves(c, h)
    OBVIOUS
  <2>1. n = Len(g.parts) + Len(f.payload)
    BY DEF n
  <2>2. room = NewRoom(g.room, n)
    BY DEF room
  <2>3. Leaves(c, Carry(g.parts \o f.payload, room, g.out))
    BY <1>1, <1>6, <1>10, <2>1, <2>2, FragmentLeaves
  <2> QED BY <2>3 DEF whole
<1>14. FrameLeaves(f, g, h)
  BY <1>12 DEF FrameLeaves
<1> HIDE DEF h
<1>13. Carried(s, k + 1, h)
  <2>1. \E j \in Before(s, k + 1) + 1 .. k + 1 : ~Control(s[j])
    BY <1>1, <1>4 DEF f
  <2>2. (\A j \in 1 .. k + 1 : ~Fragmented(s, j)) => \A D : Rooms(D) => room = 0 \/ room \in D
    BY <1>7, <1>8, <1>9
  <2> QED BY <1>2, <1>3, <1>4, <1>5, <1>7, <1>11, <2>1, <2>2 DEF Carried
<1> QED BY <1>13, <1>14 DEF FrameCarries, f

(* Every frame of a legal input that fits is carried.                      *)
LEMMA FrameStep ==
  ASSUME NEW s \in Seq(Frames), Legal(s), Fits(s), NEW k \in Nat, k < Len(s),
         NEW g, Carried(s, k, g)
  PROVE  Acceptable(s[k + 1]) /\ \E h : FrameCarries(s, k, g, h)
<1> DEFINE f == s[k + 1]
<1>0. MaxFrame \in Nat /\ FirstRoom \in 1 .. MaxFrame
  BY RoomAssumption
<1>1. k + 1 \in DOMAIN s /\ f \in Frames /\ k + 1 - 1 = k
  OBVIOUS
<1>2. /\ f.rsv = 0 /\ f.op \in {0, 1, 2, 8, 9, 10}
      /\ IF Control(f) THEN f.fin
         ELSE f.op = 0 <=> \E j \in Before(s, k + 1) + 1 .. k : ~Control(s[j])
  BY <1>1 DEF Legal
<1>3. /\ f.width = 64 => Len(f.payload) <= MaxFrame
      /\ ~f.fin => \/ 2 * Len(SoFar(s, k + 1)) <= MaxFrame + 1
                  \/ /\ LimitIsDoubled
                     /\ Len(SoFar(s, k + 1)) <= MaxFrame
                     /\ \A j \in 1 .. k + 1 : ~Fragmented(s, j)
  BY <1>1 DEF Fits, Fragmented
<1>4. Control(f) <=> f.op \in {8, 9, 10}
  BY <1>2 DEF Control
<1>5. f.fin \in BOOLEAN
  BY <1>1 DEF Frames
<1>6. Acceptable(f)
  <2>1. f.op < 8 \/ f.fin
    BY <1>2, <1>4
  <2> QED BY <1>1, <1>2, <1>3, <2>1 DEF Acceptable
<1>7. CASE f.op \in {8, 9, 10}
  BY <1>0, <1>2, <1>4, <1>6, <1>7, ControlCarried
<1>8. CASE f.op \in {0, 1, 2} /\ f.fin
  BY <1>6, <1>8, FinalCarried
<1>9. CASE f.op \in {0, 1, 2} /\ ~f.fin
  <2>1. f.op = 0 <=> \E j \in Before(s, k + 1) + 1 .. k : ~Control(s[j])
    BY <1>2, <1>4, <1>9
  <2>2. \/ 2 * Len(SoFar(s, k + 1)) <= MaxFrame + 1
        \/ /\ LimitIsDoubled
           /\ Len(SoFar(s, k + 1)) <= MaxFrame
           /\ \A j \in 1 .. k + 1 : ~Fragmented(s, j)
    BY <1>3, <1>9
  <2> QED BY <1>0, <1>6, <1>9, <2>1, <2>2, FragmentCarried
<1> QED BY <1>2, <1>7, <1>8, <1>9

(* Behind the first k frames the parser is where c is.                      *)
Reached(s, k, c, g) ==
  /\ Wf(c) /\ Ready(c, g) /\ Carried(s, k, g)
  /\ \A t \in Seq(Byte) : (k = 0 \/ s[k].payload # <<>> \/ t # <<>>) =>
       ws_parser_feed(ws_parser_init, Stream(s, k) \o t) = ws_parser_feed(c, t)

(* The induction over frames starts,                                       *)
LEMMA StartReached ==
  ASSUME NEW s
  PROVE  Reached(s, 0, ws_parser_init, Carry(<<>>, 0, <<>>))
<1> DEFINE g == Carry(<<>>, 0, <<>>)
<1>1. g.parts = <<>> /\ g.room = 0 /\ g.out = <<>>
  BY DEF Carry
<1> HIDE DEF g
<1>2. Ready(ws_parser_init, g)
  BY <1>1 DEF Ready, ContextIs, ws_parser_init, Fields
<1>3. \A t \in Seq(Byte) : Stream(s, 0) \o t = t
  BY StreamStarts, ConcatEmptySeq
<1>4. Carried(s, 0, g)
  BY CarriedStarts DEF g
<1>5. Reached(s, 0, ws_parser_init, g)
  BY <1>2, <1>3, <1>4, InitWf DEF Reached
<1> QED BY <1>5 DEF g

(* takes one frame at a time,                                              *)
LEMMA NextReached ==
  ASSUME NEW s \in Seq(Frames), Legal(s), Fits(s), NEW k \in Nat, k < Len(s),
         NEW c, NEW g, Reached(s, k, c, g)
  PROVE  \E d, h : Reached(s, k + 1, d, h)
<1> DEFINE f == s[k + 1]
           bytes == Bytes(f)
           st == Stream(s, k)
<1>0. MaxFrame \in Nat /\ Acceptable(f) /\ Wf(c) /\ Ready(c, g) /\ Carried(s, k, g)
  BY RoomAssumption, FrameStep DEF Reached
<1>1. PICK h : FrameCarries(s, k, g, h)
  BY <1>0, FrameStep
<1>2. PICK d : /\ Wf(d) /\ Ready(d, h)
               /\ \A t \in Seq(Byte) : (f.payload # <<>> \/ t # <<>>) =>
                    ws_parser_feed(c, bytes \o t) = ws_parser_feed(d, t)
  <2>1. FrameLeaves(f, g, h)
    BY <1>1 DEF FrameCarries
  <2> HIDE DEF f
  <2> QED BY <1>0, <2>1, FrameGoes
<1>3. st \in Seq(Byte) /\ Stream(s, k + 1) = st \o bytes /\ bytes \in Seq(Byte) /\ bytes # <<>>
  BY <1>0, StreamGrows, BytesSeq DEF Acceptable
<1> HIDE DEF bytes, st
<1>4. ASSUME NEW t \in Seq(Byte), f.payload # <<>> \/ t # <<>>
      PROVE  ws_parser_feed(ws_parser_init, Stream(s, k + 1) \o t) = ws_parser_feed(d, t)
  <2>1. bytes \o t \in Seq(Byte) /\ bytes \o t # <<>>
    BY <1>3
  <2>2. (st \o bytes) \o t = st \o (bytes \o t)
    BY <1>3, Associative
  <2>3. ws_parser_feed(ws_parser_init, st \o (bytes \o t)) = ws_parser_feed(c, bytes \o t)
    BY <2>1 DEF Reached, st
  <2> QED BY <1>2, <1>3, <1>4, <2>2, <2>3
<1>5. Reached(s, k + 1, d, h)
  <2>1. Carried(s, k + 1, h) /\ k + 1 # 0
    BY <1>1 DEF FrameCarries
  <2> QED BY <1>2, <1>4, <2>1 DEF Reached
<1> QED BY <1>5

(* and reaches every frame.                                                *)
LEMMA AllReached ==
  ASSUME NEW s \in Seq(Frames), Legal(s), Fits(s), NEW k \in 0 .. Len(s)
  PROVE  \E c, g : Reached(s, k, c, g)
<1> DEFINE T == {i \in 0 .. Len(s) : ~ \E c, g : Reached(s, i, c, g)}
<1>1. ASSUME T # {} PROVE FALSE
  <2>0. Len(s) \in Nat
    OBVIOUS
  <2>1. PICK i \in T : \A j \in T : i <= j
    BY <1>1, <2>0, LeastNumber, T \subseteq Nat
  <2>2. CASE i = 0
    BY <2>1, <2>2, StartReached
  <2>3. CASE i # 0
    <3> DEFINE j == i - 1
    <3>1. j \in Nat /\ j \in 0 .. Len(s) /\ j < Len(s) /\ j \notin T /\ j + 1 = i
      BY <2>0, <2>1, <2>3
    <3> HIDE DEF j
    <3>2. PICK c, g : Reached(s, j, c, g)
      BY <3>1
    <3>3. \E d, h : Reached(s, j + 1, d, h)
      BY <3>1, <3>2, NextReached
    <3> QED BY <2>1, <3>1, <3>3
  <2> QED BY <2>2, <2>3
<1> QED BY <1>1

(* A legal stream of any frames that fit, however long and however many: no *)
(* frame is refused, and each message, however fragmented and with whatever *)
(* control frames in between, is told once, whole and in order              *)
(* (http_ws.c:494-752).                                                    *)
THEOREM ReassemblyTheorem ==
  ASSUME input.frames \in Seq(Frames), input.frames # <<>>
  PROVE  MessagesReassembled
<1> DEFINE s == input.frames
           n == Len(s)
           got == Fed(Stream(s, n))
<1> SUFFICES ASSUME Legal(s), Fits(s)
             PROVE  /\ got.rc = "success"
                    /\ got.out = Meanings(s, IF s[n].payload = <<>> THEN n - 1 ELSE n)
  BY DEF MessagesReassembled
<1>0. n \in Nat /\ n # 0 /\ n \in 0 .. Len(s) /\ MaxFrame \in Nat /\ <<>> \in Seq(Byte)
  BY RoomAssumption, EmptySeq
<1>1. CASE s[n].payload # <<>>
  <2>1. PICK c, g : Reached(s, n, c, g)
    BY <1>0, AllReached
  <2>2. Stream(s, n) \in Seq(Byte)
    BY <1>0, StreamSeq
  <2>3. Stream(s, n) \o <<>> = Stream(s, n)
    BY <2>2, ConcatEmptySeq
  <2>4. got = ws_parser_feed(c, <<>>)
    BY <1>0, <1>1, <2>1, <2>3 DEF Reached, Fed
  <2>5. got = c
    BY <1>0, <2>1, <2>4, FeedStops DEF Reached
  <2>6. c.rc = "success" /\ c.out = g.out /\ g.out = Meanings(s, n)
    BY <2>1 DEF Reached, Ready, ContextIs, Carried
  <2> QED BY <1>1, <2>5, <2>6
<1>2. CASE s[n].payload = <<>>
  <2> DEFINE k == n - 1
             f == s[n]
  <2>1. k \in Nat /\ k < Len(s) /\ k + 1 = n /\ k \in 0 .. Len(s) /\ f \in Frames
    BY <1>0
  <2> HIDE DEF k
  <2>2. PICK c, g : Reached(s, k, c, g)
    BY <2>1, AllReached
  <2>3. Acceptable(f) /\ Wf(c) /\ Ready(c, g) /\ g.out = Meanings(s, k)
    BY <2>1, <2>2, FrameStep DEF Reached, Carried
  <2>4. Stream(s, n) = Stream(s, k) \o Bytes(f)
    BY <2>1, StreamGrows
  <2>5. Bytes(f) \in Seq(Byte) /\ Bytes(f) # <<>>
    BY <2>1, BytesSeq
  <2>6. got = ws_parser_feed(c, Bytes(f))
    BY <2>2, <2>4, <2>5 DEF Reached, Fed
  <2>7. got.rc = "success" /\ got.out = g.out
    BY <1>0, <1>2, <2>3, <2>6, FrameWaits
  <2> QED BY <1>2, <2>3, <2>7 DEF k
<1> QED BY <1>1, <1>2

(* Limits that double into one another fulfil LimitIsDoubled.              *)
LEMMA LimitIs ==
  ASSUME NEW D, Rooms(D)
  PROVE  LimitIsDoubled
BY DEF Rooms, LimitIsDoubled

(* So are the limits of http_ws.h: 1048576 is 256 times 4096.               *)
LEMMA ShippedLimit ==
  ASSUME NEW x \in Nat \ {0}, FirstRoom = x, MaxFrame = 256 * x
  PROVE  LimitIsDoubled
<1> DEFINE D == {x, 2 * x, 4 * x, 8 * x, 16 * x, 32 * x, 64 * x, 128 * x, 256 * x}
<1>1. D \subseteq FirstRoom .. MaxFrame
  <2>1. \A r \in D : r \in Nat /\ x <= r /\ r <= 256 * x
    OBVIOUS
  <2> HIDE DEF D
  <2> QED BY <2>1
<1>2. FirstRoom \in D /\ MaxFrame \in D
  OBVIOUS
<1>3. \A r \in D \ {MaxFrame} : 2 * r \in D
  OBVIOUS
<1> HIDE DEF D
<1>4. Rooms(D)
  BY <1>1, <1>2, <1>3 DEF Rooms
<1> QED BY <1>4, LimitIs

-----------------------------------------------------------------------------
(* The inputs of Spec are frames, when their payloads are bytes and short   *)
(* enough for any form of length.                                          *)
ShortPayloads == \A p \in Payloads \cup Fragments : p \in Seq(Byte) /\ Len(p) <= 125

FramesInv ==
  /\ input.algorithm = "frames" => input.frames \in Seq(Frames) /\ input.frames # <<>>
  /\ input.algorithm = "events" => \E cr, lines : input = [algorithm |-> "events", cr |-> cr, lines |-> lines]

(* Any frame of the pairs and triples is one of Frames.                    *)
LEMMA FramesOfInputs ==
  ASSUME ShortPayloads, NEW f \in AnyFrame \cup PlainFrame
  PROVE  f \in Frames
<1>1. Key \in Seq(Byte) /\ Len(Key) = 4 /\ <<>> \in Seq(Byte) /\ Len(<<>>) = 0
  BY DEF Key, Byte
<1>2. PICK rsv \in {0, 1}, fin \in BOOLEAN, op \in Opcodes, key \in {<<>>, Key},
           width \in {7, 16, 64}, p \in Payloads \cup Fragments : f = FrameOf(rsv, fin, op, key, width, p)
  BY DEF AnyFrame, PlainFrame
<1>3. p \in Seq(Byte) /\ Len(p) <= 125 /\ Len(p) <= Longest(width)
  BY <1>2 DEF ShortPayloads, Longest
<1>4. rsv \in 0 .. 7 /\ op \in 0 .. 15
  BY <1>2 DEF Opcodes
<1> QED BY <1>1, <1>2, <1>3, <1>4 DEF Frames, FrameOf

(* So FramesInv holds of the inputs,                                       *)
LEMMA FramesInit == ShortPayloads /\ Init => FramesInv
<1> SUFFICES ASSUME ShortPayloads, Init PROVE FramesInv
  OBVIOUS
<1>1. CASE input \in FrameInputs
  <2>1. PICK f \in AnyFrame : input = StreamOf(<<f>>)
    BY <1>1 DEF FrameInputs
  <2>2. f \in Frames
    BY <2>1, FramesOfInputs
  <2>3. input.algorithm = "frames" /\ input.frames = <<f>>
    BY <2>1 DEF StreamOf
  <2> QED BY <2>2, <2>3 DEF FramesInv
<1>2. CASE input \in EventInputs
  <2>1. PICK cr : input = [algorithm |-> "events", cr |-> cr, lines |-> <<>>]
    BY <1>2 DEF EventInputs
  <2> QED BY <2>1 DEF FramesInv
<1>3. CASE input \in SendInputs \cup TextInputs
  BY <1>3 DEF SendInputs, TextInputs, FramesInv
<1>4. CASE input \in IpcInputs
  <2>1. input.algorithm = "ipc"
    BY <1>4 DEF IpcInputs
  <2> QED BY <2>1 DEF FramesInv
<1> QED BY <1>1, <1>2, <1>3, <1>4 DEF Init

(* and as they grow.                                                       *)
LEMMA FramesKept == ShortPayloads /\ FramesInv /\ [Next]_input => FramesInv'
<1> SUFFICES ASSUME ShortPayloads, FramesInv, [Next]_input PROVE FramesInv'
  OBVIOUS
<1>1. CASE AddFrame
  <2>1. PICK f \in AnyFrame \cup PlainFrame : input' = StreamOf(Append(input.frames, f))
    BY <1>1 DEF AddFrame
  <2>2. f \in Frames /\ input.frames \in Seq(Frames)
    BY <1>1, <2>1, FramesOfInputs DEF AddFrame, FramesInv
  <2>3. input'.algorithm = "frames" /\ input'.frames = Append(input.frames, f)
    BY <2>1 DEF StreamOf
  <2>4. Append(input.frames, f) \in Seq(Frames) /\ Append(input.frames, f) # <<>>
    BY <2>2
  <2> QED BY <2>3, <2>4 DEF FramesInv
<1>2. CASE AddLine
  <2>1. PICK cr, lines : input = [algorithm |-> "events", cr |-> cr, lines |-> lines]
    BY <1>2 DEF AddLine, FramesInv
  <2>2. PICK l \in Lines : input' = [input EXCEPT !.lines = Append(@, l)]
    BY <1>2 DEF AddLine
  <2>3. input' = [algorithm |-> "events", cr |-> cr, lines |-> Append(lines, l)]
    BY <2>1, <2>2
  <2> QED BY <2>3 DEF FramesInv
<1>3. CASE UNCHANGED input
  BY <1>3 DEF FramesInv
<1> QED BY <1>1, <1>2, <1>3 DEF Next

(* So both hold of every stream of Spec, whatever the constants.           *)
THEOREM StreamsTheorem ==
  ASSUME ShortPayloads
  PROVE  Spec => [](CutsDontMatter /\ MessagesReassembled)
<1>1. Init => FramesInv
  BY FramesInit
<1>2. FramesInv /\ [Next]_input => FramesInv'
  BY FramesKept
<1>3. FramesInv => CutsDontMatter /\ MessagesReassembled
  <2>1. CASE input.algorithm = "frames"
    BY <2>1, CutsTheorem, ReassemblyTheorem, RoomAssumption DEF FramesInv
  <2>2. CASE input.algorithm # "frames"
    BY <2>2 DEF CutsDontMatter, MessagesReassembled
  <2> QED BY <2>1, <2>2
<1> QED BY <1>1, <1>2, <1>3, PTL DEF Spec

-----------------------------------------------------------------------------
(* Texts in URLs and forms.                                                *)

(* The value of a hexadecimal digit that was written for it.               *)
LEMMA HexBack ==
  ASSUME NEW n \in 0 .. 15
  PROVE  Text!HexValue(Text!HexDigit(n)) = n /\ Text!HexDigit(n) \in Byte
BY DEF Text!HexValue, Text!HexDigit, Text!ToLower, Byte

(* An escape is read as the byte it was written for.                       *)
LEMMA EscapedBack ==
  ASSUME NEW c \in Byte
  PROVE  Text!Escaped(Text!HexDigit(c \div 16), Text!HexDigit(c % 16)) = c
<1> DEFINE h == c \div 16
           l == c % 16
           bit(w) == Max({((16 * h) \div w) % 2, (l \div w) % 2})
<1>1. h \in 0 .. 15 /\ l \in 0 .. 15 /\ c = 16 * h + l
  BY DEF Byte
<1>2. Text!HexValue(Text!HexDigit(h)) = h /\ Text!HexValue(Text!HexDigit(l)) = l
  BY <1>1, HexBack
<1>3. Text!Escaped(Text!HexDigit(c \div 16), Text!HexDigit(c % 16))
        = bit(1) + 2 * bit(2) + 4 * bit(4) + 8 * bit(8)
            + 16 * bit(16) + 32 * bit(32) + 64 * bit(64) + 128 * bit(128)
  <2>1. \A x : Text!Max(x) = Max(x)
    BY DEF Text!Max, Max
  <2> QED BY <1>2, <2>1 DEF Text!Escaped
<1> HIDE DEF h, l
<1>4. bit(1) = l % 2 /\ bit(2) = (l \div 2) % 2 /\ bit(4) = (l \div 4) % 2 /\ bit(8) = (l \div 8) % 2
  <2>1. /\ ((16 * h) \div 1) % 2 = 0 /\ ((16 * h) \div 2) % 2 = 0
        /\ ((16 * h) \div 4) % 2 = 0 /\ ((16 * h) \div 8) % 2 = 0 /\ l \div 1 = l
    BY <1>1
  <2>2. \A x \in {l % 2, (l \div 2) % 2, (l \div 4) % 2, (l \div 8) % 2} : x \in Int /\ 0 <= x
    BY <1>1
  <2>3. \A x \in Int : 0 <= x => Max({0, x}) = x
    BY MaxIs
  <2> QED BY <2>1, <2>2, <2>3
<1>5. /\ bit(16) = h % 2 /\ bit(32) = (h \div 2) % 2
      /\ bit(64) = (h \div 4) % 2 /\ bit(128) = (h \div 8) % 2
  <2>1. l \div 16 = 0 /\ l \div 32 = 0 /\ l \div 64 = 0 /\ l \div 128 = 0 /\ 0 % 2 = 0
    BY <1>1
  <2>2. \A x \in {h % 2, (h \div 2) % 2, (h \div 4) % 2, (h \div 8) % 2} : x \in Int /\ 0 <= x
    BY <1>1
  <2>3. \A x \in Int : 0 <= x => Max({x, 0}) = x
    BY MaxIs
  <2>4. /\ (16 * h) \div 16 = h /\ (16 * h) \div 32 = h \div 2
        /\ (16 * h) \div 64 = h \div 4 /\ (16 * h) \div 128 = h \div 8
    BY <1>1
  <2> QED BY <2>1, <2>2, <2>3, <2>4
<1>6. \A x \in 0 .. 15 :
        x = (x % 2) + 2 * ((x \div 2) % 2) + 4 * ((x \div 4) % 2) + 8 * ((x \div 8) % 2)
  OBVIOUS
<1> HIDE DEF bit
<1>7. /\ l = bit(1) + 2 * bit(2) + 4 * bit(4) + 8 * bit(8)
      /\ h = bit(16) + 2 * bit(32) + 4 * bit(64) + 8 * bit(128)
  BY <1>1, <1>4, <1>5, <1>6
<1>8. \A w \in {1, 2, 4, 8, 16, 32, 64, 128} : bit(w) \in Int
  BY <1>1, <1>4, <1>5
<1> QED BY <1>1, <1>3, <1>7, <1>8

(* The form of a byte in a URL.                                            *)
LEMMA EncodedIs ==
  ASSUME NEW c \in Byte
  PROVE  /\ Text!Unreserved(c) => Text!Encoded(c) = <<c>> /\ c # 32 /\ c # 37 /\ c # 43
         /\ c = 32 => Text!Encoded(c) = <<43>>
         /\ ~Text!Unreserved(c) /\ c # 32 =>
              Text!Encoded(c) = <<37, Text!HexDigit(c \div 16), Text!HexDigit(c % 16)>>
         /\ Text!Encoded(c) \in Seq(Byte)
         /\ Len(Text!Encoded(c)) = IF Text!Unreserved(c) \/ c = 32 THEN 1 ELSE 3
<1>1. ~Text!Unreserved(32) /\ ~Text!Unreserved(37) /\ ~Text!Unreserved(43)
  BY DEF Text!Unreserved
<1>2. /\ Text!Unreserved(c) => Text!Encoded(c) = <<c>>
      /\ c = 32 => Text!Encoded(c) = <<43>>
      /\ ~Text!Unreserved(c) /\ c # 32 =>
           Text!Encoded(c) = <<37, Text!HexDigit(c \div 16), Text!HexDigit(c % 16)>>
  BY <1>1 DEF Text!Encoded, Text!Space, Text!Plus, Text!Percent
<1>3. Text!HexDigit(c \div 16) \in Byte /\ Text!HexDigit(c % 16) \in Byte
  <2>1. c \div 16 \in 0 .. 15 /\ c % 16 \in 0 .. 15
    BY DEF Byte
  <2> QED BY <2>1, HexBack
<1>4. 43 \in Byte /\ 37 \in Byte
  BY DEF Byte
<1>5. CASE Text!Unreserved(c)
  <2>1. c # 32 /\ c # 37 /\ c # 43
    BY <1>1, <1>5
  <2>2. <<c>> \in Seq(Byte) /\ Len(<<c>>) = 1
    OBVIOUS
  <2> QED BY <1>2, <1>5, <2>1, <2>2
<1>6. CASE c = 32
  <2>1. ~Text!Unreserved(c)
    BY <1>1, <1>6
  <2>2. <<43>> \in Seq(Byte) /\ Len(<<43>>) = 1
    BY <1>4
  <2> QED BY <1>2, <1>6, <2>1, <2>2
<1>7. CASE ~Text!Unreserved(c) /\ c # 32
  <2>1. \A x, y \in Byte : <<37, x, y>> \in Seq(Byte) /\ Len(<<37, x, y>>) = 3
    BY <1>4
  <2> QED BY <1>2, <1>3, <1>7, <2>1
<1> QED BY <1>5, <1>6, <1>7

(* The first k bytes of t in a URL.                                        *)
Url(t, k) == FlattenSeq([i \in 1 .. k |-> Text!Encoded(t[i])])

(* No bytes, nothing written.                                              *)
LEMMA UrlStarts ==
  ASSUME NEW t
  PROVE  Url(t, 0) = <<>>
<1>1. [i \in 1 .. 0 |-> Text!Encoded(t[i])] = <<>>
  OBVIOUS
<1> QED BY <1>1 DEF Url, FlattenSeq

(* One byte more.                                                          *)
LEMMA UrlGrows ==
  ASSUME NEW t \in Seq(Byte), NEW k \in Nat, k < Len(t)
  PROVE  /\ Url(t, k) \in Seq(Byte)
         /\ Url(t, k + 1) = Url(t, k) \o Text!Encoded(t[k + 1])
<1> DEFINE p == [i \in 1 .. k |-> Text!Encoded(t[i])]
           q == [i \in 1 .. k + 1 |-> Text!Encoded(t[i])]
<1>1. \A i \in 1 .. k + 1 : t[i] \in Byte
  OBVIOUS
<1>2. \A i \in 1 .. k + 1 : Text!Encoded(t[i]) \in Seq(Byte)
  BY <1>1, EncodedIs
<1>3. p \in Seq(Seq(Byte)) /\ Len(p) = k
  BY <1>2
<1>4. q \in Seq(Seq(Byte)) /\ Len(q) = k + 1
  BY <1>2
<1>5. (\A i \in 1 .. Len(p) : p[i] = q[i]) /\ q[Len(q)] = Text!Encoded(t[k + 1])
  BY <1>3, <1>4
<1> HIDE DEF p, q
<1>6. FlattenSeq(p) \in Seq(Byte) /\ FlattenSeq(q) = FlattenSeq(p) \o q[Len(q)]
  BY <1>3, <1>4, <1>5, FlattenGrows
<1> QED BY <1>5, <1>6 DEF p, q, Url

(* It is bytes.                                                            *)
LEMMA UrlSeq ==
  ASSUME NEW t \in Seq(Byte), NEW k \in 0 .. Len(t)
  PROVE  Url(t, k) \in Seq(Byte)
<1>1. CASE k < Len(t)
  BY <1>1, UrlGrows
<1>2. CASE k = Len(t) /\ k # 0
  <2>1. k - 1 \in Nat /\ k - 1 < Len(t) /\ k - 1 + 1 = k /\ t[k] \in Byte
    BY <1>2
  <2>2. Url(t, k - 1) \in Seq(Byte) /\ Url(t, k) = Url(t, k - 1) \o Text!Encoded(t[k])
    BY <2>1, UrlGrows
  <2> QED BY <2>1, <2>2, EncodedIs, ConcatProperties
<1>3. CASE k = 0
  BY <1>3, UrlStarts, EmptySeq
<1> QED BY <1>1, <1>2, <1>3

(* The whole text.                                                         *)
LEMMA UrlWhole ==
  ASSUME NEW t \in Seq(Byte)
  PROVE  Text!urlencode_append(t) = Url(t, Len(t))
<1>1. DOMAIN t = 1 .. Len(t)
  OBVIOUS
<1>2. \A q : Text!FlattenSeq(q) = FlattenSeq(q)
  BY DEF FlattenSeq, Text!FlattenSeq
<1> QED BY <1>1, <1>2 DEF Text!urlencode_append, Url

(* The count, byte by byte.                                                *)
Counts(t, f) ==
  f = [i \in 0 .. Len(t) |-> IF i = 0 THEN 0
         ELSE f[i - 1] + IF Text!Unreserved(t[i]) \/ t[i] = 32 THEN 1 ELSE 3]

(* What is allocated is what is written.                                   *)
LEMMA UrlLength ==
  ASSUME NEW t \in Seq(Byte)
  PROVE  Text!math_urlencode_len(t) = Len(Text!urlencode_append(t))
<1> DEFINE N == Len(t)
           f == CHOOSE f : Counts(t, f)
           g == [i \in 0 .. N |-> Len(Url(t, i))]
<1>0. N \in Nat /\ \A i \in 1 .. N : t[i] \in Byte
  OBVIOUS
<1>1. ASSUME NEW i \in 0 .. N
      PROVE  g[i] = IF i = 0 THEN 0
                    ELSE g[i - 1] + IF Text!Unreserved(t[i]) \/ t[i] = 32 THEN 1 ELSE 3
  <2>1. CASE i = 0
    BY <2>1, UrlStarts
  <2>2. CASE i # 0
    <3>1. i - 1 \in Nat /\ i - 1 < N /\ i - 1 + 1 = i /\ t[i] \in Byte /\ i - 1 \in 0 .. N
      BY <1>0, <2>2
    <3>2. Url(t, i - 1) \in Seq(Byte) /\ Url(t, i) = Url(t, i - 1) \o Text!Encoded(t[i])
      BY <3>1, UrlGrows
    <3>3. Len(Url(t, i)) = Len(Url(t, i - 1)) + Len(Text!Encoded(t[i]))
      BY <3>1, <3>2, EncodedIs, ConcatProperties
    <3>4. Len(Text!Encoded(t[i])) = IF Text!Unreserved(t[i]) \/ t[i] = 32 THEN 1 ELSE 3
      BY <3>1, EncodedIs
    <3>5. g[i] = Len(Url(t, i)) /\ g[i - 1] = Len(Url(t, i - 1))
      BY <3>1
    <3> QED BY <2>2, <3>3, <3>4, <3>5
  <2> QED BY <2>1, <2>2
<1>2. Counts(t, g)
  <2>1. g = [i \in 0 .. N |-> g[i]]
    OBVIOUS
  <2> HIDE DEF g
  <2> QED BY <1>1, <2>1 DEF Counts
<1>3. Counts(t, f)
  BY <1>2
<1>4. Text!math_urlencode_len(t) = f[N]
  BY DEF Text!math_urlencode_len, Counts, Text!Space
<1> HIDE DEF f
<1> DEFINE T == {i \in 0 .. N : f[i] # g[i]}
<1>5. \A i \in 0 .. N : f[i] = IF i = 0 THEN 0
        ELSE f[i - 1] + IF Text!Unreserved(t[i]) \/ t[i] = 32 THEN 1 ELSE 3
  BY <1>3 DEF Counts
<1>6. g[N] = Len(Url(t, N)) /\ N \in 0 .. N
  BY <1>0
<1> HIDE DEF g, N
<1>7. ASSUME T # {} PROVE FALSE
  <2>1. PICK i \in T : \A j \in T : i <= j
    BY <1>7, LeastNumber, T \subseteq Nat
  <2>2. i # 0 => i - 1 \in 0 .. N /\ i - 1 \notin T
    BY <1>0, <2>1
  <2> QED BY <1>1, <1>5, <2>1, <2>2
<1>8. f[N] = g[N]
  BY <1>6, <1>7
<1> QED BY <1>4, <1>6, <1>8, UrlWhole DEF N

(* What urldecode_alloc makes of src from i on, from m on.                  *)
DecodedAt(src, f, i) ==
  IF i > Len(src) THEN <<>>
  ELSE IF src[i] = 37
       THEN IF i + 2 <= Len(src) THEN <<Text!Escaped(src[i + 1], src[i + 2])>> \o f[i + 3]
            ELSE f[i + 1]
  ELSE <<IF src[i] = 43 THEN 32 ELSE src[i]>> \o f[i + 1]

Decodes(src, m, f) == f = [i \in m .. Len(src) + 1 |-> DecodedAt(src, f, i)]

(* From any place on it is defined.                                        *)
LEMMA DecodesExist ==
  ASSUME NEW src \in Seq(Byte)
  PROVE  \E f : Decodes(src, 1, f)
<1> DEFINE N == Len(src)
           T == {j \in 0 .. N : ~ \E f : Decodes(src, N + 1 - j, f)}
<1>0. N \in Nat
  OBVIOUS
<1>1. ASSUME T # {} PROVE FALSE
  <2>1. PICK j \in T : \A i \in T : j <= i
    BY <1>1, LeastNumber, T \subseteq Nat
  <2>2. CASE j = 0
    <3> DEFINE f == [i \in N + 1 .. N + 1 |-> <<>>]
    <3>1. \A i \in N + 1 .. N + 1 : f[i] = DecodedAt(src, f, i)
      BY <1>0 DEF DecodedAt
    <3>2. f = [i \in N + 1 .. N + 1 |-> f[i]]
      OBVIOUS
    <3> HIDE DEF f
    <3>3. Decodes(src, N + 1, f)
      BY <3>1, <3>2 DEF Decodes
    <3> QED BY <1>0, <2>1, <2>2, <3>3
  <2>3. CASE j # 0
    <3> DEFINE m == N + 1 - j
    <3>1. j - 1 \in 0 .. N /\ j - 1 \notin T /\ N + 1 - (j - 1) = m + 1 /\ m \in 1 .. N
      <4>1. j \in 0 .. N /\ j - 1 \in 0 .. N /\ ~(j <= j - 1)
        BY <1>0, <2>1, <2>3
      <4>2. j - 1 \notin T
        BY <2>1, <4>1
      <4>3. N + 1 - (j - 1) = m + 1 /\ m \in 1 .. N
        BY <1>0, <2>3, <4>1
      <4> QED BY <4>1, <4>2, <4>3
    <3>2. PICK g : Decodes(src, m + 1, g)
      BY <3>1
    <3> HIDE DEF m
    <3> DEFINE f == [i \in m .. N + 1 |-> IF i = m THEN DecodedAt(src, g, i) ELSE g[i]]
    <3>3. ASSUME NEW i \in m .. N + 1
          PROVE  f[i] = DecodedAt(src, f, i)
      <4>1. DecodedAt(src, f, i) = DecodedAt(src, g, i)
        <5>1. CASE i > N
          BY <5>1 DEF DecodedAt
        <5>2. CASE i <= N
          <6>1. /\ i + 1 \in m .. N + 1 /\ i + 1 # m
                /\ i + 2 <= N => i + 3 \in m .. N + 1 /\ i + 3 # m
            BY <1>0, <3>1, <5>2
          <6>2. f[i + 1] = g[i + 1] /\ (i + 2 <= N => f[i + 3] = g[i + 3])
            BY <6>1
          <6> HIDE DEF f
          <6> QED BY <6>2 DEF DecodedAt
        <5> QED BY <1>0, <3>1, <5>1, <5>2
      <4>2. CASE i = m
        BY <4>1, <4>2
      <4>3. CASE i # m
        <5>1. i \in m + 1 .. N + 1
          BY <1>0, <3>1, <4>3
        <5>2. g[i] = DecodedAt(src, g, i)
          BY <3>2, <5>1 DEF Decodes
        <5> QED BY <4>1, <4>3, <5>2
      <4> QED BY <4>2, <4>3
    <3>4. f = [i \in m .. N + 1 |-> f[i]]
      OBVIOUS
    <3> HIDE DEF f
    <3>5. Decodes(src, m, f)
      BY <3>3, <3>4 DEF Decodes
    <3> QED BY <2>1, <3>5 DEF m
  <2> QED BY <2>2, <2>3
<1>2. N \in 0 .. N /\ N + 1 - N = 1
  BY <1>0
<1> QED BY <1>1, <1>2

(* And is what urldecode_alloc takes from the first byte on.                *)
LEMMA DecodeIs ==
  ASSUME NEW src \in Seq(Byte)
  PROVE  \E f : /\ \A i \in 1 .. Len(src) + 1 : f[i] = DecodedAt(src, f, i)
                /\ Text!urldecode_alloc(src) = f[1]
<1> DEFINE f == CHOOSE f : Decodes(src, 1, f)
<1>1. Decodes(src, 1, f)
  BY DecodesExist
<1>2. Text!urldecode_alloc(src) = f[1]
  BY DEF Text!urldecode_alloc, Decodes, DecodedAt, Text!EscapeFits, Text!Percent, Text!Plus, Text!Space
<1> HIDE DEF f
<1>3. \A i \in 1 .. Len(src) + 1 : f[i] = DecodedAt(src, f, i)
  BY <1>1 DEF Decodes
<1> QED BY <1>2, <1>3

(* The first of the bytes from k + 1 on, and the others.                    *)
LEMMA FromNext ==
  ASSUME NEW t \in Seq(Byte), NEW k \in Nat, k < Len(t)
  PROVE  SubSeq(t, k + 1, Len(t)) = <<t[k + 1]>> \o SubSeq(t, k + 2, Len(t))
<1> DEFINE u == SubSeq(t, k + 1, Len(t))
           b == <<t[k + 1]>>
           v == SubSeq(t, k + 2, Len(t))
           w == b \o v
<1>1. u \in Seq(Byte) /\ Len(u) = Len(t) - k /\ \A i \in 1 .. Len(t) - k : u[i] = t[k + i]
  BY SubSeqProperties
<1>2. v \in Seq(Byte) /\ Len(v) = Len(t) - k - 1 /\ \A i \in 1 .. Len(t) - k - 1 : v[i] = t[k + 1 + i]
  BY SubSeqProperties
<1>3. b \in Seq(Byte) /\ Len(b) = 1 /\ b[1] = t[k + 1]
  OBVIOUS
<1> HIDE DEF u, v, b
<1>4. /\ w \in Seq(Byte) /\ Len(w) = Len(t) - k
      /\ \A i \in 1 .. Len(t) - k : w[i] = IF i = 1 THEN b[1] ELSE v[i - 1]
  <2>1. w \in Seq(Byte) /\ Len(w) = Len(b) + Len(v)
    BY <1>2, <1>3, ConcatProperties
  <2>2. Len(w) = Len(t) - k
    BY <1>2, <1>3, <2>1
  <2>3. ASSUME NEW i \in 1 .. Len(t) - k
        PROVE  w[i] = IF i = 1 THEN b[1] ELSE v[i - 1]
    <3>1. i \in 1 .. Len(b) + Len(v)
      BY <1>2, <1>3
    <3>2. w[i] = IF i <= Len(b) THEN b[i] ELSE v[i - Len(b)]
      <4>1. b \in Seq(Byte) /\ v \in Seq(Byte)
        BY <1>2, <1>3
      <4> QED BY <3>1, <4>1, ConcatProperties
    <3>3. i <= 1 <=> i = 1
      OBVIOUS
    <3> QED BY <1>3, <3>2, <3>3
  <2> QED BY <2>1, <2>2, <2>3
<1> HIDE DEF w
<1>5. ASSUME NEW i \in 1 .. Len(t) - k PROVE u[i] = w[i]
  <2>1. CASE i = 1
    BY <1>1, <1>3, <1>4, <2>1
  <2>2. CASE i # 1
    <3>1. i - 1 \in 1 .. Len(t) - k - 1 /\ k + 1 + (i - 1) = k + i
      BY <2>2
    <3> QED BY <1>1, <1>2, <1>4, <2>2, <3>1
  <2> QED BY <2>1, <2>2
<1>6. u = w
  BY <1>1, <1>4, <1>5, SameBytes
<1> QED BY <1>6 DEF u, b, v, w

(* Where the code of a byte lies in the whole.                             *)
LEMMA UrlAt ==
  ASSUME NEW t \in Seq(Byte), NEW src, src = Text!urlencode_append(t)
  PROVE  \A k \in 0 .. Len(t) :
           /\ Len(Url(t, k)) <= Len(src)
           /\ \A i \in 1 .. Len(Url(t, k)) : src[i] = Url(t, k)[i]
<1> DEFINE N == Len(t)
           P(k) == /\ Len(Url(t, k)) <= Len(src)
                   /\ \A i \in 1 .. Len(Url(t, k)) : src[i] = Url(t, k)[i]
           T == {j \in 0 .. N : ~P(N - j)}
<1>0. N \in Nat
  OBVIOUS
<1>1. P(N)
  <2>1. src = Url(t, N) /\ Url(t, N) \in Seq(Byte)
    BY <1>0, UrlWhole, UrlSeq
  <2> HIDE DEF N
  <2>2. Len(src) <= Len(src)
    BY <2>1
  <2> QED BY <2>1, <2>2
<1>2. ASSUME NEW k \in Nat, k < N, P(k + 1) PROVE P(k)
  <2> DEFINE u == Url(t, k)
             c == Text!Encoded(t[k + 1])
  <2>1. t[k + 1] \in Byte
    BY <1>2
  <2>2. u \in Seq(Byte) /\ c \in Seq(Byte) /\ Url(t, k + 1) = u \o c
    BY <1>2, <2>1, UrlGrows, EncodedIs
  <2> HIDE DEF u, c
  <2>3. /\ Len(Url(t, k + 1)) = Len(u) + Len(c) /\ Len(u) \in Nat /\ Len(c) \in Nat
        /\ \A i \in 1 .. Len(u) : Url(t, k + 1)[i] = u[i]
    BY <2>2, ConcatProperties
  <2>4. Len(src) \in Nat
    <3>1. src \in Seq(Byte)
      BY UrlWhole, UrlSeq, Len(t) \in 0 .. Len(t)
    <3> QED BY <3>1
  <2>5. Len(u) <= Len(src)
    BY <1>2, <2>3, <2>4
  <2>6. \A i \in 1 .. Len(u) : i \in 1 .. Len(Url(t, k + 1))
    BY <2>3
  <2>7. \A i \in 1 .. Len(u) : src[i] = u[i]
    BY <1>2, <2>3, <2>6
  <2> QED BY <2>5, <2>7 DEF u
<1> HIDE DEF P
<1>3. ASSUME T # {} PROVE FALSE
  <2>1. PICK j \in T : \A i \in T : j <= i
    BY <1>3, LeastNumber, T \subseteq Nat
  <2>2. j # 0
    BY <1>0, <1>1, <2>1
  <2>3. j - 1 \in 0 .. N /\ N - j \in Nat /\ N - j < N /\ N - j + 1 = N - (j - 1) /\ ~(j <= j - 1)
    BY <1>0, <2>1, <2>2
  <2>4. P(N - (j - 1))
    BY <2>1, <2>3
  <2>5. P(N - j)
    BY <1>2, <2>3, <2>4
  <2> QED BY <2>1, <2>5
<1>4. ASSUME NEW k \in 0 .. N PROVE P(k)
  <2>1. N - k \in 0 .. N /\ N - (N - k) = k
    BY <1>0
  <2> QED BY <1>3, <2>1
<1> QED BY <1>4 DEF P

(* From the code of byte k + 1, that byte is read first.                    *)
LEMMA DecodeNext ==
  ASSUME NEW t \in Seq(Byte), NEW src, src = Text!urlencode_append(t),
         NEW f, \A i \in 1 .. Len(src) + 1 : f[i] = DecodedAt(src, f, i),
         NEW k \in Nat, k < Len(t)
  PROVE  f[Len(Url(t, k)) + 1] = <<t[k + 1]>> \o f[Len(Url(t, k + 1)) + 1]
<1> DEFINE c == t[k + 1]
           p == Len(Url(t, k))
           e == Text!Encoded(c)
<1>1. c \in Byte /\ e \in Seq(Byte) /\ Len(e) \in Nat
  BY EncodedIs
<1>2. Url(t, k) \in Seq(Byte) /\ Url(t, k + 1) = Url(t, k) \o e
  BY UrlGrows
<1> HIDE DEF c, e
<1>3. p \in Nat /\ Len(Url(t, k + 1)) = p + Len(e)
  BY <1>1, <1>2, ConcatProperties
<1>4. \A i \in 1 .. Len(e) : Url(t, k + 1)[p + i] = e[i]
  <2>1. ASSUME NEW i \in 1 .. Len(e) PROVE Url(t, k + 1)[p + i] = e[i]
    <3>1. p + i \in 1 .. p + Len(e) /\ ~(p + i <= p) /\ p + i - p = i
      BY <1>1, <1>3
    <3> QED BY <1>1, <1>2, <3>1, ConcatProperties
  <2> QED BY <2>1
<1>5. /\ p + Len(e) <= Len(src)
      /\ \A i \in 1 .. p + Len(e) : src[i] = Url(t, k + 1)[i]
  <2>1. k + 1 \in 0 .. Len(t)
    OBVIOUS
  <2> HIDE DEF p
  <2> QED BY <1>3, <2>1, UrlAt
<1>6. Len(src) \in Nat
  <2>1. src \in Seq(Byte)
    BY UrlWhole, UrlSeq, Len(t) \in 0 .. Len(t)
  <2> QED BY <2>1
<1> HIDE DEF p
<1>7. \A i \in 1 .. Len(e) : src[p + i] = e[i]
  <2>1. \A i \in 1 .. Len(e) : p + i \in 1 .. p + Len(e)
    BY <1>1, <1>3
  <2> QED BY <1>4, <1>5, <2>1
<1>8. Len(e) # 0 => ~(p + 1 > Len(src)) /\ f[p + 1] = DecodedAt(src, f, p + 1)
  <2>1. Len(e) # 0 => p + 1 \in 1 .. Len(src) + 1 /\ ~(p + 1 > Len(src))
    BY <1>1, <1>3, <1>5, <1>6
  <2> QED BY <2>1
<1>9. f[p + 1] = <<c>> \o f[p + Len(e) + 1]
  <2>1. CASE Text!Unreserved(c)
    <3>1. e = <<c>> /\ Len(e) = 1 /\ c # 37 /\ c # 43
      BY <1>1, <2>1, EncodedIs DEF e
    <3>2. src[p + 1] = c
      BY <1>7, <3>1
    <3>3. DecodedAt(src, f, p + 1) = <<c>> \o f[p + 1 + 1]
      <4>1. ~(p + 1 > Len(src))
        BY <1>8, <3>1
      <4> QED BY <3>1, <3>2, <4>1, Zenon DEF DecodedAt
    <3>4. p + 1 + 1 = p + Len(e) + 1 /\ Len(e) # 0
      BY <1>3, <3>1
    <3> QED BY <1>8, <3>3, <3>4
  <2>2. CASE c = 32
    <3>1. e = <<43>> /\ Len(e) = 1
      BY <1>1, <2>2, EncodedIs DEF e
    <3>2. src[p + 1] = 43
      BY <1>7, <3>1
    <3>3. DecodedAt(src, f, p + 1) = <<32>> \o f[p + 1 + 1]
      <4>1. ~(p + 1 > Len(src)) /\ 43 # 37
        BY <1>8, <3>1
      <4> QED BY <3>2, <4>1, Zenon DEF DecodedAt
    <3>4. p + 1 + 1 = p + Len(e) + 1 /\ Len(e) # 0
      BY <1>3, <3>1
    <3> QED BY <1>8, <2>2, <3>3, <3>4
  <2>3. CASE ~Text!Unreserved(c) /\ c # 32
    <3> DEFINE x == Text!HexDigit(c \div 16)
               y == Text!HexDigit(c % 16)
    <3>1. e = <<37, x, y>> /\ Text!Escaped(x, y) = c
      BY <1>1, <2>3, EncodedIs, EscapedBack DEF e
    <3> HIDE DEF x, y
    <3>2. Len(e) = 3 /\ e[1] = 37 /\ e[2] = x /\ e[3] = y
      BY <3>1
    <3>3. src[p + 1] = 37 /\ src[p + 2] = x /\ src[p + 3] = y
      BY <1>7, <3>2
    <3>4. /\ p + 1 + 1 = p + 2 /\ p + 1 + 2 = p + 3 /\ p + 1 + 3 = p + 3 + 1
          /\ p + 3 <= Len(src)
      BY <1>3, <1>5, <3>2
    <3>5. f[p + 1] = DecodedAt(src, f, p + 1)
      BY <1>8, <3>2
    <3>6. DecodedAt(src, f, p + 1) = <<Text!Escaped(src[p + 2], src[p + 3])>> \o f[p + 3 + 1]
      <4>1. ~(p + 1 > Len(src)) /\ p + 1 + 2 <= Len(src)
        BY <1>8, <3>2, <3>4
      <4>2. DecodedAt(src, f, p + 1)
              = <<Text!Escaped(src[p + 1 + 1], src[p + 1 + 2])>> \o f[p + 1 + 3]
        BY <3>3, <4>1, Zenon DEF DecodedAt
      <4> QED BY <3>4, <4>2
    <3> QED BY <3>1, <3>2, <3>3, <3>5, <3>6
  <2> QED BY <2>1, <2>2, <2>3
<1> QED BY <1>3, <1>9 DEF c, p

(* For any text: what a URL or a form holds of it is read as that text, and *)
(* takes exactly the room that was allocated (http_types.c:1082-1211).      *)
THEOREM UrlTheorem ==
  ASSUME NEW t \in Seq(Byte)
  PROVE  /\ Text!urldecode_alloc(Text!urlencode_append(t)) = t
         /\ Len(Text!urlencode_append(t)) = Text!math_urlencode_len(t)
<1> DEFINE src == Text!urlencode_append(t)
           N == Len(t)
<1>0. N \in Nat
  OBVIOUS
<1>1. src \in Seq(Byte) /\ src = Url(t, N)
  BY <1>0, UrlWhole, UrlSeq
<1>2. PICK f : /\ \A i \in 1 .. Len(src) + 1 : f[i] = DecodedAt(src, f, i)
               /\ Text!urldecode_alloc(src) = f[1]
  BY <1>1, DecodeIs
<1> HIDE DEF src
<1> DEFINE P(k) == f[Len(Url(t, k)) + 1] = SubSeq(t, k + 1, N)
           T == {j \in 0 .. N : ~P(N - j)}
<1>3. P(N)
  <2>1. SubSeq(t, N + 1, N) = <<>>
    BY <1>0
  <2>2. Len(src) + 1 \in 1 .. Len(src) + 1 /\ Len(src) + 1 > Len(src)
    BY <1>1
  <2>3. f[Len(src) + 1] = <<>>
    BY <1>2, <2>2 DEF DecodedAt
  <2> QED BY <1>1, <2>1, <2>3
<1>4. ASSUME NEW k \in Nat, k < N, P(k + 1) PROVE P(k)
  <2>1. f[Len(Url(t, k)) + 1] = <<t[k + 1]>> \o f[Len(Url(t, k + 1)) + 1]
    BY <1>2, <1>4, DecodeNext DEF src
  <2>2. SubSeq(t, k + 1, N) = <<t[k + 1]>> \o SubSeq(t, k + 2, N)
    BY <1>4, FromNext
  <2>3. k + 1 + 1 = k + 2
    OBVIOUS
  <2> QED BY <1>4, <2>1, <2>2, <2>3
<1> HIDE DEF P
<1>5. ASSUME T # {} PROVE FALSE
  <2>1. PICK j \in T : \A i \in T : j <= i
    BY <1>5, LeastNumber, T \subseteq Nat
  <2>2. j # 0
    BY <1>0, <1>3, <2>1
  <2>3. j - 1 \in 0 .. N /\ N - j \in Nat /\ N - j < N /\ N - j + 1 = N - (j - 1) /\ ~(j <= j - 1)
    BY <1>0, <2>1, <2>2
  <2>4. P(N - (j - 1))
    BY <2>1, <2>3
  <2>5. P(N - j)
    BY <1>4, <2>3, <2>4
  <2> QED BY <2>1, <2>5
<1>6. P(0)
  <2>1. N \in 0 .. N /\ N - N = 0
    BY <1>0
  <2> QED BY <1>5, <2>1
<1>7. f[1] = t
  <2>1. Len(Url(t, 0)) + 1 = 1
    BY UrlStarts
  <2>2. SubSeq(t, 1, N) = t
    OBVIOUS
  <2> QED BY <1>6, <2>1, <2>2 DEF P
<1> QED BY <1>2, <1>7, UrlLength DEF src
=============================================================================
