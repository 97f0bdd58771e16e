---------------------------- MODULE FramingProofs ----------------------------
(***************************************************************************)
(* Proofs about Framing for every base, word, frame and change of a file.  *)
(***************************************************************************)
EXTENDS Framing, WireProofs
-----------------------------------------------------------------------------
(* Frames.                                                                 *)

LEMMA FramesAre ==
  /\ END \in Nat /\ END \in 0 .. Word - 1 /\ END \in Byte /\ 0 \in Byte /\ 0 \in 0 .. Word - 1
  /\ EndFrame \in Frame /\ Len(EndFrame.body) = 0
  /\ Frames \subseteq Frame
  /\ \A f \in Frames : f.type # END /\ f.type < END /\ Len(f.body) < Word
<1>1. END \in Nat /\ END \in 0 .. Word - 1 /\ END \in Byte /\ 0 \in Byte /\ 0 \in 0 .. Word - 1
  BY VarintAssumption, FramingAssumption DEF END, Byte
<1>2. EndFrame \in Frame /\ Len(EndFrame.body) = 0
  BY <1>1 DEF EndFrame, Frame
<1>3. ASSUME NEW f \in Frames
      PROVE  f \in Frame /\ f.type # END /\ f.type < END /\ Len(f.body) < Word
  <2>1. f \in [type : 0 .. END - 1, flags : Byte, body : Seq(Byte)] /\ Len(f.body) < Word
    BY FramingAssumption
  <2>. QED  BY <1>1, <2>1 DEF Frame
<1>. QED  BY <1>1, <1>2, <1>3

LEMMA FrameTyped ==
  ASSUME NEW f \in Frame
  PROVE  /\ f.type \in 0 .. Word - 1 /\ f.flags \in Byte /\ f.body \in Seq(Byte)
         /\ Len(f.body) \in Nat /\ (Len(f.body) < Word => Len(f.body) \in 0 .. Word - 1)
<1>1. f.type \in 0 .. END /\ f.flags \in Byte /\ f.body \in Seq(Byte)
  BY DEF Frame
<1>2. f.type \in 0 .. Word - 1
  BY <1>1, FramesAre, VarintAssumption
<1>. QED  BY <1>1, <1>2, VarintAssumption

\* What a frame is on the wire: type in a bytes, flags, length in b bytes, body.
Laid(f, w, a, b) ==
  /\ w \in Seq(Byte)
  /\ a = Len(EncodeVarint[f.type]) /\ b = Len(EncodeVarint[Len(f.body)])
  /\ a \in Nat \ {0} /\ b \in Nat \ {0} /\ Len(w) = a + 1 + b + Len(f.body)
  /\ \A i \in 1 .. a : w[i] = EncodeVarint[f.type][i]
  /\ w[a + 1] = f.flags
  /\ \A i \in 1 .. b : w[a + 1 + i] = EncodeVarint[Len(f.body)][i]
  /\ \A i \in 1 .. Len(f.body) : w[a + 1 + b + i] = f.body[i]

LEMMA FrameIsLaid ==
  ASSUME NEW f \in Frame, Len(f.body) < Word
  PROVE  Laid(f, WriteFrame(f), Len(EncodeVarint[f.type]), Len(EncodeVarint[Len(f.body)]))
<1>. DEFINE e == EncodeVarint[f.type]  d == EncodeVarint[Len(f.body)]
            a == Len(e)  b == Len(d)  w == WriteFrame(f)  c == <<f.flags>>
<1>1. f.type \in 0 .. Word - 1 /\ Len(f.body) \in 0 .. Word - 1
      /\ f.body \in Seq(Byte) /\ f.flags \in Byte
  BY FrameTyped
<1>2. e \in Seq(Byte) /\ d \in Seq(Byte) /\ a \in Nat \ {0} /\ b \in Nat \ {0}
  BY <1>1, EncodeTyped, VarintAssumption
<1>3. w = ((e \o c) \o d) \o f.body
  BY DEF WriteFrame
<1>4. c \in Seq(Byte) /\ Len(c) = 1 /\ c[1] = f.flags
  BY <1>1
<1>. HIDE DEF e, d, c, w
<1>. DEFINE x == e \o c  y == x \o d  z == y \o f.body
<1>5. x \in Seq(Byte) /\ Len(x) = a + 1 /\ (\A i \in 1 .. a : x[i] = e[i]) /\ x[a + 1] = f.flags
  <2>1. Joined(e, c, x)
    BY <1>2, <1>4, JoinIs DEF Joined
  <2>. HIDE DEF x
  <2>2. 1 \in 1 .. Len(c)
    BY <1>4
  <2>. QED  BY <2>1, <2>2, <1>4 DEF Joined
<1>. HIDE DEF x
<1>6. y \in Seq(Byte) /\ Len(y) = a + 1 + b /\ (\A i \in 1 .. a + 1 : y[i] = x[i])
      /\ \A i \in 1 .. b : y[a + 1 + i] = d[i]
  <2>1. Joined(x, d, y)
    BY <1>2, <1>5, JoinIs DEF Joined
  <2>. HIDE DEF y
  <2>. QED  BY <2>1, <1>5 DEF Joined
<1>. HIDE DEF y
<1>7. z \in Seq(Byte) /\ Len(z) = a + 1 + b + Len(f.body)
      /\ (\A i \in 1 .. a + 1 + b : z[i] = y[i])
      /\ \A i \in 1 .. Len(f.body) : z[a + 1 + b + i] = f.body[i]
  <2>1. Joined(y, f.body, z)
    BY <1>1, <1>6, JoinIs DEF Joined
  <2>. HIDE DEF z
  <2>2. Len(z) = Len(y) + Len(f.body) /\ Len(f.body) \in Nat
    BY <2>1 DEF Joined
  <2>. QED  BY <2>1, <2>2, <1>2, <1>6 DEF Joined
<1>. HIDE DEF z
<1>8. w = z
  BY <1>3 DEF x, y, z
<1>9. \A i \in 1 .. a : w[i] = e[i]
  <2>1. \A i \in 1 .. a : i \in 1 .. a + 1 /\ i \in 1 .. a + 1 + b
    BY <1>2
  <2>. QED  BY <2>1, <1>5, <1>6, <1>7, <1>8
<1>10. w[a + 1] = f.flags
  <2>1. a + 1 \in 1 .. a + 1 /\ a + 1 \in 1 .. a + 1 + b
    BY <1>2
  <2>. QED  BY <2>1, <1>5, <1>6, <1>7, <1>8
<1>11. \A i \in 1 .. b : w[a + 1 + i] = d[i]
  <2>1. \A i \in 1 .. b : a + 1 + i \in 1 .. a + 1 + b
    BY <1>2
  <2>. QED  BY <2>1, <1>6, <1>7, <1>8
<1>. QED  BY <1>1, <1>2, <1>7, <1>8, <1>9, <1>10, <1>11 DEF Laid, e, d, w

\* What both decoders make of the type and of the length of a frame in buf.
TypeRead(f, buf, a) ==
  /\ From(buf, a) \in Seq(Byte) /\ Len(From(buf, a)) = Len(buf) - a
  /\ DecodeVarint(buf) = Ok(f.type, a) /\ StreamVarint(buf) = Ok(f.type, a)

LEMMA TypeArrives ==
  ASSUME NEW f \in Frame, NEW buf \in Seq(Byte), NEW w, NEW a, NEW b, Laid(f, w, a, b),
         Alike(buf, w), a <= Len(buf)
  PROVE  TypeRead(f, buf, a)
<1>1. f.type \in 0 .. Word - 1 /\ Len(f.body) \in Nat
  BY FrameTyped
<1>2. \A i \in 1 .. a : i \in 1 .. Len(buf) /\ i <= Len(w)
  <2>. DEFINE n == Len(f.body)  l == Len(buf)  m == Len(w)
  <2>1. a \in Nat /\ b \in Nat /\ m = a + 1 + b + n /\ a <= l
    BY DEF Laid
  <2>2. l \in Nat /\ n \in Nat
    BY <1>1
  <2>. HIDE DEF l, m, n
  <2>3. \A i \in 1 .. a : i \in 1 .. l /\ i <= m
    BY <2>1, <2>2
  <2>. QED  BY <2>3 DEF l, m
<1>3. Alike(buf, EncodeVarint[f.type]) /\ Len(EncodeVarint[f.type]) <= Len(buf)
  <2> SUFFICES ASSUME NEW i \in 1 .. Len(buf), i <= a
               PROVE  buf[i] = EncodeVarint[f.type][i]
    BY DEF Alike, Laid
  <2>1. i \in 1 .. a
    BY DEF Laid
  <2>. QED  BY <2>1, <1>2 DEF Alike, Laid
<1>4. a \in 0 .. Len(buf)
  BY DEF Laid
<1>. QED  BY <1>1, <1>3, <1>4, WordArrives, FromIs DEF TypeRead, Laid

LEMMA TypeBreaks ==
  ASSUME NEW f \in Frame, NEW buf \in Seq(Byte), NEW w, NEW a, NEW b, Laid(f, w, a, b),
         Alike(buf, w), Len(buf) < a
  PROVE  /\ DecodeVarint(buf) \in {Err("VarintTooLong"), Err("UnexpectedEof")}
         /\ StreamVarint(buf) \in {Err("VarintTooLong"), Err("Io")}
<1>1. f.type \in 0 .. Word - 1 /\ Len(f.body) \in Nat
  BY FrameTyped
<1>2. \A i \in 1 .. Len(buf) : i \in 1 .. a /\ i <= Len(w)
  <2>. DEFINE n == Len(f.body)  l == Len(buf)  m == Len(w)
  <2>1. a \in Nat /\ b \in Nat /\ m = a + 1 + b + n /\ l < a
    BY DEF Laid
  <2>2. l \in Nat /\ n \in Nat
    BY <1>1
  <2>. HIDE DEF l, m, n
  <2>3. \A i \in 1 .. l : i \in 1 .. a /\ i <= m
    BY <2>1, <2>2
  <2>. QED  BY <2>3 DEF l, m
<1>3. Alike(buf, EncodeVarint[f.type]) /\ Len(buf) < Len(EncodeVarint[f.type])
  BY <1>2 DEF Alike, Laid
<1>. QED  BY <1>1, <1>3, WordBreaks

\* The bytes from the length on.
LEMMA LengthAlike ==
  ASSUME NEW f \in Frame, NEW buf \in Seq(Byte), NEW w, NEW a, NEW b, Laid(f, w, a, b),
         Alike(buf, w), a + 1 <= Len(buf)
  PROVE  /\ From(buf, a + 1) \in Seq(Byte) /\ Len(From(buf, a + 1)) = Len(buf) - (a + 1)
         /\ Alike(From(buf, a + 1), EncodeVarint[Len(f.body)])
         /\ From(buf, a) # <<>> /\ From(buf, a)[1] = f.flags
<1>. DEFINE r == From(buf, a + 1)
<1>1. a \in Nat /\ a + 1 \in 0 .. Len(buf) /\ a \in 0 .. Len(buf)
  BY DEF Laid
<1>2. r \in Seq(Byte) /\ Len(r) = Len(buf) - (a + 1)
      /\ \A i \in 1 .. Len(buf) - (a + 1) : r[i] = buf[a + 1 + i]
  BY <1>1, FromIs
<1>3. Len(From(buf, a)) = Len(buf) - a /\ From(buf, a)[1] = buf[a + 1]
  <2>1. 1 \in 1 .. Len(buf) - a
    BY <1>1
  <2>. QED  BY <1>1, <2>1, FromIs
<1>4. buf[a + 1] = f.flags
  <2>1. a + 1 \in 1 .. Len(buf) /\ a + 1 <= Len(w)
    <3>. DEFINE m == Len(f.body)
    <3>1. a \in Nat /\ b \in Nat /\ m \in Nat /\ Len(w) = a + 1 + b + m
      BY FrameTyped DEF Laid
    <3>. HIDE DEF m
    <3>. QED  BY <3>1, <1>1
  <2>. QED  BY <2>1 DEF Laid, Alike
<1>. HIDE DEF r
<1>5. Alike(r, EncodeVarint[Len(f.body)])
  <2> SUFFICES ASSUME NEW i \in 1 .. Len(r), i <= b
               PROVE  r[i] = EncodeVarint[Len(f.body)][i]
    BY DEF Alike, Laid
  <2>1. i \in 1 .. b /\ a + 1 + i \in 1 .. Len(buf) /\ a + 1 + i <= Len(w)
    <3>. DEFINE m == Len(f.body)
    <3>1. a \in Nat /\ b \in Nat /\ m \in Nat /\ Len(w) = a + 1 + b + m
      BY FrameTyped DEF Laid
    <3>. HIDE DEF m
    <3>2. i \in Nat \ {0} /\ i <= Len(buf) - (a + 1) /\ Len(buf) \in Nat
      BY <1>2
    <3>. QED  BY <3>1, <3>2
  <2>. QED  BY <2>1, <1>2 DEF Laid, Alike
<1>. QED  BY <1>1, <1>2, <1>3, <1>4, <1>5 DEF r

Cut == {Err("VarintTooLong"), Err("UnexpectedEof"), Err("Io"), Err("Died")}

LEMMA CutFails ==
  \A r \in Cut : Failed(r) /\ r.error \notin {"header", "frames", "ok", "InvalidBlockType"}
BY DEF Cut, Err, Failed

LEMMA OkIs ==
  ASSUME NEW v, NEW n
  PROVE  ~Failed(Ok(v, n)) /\ Ok(v, n).value = v /\ Ok(v, n).n = n
BY DEF Ok, Failed

\* Room is made for a length that a buffer can have; of one that was not read the error stays.
LEMMA ResizedIs ==
  /\ \A x \in Cut : Resized(x) = x
  /\ \A m \in Nat : \A n : Resized(Ok(m, n)) = IF m > Memory THEN Err("Died") ELSE Ok(m, n)
BY CutFails, OkIs DEF Resized

\* What follows the type of a frame, whichever decoder has read its length.
LEMMA RestArrives ==
  ASSUME NEW f \in Frame, NEW buf \in Seq(Byte), NEW w, NEW a, NEW b, Laid(f, w, a, b),
         Alike(buf, w), Len(w) <= Len(buf), NEW eof
  PROVE  ReadRest(f.type, From(buf, a), Ok(Len(f.body), b), eof) = Ok(f, Len(w) - a)
<1>. DEFINE r == From(buf, a)  m == Len(f.body)
            body == SubSeq(r, 2 + b, 1 + b + m)
<1>1. a \in Nat \ {0} /\ b \in Nat \ {0} /\ m \in Nat /\ Len(w) = a + 1 + b + m
      /\ a + 1 <= Len(buf) /\ a \in 0 .. Len(buf) /\ Len(buf) \in Nat /\ Len(w) <= Len(buf)
  <2>1. a \in Nat \ {0} /\ b \in Nat \ {0} /\ m \in Nat /\ Len(w) = a + 1 + b + m
    BY FrameTyped DEF Laid
  <2>2. Len(buf) \in Nat
    OBVIOUS
  <2>. HIDE DEF m
  <2>. QED  BY <2>1, <2>2
<1>2. r # <<>> /\ r[1] = f.flags
  BY <1>1, LengthAlike
<1>3. r \in Seq(Byte) /\ Len(r) = Len(buf) - a
      /\ \A i \in 1 .. Len(buf) - a : r[i] = buf[a + i]
  BY <1>1, FromIs
<1>. HIDE DEF r, m
<1>4. body = f.body
  <2>1. 2 + b \in 1 .. Len(r) + 1 /\ 1 + b + m \in 0 .. Len(r) /\ 1 + b + m <= Len(r)
    BY <1>1, <1>3
  <2>2. body \in Seq(Byte) /\ Len(body) = m /\ \A i \in 1 .. m : body[i] = r[1 + b + i]
    BY <2>1, <1>1, <1>3
  <2>3. \A i \in 1 .. m : r[1 + b + i] = buf[a + 1 + b + i]
    <3> SUFFICES ASSUME NEW i \in 1 .. m
                 PROVE  r[1 + b + i] = buf[a + 1 + b + i]
      OBVIOUS
    <3>1. 1 + b + i \in 1 .. Len(buf) - a /\ a + (1 + b + i) = a + 1 + b + i
      BY <1>1
    <3>. QED  BY <3>1, <1>3
  <2>4. \A i \in 1 .. m : buf[a + 1 + b + i] = f.body[i]
    <3> SUFFICES ASSUME NEW i \in 1 .. m
                 PROVE  buf[a + 1 + b + i] = f.body[i]
      OBVIOUS
    <3>1. a + 1 + b + i \in 1 .. Len(buf) /\ a + 1 + b + i <= Len(w)
      BY <1>1
    <3>2. w[a + 1 + b + i] = f.body[i]
      BY DEF Laid, m
    <3>. QED  BY <3>1, <3>2 DEF Alike
  <2>5. f.body \in Seq(Byte)
    BY FrameTyped
  <2>. HIDE DEF body
  <2>6. \A i \in 1 .. m : body[i] = f.body[i]
    BY <2>2, <2>3, <2>4
  <2>7. Len(body) = Len(f.body)
    BY <2>2 DEF m
  <2>. QED  BY <2>2, <2>5, <2>6, <2>7
<1>5. ~(1 + b + m > Len(r))
  BY <1>1, <1>3
<1>6. 1 + b + m = Len(w) - a
  BY <1>1
<1>7. f = [type |-> f.type, flags |-> f.flags, body |-> f.body]
  BY DEF Frame
<1>8. ReadRest(f.type, r, Ok(m, b), eof)
        = Ok([type |-> f.type, flags |-> r[1], body |-> SubSeq(r, 2 + b, 1 + b + m)], 1 + b + m)
  BY <1>2, <1>5, OkIs DEF ReadRest
<1>. QED  BY <1>2, <1>4, <1>6, <1>7, <1>8 DEF r, m

LEMMA TypeFits ==
  ASSUME NEW t \in Nat, t <= END
  PROVE  ~Wide(t) /\ t % (END + 1) = t
<1>. DEFINE n == END
<1>1. n \in Nat /\ t <= n
  BY FramesAre
<1>. HIDE DEF n
<1>2. ~(t > n) /\ t % (n + 1) = t
  BY <1>1
<1>. QED  BY <1>2 DEF Wide, n

\* A frame whose bytes are all there is read as it was written, by both decoders.
LEMMA FrameArrives ==
  ASSUME NEW f \in Frames, NEW buf \in Seq(Byte), Len(buf) <= Memory,
         Len(WriteFrame(f)) <= Len(buf), Alike(buf, WriteFrame(f))
  PROVE  /\ ReadFrame(buf) = Ok(f, Len(WriteFrame(f)))
         /\ ReadNextBlock(buf) = Ok(f, Len(WriteFrame(f)))
<1>. DEFINE w == WriteFrame(f)  a == Len(EncodeVarint[f.type])  m == Len(f.body)
            b == Len(EncodeVarint[m])
<1>1. f \in Frame /\ f.type # END /\ m < Word /\ f.type \in Nat /\ f.type <= END
  <2>1. f \in Frame /\ f.type # END /\ f.type < END /\ m < Word /\ END \in Nat
    BY FramesAre
  <2>2. f.type \in 0 .. END
    BY <2>1 DEF Frame
  <2>. HIDE DEF m
  <2>. QED  BY <2>1, <2>2
<1>2. Laid(f, w, a, b) /\ Alike(buf, w) /\ Len(w) <= Len(buf)
  BY <1>1, FrameIsLaid
<1>. HIDE DEF w, a, b
<1>3. /\ a \in Nat /\ b \in Nat /\ m \in 0 .. Word - 1 /\ m \in Nat
      /\ a + 1 + b <= Len(buf) /\ a + 1 <= Len(buf) /\ a <= Len(buf)
      /\ Len(w) = a + 1 + b + m /\ b = Len(EncodeVarint[m])
  <2>1. a \in Nat /\ b \in Nat /\ m \in Nat /\ m \in 0 .. Word - 1
        /\ Len(w) = a + 1 + b + m /\ b = Len(EncodeVarint[m])
    BY <1>1, <1>2, FrameTyped DEF Laid
  <2>2. Len(buf) \in Nat /\ Len(w) <= Len(buf)
    BY <1>2
  <2>. DEFINE x == Len(w)  y == Len(buf)
  <2>3. a \in Nat /\ b \in Nat /\ m \in Nat /\ x = a + 1 + b + m /\ x <= y /\ y \in Nat
    BY <2>1, <2>2
  <2>. HIDE DEF m, x, y
  <2>4. a + 1 + b <= y /\ a + 1 <= y /\ a <= y
    BY <2>3
  <2>. QED  BY <2>1, <2>4 DEF y
<1>4. TypeRead(f, buf, a)
  BY <1>1, <1>2, <1>3, TypeArrives
<1>5. DecodeVarint(From(buf, a + 1)) = Ok(m, b) /\ StreamVarint(From(buf, a + 1)) = Ok(m, b)
  <2>. DEFINE r == From(buf, a + 1)
  <2>1. r \in Seq(Byte) /\ Len(r) = Len(buf) - (a + 1) /\ Alike(r, EncodeVarint[m])
    BY <1>1, <1>2, <1>3, LengthAlike
  <2>. HIDE DEF r
  <2>2. b <= Len(r)
    <3>. DEFINE x == Len(r)  y == Len(buf)
    <3>1. a \in Nat /\ b \in Nat /\ x = y - (a + 1) /\ a + 1 + b <= y
      BY <1>3, <2>1, Zenon
    <3>2. y \in Nat
      OBVIOUS
    <3>. HIDE DEF x, y
    <3>3. b <= x
      BY <3>1, <3>2
    <3>. QED  BY <3>3 DEF x
  <2>. HIDE DEF m
  <2>3. DecodeVarint(r) = Ok(m, b) /\ StreamVarint(r) = Ok(m, b)
    BY <1>3, <2>1, <2>2, WordArrives
  <2>. QED  BY <2>3 DEF r
<1>11. Resized(StreamVarint(From(buf, a + 1))) = Ok(m, b)
  <2>. DEFINE x == Len(w)  y == Len(buf)
  <2>1. a \in Nat /\ b \in Nat /\ m \in Nat /\ x = a + 1 + b + m
    BY <1>3, Zenon
  <2>2. x <= y /\ y \in Nat /\ y <= Memory
    BY <1>2
  <2>3. Memory \in Nat
    BY FramingAssumption
  <2>. HIDE DEF m, x, y
  <2>4. ~(m > Memory)
    BY <2>1, <2>2, <2>3
  <2>. QED  BY <2>1, <2>4, <1>5, ResizedIs
<1>6. \A eof : ReadRest(f.type, From(buf, a), Ok(m, b), eof) = Ok(f, Len(w) - a)
  BY <1>1, <1>2, RestArrives
<1>7. a + (Len(w) - a) = Len(w)
  BY <1>3
<1>8. ~Wide(f.type) /\ f.type % (END + 1) = f.type
  BY <1>1, TypeFits
<1>. HIDE DEF m
<1>9. ReadFrame(buf) = Ok(f, Len(w))
  <2>1. ReadFrame(buf) = LET rest == ReadRest(f.type, From(buf, a), Ok(m, b), "UnexpectedEof") IN
                         IF Failed(rest) THEN rest ELSE Ok(rest.value, a + rest.n)
    BY <1>1, <1>4, <1>5, <1>8, OkIs DEF ReadFrame, TypeRead
  <2>. QED  BY <2>1, <1>6, <1>7, OkIs
<1>10. ReadNextBlock(buf) = Ok(f, Len(w))
  <2>1. ReadNextBlock(buf) = LET rest == ReadRest(f.type, From(buf, a), Ok(m, b), "Io") IN
                             IF Failed(rest) THEN rest ELSE Ok(rest.value, a + rest.n)
    BY <1>1, <1>4, <1>11, <1>8, OkIs DEF ReadNextBlock, TypeRead
  <2>. QED  BY <2>1, <1>6, <1>7, OkIs
<1>. QED  BY <1>9, <1>10 DEF w

\* Of a frame that breaks off neither decoder reads anything.
LEMMA FrameBreaks ==
  ASSUME NEW f \in Frames, NEW buf \in Seq(Byte),
         Len(buf) < Len(WriteFrame(f)), Alike(buf, WriteFrame(f))
  PROVE  ReadFrame(buf) \in Cut /\ ReadNextBlock(buf) \in Cut
<1>. DEFINE w == WriteFrame(f)  a == Len(EncodeVarint[f.type])  m == Len(f.body)
            b == Len(EncodeVarint[m])
<1>1. f \in Frame /\ f.type # END /\ m < Word /\ f.type \in Nat /\ f.type <= END
  <2>1. f \in Frame /\ f.type # END /\ f.type < END /\ m < Word /\ END \in Nat
    BY FramesAre
  <2>2. f.type \in 0 .. END
    BY <2>1 DEF Frame
  <2>. HIDE DEF m
  <2>. QED  BY <2>1, <2>2
<1>2. Laid(f, w, a, b) /\ Alike(buf, w) /\ Len(buf) < Len(w)
  BY <1>1, FrameIsLaid
<1>. HIDE DEF w, a, b
<1>3. a \in Nat /\ b \in Nat /\ m \in Nat /\ m \in 0 .. Word - 1 /\ Len(w) = a + 1 + b + m
      /\ Len(buf) \in Nat
  BY <1>1, <1>2, FrameTyped DEF Laid
<1>4. CASE Len(buf) < a
  <2>1. DecodeVarint(buf) \in Cut /\ StreamVarint(buf) \in Cut
    BY <1>1, <1>2, <1>4, TypeBreaks DEF Cut
  <2>. QED  BY <2>1, CutFails DEF ReadFrame, ReadNextBlock
<1>5. CASE a <= Len(buf)
  <2>. DEFINE r == From(buf, a)  q == From(buf, a + 1)
              Rest(len, eof) == ReadRest(f.type, r, len, eof)
  <2>1. TypeRead(f, buf, a)
    BY <1>1, <1>2, <1>5, TypeArrives
  <2>2. ~Wide(f.type) /\ f.type % (END + 1) = f.type
    BY <1>1, TypeFits
  <2>3. Rest(DecodeVarint(q), "UnexpectedEof") \in Cut /\ Rest(Resized(StreamVarint(q)), "Io") \in Cut
    <3>1. CASE Len(buf) = a
      <4>1. r = <<>>
        BY <2>1, <3>1 DEF TypeRead
      <4>. QED  BY <4>1 DEF ReadRest, Cut
    <3>2. CASE Len(buf) # a
      <4>1. a + 1 <= Len(buf)
        BY <1>3, <1>5, <3>2
      <4>2. q \in Seq(Byte) /\ Len(q) = Len(buf) - (a + 1) /\ Alike(q, EncodeVarint[m])
            /\ r # <<>>
        BY <1>1, <1>2, <4>1, LengthAlike
      <4>3. Len(r) = Len(buf) - a
        BY <2>1 DEF TypeRead
      <4>. HIDE DEF q, r
      <4>4. b = Len(EncodeVarint[m])
        BY <1>2 DEF Laid
      <4>5. CASE Len(q) < b
        <5>1. DecodeVarint(q) \in Cut /\ StreamVarint(q) \in Cut
          BY <1>3, <4>2, <4>4, <4>5, WordBreaks DEF Cut
        <5>2. Resized(StreamVarint(q)) \in Cut
          BY <5>1, ResizedIs
        <5>. QED  BY <5>1, <5>2, <4>2, CutFails DEF ReadRest
      <4>6. CASE b <= Len(q)
        <5>1. DecodeVarint(q) = Ok(m, b) /\ StreamVarint(q) = Ok(m, b)
          BY <1>3, <4>2, <4>4, <4>6, WordArrives
        <5>. HIDE DEF m
        <5>2. 1 + b + m > Len(r)
          BY <1>2, <1>3, <4>3
        <5>3. Resized(StreamVarint(q)) \in {Ok(m, b), Err("Died")}
          BY <5>1, <1>3, ResizedIs
        <5>4. CASE Resized(StreamVarint(q)) = Ok(m, b)
          BY <5>1, <5>2, <5>4, <4>2, OkIs DEF ReadRest, Cut
        <5>5. CASE Resized(StreamVarint(q)) = Err("Died")
          <6>1. Err("Died") \in Cut /\ Failed(Err("Died"))
            BY CutFails DEF Cut
          <6>. QED  BY <5>1, <5>2, <5>5, <6>1, <4>2, OkIs DEF ReadRest, Cut
        <5>. QED  BY <5>3, <5>4, <5>5
      <4>. QED  BY <4>2, <4>5, <4>6, <1>3
    <3>. QED  BY <3>1, <3>2
  <2>. HIDE DEF Rest
  <2>4. ReadFrame(buf) = Rest(DecodeVarint(q), "UnexpectedEof")
    <3>1. Failed(Rest(DecodeVarint(q), "UnexpectedEof"))
      BY <2>3, CutFails
    <3>. QED  BY <1>1, <2>1, <2>2, <3>1, OkIs DEF ReadFrame, TypeRead, Rest
  <2>5. ReadNextBlock(buf) = Rest(Resized(StreamVarint(q)), "Io")
    <3>1. Failed(Rest(Resized(StreamVarint(q)), "Io"))
      BY <2>3, CutFails
    <3>. QED  BY <1>1, <2>1, <2>2, <3>1, OkIs DEF ReadNextBlock, TypeRead, Rest
  <2>. QED  BY <2>3, <2>4, <2>5
<1>. QED  BY <1>3, <1>4, <1>5

\* END as it is laid out, and its type when that is all there.
LEMMA EndIsLaid ==
  ASSUME NEW buf \in Seq(Byte), Alike(buf, WriteFrame(EndFrame))
  PROVE  LET a == Len(EncodeVarint[END])  b == Len(EncodeVarint[0]) IN
         /\ Laid(EndFrame, WriteFrame(EndFrame), a, b)
         /\ a \in Nat /\ b \in Nat /\ Len(WriteFrame(EndFrame)) = a + 1 + b
         /\ a <= Len(buf) => ReadFrame(buf) = Ok(EndFrame, a) /\ ReadNextBlock(buf) = Ok(EndFrame, a)
         /\ Len(buf) < a => ReadFrame(buf) \in Cut /\ ReadNextBlock(buf) \in Cut
<1>. DEFINE w == WriteFrame(EndFrame)  a == Len(EncodeVarint[END])  b == Len(EncodeVarint[0])
<1>1. EndFrame \in Frame /\ EndFrame.type = END /\ Len(EndFrame.body) = 0
  BY FramesAre DEF EndFrame
<1>2. Laid(EndFrame, w, a, b)
  <2>1. Len(EndFrame.body) < Word
    BY <1>1, VarintAssumption
  <2>. HIDE DEF w
  <2>. QED  BY <1>1, <2>1, FrameIsLaid DEF w
<1>3. a \in Nat /\ b \in Nat /\ Len(w) = a + 1 + b
  BY <1>1, <1>2 DEF Laid
<1>4. ASSUME a <= Len(buf)
      PROVE  ReadFrame(buf) = Ok(EndFrame, a) /\ ReadNextBlock(buf) = Ok(EndFrame, a)
  <2>. HIDE DEF w, a, b
  <2>1. TypeRead(EndFrame, buf, a)
    BY <1>1, <1>2, <1>4, TypeArrives DEF w
  <2>2. END % (END + 1) = END
    BY FramesAre, TypeFits
  <2>. QED  BY <1>1, <2>1, <2>2, OkIs DEF TypeRead, ReadFrame, ReadNextBlock
<1>5. ASSUME Len(buf) < a
      PROVE  ReadFrame(buf) \in Cut /\ ReadNextBlock(buf) \in Cut
  <2>. HIDE DEF w, a, b
  <2>1. DecodeVarint(buf) \in Cut /\ StreamVarint(buf) \in Cut
    BY <1>1, <1>2, <1>5, TypeBreaks DEF Cut, w
  <2>. QED  BY <2>1, CutFails DEF ReadFrame, ReadNextBlock
<1>. QED  BY <1>2, <1>3, <1>4, <1>5

\* An END that is all there ends both decoders, wherever the file goes on to.
LEMMA EndArrives ==
  ASSUME NEW buf \in Seq(Byte), Alike(buf, WriteFrame(EndFrame)),
         Len(WriteFrame(EndFrame)) <= Len(buf)
  PROVE  LET a == Len(EncodeVarint[END]) IN
         /\ ReadFrame(buf) = Ok(EndFrame, a) /\ ReadNextBlock(buf) = Ok(EndFrame, a)
         /\ EndSize(buf, a) = Ok(0, Len(WriteFrame(EndFrame)))
         /\ ~Failed(ReadEndTail(buf, a))
<1>. DEFINE w == WriteFrame(EndFrame)  a == Len(EncodeVarint[END])  b == Len(EncodeVarint[0])
            q == From(buf, a + 1)
<1>1. EndFrame \in Frame /\ EndFrame.type = END /\ Len(EndFrame.body) = 0 /\ 0 \in 0 .. Word - 1
  BY FramesAre DEF EndFrame
<1>2. Laid(EndFrame, w, a, b) /\ a \in Nat /\ b \in Nat /\ Len(w) = a + 1 + b
      /\ (a <= Len(buf) => ReadFrame(buf) = Ok(EndFrame, a) /\ ReadNextBlock(buf) = Ok(EndFrame, a))
  BY EndIsLaid
<1>3. Len(buf) \in Nat /\ Len(w) <= Len(buf) /\ Alike(buf, w)
  OBVIOUS
<1>. HIDE DEF w, a
<1>4. a + 1 + b <= Len(buf) /\ a <= Len(buf) /\ a + 1 <= Len(buf) /\ ~(a >= Len(buf))
  <2>1. b # 0
    BY <1>2 DEF Laid
  <2>. HIDE DEF b
  <2>. QED  BY <1>2, <1>3, <2>1
<1>5. q \in Seq(Byte) /\ Len(q) = Len(buf) - (a + 1) /\ Alike(q, EncodeVarint[0])
  BY <1>1, <1>2, <1>3, <1>4, LengthAlike
<1>. HIDE DEF q
<1>6. Len(EncodeVarint[0]) <= Len(q)
  <2>. HIDE DEF b
  <2>1. b <= Len(q)
    BY <1>2, <1>3, <1>4, <1>5
  <2>. QED  BY <2>1 DEF b
<1>7. DecodeVarint(q) = Ok(0, b) /\ StreamVarint(q) = Ok(0, b)
  BY <1>1, <1>5, <1>6, WordArrives
<1>. HIDE DEF b
<1>8. EndSize(buf, a) = Ok(0, a + 1 + b)
  BY <1>4, <1>7, OkIs DEF EndSize, q
<1>9. ~Failed(ReadEndTail(buf, a))
  BY <1>4, <1>7, OkIs DEF ReadEndTail, q
<1>. QED  BY <1>2, <1>4, <1>8, <1>9 DEF a, w

\* An END that breaks off is an error for both.
LEMMA EndBreaks ==
  ASSUME NEW buf \in Seq(Byte), Alike(buf, WriteFrame(EndFrame)),
         Len(buf) < Len(WriteFrame(EndFrame))
  PROVE  LET a == Len(EncodeVarint[END]) IN
         \/ ReadFrame(buf) \in Cut /\ ReadNextBlock(buf) \in Cut
         \/ /\ ReadFrame(buf) = Ok(EndFrame, a) /\ ReadNextBlock(buf) = Ok(EndFrame, a)
            /\ EndSize(buf, a) \in Cut /\ ReadEndTail(buf, a) \in Cut
<1>. DEFINE w == WriteFrame(EndFrame)  a == Len(EncodeVarint[END])  b == Len(EncodeVarint[0])
            q == From(buf, a + 1)
<1>1. EndFrame \in Frame /\ EndFrame.type = END /\ Len(EndFrame.body) = 0 /\ 0 \in 0 .. Word - 1
  BY FramesAre DEF EndFrame
<1>2. Laid(EndFrame, w, a, b) /\ a \in Nat /\ b \in Nat /\ Len(w) = a + 1 + b
      /\ (a <= Len(buf) => ReadFrame(buf) = Ok(EndFrame, a) /\ ReadNextBlock(buf) = Ok(EndFrame, a))
      /\ (Len(buf) < a => ReadFrame(buf) \in Cut /\ ReadNextBlock(buf) \in Cut)
  BY EndIsLaid
<1>3. Len(buf) \in Nat /\ Len(buf) < Len(w) /\ Alike(buf, w)
  OBVIOUS
<1>. HIDE DEF w, a
<1>4. CASE Len(buf) < a
  BY <1>2, <1>4
<1>5. CASE Len(buf) = a
  <2>1. a <= Len(buf) /\ a >= Len(buf)
    BY <1>2, <1>5
  <2>2. EndSize(buf, a) = Err("UnexpectedEof") /\ ReadEndTail(buf, a) = Err("Io")
    BY <2>1 DEF EndSize, ReadEndTail
  <2>. QED  BY <1>2, <2>1, <2>2 DEF Cut, a
<1>6. CASE a < Len(buf)
  <2>1. a <= Len(buf) /\ ~(a >= Len(buf)) /\ a + 1 <= Len(buf)
    BY <1>2, <1>3, <1>6
  <2>2. q \in Seq(Byte) /\ Len(q) = Len(buf) - (a + 1) /\ Alike(q, EncodeVarint[0])
    BY <1>1, <1>2, <1>3, <2>1, LengthAlike
  <2>. HIDE DEF q
  <2>3. Len(q) < Len(EncodeVarint[0])
    <3>. HIDE DEF b
    <3>1. Len(q) < b
      BY <1>2, <1>3, <2>1, <2>2
    <3>. QED  BY <3>1 DEF b
  <2>4. DecodeVarint(q) \in Cut /\ StreamVarint(q) \in Cut
    BY <1>1, <2>2, <2>3, WordBreaks DEF Cut
  <2>5. EndSize(buf, a) \in Cut /\ ReadEndTail(buf, a) \in Cut
    BY <2>1, <2>4, CutFails DEF EndSize, ReadEndTail, q
  <2>. QED  BY <1>2, <2>1, <2>5 DEF a
<1>. QED  BY <1>2, <1>3, <1>4, <1>5, <1>6
-----------------------------------------------------------------------------
(* Files.                                                                  *)

\* Where the frames of what was sent lie in its file.
FramesOf(s) == [i \in DOMAIN s.frames |-> WriteFrame(s.frames[i])]

\* The bytes of t are in buf from the n-th on.
Holds(buf, n, t) == n + Len(t) <= Len(buf) /\ \A i \in 1 .. Len(t) : buf[n + i] = t[i]

LEMMA HeaderIs ==
  ASSUME NEW flags \in Byte
  PROVE  LET h == WriteHeader(flags)  n == Len(Magic) IN
         /\ h \in Seq(Byte) /\ Len(h) = HeaderSize /\ HeaderSize \in Nat
         /\ n \in Nat \ {0} /\ HeaderSize = n + 4
         /\ \A i \in 1 .. n : h[i] = Magic[i]
         /\ h[n + 1] = VersionMajor /\ h[HeaderSize - 1] = flags /\ h[HeaderSize] = 0
<1>. DEFINE t == <<VersionMajor, VersionMinor, flags, 0>>  n == Len(Magic)  h == Magic \o t
<1>1. t \in Seq(Byte) /\ Len(t) = 4 /\ t[1] = VersionMajor /\ t[3] = flags /\ t[4] = 0
  BY FramingAssumption, FramesAre
<1>2. Magic \in Seq(Byte) /\ n \in Nat \ {0}
  BY FramingAssumption
<1>. HIDE DEF t
<1>3. /\ h \in Seq(Byte) /\ Len(h) = n + 4 /\ \A i \in 1 .. n : h[i] = Magic[i]
      /\ \A i \in 1 .. Len(t) : h[n + i] = t[i]
  <2>1. /\ h \in Seq(Byte) /\ Len(h) = n + Len(t) /\ \A i \in 1 .. n : h[i] = Magic[i]
        /\ \A i \in 1 .. Len(t) : h[n + i] = t[i]
    BY <1>1, <1>2, JoinIs
  <2>. QED  BY <2>1, <1>1
<1>. HIDE DEF h, n
<1>4. h[n + 1] = t[1] /\ h[n + 3] = t[3] /\ h[n + 4] = t[4]
  BY <1>1, <1>3
<1>5. HeaderSize = n + 4 /\ HeaderSize - 1 = n + 3
  BY <1>2 DEF HeaderSize, n
<1>6. WriteHeader(flags) = h
  BY DEF WriteHeader, h, t
<1>. QED  BY <1>1, <1>2, <1>3, <1>4, <1>5, <1>6 DEF n

\* A file is its header, its frames one behind the other, and END.
FileLaid(s, f) ==
  LET n == Len(s.frames) IN
  /\ f \in Seq(Byte) /\ n \in Nat
  /\ \A k \in 0 .. n : SizeOf(s, k) \in Nat /\ HeaderSize <= SizeOf(s, k)
  /\ SizeOf(s, 0) = HeaderSize
  /\ \A k \in 0 .. n - 1 :
       /\ SizeOf(s, k + 1) = SizeOf(s, k) + Len(WriteFrame(s.frames[k + 1]))
       /\ SizeOf(s, k + 1) <= SizeOf(s, n)
       /\ Holds(f, SizeOf(s, k), WriteFrame(s.frames[k + 1]))
  /\ Len(f) = SizeOf(s, n) + Len(WriteFrame(EndFrame))
  /\ Holds(f, SizeOf(s, n), WriteFrame(EndFrame))
  /\ Holds(f, 0, WriteHeader(s.flags))

LEMMA WrittenTyped ==
  ASSUME NEW f \in Frame, Len(f.body) < Word
  PROVE  WriteFrame(f) \in Seq(Byte) /\ Len(WriteFrame(f)) \in Nat \ {0}
<1>. DEFINE w == WriteFrame(f)  a == Len(EncodeVarint[f.type])  m == Len(f.body)
            b == Len(EncodeVarint[m])
<1>1. Laid(f, w, a, b)
  BY FrameIsLaid
<1>. HIDE DEF w, a, b
<1>2. w \in Seq(Byte) /\ a \in Nat \ {0} /\ b \in Nat /\ m \in Nat /\ Len(w) = a + 1 + b + m
  BY <1>1, FrameTyped DEF Laid
<1>. HIDE DEF m
<1>. QED  BY <1>2 DEF w

LEMMA FileIsLaid ==
  ASSUME NEW s \in Sendable
  PROVE  FileLaid(s, File(s)) /\ Written(s) \in Seq(Byte)
<1>. DEFINE n == Len(s.frames)  S == FramesOf(s)  h == WriteHeader(s.flags)
            e == WriteFrame(EndFrame)
<1>1. n \in Nat /\ DOMAIN s.frames = 1 .. n /\ (\A i \in 1 .. n : s.frames[i] \in Frames)
      /\ s.flags \in Byte
  BY FramingAssumption DEF Sendable
<1>. HIDE DEF n
<1>2. S \in [1 .. n -> Seq(Byte)] /\ \A i \in 1 .. n : S[i] = WriteFrame(s.frames[i])
  BY <1>1, FramesAre, WrittenTyped DEF FramesOf
<1>. HIDE DEF S
<1>0. n \in Nat /\ S \in [1 .. n -> Seq(Byte)]
  BY <1>1, <1>2
<1>3. PICK p : Chained(Byte, p, S, n)
  BY <1>1, <1>2, ChainExists
<1>4. ASSUME NEW k \in 0 .. n
      PROVE  SizeOf(s, k) = HeaderSize + Len(p[k])
  <2>1. [i \in 1 .. k |-> WriteFrame(s.frames[i])] = [i \in 1 .. k |-> S[i]]
    BY <1>1, <1>2
  <2>2. FlattenSeq([i \in 1 .. k |-> S[i]]) = p[k]
    <3>. DEFINE t == [i \in 1 .. k |-> S[i]]
    <3>1. FirstOf(Byte, t, p, S, n, k)
      BY <1>0, <1>3 DEF FirstOf
    <3>. HIDE DEF t
    <3>2. FlattenSeq(t) = p[k]
      BY <3>1, FlattenIs
    <3>. QED  BY <3>2 DEF t
  <2>. QED  BY <2>1, <2>2 DEF SizeOf
<1>5. Written(s) = h \o p[n]
  <2>1. [i \in DOMAIN s.frames |-> WriteFrame(s.frames[i])] = [i \in 1 .. n |-> S[i]]
    BY <1>1, <1>2
  <2>2. n \in 0 .. n
    BY <1>1
  <2>3. FlattenSeq([i \in 1 .. n |-> S[i]]) = p[n]
    <3>. DEFINE t == [i \in 1 .. n |-> S[i]]
    <3>1. FirstOf(Byte, t, p, S, n, n)
      BY <1>0, <1>3, <2>2 DEF FirstOf
    <3>. HIDE DEF t
    <3>2. FlattenSeq(t) = p[n]
      BY <3>1, FlattenIs
    <3>. QED  BY <3>2 DEF t
  <2>. QED  BY <2>1, <2>3 DEF Written
<1>. DEFINE x == p[n]  y == h \o x  f == y \o e
<1>6. x \in Seq(Byte)
  BY <1>1, <1>3 DEF Chained
<1>7. h \in Seq(Byte) /\ Len(h) = HeaderSize /\ HeaderSize \in Nat
  BY <1>1, HeaderIs
<1>8. e \in Seq(Byte)
  <2>1. Len(EndFrame.body) < Word
    BY FramesAre, VarintAssumption
  <2>. QED  BY <2>1, FramesAre, WrittenTyped
<1>. HIDE DEF x, h, e
<1>9. /\ y \in Seq(Byte) /\ Len(y) = HeaderSize + Len(x) /\ Len(x) \in Nat
      /\ (\A i \in 1 .. Len(h) : y[i] = h[i])
      /\ \A i \in 1 .. Len(x) : y[HeaderSize + i] = x[i]
  BY <1>6, <1>7, JoinIs
<1>. HIDE DEF y
<1>10. /\ f \in Seq(Byte) /\ Len(f) = Len(y) + Len(e) /\ Len(y) \in Nat /\ Len(e) \in Nat
       /\ (\A i \in 1 .. Len(y) : f[i] = y[i])
       /\ \A i \in 1 .. Len(e) : f[Len(y) + i] = e[i]
  BY <1>8, <1>9, JoinIs
<1>11. File(s) = f
  BY <1>5 DEF File, x, y, h, e
<1>. HIDE DEF f
<1>12. SizeOf(s, n) = Len(y)
  BY <1>1, <1>4, <1>9 DEF x
<1>13. \A k \in 0 .. n : Len(p[k]) \in Nat
  BY <1>3 DEF Chained
<1>14. \A k \in 0 .. n : SizeOf(s, k) \in Nat /\ HeaderSize <= SizeOf(s, k)
  BY <1>4, <1>7, <1>13
<1>15. SizeOf(s, 0) = HeaderSize
  <2>1. p[0] = <<>> /\ 0 \in 0 .. n
    BY <1>1, <1>3 DEF Chained
  <2>. QED  BY <2>1, <1>4, <1>7
<1>16. ASSUME NEW k \in 0 .. n - 1
       PROVE  /\ SizeOf(s, k + 1) = SizeOf(s, k) + Len(WriteFrame(s.frames[k + 1]))
              /\ SizeOf(s, k + 1) <= SizeOf(s, n)
              /\ Holds(f, SizeOf(s, k), WriteFrame(s.frames[k + 1]))
  <2>. DEFINE w == WriteFrame(s.frames[k + 1])  u == Len(p[k])  v == Len(p[k + 1])
  <2>1. k \in 0 .. n /\ k + 1 \in 0 .. n /\ k + 1 \in 1 .. n
    BY <1>1
  <2>2. w = S[k + 1]
    BY <2>1, <1>2
  <2>3. v = u + Len(w) /\ v <= Len(x) /\ \A i \in 1 .. Len(w) : x[u + i] = w[i]
    <3>1. KeptAt(p, S, n, k)
      BY <1>0, <1>3, ChainKeeps
    <3>. HIDE DEF w
    <3>. QED  BY <2>2, <3>1 DEF x, KeptAt
  <2>4. u \in Nat /\ v \in Nat /\ SizeOf(s, k) = HeaderSize + u /\ SizeOf(s, k + 1) = HeaderSize + v
    BY <2>1, <1>4, <1>13
  <2>5. w \in Seq(Byte)
    BY <2>1, <2>2, <1>2
  <2>. HIDE DEF u, v, w
  <2>6. Len(w) \in Nat
    BY <2>5
  <2>7. ASSUME NEW i \in 1 .. Len(w)
        PROVE  f[SizeOf(s, k) + i] = w[i]
    <3>1. u + i \in 1 .. Len(x) /\ SizeOf(s, k) + i = HeaderSize + (u + i)
          /\ SizeOf(s, k) + i \in 1 .. Len(y)
      BY <2>3, <2>4, <2>6, <1>7, <1>9
    <3>. QED  BY <3>1, <2>3, <1>9, <1>10
  <2>8. SizeOf(s, k + 1) = SizeOf(s, k) + Len(w) /\ SizeOf(s, k + 1) <= SizeOf(s, n)
    BY <2>3, <2>4, <2>6, <1>7, <1>9, <1>12
  <2>9. SizeOf(s, k) + Len(w) <= Len(f)
    BY <2>8, <2>6, <2>4, <1>7, <1>10, <1>12
  <2>. QED  BY <2>7, <2>8, <2>9 DEF Holds, w
<1>17. Len(f) = SizeOf(s, n) + Len(e) /\ Holds(f, SizeOf(s, n), e)
  BY <1>10, <1>12 DEF Holds
<1>18. Holds(f, 0, h)
  <2>1. 0 + Len(h) <= Len(f) /\ Len(h) \in Nat /\ Len(h) <= Len(y)
    BY <1>7, <1>9, <1>10
  <2>2. \A i \in 1 .. Len(h) : 0 + i = i /\ i \in 1 .. Len(y)
    BY <2>1, <1>10
  <2>. QED  BY <2>1, <2>2, <1>9, <1>10 DEF Holds
<1>19. Written(s) \in Seq(Byte)
  BY <1>5, <1>9 DEF x, y, h
<1>. QED  BY <1>1, <1>10, <1>11, <1>14, <1>15, <1>16, <1>17, <1>18, <1>19 DEF FileLaid, n, e, h
-----------------------------------------------------------------------------
(* What both decoders make of any bytes.                                   *)

WordAlike(x, y, n) ==
  \/ x \in Cut /\ y \in Cut
  \/ \E v \in 0 .. Word - 1 : \E m \in 1 .. n : x = Ok(v, m) /\ y = Ok(v, m)

LEMMA VarintsAlike ==
  ASSUME NEW buf \in Seq(Byte)
  PROVE  WordAlike(DecodeVarint(buf), StreamVarint(buf), Len(buf))
<1>1. CASE \E n : Stops(buf, n)
  <2>1. PICK n : Stops(buf, n)
    BY <1>1
  <2>2. n \in 1 .. Len(buf)
    BY <2>1 DEF Stops
  <2>. QED  BY <2>1, <2>2, BothRead DEF WordAlike
<1>2. CASE \A n : ~Stops(buf, n)
  BY <1>2, NeitherReads DEF WordAlike, Cut
<1>. QED  BY <1>1, <1>2

FrameAlike(x, y, n) ==
  \/ x \in Cut /\ y \in Cut
  \/ \E f \in Frame : \E m \in 1 .. n : x = Ok(f, m) /\ y = Ok(f, m)

LEMMA RestsAlike ==
  ASSUME NEW t \in 0 .. END, NEW buf \in Seq(Byte), NEW x, NEW y, NEW n,
         buf # <<>> => WordAlike(x, y, n), Len(buf) <= Memory
  PROVE  FrameAlike(ReadRest(t, buf, x, "UnexpectedEof"), ReadRest(t, buf, Resized(y), "Io"),
                    Len(buf))
<1>1. CASE buf = <<>>
  BY <1>1 DEF ReadRest, FrameAlike, Cut
<1>2. CASE buf # <<>> /\ x \in Cut /\ y \in Cut
  BY <1>2, CutFails, ResizedIs DEF ReadRest, FrameAlike
<1>3. CASE buf # <<>> /\ \E v \in 0 .. Word - 1 : \E m \in 1 .. n : x = Ok(v, m) /\ y = Ok(v, m)
  <2>1. PICK v \in 0 .. Word - 1, m \in 1 .. n : x = Ok(v, m) /\ y = Ok(v, m)
    BY <1>3
  <2>2. v \in Nat /\ m \in Nat /\ Len(buf) \in Nat \ {0}
    BY <1>3, VarintAssumption
  <2>3. ~Failed(x) /\ ~Failed(y) /\ x.value = v /\ x.n = m /\ y.value = v /\ y.n = m
    BY <2>1, OkIs
  <2>6. Resized(y) = IF v > Memory THEN Err("Died") ELSE y
    BY <2>1, <2>2, ResizedIs
  <2>4. CASE 1 + m + v > Len(buf)
    <3>1. ReadRest(t, buf, x, "UnexpectedEof") \in Cut
      BY <1>3, <2>3, <2>4 DEF ReadRest, Cut
    <3>2. CASE v > Memory
      <4>1. Err("Died") \in Cut /\ Failed(Err("Died"))
        BY CutFails DEF Cut
      <4>. QED  BY <1>3, <2>6, <3>1, <3>2, <4>1 DEF ReadRest, FrameAlike
    <3>3. CASE ~(v > Memory)
      <4>1. ReadRest(t, buf, Resized(y), "Io") \in Cut
        BY <1>3, <2>3, <2>4, <2>6, <3>3 DEF ReadRest, Cut
      <4>. QED  BY <3>1, <4>1 DEF FrameAlike
    <3>. QED  BY <3>2, <3>3
  <2>5. CASE ~(1 + m + v > Len(buf))
    <3>. DEFINE body == SubSeq(buf, 2 + m, 1 + m + v)
                f == [type |-> t, flags |-> buf[1], body |-> body]
    <3>1. body \in Seq(Byte)
      <4>1. 2 + m \in 1 .. Len(buf) + 1 /\ 1 + m + v \in 0 .. Len(buf)
        BY <2>2, <2>5
      <4>. QED  BY <4>1
    <3>2. buf[1] \in Byte
      BY <2>2
    <3>3. f \in Frame
      BY <3>1, <3>2 DEF Frame
    <3>4. 1 + m + v \in 1 .. Len(buf)
      BY <2>2, <2>5
    <3>5. ReadRest(t, buf, x, "UnexpectedEof") = Ok(f, 1 + m + v)
          /\ ReadRest(t, buf, Resized(y), "Io") = Ok(f, 1 + m + v)
      <4>1. ~(v > Memory)
        BY <2>2, <2>5, FramingAssumption
      <4>. QED  BY <1>3, <2>3, <2>5, <2>6, <4>1 DEF ReadRest
    <3>. HIDE DEF f
    <3>. QED  BY <3>3, <3>4, <3>5 DEF FrameAlike
  <2>. QED  BY <2>4, <2>5
<1>. QED  BY <1>1, <1>2, <1>3 DEF WordAlike

\* The two agree on every frame, unless the one with the whole file refuses its type.
LEMMA FramesAlike ==
  ASSUME NEW buf \in Seq(Byte), Len(buf) <= Memory
  PROVE  \/ FrameAlike(ReadFrame(buf), ReadNextBlock(buf), Len(buf))
         \/ /\ ReadFrame(buf) = Err("InvalidBlockType")
            /\ FrameAlike(ReadNextBlock(buf), ReadNextBlock(buf), Len(buf))
<1>1. CASE DecodeVarint(buf) \in Cut /\ StreamVarint(buf) \in Cut
  BY <1>1, CutFails DEF ReadFrame, ReadNextBlock, FrameAlike
<1>2. CASE \E v \in 0 .. Word - 1 : \E n \in 1 .. Len(buf) :
             DecodeVarint(buf) = Ok(v, n) /\ StreamVarint(buf) = Ok(v, n)
  <2>1. PICK v \in 0 .. Word - 1, n \in 1 .. Len(buf) :
          DecodeVarint(buf) = Ok(v, n) /\ StreamVarint(buf) = Ok(v, n)
    BY <1>2
  <2>. DEFINE r == From(buf, n)  q == From(buf, n + 1)  t == v % (END + 1)
              x == ReadRest(v, r, DecodeVarint(q), "UnexpectedEof")
              Rest(u) == ReadRest(u, r, Resized(StreamVarint(q)), "Io")
              Whole(z) == IF Failed(z) THEN z ELSE Ok(z.value, n + z.n)
  <2>2. v \in Nat /\ n \in 0 .. Len(buf) /\ n \in Nat /\ Len(buf) \in Nat /\ n <= Len(buf)
    BY VarintAssumption
  <2>3. r \in Seq(Byte) /\ Len(r) = Len(buf) - n
    BY <2>2, FromIs
  <2>13. Len(r) <= Memory
    BY <2>2, <2>3, FramingAssumption
  <2>4. ASSUME r # <<>>
        PROVE  WordAlike(DecodeVarint(q), StreamVarint(q), Len(q))
    <3>1. n + 1 \in 0 .. Len(buf)
      BY <2>2, <2>3, <2>4
    <3>2. q \in Seq(Byte)
      BY <3>1, FromIs
    <3>. QED  BY <3>2, VarintsAlike
  <2>5. t \in 0 .. END
    <3>. DEFINE e == END
    <3>1. e \in Nat
      BY FramesAre
    <3>. HIDE DEF e
    <3>2. v % (e + 1) \in 0 .. e
      BY <2>2, <3>1
    <3>. QED  BY <3>2 DEF e
  <2>6. ReadNextBlock(buf) = IF t = END THEN Ok(EndFrame, n) ELSE Whole(Rest(t))
    BY <2>1, OkIs DEF ReadNextBlock
  <2>7. ReadFrame(buf) = IF v = END THEN Ok(EndFrame, n)
                         ELSE IF Wide(v) THEN Err("InvalidBlockType") ELSE Whole(x)
    BY <2>1, OkIs DEF ReadFrame
  <2>. HIDE DEF r, q, t
  <2>8. ASSUME NEW u, NEW z, FrameAlike(u, z, Len(r))
        PROVE  FrameAlike(Whole(u), Whole(z), Len(buf))
    <3>1. CASE u \in Cut /\ z \in Cut
      BY <3>1, CutFails DEF FrameAlike
    <3>2. CASE \E f \in Frame : \E m \in 1 .. Len(r) : u = Ok(f, m) /\ z = Ok(f, m)
      <4>1. PICK f \in Frame, m \in 1 .. Len(r) : u = Ok(f, m) /\ z = Ok(f, m)
        BY <3>2
      <4>2. n + m \in 1 .. Len(buf)
        BY <2>2, <2>3
      <4>3. Whole(u) = Ok(f, n + m) /\ Whole(z) = Ok(f, n + m)
        BY <4>1, OkIs
      <4>. HIDE DEF Whole
      <4>. QED  BY <4>2, <4>3 DEF FrameAlike
    <3>. QED  BY <2>8, <3>1, <3>2 DEF FrameAlike
  <2>. HIDE DEF Whole
  <2>9. FrameAlike(Whole(Rest(t)), Whole(Rest(t)), Len(buf))
    <3>1. FrameAlike(ReadRest(t, r, DecodeVarint(q), "UnexpectedEof"), Rest(t), Len(r))
      BY <2>3, <2>4, <2>5, <2>13, RestsAlike
    <3>2. FrameAlike(Rest(t), Rest(t), Len(r))
      <4>. HIDE DEF Rest
      <4>. QED  BY <3>1 DEF FrameAlike
    <3>. HIDE DEF Rest
    <3>. QED  BY <2>8, <3>2
  <2>10. FrameAlike(Ok(EndFrame, n), Ok(EndFrame, n), Len(buf))
    <3>1. EndFrame \in Frame
      BY FramesAre
    <3>. QED  BY <3>1 DEF FrameAlike
  <2>11. CASE Wide(v)
    <3>1. v # END
      BY <2>11, FramesAre DEF Wide
    <3>. HIDE DEF Rest
    <3>2. FrameAlike(ReadNextBlock(buf), ReadNextBlock(buf), Len(buf))
      BY <2>6, <2>9, <2>10
    <3>. QED  BY <2>7, <2>11, <3>1, <3>2
  <2>12. CASE ~Wide(v)
    <3>1. v <= END /\ v \in 0 .. END
      <4>. DEFINE e == END
      <4>1. e \in Nat /\ ~(v > e)
        BY <2>12, FramesAre DEF Wide
      <4>. HIDE DEF e
      <4>2. v <= e /\ v \in 0 .. e
        BY <2>2, <4>1
      <4>. QED  BY <4>2 DEF e
    <3>2. t = v
      BY <2>2, <3>1, TypeFits DEF t
    <3>3. FrameAlike(x, Rest(v), Len(r))
      BY <2>3, <2>4, <2>13, <3>1, RestsAlike
    <3>4. FrameAlike(Whole(x), Whole(Rest(v)), Len(buf))
      <4>. HIDE DEF x, Rest
      <4>. QED  BY <2>8, <3>3
    <3>. HIDE DEF x, Rest
    <3>. QED  BY <2>6, <2>7, <2>10, <2>12, <3>2, <3>4
  <2>. QED  BY <2>11, <2>12
<1>. QED  BY <1>1, <1>2, VarintsAlike DEF WordAlike

\* And on what follows the type of END.
LEMMA TailsAlike ==
  ASSUME NEW buf \in Seq(Byte), NEW n \in 1 .. Len(buf)
  PROVE  \/ EndSize(buf, n) \in Cut /\ ReadEndTail(buf, n) \in Cut
         \/ ~Failed(EndSize(buf, n)) /\ ~Failed(ReadEndTail(buf, n))
<1>1. CASE n >= Len(buf)
  BY <1>1 DEF EndSize, ReadEndTail, Cut
<1>2. CASE ~(n >= Len(buf))
  <2>. DEFINE q == From(buf, n + 1)
  <2>1. n + 1 \in 0 .. Len(buf)
    BY <1>2
  <2>2. q \in Seq(Byte)
    BY <2>1, FromIs
  <2>3. WordAlike(DecodeVarint(q), StreamVarint(q), Len(q))
    BY <2>2, VarintsAlike
  <2>4. EndSize(buf, n) = IF Failed(DecodeVarint(q)) THEN DecodeVarint(q)
                          ELSE Ok(0, n + 1 + DecodeVarint(q).n)
    BY <1>2 DEF EndSize
  <2>5. ReadEndTail(buf, n) = StreamVarint(q)
    BY <1>2 DEF ReadEndTail
  <2>. HIDE DEF q
  <2>. QED  BY <2>3, <2>4, <2>5, CutFails, OkIs DEF WordAlike
<1>. QED  BY <1>1, <1>2
-----------------------------------------------------------------------------
(* What happens to a file.                                                 *)

\* The first n bytes of buf are those of f.
Begins(buf, f, n) ==
  /\ n \in Nat /\ n <= Len(buf) /\ n <= Len(f) /\ \A i \in 1 .. n : buf[i] = f[i]

\* What each change leaves of a file f that was written here.
ChangedAs(c, f, buf, n) ==
  /\ Begins(buf, f, n)
  /\ c = "none" => n = Len(f) /\ Len(buf) = n
  /\ c = "cut" => n < Len(f) /\ Len(buf) = n
  /\ c = "longer" => n = Len(f) /\ Len(buf) = n + 1
  /\ c = "damaged" => /\ n < Len(f) /\ Len(buf) = Len(f) /\ buf[n + 1] # f[n + 1]
                      /\ \A i \in 1 .. Len(f) : i # n + 1 => buf[i] = f[i]

LEMMA ChangeIs ==
  ASSUME NEW s \in Sendable, NEW c \in Changes, NEW p \in Changed(s, c)
  PROVE  /\ p[1] \in Seq(Byte)
         /\ c \in {"none", "cut", "longer", "damaged"} => ChangedAs(c, File(s), p[1], p[2])
<1>. DEFINE f == File(s)  buf == p[1]  n == p[2]
<1>1. f \in Seq(Byte) /\ Written(s) \in Seq(Byte)
  BY FileIsLaid DEF FileLaid
<1>2. Len(f) \in Nat
  BY <1>1
<1>. HIDE DEF f
<1>3. CASE c = "none"
  <2>1. p = <<f, Len(f)>>
    BY <1>3 DEF Changed, f
  <2>. QED  BY <2>1, <1>1, <1>2, <1>3 DEF ChangedAs, Begins, f
<1>4. CASE c = "cut"
  <2>1. p \in {<<SubSeq(f, 1, k), k>> : k \in 0 .. Len(f) - 1}
    BY <1>4 DEF Changed, f
  <2>2. PICK k \in 0 .. Len(f) - 1 : p = <<SubSeq(f, 1, k), k>>
    BY <2>1
  <2>3. buf \in Seq(Byte) /\ Len(buf) = k /\ (\A i \in 1 .. k : buf[i] = f[i]) /\ n = k
    BY <1>1, <2>2
  <2>. HIDE DEF buf, n
  <2>4. ChangedAs(c, f, buf, n)
    BY <1>2, <1>4, <2>3 DEF ChangedAs, Begins
  <2>. QED  BY <2>3, <2>4 DEF buf, n, f
<1>5. CASE c = "longer"
  <2>1. p \in {<<Append(f, b), Len(f)>> : b \in Byte}
    BY <1>5 DEF Changed, f
  <2>2. PICK b \in Byte : p = <<Append(f, b), Len(f)>>
    BY <2>1
  <2>3. /\ buf \in Seq(Byte) /\ Len(buf) = Len(f) + 1 /\ (\A i \in 1 .. Len(f) : buf[i] = f[i])
        /\ n = Len(f)
    BY <1>1, <2>2
  <2>. HIDE DEF buf, n
  <2>4. ChangedAs(c, f, buf, n)
    BY <1>2, <1>5, <2>3 DEF ChangedAs, Begins
  <2>. QED  BY <2>3, <2>4 DEF buf, n, f
<1>6. CASE c = "damaged"
  <2>1. p \in {<<ReplaceAt(f, k, b), k - 1>> : k \in DOMAIN f, b \in Byte} \ {<<f, k - 1>> : k \in DOMAIN f}
    BY <1>6 DEF Changed, f
  <2>2. PICK k \in DOMAIN f, b \in Byte : p = <<ReplaceAt(f, k, b), k - 1>>
    BY <2>1
  <2>3. k \in 1 .. Len(f) /\ n = k - 1 /\ buf = [f EXCEPT ![k] = b] /\ p = <<buf, n>>
    BY <2>2, <1>1 DEF ReplaceAt
  <2>4. f[k] # b
    <3> SUFFICES ASSUME f[k] = b PROVE FALSE
      OBVIOUS
    <3>1. [f EXCEPT ![k] = b] = f
      BY <1>1
    <3>. QED  BY <2>1, <2>2, <2>3, <3>1
  <2>5. buf \in Seq(Byte) /\ Len(buf) = Len(f) /\ buf[k] = b
        /\ \A i \in 1 .. Len(f) : i # k => buf[i] = f[i]
    BY <1>1, <2>3
  <2>. HIDE DEF buf, n
  <2>6. n + 1 = k /\ n \in Nat /\ n < Len(f) /\ \A i \in 1 .. n : i \in 1 .. Len(f) /\ i # k
    BY <1>2, <2>3
  <2>7. ChangedAs(c, f, buf, n)
    BY <1>2, <1>6, <2>3, <2>4, <2>5, <2>6 DEF ChangedAs, Begins
  <2>. QED  BY <2>5, <2>7 DEF buf, n, f
<1>. DEFINE Late(g) == [g EXCEPT !.type = @ + END + 1]
<1>7. CASE c = "wide"
  <2>1. p \in {<<WideFile(s, g), HeaderSize>> : g \in Frames \cup {EndFrame}}
    BY <1>7 DEF Changed
  <2>2. PICK g \in Frames \cup {EndFrame} : p = <<WideFile(s, g), HeaderSize>>
    BY <2>1
  <2>3. g \in Frame /\ Len(g.body) < Word
    BY FramesAre, VarintAssumption
  <2>4. WriteHeader(s.flags) \in Seq(Byte)
    <3>1. s.flags \in Byte
      BY FramingAssumption DEF Sendable
    <3>. QED  BY <3>1, HeaderIs
  <2>5. WriteFrame(EndFrame) \in Seq(Byte)
    BY FramesAre, VarintAssumption, WrittenTyped
  <2>6. WriteFrame(Late(g)) \in Seq(Byte)
    <3>. DEFINE e == END  t == g.type + e + 1
    <3>1. g.type \in 0 .. e /\ g.flags \in Byte /\ g.body \in Seq(Byte) /\ Len(g.body) \in 0 .. Word - 1
      BY <2>3, FrameTyped DEF Frame
    <3>2. e \in Nat /\ 2 * e + 1 < Word
      BY FramesAre, FramingAssumption
    <3>3. Late(g).type = t /\ Late(g).flags = g.flags /\ Late(g).body = g.body
      BY <2>3 DEF Frame
    <3>. HIDE DEF e, Late
    <3>4. t \in 0 .. Word - 1
      BY <3>1, <3>2, VarintAssumption
    <3>. HIDE DEF t
    <3>. DEFINE x == EncodeVarint[t]  y == <<g.flags>>  z == EncodeVarint[Len(g.body)]
    <3>5. x \in Seq(Byte) /\ y \in Seq(Byte) /\ z \in Seq(Byte)
      BY <3>1, <3>4, EncodeTyped
    <3>6. WriteFrame(Late(g)) = ((x \o y) \o z) \o g.body
      BY <3>3 DEF WriteFrame
    <3>. HIDE DEF x, y, z
    <3>7. x \o y \in Seq(Byte) /\ (x \o y) \o z \in Seq(Byte)
      BY <3>5, JoinIs
    <3>. QED  BY <3>1, <3>6, <3>7, JoinIs
  <2>7. (WriteHeader(s.flags) \o WriteFrame(Late(g))) \o WriteFrame(EndFrame) \in Seq(Byte)
    <3>. DEFINE x == WriteHeader(s.flags)  y == WriteFrame(Late(g))  z == WriteFrame(EndFrame)
    <3>. HIDE DEF x, y, z
    <3>1. x \in Seq(Byte) /\ y \in Seq(Byte) /\ z \in Seq(Byte)
      BY <2>4, <2>5, <2>6 DEF x, y, z
    <3>2. x \o y \in Seq(Byte)
      BY <3>1, JoinIs
    <3>3. (x \o y) \o z \in Seq(Byte)
      BY <3>1, <3>2, JoinIs
    <3>. QED  BY <3>3 DEF x, y, z
  <2>. QED  BY <1>7, <2>2, <2>7 DEF WideFile
<1>8. CASE c = "bare"
  <2>1. p = <<Written(s) \o EncodeVarint[END], Len(Written(s)) + 2>>
    BY <1>8 DEF Changed
  <2>2. EncodeVarint[END] \in Seq(Byte)
    BY FramesAre, EncodeTyped
  <2>. QED  BY <1>1, <1>8, <2>1, <2>2, JoinIs
<1>. QED  BY <1>3, <1>4, <1>5, <1>6, <1>7, <1>8, FramingAssumption

-----------------------------------------------------------------------------
(* Reading on from a place in a file.                                      *)

LEMMA PlaceAlike ==
  ASSUME NEW buf \in Seq(Byte), NEW f \in Seq(Byte), NEW n, Begins(buf, f, n),
         NEW p \in 0 .. Len(buf), NEW t \in Seq(Byte), Holds(f, p, t),
         n = Len(buf) \/ p + Len(t) <= n
  PROVE  Alike(From(buf, p), t)
<1>1. Len(From(buf, p)) = Len(buf) - p /\ \A i \in 1 .. Len(buf) - p : From(buf, p)[i] = buf[p + i]
  BY FromIs
<1> SUFFICES ASSUME NEW i \in 1 .. Len(buf) - p, i <= Len(t)
             PROVE  buf[p + i] = t[i]
  BY <1>1 DEF Alike
<1>2. i \in 1 .. Len(t) /\ p + i \in 1 .. n
  BY DEF Begins
<1>. QED  BY <1>2 DEF Begins, Holds

\* The frame that comes next in a file whose change lies behind it.
LEMMA NextArrives ==
  ASSUME NEW s \in Sendable, NEW buf \in Seq(Byte), Len(buf) <= Memory,
         NEW n, Begins(buf, File(s), n),
         NEW k \in 0 .. Len(s.frames) - 1, SizeOf(s, k + 1) <= n
  PROVE  LET q == From(buf, SizeOf(s, k))  d == SizeOf(s, k + 1) - SizeOf(s, k) IN
         /\ SizeOf(s, k) \in 0 .. Len(buf)
         /\ ReadFrame(q) = Ok(s.frames[k + 1], d) /\ ReadNextBlock(q) = Ok(s.frames[k + 1], d)
<1>. DEFINE f == File(s)  g == s.frames[k + 1]  w == WriteFrame(g)  p == SizeOf(s, k)
            e == SizeOf(s, k + 1)  q == From(buf, p)
<1>1. g \in Frames /\ k \in 0 .. Len(s.frames) /\ k + 1 \in 0 .. Len(s.frames)
  BY DEF Sendable
<1>2. w \in Seq(Byte) /\ Len(w) \in Nat
  BY <1>1, FramesAre, WrittenTyped
<1>3. f \in Seq(Byte) /\ p \in Nat /\ e \in Nat /\ e = p + Len(w) /\ Holds(f, p, w)
  BY <1>1, FileIsLaid DEF FileLaid
<1>4. n \in Nat /\ n <= Len(buf) /\ Len(buf) \in Nat /\ e <= n /\ Begins(buf, f, n)
  BY DEF Begins
<1>. HIDE DEF f, w, p, e, g
<1>5. p \in 0 .. Len(buf) /\ p + Len(w) <= n /\ Len(w) <= Len(buf) - p /\ e - p = Len(w)
  BY <1>2, <1>3, <1>4
<1>6. q \in Seq(Byte) /\ Len(q) = Len(buf) - p
  BY <1>5, FromIs
<1>7. Alike(q, w)
  BY <1>2, <1>3, <1>4, <1>5, PlaceAlike
<1>. HIDE DEF q
<1>8. Len(WriteFrame(g)) <= Len(q) /\ Alike(q, WriteFrame(g)) /\ Len(q) <= Memory
  <2>1. Len(q) <= Memory
    BY <1>3, <1>4, <1>6, FramingAssumption
  <2>. QED  BY <1>5, <1>6, <1>7, <2>1 DEF w
<1>9. ReadFrame(q) = Ok(g, Len(w)) /\ ReadNextBlock(q) = Ok(g, Len(w))
  BY <1>1, <1>6, <1>8, FrameArrives DEF w
<1>. QED  BY <1>5, <1>9 DEF q, p, e, g

\* The frame that comes next when the file breaks off inside it.
LEMMA NextBreaks ==
  ASSUME NEW s \in Sendable, NEW buf \in Seq(Byte), Begins(buf, File(s), Len(buf)),
         NEW k \in 0 .. Len(s.frames) - 1, SizeOf(s, k) <= Len(buf), Len(buf) < SizeOf(s, k + 1)
  PROVE  LET q == From(buf, SizeOf(s, k)) IN
         /\ SizeOf(s, k) \in 0 .. Len(buf)
         /\ ReadFrame(q) \in Cut /\ ReadNextBlock(q) \in Cut
<1>. DEFINE f == File(s)  g == s.frames[k + 1]  w == WriteFrame(g)  p == SizeOf(s, k)
            e == SizeOf(s, k + 1)  q == From(buf, p)
<1>1. g \in Frames /\ k \in 0 .. Len(s.frames) /\ k + 1 \in 0 .. Len(s.frames)
  BY DEF Sendable
<1>2. w \in Seq(Byte) /\ Len(w) \in Nat
  BY <1>1, FramesAre, WrittenTyped
<1>3. f \in Seq(Byte) /\ p \in Nat /\ e \in Nat /\ e = p + Len(w) /\ Holds(f, p, w)
  BY <1>1, FileIsLaid DEF FileLaid
<1>4. Len(buf) \in Nat /\ p <= Len(buf) /\ Len(buf) < e /\ Begins(buf, f, Len(buf))
  OBVIOUS
<1>. HIDE DEF f, w, p, e, g
<1>5. p \in 0 .. Len(buf) /\ Len(buf) - p < Len(w)
  BY <1>2, <1>3, <1>4
<1>6. q \in Seq(Byte) /\ Len(q) = Len(buf) - p
  BY <1>5, FromIs
<1>7. Alike(q, w)
  BY <1>2, <1>3, <1>4, <1>5, PlaceAlike
<1>. HIDE DEF q
<1>8. Len(q) < Len(WriteFrame(g)) /\ Alike(q, WriteFrame(g))
  BY <1>5, <1>6, <1>7 DEF w
<1>9. ReadFrame(q) \in Cut /\ ReadNextBlock(q) \in Cut
  BY <1>1, <1>6, <1>8, FrameBreaks
<1>. QED  BY <1>5, <1>9 DEF q, p

\* END, behind the last frame of a file that is whole, or breaks off after that frame.
LEMMA LastArrives ==
  ASSUME NEW s \in Sendable, NEW buf \in Seq(Byte), NEW n, Begins(buf, File(s), n),
         n = Len(buf) \/ n = Len(File(s)), SizeOf(s, Len(s.frames)) <= n
  PROVE  LET p == SizeOf(s, Len(s.frames))  q == From(buf, p)  a == Len(EncodeVarint[END]) IN
         /\ p \in 0 .. Len(buf)
         /\ n = Len(File(s)) =>
              /\ ReadFrame(q) = Ok(EndFrame, a) /\ ReadNextBlock(q) = Ok(EndFrame, a)
              /\ EndSize(q, a) = Ok(0, Len(File(s)) - p) /\ ~Failed(ReadEndTail(q, a))
         /\ n < Len(File(s)) =>
              \/ ReadFrame(q) \in Cut /\ ReadNextBlock(q) \in Cut
              \/ /\ ReadFrame(q) = Ok(EndFrame, a) /\ ReadNextBlock(q) = Ok(EndFrame, a)
                 /\ EndSize(q, a) \in Cut /\ ReadEndTail(q, a) \in Cut
<1>. DEFINE f == File(s)  w == WriteFrame(EndFrame)  p == SizeOf(s, Len(s.frames))
            q == From(buf, p)  a == Len(EncodeVarint[END])
<1>1. w \in Seq(Byte) /\ Len(w) \in Nat
  BY FramesAre, VarintAssumption, WrittenTyped
<1>2. f \in Seq(Byte) /\ p \in Nat /\ Len(f) = p + Len(w) /\ Holds(f, p, w)
  <2>1. Len(s.frames) \in 0 .. Len(s.frames)
    BY DEF Sendable
  <2>. QED  BY <2>1, FileIsLaid DEF FileLaid
<1>3. n \in Nat /\ n <= Len(buf) /\ Len(buf) \in Nat /\ p <= n /\ Begins(buf, f, n)
      /\ (n = Len(buf) \/ n = Len(f))
  BY DEF Begins
<1>. HIDE DEF f, w, p, a
<1>4. p \in 0 .. Len(buf)
  BY <1>2, <1>3
<1>5. q \in Seq(Byte) /\ Len(q) = Len(buf) - p
  BY <1>4, FromIs
<1>6. n = Len(buf) \/ p + Len(w) <= n
  BY <1>1, <1>2, <1>3
<1>7. Alike(q, w)
  BY <1>1, <1>2, <1>3, <1>4, <1>6, PlaceAlike
<1>. HIDE DEF q
<1>8. Alike(q, WriteFrame(EndFrame))
  BY <1>7 DEF w
<1>9. ASSUME n = Len(f)
      PROVE  /\ ReadFrame(q) = Ok(EndFrame, a) /\ ReadNextBlock(q) = Ok(EndFrame, a)
             /\ EndSize(q, a) = Ok(0, Len(f) - p) /\ ~Failed(ReadEndTail(q, a))
  <2>1. Len(w) <= Len(q) /\ Len(f) - p = Len(w)
    BY <1>1, <1>2, <1>3, <1>5, <1>9
  <2>2. Len(WriteFrame(EndFrame)) <= Len(q)
    BY <2>1 DEF w
  <2>. QED  BY <2>1, <2>2, <1>5, <1>8, EndArrives DEF a, w
<1>10. ASSUME n < Len(f)
       PROVE  \/ ReadFrame(q) \in Cut /\ ReadNextBlock(q) \in Cut
              \/ /\ ReadFrame(q) = Ok(EndFrame, a) /\ ReadNextBlock(q) = Ok(EndFrame, a)
                 /\ EndSize(q, a) \in Cut /\ ReadEndTail(q, a) \in Cut
  <2>1. Len(q) < Len(w)
    <3>1. n = Len(buf)
      BY <1>2, <1>3, <1>10
    <3>. QED  BY <1>1, <1>2, <1>3, <1>5, <1>10, <3>1
  <2>2. Len(q) < Len(WriteFrame(EndFrame))
    BY <2>1 DEF w
  <2>. QED  BY <2>2, <1>5, <1>8, EndBreaks DEF a
<1>. QED  BY <1>4, <1>9, <1>10 DEF q, p, f, a

-----------------------------------------------------------------------------
(* Opening a file.                                                         *)

\* A header that is read: its flags say that the file is not compressed.
Readable(buf) ==
  /\ HeaderSize <= Len(buf) /\ SubSeq(buf, 1, Len(Magic)) = Magic
  /\ buf[Len(Magic) + 1] = VersionMajor /\ buf[HeaderSize] = 0
  /\ ~IsCompressed(buf[HeaderSize - 1])

LEMMA OpensIs ==
  ASSUME bytes \in Seq(Byte)
  PROVE  /\ Opens <=> Readable(bytes)
         /\ Opens => Opened(Reader) = [cursor |-> HeaderSize, frames |-> <<>>, status |-> "frames"]
         /\ ~Opens => Opened(Reader) \in [cursor : 0 .. Len(bytes), frames : {<<>>}, status : Faults]
<1>. DEFINE h == ReadHeader(bytes)
            o(c, x) == [cursor |-> c, frames |-> <<>>, status |-> x]
<1>1. Len(bytes) \in Nat /\ HeaderSize \in Nat
  <2>1. Len(Magic) \in Nat
    BY FramingAssumption
  <2>. QED  BY <2>1 DEF HeaderSize
<1>2. Opened(Reader) = o(IF Failed(h) THEN 0 ELSE h.n,
                         IF Failed(h) THEN h.error
                         ELSE IF IsCompressed(h.value) THEN "DecompressFailed" ELSE "frames")
  <2>1. ASSUME NEW c, NEW x
        PROVE  [Reader EXCEPT !.status = x, !.cursor = c] = o(c, x)
    <3>. DEFINE R == [cursor : {0, c}, frames : {<<>>}, status : {"header", x}]
                e == [Reader EXCEPT !.status = x, !.cursor = c]
    <3>1. Reader \in R
      BY DEF Reader
    <3>2. e \in R /\ e.status = x /\ e.cursor = c
      <4>. HIDE DEF Reader
      <4>. QED  BY <3>1
    <3>. HIDE DEF e
    <3>3. e = o(c, x)
      BY <3>2
    <3>. QED  BY <3>3 DEF e
  <2>2. Opened(Reader) =
          [Reader EXCEPT !.status = IF Failed(h) THEN h.error
                                    ELSE IF IsCompressed(h.value) THEN "DecompressFailed" ELSE "frames",
                         !.cursor = IF Failed(h) THEN 0 ELSE h.n]
    BY DEF Opened
  <2>. HIDE DEF h, o
  <2>. QED  BY <2>1, <2>2
<1>3. CASE /\ HeaderSize <= Len(bytes) /\ SubSeq(bytes, 1, Len(Magic)) = Magic
           /\ bytes[Len(Magic) + 1] = VersionMajor /\ bytes[HeaderSize] = 0
  <2>1. h = Ok(bytes[HeaderSize - 1], HeaderSize)
    BY <1>1, <1>3 DEF ReadHeader
  <2>2. ~Failed(h) /\ h.value = bytes[HeaderSize - 1] /\ h.n = HeaderSize
    BY <2>1, OkIs
  <2>. HIDE DEF h
  <2>3. CASE IsCompressed(bytes[HeaderSize - 1])
    <3>1. Opened(Reader) = o(HeaderSize, "DecompressFailed")
      BY <1>2, <2>2, <2>3
    <3>2. HeaderSize \in 0 .. Len(bytes)
      BY <1>1, <1>3
    <3>. QED  BY <3>1, <3>2, <2>3 DEF Opens, Readable, Faults
  <2>4. CASE ~IsCompressed(bytes[HeaderSize - 1])
    <3>1. Opened(Reader) = o(HeaderSize, "frames")
      BY <1>2, <2>2, <2>4
    <3>. QED  BY <3>1, <2>4, <1>3 DEF Opens, Readable
  <2>. QED  BY <2>3, <2>4
<1>4. CASE ~ /\ HeaderSize <= Len(bytes) /\ SubSeq(bytes, 1, Len(Magic)) = Magic
             /\ bytes[Len(Magic) + 1] = VersionMajor /\ bytes[HeaderSize] = 0
  <2>. DEFINE E == {"UnexpectedEof", "InvalidMagic", "UnsupportedVersion", "ReservedNonZero"}
  <2>1. h \in {Err(x) : x \in E}
    BY <1>1, <1>4 DEF ReadHeader
  <2>2. PICK x \in E : h = Err(x)
    BY <2>1
  <2>3. Failed(h) /\ h.error = x
    BY <2>2 DEF Err, Failed
  <2>. HIDE DEF h
  <2>4. Opened(Reader) = o(0, x)
    BY <1>2, <2>3
  <2>5. x \in Faults /\ x # "frames" /\ 0 \in 0 .. Len(bytes)
    BY <1>1 DEF Faults
  <2>. QED  BY <1>4, <2>4, <2>5 DEF Opens, Readable
<1>. QED  BY <1>3, <1>4

\* What a change does to the header.
LEMMA HeaderSays ==
  ASSUME FileKept, change \in {"none", "cut", "longer", "damaged"}
  PROVE  /\ bytes \in Seq(Byte) /\ ChangedAs(change, File(sent), bytes, at)
         /\ HeaderSize <= at => Opens
         /\ change \in {"none", "longer"} => HeaderSize <= at
         /\ change = "cut" /\ Opens => HeaderSize <= at
         /\ change = "damaged" /\ at \in (0 .. Len(Magic)) \cup {HeaderSize - 1} => ~Opens
<1>. DEFINE f == File(sent)  m == Len(Magic)  h == WriteHeader(sent.flags)
<1>1. bytes \in Seq(Byte) /\ ChangedAs(change, f, bytes, at)
  BY ChangeIs DEF FileKept
<1>2. sent.flags \in Byte /\ ~IsCompressed(sent.flags) /\ Magic \in Seq(Byte) /\ sent \in Sendable
  BY FramingAssumption DEF FileKept, Sendable
<1>3. /\ Len(h) = HeaderSize /\ m \in Nat \ {0} /\ HeaderSize = m + 4
      /\ \A i \in 1 .. m : h[i] = Magic[i]
      /\ h[m + 1] = VersionMajor /\ h[HeaderSize - 1] = sent.flags /\ h[HeaderSize] = 0
  BY <1>2, HeaderIs
<1>4. Holds(f, 0, h) /\ HeaderSize <= Len(f)
  <2>1. FileLaid(sent, f)
    BY <1>2, FileIsLaid
  <2>2. Holds(f, 0, h)
    BY <2>1 DEF FileLaid
  <2>. QED  BY <1>3, <2>2 DEF Holds
<1>. HIDE DEF h
<1>5. /\ HeaderSize <= Len(f) /\ \A i \in 1 .. m : f[i] = Magic[i]
      /\ f[m + 1] = VersionMajor /\ f[HeaderSize - 1] = sent.flags /\ f[HeaderSize] = 0
  <2>1. \A i \in 1 .. HeaderSize : f[i] = h[i]
    BY <1>3, <1>4 DEF Holds
  <2>2. m + 1 \in 1 .. HeaderSize /\ HeaderSize - 1 \in 1 .. HeaderSize
        /\ HeaderSize \in 1 .. HeaderSize /\ \A i \in 1 .. m : i \in 1 .. HeaderSize
    BY <1>3
  <2>. QED  BY <1>3, <1>4, <2>1, <2>2
<1>6. Begins(bytes, f, at) /\ at \in Nat /\ at <= Len(bytes) /\ Len(bytes) \in Nat
      /\ \A i \in 1 .. at : bytes[i] = f[i]
  BY <1>1 DEF ChangedAs, Begins
<1>. HIDE DEF f, m
<1>7. ASSUME HeaderSize <= at PROVE Opens
  <2>1. HeaderSize <= Len(bytes) /\ m <= Len(bytes)
    BY <1>3, <1>6, <1>7
  <2>2. m + 1 \in 1 .. at /\ HeaderSize - 1 \in 1 .. at
        /\ HeaderSize \in 1 .. at /\ \A i \in 1 .. m : i \in 1 .. at
    BY <1>3, <1>6, <1>7
  <2>3. SubSeq(bytes, 1, m) = Magic
    <3>1. \A i \in 1 .. m : bytes[i] = Magic[i]
      BY <1>5, <1>6, <2>2
    <3>2. SubSeq(bytes, 1, m) \in Seq(Byte) /\ Len(SubSeq(bytes, 1, m)) = m
          /\ \A i \in 1 .. m : SubSeq(bytes, 1, m)[i] = bytes[i]
      BY <1>1, <1>3, <2>1
    <3>. QED  BY <3>1, <3>2, <1>2 DEF m
  <2>4. Readable(bytes)
    BY <1>2, <1>5, <1>6, <2>1, <2>2, <2>3 DEF Readable, m
  <2>. QED  BY <2>4, <1>1, OpensIs
<1>8. change \in {"none", "longer"} => HeaderSize <= at
  BY <1>1, <1>5 DEF ChangedAs
<1>9. change = "cut" /\ Opens => HeaderSize <= at
  BY <1>1, OpensIs DEF Readable, ChangedAs
<1>10. ASSUME change = "damaged", at \in (0 .. m) \cup {HeaderSize - 1}, Readable(bytes)
       PROVE  FALSE
  <2>1. at + 1 \in 1 .. Len(f) /\ bytes[at + 1] # f[at + 1]
    BY <1>1, <1>6, <1>10 DEF ChangedAs
  <2>2. CASE at \in 0 .. m - 1
    <3>2. at + 1 \in 1 .. m
      BY <1>3, <2>2
    <3>1. Magic[at + 1] = bytes[at + 1]
      <4>1. Magic = SubSeq(bytes, 1, m) /\ HeaderSize <= Len(bytes)
        BY <1>10 DEF Readable, m
      <4>2. m <= Len(bytes)
        BY <1>3, <1>6, <4>1
      <4>3. \A i \in 1 .. m : SubSeq(bytes, 1, m)[i] = bytes[i]
        BY <1>1, <1>3, <1>6, <4>2
      <4>. QED  BY <3>2, <4>1, <4>3
    <3>. QED  BY <2>1, <2>2, <3>1, <3>2, <1>5
  <2>3. CASE at = m
    BY <2>1, <2>3, <1>5, <1>10 DEF Readable, m
  <2>4. CASE at = HeaderSize - 1
    <3>1. at + 1 = HeaderSize
      BY <2>4, <1>3
    <3>. QED  BY <2>1, <3>1, <1>5, <1>10 DEF Readable
  <2>5. at \in 0 .. m - 1 \/ at = m \/ at = HeaderSize - 1
    BY <1>3, <1>10
  <2>. QED  BY <2>2, <2>3, <2>4, <2>5
<1>. QED  BY <1>1, <1>7, <1>8, <1>9, <1>10, OpensIs DEF f, m
-----------------------------------------------------------------------------
(* The next frame of a file.                                               *)

LEMMA SizesGrow ==
  ASSUME NEW s \in Sendable, NEW k \in 0 .. Len(s.frames), NEW j \in 0 .. k
  PROVE  /\ SizeOf(s, j) \in Nat /\ HeaderSize <= SizeOf(s, j)
         /\ SizeOf(s, j) <= SizeOf(s, k)
<1>. DEFINE n == Len(s.frames)  S(i) == SizeOf(s, i)
            T == {i \in Nat : i <= n => \A h \in 0 .. i : S(h) <= S(i)}
<1>1. n \in Nat /\ FileLaid(s, File(s))
  BY FileIsLaid DEF Sendable
<1>2. /\ \A i \in 0 .. n : S(i) \in Nat /\ HeaderSize <= S(i)
      /\ \A i \in 0 .. n - 1 : S(i) <= S(i + 1)
  <2>1. \A i \in 0 .. n : S(i) \in Nat /\ HeaderSize <= S(i)
    BY <1>1 DEF FileLaid
  <2>2. ASSUME NEW i \in 0 .. n - 1
        PROVE  S(i) <= S(i + 1)
    <3>. DEFINE w == Len(WriteFrame(s.frames[i + 1]))
    <3>1. s.frames[i + 1] \in Frames
      BY DEF Sendable
    <3>2. w \in Nat
      BY <3>1, FramesAre, WrittenTyped
    <3>3. S(i + 1) = S(i) + w /\ S(i) \in Nat
      BY <1>1, <2>1 DEF FileLaid
    <3>. HIDE DEF w, S
    <3>. QED  BY <3>2, <3>3
  <2>. QED  BY <2>1, <2>2
<1>. HIDE DEF S, n
<1>3. 0 \in T
  BY <1>1, <1>2
<1>4. ASSUME NEW i \in Nat, i \in T
      PROVE  i + 1 \in T
  <2> SUFFICES ASSUME i + 1 <= n, NEW h \in 0 .. i + 1
               PROVE  S(h) <= S(i + 1)
    OBVIOUS
  <2>1. i \in 0 .. n - 1 /\ i \in 0 .. n /\ i + 1 \in 0 .. n /\ h \in 0 .. n /\ i <= n
    BY <1>1
  <2>2. CASE h = i + 1
    BY <2>1, <2>2, <1>2
  <2>3. CASE h \in 0 .. i
    BY <2>1, <2>3, <1>2, <1>4
  <2>. QED  BY <2>2, <2>3
<1>5. k \in T
  <2>1. k \in Nat
    BY <1>1 DEF n
  <2>. HIDE DEF T
  <2>. QED  BY <2>1, <1>3, <1>4, NatUpward
<1>6. k \in 0 .. n /\ j \in 0 .. n /\ k <= n
  BY <1>1 DEF n
<1>. QED  BY <1>2, <1>5, <1>6 DEF S

\* What the readers find behind the n-th frame of a file that is intact so far.
AtFrame(n) ==
  LET q == From(bytes, SizeOf(sent, n))
      d == SizeOf(sent, n + 1) - SizeOf(sent, n)
      a == Len(EncodeVarint[END]) IN
  /\ n < Len(sent.frames) =>
       /\ Intact(n + 1) => /\ ReadFrame(q) = Ok(sent.frames[n + 1], d)
                           /\ ReadNextBlock(q) = Ok(sent.frames[n + 1], d)
                           /\ sent.frames[n + 1].type # END
                           /\ SizeOf(sent, n) + d = SizeOf(sent, n + 1)
       /\ ~Intact(n + 1) => change # "none" /\ change # "longer"
       /\ ~Intact(n + 1) /\ change = "cut" => ReadFrame(q) \in Cut /\ ReadNextBlock(q) \in Cut
  /\ n = Len(sent.frames) /\ change # "damaged" =>
       \/ change = "cut" /\ ReadFrame(q) \in Cut /\ ReadNextBlock(q) \in Cut
       \/ /\ ReadFrame(q) = Ok(EndFrame, a) /\ ReadNextBlock(q) = Ok(EndFrame, a)
          /\ change = "cut" => EndSize(q, a) \in Cut /\ ReadEndTail(q, a) \in Cut
          /\ change # "cut" =>
               /\ ~Failed(ReadEndTail(q, a)) /\ ~Failed(EndSize(q, a))
               /\ change = "none" => SizeOf(sent, n) + EndSize(q, a).n = Len(bytes)
               /\ change = "longer" => SizeOf(sent, n) + EndSize(q, a).n < Len(bytes)

LEMMA FrameFound ==
  ASSUME FileKept, Opens, change \in {"none", "cut", "longer", "damaged"},
         NEW n \in 0 .. Len(sent.frames), Intact(n)
  PROVE  AtFrame(n)
<1>. DEFINE f == File(sent)  all == Len(sent.frames)  p == SizeOf(sent, n)
            q == From(bytes, p)  a == Len(EncodeVarint[END])
<1>1. sent \in Sendable /\ all \in Nat /\ Len(bytes) <= Memory
  BY DEF FileKept, Sendable
<1>2. bytes \in Seq(Byte) /\ ChangedAs(change, f, bytes, at) /\ (change # "damaged" => HeaderSize <= at)
  BY HeaderSays
<1>3. f \in Seq(Byte) /\ Len(f) \in Nat /\ SizeOf(sent, all) <= Len(f) /\ SizeOf(sent, 0) = HeaderSize
  <2>1. FileLaid(sent, f) /\ all \in 0 .. all
    BY <1>1, FileIsLaid
  <2>2. Holds(f, SizeOf(sent, all), WriteFrame(EndFrame)) /\ f \in Seq(Byte)
        /\ SizeOf(sent, all) \in Nat /\ SizeOf(sent, 0) = HeaderSize
    BY <2>1 DEF FileLaid
  <2>3. Len(WriteFrame(EndFrame)) \in Nat
    BY FramesAre, VarintAssumption, WrittenTyped
  <2>. HIDE DEF f
  <2>. QED  BY <2>2, <2>3 DEF Holds
<1>4. Begins(bytes, f, at) /\ at \in Nat /\ Len(bytes) \in Nat /\ at <= Len(bytes)
  BY <1>2 DEF ChangedAs, Begins
<1>. HIDE DEF f, all
<1>5. ASSUME n < all, Intact(n + 1)
      PROVE  LET d == SizeOf(sent, n + 1) - SizeOf(sent, n) IN
             /\ ReadFrame(q) = Ok(sent.frames[n + 1], d)
             /\ ReadNextBlock(q) = Ok(sent.frames[n + 1], d)
             /\ sent.frames[n + 1].type # END
             /\ SizeOf(sent, n) + d = SizeOf(sent, n + 1)
  <2>1. n \in 0 .. Len(sent.frames) - 1 /\ n + 1 # 0 /\ n + 1 \in 0 .. Len(sent.frames)
        /\ n + 1 \in 1 .. Len(sent.frames) /\ n \in 0 .. n /\ n + 1 \in 0 .. n + 1
    BY <1>1, <1>5 DEF all
  <2>2. SizeOf(sent, n + 1) <= at
    BY <1>5, <2>1 DEF Intact
  <2>3. sent.frames[n + 1] \in Frames
    BY <1>1, <2>1 DEF Sendable
  <2>4. sent.frames[n + 1].type # END
    BY <2>3, FramesAre
  <2>5. SizeOf(sent, n + 1) \in Nat /\ SizeOf(sent, n) \in Nat
    BY <1>1, <2>1, SizesGrow
  <2>. QED  BY <1>1, <1>2, <1>4, <2>1, <2>2, <2>4, <2>5, NextArrives DEF f
<1>6. ASSUME n < all, ~Intact(n + 1)
      PROVE  /\ change # "none" /\ change # "longer"
             /\ change = "cut" => ReadFrame(q) \in Cut /\ ReadNextBlock(q) \in Cut
  <2>1. n \in 0 .. Len(sent.frames) - 1 /\ n + 1 \in 0 .. Len(sent.frames)
        /\ n + 1 \in 0 .. all /\ all \in 0 .. all /\ all \in 0 .. Len(sent.frames)
    BY <1>1, <1>6 DEF all
  <2>2. SizeOf(sent, n + 1) \in Nat /\ SizeOf(sent, all) \in Nat
        /\ SizeOf(sent, n + 1) <= SizeOf(sent, all) /\ at < SizeOf(sent, n + 1)
    BY <1>1, <1>4, <1>6, <2>1, SizesGrow DEF Intact
  <2>3. at < Len(f)
    BY <1>3, <1>4, <2>2
  <2>4. change # "none" /\ change # "longer"
    BY <1>2, <1>3, <1>4, <2>3 DEF ChangedAs
  <2>5. ASSUME change = "cut"
        PROVE  ReadFrame(q) \in Cut /\ ReadNextBlock(q) \in Cut
    <3>1. at = Len(bytes) /\ Len(bytes) < SizeOf(sent, n + 1)
      BY <1>2, <2>2, <2>5 DEF ChangedAs
    <3>2. SizeOf(sent, n) <= Len(bytes)
      BY <1>2, <1>3, <2>5, <3>1 DEF Intact
    <3>3. Begins(bytes, File(sent), Len(bytes))
      BY <1>4, <3>1 DEF f
    <3>. QED  BY <1>1, <1>2, <2>1, <3>1, <3>2, <3>3, NextBreaks
  <2>. QED  BY <2>4, <2>5
<1>7. ASSUME n = all, change # "damaged"
      PROVE  \/ change = "cut" /\ ReadFrame(q) \in Cut /\ ReadNextBlock(q) \in Cut
             \/ /\ ReadFrame(q) = Ok(EndFrame, a) /\ ReadNextBlock(q) = Ok(EndFrame, a)
                /\ change = "cut" => EndSize(q, a) \in Cut /\ ReadEndTail(q, a) \in Cut
                /\ change # "cut" =>
                     /\ ~Failed(ReadEndTail(q, a)) /\ ~Failed(EndSize(q, a))
                     /\ change = "none" => SizeOf(sent, n) + EndSize(q, a).n = Len(bytes)
                     /\ change = "longer" => SizeOf(sent, n) + EndSize(q, a).n < Len(bytes)
  <2>1. SizeOf(sent, n) <= at /\ SizeOf(sent, n) \in Nat
    <3>1. all \in 0 .. all
      BY <1>1
    <3>. QED  BY <1>1, <1>2, <1>3, <1>7, <3>1, SizesGrow DEF Intact, all
  <2>2. n = Len(sent.frames) /\ Begins(bytes, File(sent), at)
        /\ (at = Len(bytes) \/ at = Len(File(sent))) /\ SizeOf(sent, Len(sent.frames)) <= at
    BY <1>2, <1>4, <1>7, <2>1 DEF ChangedAs, f, all
  <2>3. /\ at = Len(f) =>
             /\ ReadFrame(q) = Ok(EndFrame, a) /\ ReadNextBlock(q) = Ok(EndFrame, a)
             /\ EndSize(q, a) = Ok(0, Len(f) - p) /\ ~Failed(ReadEndTail(q, a))
        /\ at < Len(f) =>
             \/ ReadFrame(q) \in Cut /\ ReadNextBlock(q) \in Cut
             \/ /\ ReadFrame(q) = Ok(EndFrame, a) /\ ReadNextBlock(q) = Ok(EndFrame, a)
                /\ EndSize(q, a) \in Cut /\ ReadEndTail(q, a) \in Cut
    BY <1>1, <1>2, <2>2, LastArrives DEF f
  <2>. HIDE DEF q, p, a
  <2>4. CASE change = "cut"
    BY <1>2, <2>3, <2>4 DEF ChangedAs
  <2>5. CASE change # "cut"
    <3>1. at = Len(f) /\ (change = "none" => Len(bytes) = at)
          /\ (change = "longer" => Len(bytes) = at + 1) /\ change \in {"none", "longer"}
      BY <1>2, <1>7, <2>5 DEF ChangedAs
    <3>2. /\ ReadFrame(q) = Ok(EndFrame, a) /\ ReadNextBlock(q) = Ok(EndFrame, a)
          /\ ~Failed(EndSize(q, a)) /\ EndSize(q, a).n = Len(f) - p /\ ~Failed(ReadEndTail(q, a))
      BY <2>3, <3>1, OkIs
    <3>3. p + (Len(f) - p) = Len(f) /\ p \in Nat
      BY <2>1, <1>3 DEF p
    <3>. QED  BY <2>5, <3>1, <3>2, <3>3, <1>4 DEF p
  <2>. QED  BY <2>4, <2>5
<1>. QED  BY <1>5, <1>6, <1>7 DEF AtFrame, all
-----------------------------------------------------------------------------
(* A step of a reader.                                                     *)

LEMMA StoppedIs ==
  ASSUME NEW r, ReaderTyped(r), NEW x
  PROVE  /\ Stopped(r, x).cursor = r.cursor /\ Stopped(r, x).frames = r.frames
         /\ Stopped(r, x).status = x
         /\ x \in Faults \cup {"ok"} => ReaderTyped(Stopped(r, x))
BY DEF Stopped, ReaderTyped

LEMMA DeliveredIs ==
  ASSUME NEW r, ReaderTyped(r), NEW f \in Frame, NEW n, r.cursor + n \in 0 .. Len(bytes)
  PROVE  /\ Delivered(r, f, n).cursor = r.cursor + n
         /\ Delivered(r, f, n).frames = Append(r.frames, f)
         /\ Delivered(r, f, n).status = r.status
         /\ ReaderTyped(Delivered(r, f, n))
<1>. DEFINE S == Seq(Frame)
            T == [cursor : 0 .. Len(bytes), frames : S, status : Faults \cup {"header", "frames", "ok"}]
<1>1. Append(r.frames, f) \in S
  BY DEF ReaderTyped
<1>2. r \in T
  BY DEF ReaderTyped
<1>. HIDE DEF S
<1>3. /\ Delivered(r, f, n).cursor = r.cursor + n
      /\ Delivered(r, f, n).frames = Append(r.frames, f)
      /\ Delivered(r, f, n).status = r.status
      /\ Delivered(r, f, n) \in T
  BY <1>1, <1>2 DEF Delivered
<1>. QED  BY <1>3 DEF ReaderTyped, S

\* A reader that got f stops, or delivers a frame other than END.
Steps(r, s, f) ==
  \/ Failed(f) /\ \E x \in Faults : s = Stopped(r, x)
  \/ ~Failed(f) /\ f.value.type # END /\ s = Delivered(r, f.value, f.n)
  \/ ~Failed(f) /\ f.value.type = END /\ \E x \in Faults \cup {"ok"} : s = Stopped(r, x)

\* What a reader gets at its cursor: a frame that is there, or an error.
Gets(r, f) ==
  \/ \E x \in Faults : f = Err(x)
  \/ \E g \in Frame : \E n \in 1 .. Len(bytes) - r.cursor : f = Ok(g, n)

LEMMA BytesAre ==
  ASSUME FileKept
  PROVE  bytes \in Seq(Byte) /\ Len(bytes) <= Memory
BY ChangeIs DEF FileKept

LEMMA ReaderGets ==
  ASSUME FileKept, NEW r, ReaderTyped(r)
  PROVE  /\ Gets(r, ReadFrame(From(bytes, r.cursor)))
         /\ Gets(r, ReadNextBlock(From(bytes, r.cursor)))
<1>. DEFINE q == From(bytes, r.cursor)
<1>1. q \in Seq(Byte) /\ Len(q) = Len(bytes) - r.cursor /\ Len(q) <= Memory
  <2>1. bytes \in Seq(Byte) /\ Len(bytes) <= Memory /\ r.cursor \in 0 .. Len(bytes)
    BY BytesAre DEF ReaderTyped
  <2>2. q \in Seq(Byte) /\ Len(q) = Len(bytes) - r.cursor
    BY <2>1, FromIs
  <2>. QED  BY <2>1, <2>2, FramingAssumption
<1>. HIDE DEF q
<1>2. ASSUME NEW f, f \in Cut
      PROVE  \E x \in Faults : f = Err(x)
  BY <1>2 DEF Cut, Faults
<1>3. Err("InvalidBlockType") \in {Err(x) : x \in Faults}
  BY DEF Faults
<1>4. \/ FrameAlike(ReadFrame(q), ReadNextBlock(q), Len(q))
      \/ /\ ReadFrame(q) = Err("InvalidBlockType")
         /\ FrameAlike(ReadNextBlock(q), ReadNextBlock(q), Len(q))
  BY <1>1, FramesAlike
<1>. HIDE DEF q
<1>5. Gets(r, ReadFrame(q)) /\ Gets(r, ReadNextBlock(q))
  BY <1>1, <1>2, <1>3, <1>4 DEF FrameAlike, Gets
<1>. QED  BY <1>5 DEF q

\* A step, field by field.
Went(r, s, f) ==
  /\ ReaderTyped(s) /\ s.status # "header"
  /\ \/ Done(s) /\ s.frames = r.frames /\ s.cursor = r.cursor
        /\ (Failed(f) \/ f.value.type = END)
     \/ /\ s.status = "frames" /\ ~Failed(f) /\ f.value.type # END /\ f.value \in Frame
        /\ s.frames = Append(r.frames, f.value) /\ s.cursor = r.cursor + f.n

LEMMA ReaderGoes ==
  ASSUME bytes \in Seq(Byte), NEW r, ReaderTyped(r), r.status = "frames",
         NEW f, Gets(r, f), NEW s, Steps(r, s, f)
  PROVE  Went(r, s, f)
<1>1. CASE \E x \in Faults \cup {"ok"} : s = Stopped(r, x) /\ (Failed(f) \/ f.value.type = END)
  <2>1. PICK x \in Faults \cup {"ok"} : s = Stopped(r, x)
    BY <1>1
  <2>2. x # "header" /\ x # "frames"
    BY DEF Faults
  <2>. QED  BY <1>1, <2>1, <2>2, StoppedIs DEF Went, Done
<1>2. CASE ~Failed(f) /\ f.value.type # END /\ s = Delivered(r, f.value, f.n)
  <2>1. ~ \E x \in Faults : f = Err(x)
    BY <1>2 DEF Err, Failed, Faults
  <2>2. PICK g \in Frame, n \in 1 .. Len(bytes) - r.cursor : f = Ok(g, n)
    BY <2>1 DEF Gets
  <2>3. f.value = g /\ f.n = n
    BY <2>2, OkIs
  <2>4. r.cursor + n \in 0 .. Len(bytes)
    BY DEF ReaderTyped
  <2>. QED  BY <1>2, <2>3, <2>4, DeliveredIs DEF Went
<1>. QED  BY <1>1, <1>2 DEF Steps

\* A reader that follows the intact frames goes on following them.
LEMMA FollowsOn ==
  ASSUME FileKept, Opens, NEW r, ReaderTyped(r), r.status = "frames", Follows(r),
         NEW f, f \in {ReadFrame(From(bytes, r.cursor)), ReadNextBlock(From(bytes, r.cursor))},
         NEW s, Went(r, s, f)
  PROVE  Follows(s)
<1> SUFFICES ASSUME change \in {"none", "cut", "longer", "damaged"}
             PROVE  LET n == Len(s.frames)  all == Len(sent.frames) IN
                    /\ \A k \in 1 .. all : Intact(k) =>
                         /\ n >= k => s.frames[k] = sent.frames[k]
                         /\ Done(s) => n >= k
                    /\ n <= all /\ Intact(n) => s.cursor = SizeOf(sent, n)
                    /\ change # "damaged" => n <= all /\ Intact(n)
  BY DEF Follows
<1>. DEFINE n == Len(r.frames)  m == Len(s.frames)  all == Len(sent.frames)
<1>1. sent \in Sendable /\ all \in Nat /\ n \in Nat /\ m \in Nat /\ at \in Nat
      /\ r.frames \in Seq(Frame) /\ s.frames \in Seq(Frame)
  <2>1. at \in Nat
    BY HeaderSays DEF ChangedAs, Begins
  <2>. QED  BY <2>1 DEF FileKept, Sendable, ReaderTyped, Went
<1>2. /\ \A k \in 1 .. all : Intact(k) /\ n >= k => r.frames[k] = sent.frames[k]
      /\ n <= all /\ Intact(n) => r.cursor = SizeOf(sent, n)
      /\ change # "damaged" => n <= all /\ Intact(n)
  BY DEF Follows
<1>3. ASSUME NEW k \in 0 .. all, Intact(k), NEW j \in 0 .. k
      PROVE  Intact(j)
  <2>1. SizeOf(sent, j) \in Nat /\ SizeOf(sent, k) \in Nat /\ SizeOf(sent, j) <= SizeOf(sent, k)
    <3>1. j \in 0 .. all /\ k \in 0 .. k /\ k \in 0 .. Len(sent.frames)
      BY <1>1
    <3>. QED  BY <1>1, <3>1, SizesGrow
  <2>. QED  BY <1>1, <1>3, <2>1 DEF Intact
<1>4. ASSUME n <= all, Intact(n)
      PROVE  AtFrame(n) /\ r.cursor = SizeOf(sent, n)
  <2>1. n \in 0 .. Len(sent.frames)
    BY <1>1, <1>4
  <2>. QED  BY <2>1, <1>2, <1>4, FrameFound
<1>. HIDE DEF n, m, all
<1>5. ASSUME n < all, Intact(n + 1)
      PROVE  /\ s.status = "frames" /\ s.frames = Append(r.frames, sent.frames[n + 1])
             /\ s.cursor = SizeOf(sent, n + 1)
  <2>1. n + 1 \in 0 .. all /\ n \in 0 .. n + 1 /\ n <= all
    BY <1>1, <1>5
  <2>2. Intact(n)
    BY <1>3, <1>5, <2>1
  <2>. DEFINE d == SizeOf(sent, n + 1) - SizeOf(sent, n)
  <2>3. /\ f = Ok(sent.frames[n + 1], d) /\ sent.frames[n + 1].type # END
        /\ SizeOf(sent, n) + d = SizeOf(sent, n + 1) /\ r.cursor = SizeOf(sent, n)
    BY <1>4, <1>5, <2>1, <2>2 DEF AtFrame, all
  <2>4. ~Failed(f) /\ f.value = sent.frames[n + 1] /\ f.n = d
    BY <2>3, OkIs
  <2>. HIDE DEF d
  <2>. QED  BY <2>3, <2>4 DEF Went
<1>6. CASE Done(s)
  <2>1. s.frames = r.frames /\ s.cursor = r.cursor /\ m = n
    BY <1>6 DEF Went, Done, m, n
  <2>2. ASSUME NEW k \in 1 .. all, Intact(k)
        PROVE  n >= k
    <3> SUFFICES ASSUME n < k PROVE FALSE
      BY <1>1
    <3>1. n < all /\ n + 1 \in 0 .. k /\ k \in 0 .. all
      BY <1>1
    <3>2. Intact(n + 1)
      BY <1>3, <2>2, <3>1
    <3>. QED  BY <1>5, <1>6, <3>1, <3>2 DEF Done
  <2>. QED  BY <1>2, <2>1, <2>2 DEF m, n, all
<1>7. CASE ~Done(s)
  <2>1. /\ ~Failed(f) /\ f.value.type # END /\ f.value \in Frame
        /\ s.frames = Append(r.frames, f.value) /\ s.cursor = r.cursor + f.n
    BY <1>7 DEF Went, Done
  <2>2. m = n + 1 /\ s.frames[n + 1] = f.value /\ \A k \in 1 .. n : s.frames[k] = r.frames[k]
    BY <1>1, <2>1 DEF m, n
  <2>3. ASSUME NEW k \in 1 .. all, Intact(k), m >= k
        PROVE  s.frames[k] = sent.frames[k]
    <3>1. CASE k = n + 1
      <4>1. n < all
        BY <3>1, <1>1
      <4>2. s.frames = Append(r.frames, sent.frames[n + 1])
        BY <4>1, <3>1, <2>3, <1>5
      <4>3. sent.frames[n + 1] \in Frame
        <5>1. sent.frames[n + 1] \in Frames
          BY <1>1, <3>1 DEF Sendable, all
        <5>. QED  BY <5>1, FramesAre
      <4>4. s.frames[n + 1] = sent.frames[n + 1]
        BY <1>1, <4>2, <4>3 DEF n
      <4>. QED  BY <4>4, <3>1
    <3>2. CASE k # n + 1
      <4>1. k \in 1 .. n /\ n >= k
        BY <3>2, <2>2, <2>3, <1>1
      <4>. QED  BY <4>1, <2>2, <2>3, <1>2
    <3>. QED  BY <3>1, <3>2
  <2>4. m <= all /\ Intact(m) => s.cursor = SizeOf(sent, m)
    BY <1>1, <1>5, <2>2
  <2>5. ASSUME change # "damaged"
        PROVE  m <= all /\ Intact(m)
    <3>1. n <= all /\ Intact(n) /\ AtFrame(n) /\ r.cursor = SizeOf(sent, n)
      BY <1>2, <1>4, <2>5
    <3>2. f \notin Cut
      BY <2>1, CutFails
    <3>3. f # Ok(EndFrame, Len(EncodeVarint[END]))
      BY <2>1, OkIs DEF EndFrame
    <3>4. n # all
      BY <2>5, <3>1, <3>2, <3>3 DEF AtFrame, all
    <3>5. n < all
      BY <1>1, <3>1, <3>4
    <3>6. Intact(n + 1)
      BY <2>5, <3>1, <3>2, <3>5 DEF AtFrame, all
    <3>. QED  BY <2>2, <3>5, <3>6, <1>1
  <2>. QED  BY <1>7, <2>3, <2>4, <2>5 DEF m, all
<1>. QED  BY <1>6, <1>7
-----------------------------------------------------------------------------
(* A step of the system.                                                   *)

\* What holds of each reader by itself.
ReaderKeeps(r) == ReaderTyped(r) /\ HeaderRead(r) /\ Follows(r)

LEMMA FileStays ==
  ASSUME UNCHANGED <<sent, change, at, bytes>>
  PROVE  /\ FileKept => FileKept'
         /\ Opens' <=> Opens
         /\ Opened(Reader)' = Opened(Reader)
BY DEF FileKept, Opens, Opened

LEMMA SyncStays ==
  ASSUME UNCHANGED <<sent, change, at, bytes>>, NEW s, s = sync', ReaderKeeps(s)
  PROVE  ReaderKeeps(sync)'
<1>1. ReaderTyped(sync)'
  BY DEF ReaderKeeps, ReaderTyped
<1>2. HeaderRead(sync)'
  BY FileStays DEF ReaderKeeps, HeaderRead
<1>3. Follows(sync)'
  BY FileStays DEF ReaderKeeps, Follows, Intact, Done
<1>. QED  BY <1>1, <1>2, <1>3 DEF ReaderKeeps

LEMMA StreamStays ==
  ASSUME UNCHANGED <<sent, change, at, bytes>>, NEW s, s = stream', ReaderKeeps(s)
  PROVE  ReaderKeeps(stream)'
<1>1. ReaderTyped(stream)'
  BY DEF ReaderKeeps, ReaderTyped
<1>2. HeaderRead(stream)'
  BY FileStays DEF ReaderKeeps, HeaderRead
<1>3. Follows(stream)'
  BY FileStays DEF ReaderKeeps, Follows, Intact, Done
<1>. QED  BY <1>1, <1>2, <1>3 DEF ReaderKeeps

LEMMA NewIsTyped ==
  ASSUME NEW o, NEW X, o \in [cursor : 0 .. Len(bytes), frames : {<<>>}, status : X],
         X \subseteq Faults \cup {"header", "frames", "ok"}
  PROVE  ReaderTyped(o)
<1>. DEFINE S == Seq(Frame)  Y == Faults \cup {"header", "frames", "ok"}
<1>1. {<<>>} \subseteq S
  OBVIOUS
<1>2. o \in [cursor : 0 .. Len(bytes), frames : S, status : Y]
  <2>. HIDE DEF S, Y
  <2>1. X \subseteq Y
    BY DEF Y
  <2>. QED  BY <1>1, <2>1
<1>. QED  BY <1>2 DEF ReaderTyped

\* Opening a file, either reader does the same.
LEMMA OpenKeeps ==
  ASSUME FileKept, NEW r, ReaderKeeps(r), r.status = "header"
  PROVE  /\ Opened(r) = Opened(Reader) /\ ReaderKeeps(Opened(r))
         /\ Opened(r).status # "header"
         /\ Opens => ~Done(Opened(r)) /\ Opened(r).cursor = HeaderSize /\ Opened(r).frames = <<>>
         /\ ~Opens => Opened(Reader).status \in Faults
<1>1. r = Reader
  BY DEF ReaderKeeps, HeaderRead
<1>2. bytes \in Seq(Byte) /\ Len(bytes) \in Nat
  BY BytesAre
<1>. DEFINE o == Opened(Reader)
<1>3. CASE Opens
  <2>1. o = [cursor |-> HeaderSize, frames |-> <<>>, status |-> "frames"] /\ HeaderSize \in 0 .. Len(bytes)
    <3>1. HeaderSize \in Nat /\ HeaderSize <= Len(bytes)
      <4>1. Len(Magic) \in Nat
        BY FramingAssumption
      <4>. QED  BY <4>1, <1>2, <1>3, OpensIs DEF Readable, HeaderSize
    <3>. QED  BY <3>1, <1>2, <1>3, OpensIs
  <2>. HIDE DEF o
  <2>2. o.cursor = HeaderSize /\ o.frames = <<>> /\ o.status = "frames"
        /\ o \in [cursor : 0 .. Len(bytes), frames : {<<>>}, status : {"frames"}]
    BY <2>1
  <2>3. ReaderTyped(o)
    BY <2>2, NewIsTyped
  <2>4. HeaderRead(o)
    BY <1>3, <2>2 DEF HeaderRead
  <2>5. Follows(o)
    <3>. DEFINE all == Len(sent.frames)
    <3>1. all \in Nat /\ SizeOf(sent, 0) = HeaderSize
      BY FileIsLaid DEF FileKept, Sendable, FileLaid
    <3>2. Len(o.frames) = 0
      BY <2>2
    <3>. HIDE DEF all
    <3>3. \A k \in 1 .. all : ~(0 >= k)
      BY <3>1
    <3>. QED  BY <2>2, <3>1, <3>2, <3>3 DEF Follows, Done, Intact, all
  <2>. QED  BY <1>1, <1>3, <2>2, <2>3, <2>4, <2>5 DEF ReaderKeeps, Done, o
<1>4. CASE ~Opens
  <2>1. o \in [cursor : 0 .. Len(bytes), frames : {<<>>}, status : Faults]
    BY <1>2, <1>4, OpensIs
  <2>. HIDE DEF o
  <2>2. o.status \in Faults /\ o.status # "header"
    BY <2>1 DEF Faults
  <2>3. ReaderTyped(o)
    BY <2>1, NewIsTyped
  <2>4. HeaderRead(o) /\ Follows(o)
    BY <1>4, <2>2 DEF HeaderRead, Follows, o
  <2>. QED  BY <1>1, <1>4, <2>2, <2>3, <2>4 DEF ReaderKeeps, o
<1>. QED  BY <1>3, <1>4

\* Reading a frame, either reader keeps what holds of it.
LEMMA FrameKeeps ==
  ASSUME FileKept, NEW r, ReaderKeeps(r), r.status = "frames",
         NEW f, f \in {ReadFrame(From(bytes, r.cursor)), ReadNextBlock(From(bytes, r.cursor))},
         NEW s, Steps(r, s, f)
  PROVE  Opens /\ Went(r, s, f) /\ ReaderKeeps(s)
<1>1. bytes \in Seq(Byte) /\ ReaderTyped(r)
  BY BytesAre DEF ReaderKeeps
<1>2. Opens
  <2> SUFFICES ASSUME ~Opens PROVE FALSE
    OBVIOUS
  <2>1. r = Opened(Reader) /\ Opened(Reader).status \in Faults
    <3>1. Opened(Reader) \in [cursor : 0 .. Len(bytes), frames : {<<>>}, status : Faults]
      BY <1>1, OpensIs
    <3>. QED  BY <3>1 DEF ReaderKeeps, HeaderRead
  <2>. QED  BY <2>1 DEF Faults
<1>3. Went(r, s, f)
  BY <1>1, ReaderGets, ReaderGoes
<1>4. Follows(s)
  BY <1>1, <1>2, <1>3, FollowsOn DEF ReaderKeeps
<1>. QED  BY <1>2, <1>3, <1>4 DEF Went, ReaderKeeps, HeaderRead

\* What a reader finds next in a file that is whole up to where it breaks off.
LEMMA EndFound ==
  ASSUME FileKept, NEW r, ReaderKeeps(r), r.status = "frames", Opens,
         change \in {"none", "cut", "longer"}
  PROVE  LET q == From(bytes, r.cursor)  a == Len(EncodeVarint[END]) IN
         \/ \E g, d : g.type # END /\ ReadFrame(q) = Ok(g, d) /\ ReadNextBlock(q) = Ok(g, d)
         \/ change = "cut" /\ ReadFrame(q) \in Cut /\ ReadNextBlock(q) \in Cut
         \/ /\ ReadFrame(q) = Ok(EndFrame, a) /\ ReadNextBlock(q) = Ok(EndFrame, a)
            /\ change = "cut" => EndSize(q, a) \in Cut /\ ReadEndTail(q, a) \in Cut
            /\ change # "cut" =>
                 /\ ~Failed(ReadEndTail(q, a)) /\ ~Failed(EndSize(q, a))
                 /\ change = "none" => r.cursor + EndSize(q, a).n = Len(bytes)
                 /\ change = "longer" => r.cursor + EndSize(q, a).n < Len(bytes)
<1>. DEFINE n == Len(r.frames)  all == Len(sent.frames)
<1>1. n \in Nat /\ all \in Nat
  BY DEF FileKept, Sendable, ReaderKeeps, ReaderTyped
<1>2. n <= all /\ Intact(n) /\ r.cursor = SizeOf(sent, n)
  BY DEF ReaderKeeps, Follows
<1>3. AtFrame(n)
  <2>1. n \in 0 .. Len(sent.frames)
    BY <1>1, <1>2
  <2>. HIDE DEF n
  <2>. QED  BY <1>2, <2>1, FrameFound
<1>. HIDE DEF n, all
<1>4. CASE n < all /\ Intact(n + 1)
  BY <1>2, <1>3, <1>4 DEF AtFrame, all
<1>5. CASE n < all /\ ~Intact(n + 1)
  BY <1>2, <1>3, <1>5 DEF AtFrame, all
<1>6. CASE n = all
  BY <1>2, <1>3, <1>6 DEF AtFrame, all
<1>. QED  BY <1>1, <1>2, <1>4, <1>5, <1>6

LEMMA GetsIs ==
  ASSUME NEW r, NEW f, Gets(r, f)
  PROVE  /\ Failed(f) => f.error \in Faults
         /\ ~Failed(f) => f.value \in Frame /\ f.n \in 1 .. Len(bytes) - r.cursor
<1>1. CASE \E x \in Faults : f = Err(x)
  <2>1. PICK x \in Faults : f = Err(x)
    BY <1>1
  <2>2. f.error = x /\ x # "none"
    BY <2>1 DEF Err, Faults
  <2>. QED  BY <2>2 DEF Failed
<1>2. CASE \E g \in Frame : \E n \in 1 .. Len(bytes) - r.cursor : f = Ok(g, n)
  BY <1>2, OkIs
<1>. QED  BY <1>1, <1>2 DEF Gets

\* A step of the decoder that has the whole file.
LEMMA SyncReads ==
  ASSUME FileKept, ReaderKeeps(sync), SyncFrame \/ SyncRunOut
  PROVE  LET q == From(bytes, sync.cursor)  f == ReadFrame(q)  e == EndSize(q, f.n) IN
         /\ sync.status = "frames" /\ Steps(sync, sync', f)
         /\ Failed(f) => \/ sync'.status = f.error
                         \/ sync'.status = "MissingEndSentinel" /\ sync.cursor = Len(bytes)
         /\ ~Failed(f) /\ f.value.type = END =>
              IF Failed(e) THEN sync'.status = e.error
              ELSE sync'.status = IF sync.cursor + e.n < Len(bytes) THEN "TrailingData" ELSE "ok"
<1>. DEFINE q == From(bytes, sync.cursor)  f == ReadFrame(q)  e == EndSize(q, f.n)
<1>1. ReaderTyped(sync) /\ bytes \in Seq(Byte) /\ Len(bytes) \in Nat /\ sync.cursor \in 0 .. Len(bytes)
  BY BytesAre DEF ReaderKeeps, ReaderTyped
<1>2. q \in Seq(Byte) /\ Len(q) = Len(bytes) - sync.cursor
  BY <1>1, FromIs
<1>3. Gets(sync, f)
  BY <1>1, ReaderGets
<1>4. (Failed(f) => f.error \in Faults) /\ (~Failed(f) => f.n \in 1 .. Len(q))
  BY <1>2, <1>3, GetsIs
<1>6. ~Failed(f) /\ Failed(e) => e.error \in Faults
  BY <1>2, <1>4, TailsAlike DEF Cut, Err, Faults
<1>7. {"TrailingData", "MissingEndSentinel"} \subseteq Faults
  BY DEF Faults
<1>8. CASE SyncRunOut
  <2>1. sync.status = "frames" /\ sync.cursor = Len(bytes) /\ sync' = Stopped(sync, "MissingEndSentinel")
    BY <1>8 DEF SyncRunOut
  <2>2. Len(bytes) - sync.cursor = 0
    BY <2>1, <1>1
  <2>3. Failed(f)
    BY <1>2, <1>4, <2>2
  <2>. HIDE DEF f
  <2>4. sync'.status = "MissingEndSentinel"
    BY <1>1, <2>1, StoppedIs
  <2>. QED  BY <1>7, <2>1, <2>3, <2>4 DEF Steps, f
<1>9. CASE SyncFrame
  <2>1. sync.status = "frames" /\
        sync' = IF Failed(f) THEN Stopped(sync, f.error)
                ELSE IF f.value.type # END THEN Delivered(sync, f.value, f.n)
                ELSE IF Failed(e) THEN Stopped(sync, e.error)
                ELSE IF sync.cursor + e.n < Len(bytes) THEN Stopped(sync, "TrailingData")
                ELSE Stopped(sync, "ok")
    BY <1>9 DEF SyncFrame
  <2>. HIDE DEF f, e
  <2>2. Steps(sync, sync', f)
    BY <1>4, <1>6, <1>7, <2>1 DEF Steps
  <2>3. Failed(f) => sync'.status = f.error
    BY <1>1, <2>1, StoppedIs
  <2>4. ~Failed(f) /\ f.value.type = END =>
              IF Failed(e) THEN sync'.status = e.error
              ELSE sync'.status = IF sync.cursor + e.n < Len(bytes) THEN "TrailingData" ELSE "ok"
    BY <1>1, <2>1, StoppedIs
  <2>. QED  BY <2>1, <2>2, <2>3, <2>4 DEF f, e
<1>. QED  BY <1>8, <1>9

\* A step of the decoder that reads a stream.
LEMMA StreamReads ==
  ASSUME FileKept, ReaderKeeps(stream), StreamFrame
  PROVE  LET q == From(bytes, stream.cursor)  f == ReadNextBlock(q)  t == ReadEndTail(q, f.n) IN
         /\ stream.status = "frames" /\ Steps(stream, stream', f)
         /\ Failed(f) => stream'.status = f.error
         /\ ~Failed(f) /\ f.value.type = END =>
              stream'.status = IF Failed(t) THEN t.error ELSE "ok"
<1>. DEFINE q == From(bytes, stream.cursor)  f == ReadNextBlock(q)  t == ReadEndTail(q, f.n)
<1>1. /\ ReaderTyped(stream) /\ bytes \in Seq(Byte) /\ Len(bytes) \in Nat
      /\ stream.cursor \in 0 .. Len(bytes)
  BY BytesAre DEF ReaderKeeps, ReaderTyped
<1>2. q \in Seq(Byte) /\ Len(q) = Len(bytes) - stream.cursor
  BY <1>1, FromIs
<1>3. Gets(stream, f)
  BY <1>1, ReaderGets
<1>4. (Failed(f) => f.error \in Faults) /\ (~Failed(f) => f.n \in 1 .. Len(q))
  BY <1>2, <1>3, GetsIs
<1>6. ~Failed(f) /\ Failed(t) => t.error \in Faults
  BY <1>2, <1>4, TailsAlike DEF Cut, Err, Faults
<1>7. stream.status = "frames" /\
      stream' = IF Failed(f) THEN Stopped(stream, f.error)
                ELSE IF f.value.type # END THEN Delivered(stream, f.value, f.n)
                ELSE Stopped(stream, IF Failed(t) THEN t.error ELSE "ok")
  BY DEF StreamFrame
<1>. HIDE DEF f, t
<1>8. Steps(stream, stream', f)
  BY <1>4, <1>6, <1>7 DEF Steps
<1>9. /\ Failed(f) => stream'.status = f.error
      /\ ~Failed(f) /\ f.value.type = END =>
           stream'.status = IF Failed(t) THEN t.error ELSE "ok"
  BY <1>1, <1>7, StoppedIs
<1>. QED  BY <1>7, <1>8, <1>9 DEF f, t

LEMMA SyncEnds ==
  ASSUME FileKept, ReaderKeeps(sync), SyncFrame \/ SyncRunOut,
         UNCHANGED <<sent, change, at, bytes>>
  PROVE  /\ ReaderKeeps(sync)' /\ EndsAs(sync, "TrailingData")' /\ SyncStopped'
         /\ Opens /\ sync.status = "frames"
         /\ Went(sync, sync', ReadFrame(From(bytes, sync.cursor)))
<1>. DEFINE q == From(bytes, sync.cursor)  f == ReadFrame(q)  e == EndSize(q, f.n)
            a == Len(EncodeVarint[END])
<1>1. /\ sync.status = "frames" /\ Steps(sync, sync', f)
      /\ Failed(f) => \/ sync'.status = f.error
                      \/ sync'.status = "MissingEndSentinel" /\ sync.cursor = Len(bytes)
      /\ ~Failed(f) /\ f.value.type = END =>
           IF Failed(e) THEN sync'.status = e.error
           ELSE sync'.status = IF sync.cursor + e.n < Len(bytes) THEN "TrailingData" ELSE "ok"
  BY SyncReads
<1>2. Opens /\ Went(sync, sync', f) /\ \A s : s = sync' => ReaderKeeps(s)
  <2>1. f \in {ReadFrame(From(bytes, sync.cursor)), ReadNextBlock(From(bytes, sync.cursor))}
    OBVIOUS
  <2>. HIDE DEF f
  <2>. QED  BY <1>1, <2>1, FrameKeeps
<1>3. ReaderKeeps(sync)'
  BY <1>2, SyncStays
<1>4. ASSUME sync'.status \notin {"header", "frames"}, change \in {"none", "cut", "longer"}
      PROVE  /\ change = "none" => sync'.status = "ok"
             /\ change = "cut" => sync'.status # "ok"
             /\ change = "longer" => sync'.status = "TrailingData"
  <2>1. Failed(f) \/ f.value.type = END
    BY <1>2, <1>4 DEF Went
  <2>2. \/ \E g, d : g.type # END /\ f = Ok(g, d)
        \/ change = "cut" /\ f \in Cut
        \/ /\ f = Ok(EndFrame, a)
           /\ change = "cut" => EndSize(q, a) \in Cut
           /\ change # "cut" =>
                /\ ~Failed(EndSize(q, a))
                /\ change = "none" => sync.cursor + EndSize(q, a).n = Len(bytes)
                /\ change = "longer" => sync.cursor + EndSize(q, a).n < Len(bytes)
    BY <1>1, <1>2, <1>4, EndFound
  <2>. HIDE DEF f, q, a
  <2>3. CASE \E g, d : g.type # END /\ f = Ok(g, d)
    BY <2>1, <2>3, OkIs
  <2>4. CASE change = "cut" /\ f \in Cut
    BY <1>1, <2>4, CutFails
  <2>5. CASE f = Ok(EndFrame, a)
    <3>1. ~Failed(f) /\ f.value.type = END /\ f.n = a /\ f \notin Cut
      BY <2>5, OkIs, CutFails DEF EndFrame
    <3>2. ~ \E g, d : g.type # END /\ f = Ok(g, d)
      BY <3>1, OkIs
    <3>3. Len(bytes) \in Nat
      BY BytesAre
    <3>. QED  BY <1>1, <1>4, <2>2, <3>1, <3>2, <3>3, CutFails
  <2>. QED  BY <2>2, <2>3, <2>4, <2>5
<1>5. EndsAs(sync, "TrailingData")'
  BY <1>4 DEF EndsAs, Done
<1>6. SyncStopped'
  <2> SUFFICES ASSUME sync'.status \notin {"header", "frames"}
               PROVE  LET g == ReadFrame(From(bytes', sync'.cursor)) IN
                      \/ sync'.status = "MissingEndSentinel" /\ sync'.cursor = Len(bytes')
                      \/ Failed(g) /\ sync'.status = g.error
                      \/ /\ ~Failed(g) /\ g.value.type = END
                         /\ sync'.status = "ok" => ~Failed(EndSize(From(bytes', sync'.cursor), g.n))
    BY DEF SyncStopped, Done
  <2>1. sync'.cursor = sync.cursor /\ (Failed(f) \/ f.value.type = END)
    BY <1>2 DEF Went
  <2>2. ReadFrame(From(bytes', sync'.cursor)) = f /\ From(bytes', sync'.cursor) = q
    BY <2>1
  <2>3. ~Failed(f) /\ Failed(e) => e.error # "ok"
    <3>1. ReaderTyped(sync) /\ bytes \in Seq(Byte) /\ Len(bytes) \in Nat /\ sync.cursor \in 0 .. Len(bytes)
      BY BytesAre DEF ReaderKeeps, ReaderTyped
    <3>2. q \in Seq(Byte) /\ Len(q) = Len(bytes) - sync.cursor
      BY <3>1, FromIs
    <3>3. Gets(sync, f)
      BY <3>1, ReaderGets
    <3>. HIDE DEF f, q
    <3>4. ~Failed(f) => f.n \in 1 .. Len(q)
      BY <3>2, <3>3, GetsIs
    <3>. QED  BY <3>2, <3>4, TailsAlike, CutFails
  <2>. HIDE DEF f, e, q
  <2>. QED  BY <1>1, <2>1, <2>2, <2>3 DEF e
<1>. QED  BY <1>1, <1>2, <1>3, <1>5, <1>6

LEMMA StreamEnds ==
  ASSUME FileKept, ReaderKeeps(stream), StreamFrame, UNCHANGED <<sent, change, at, bytes>>
  PROVE  /\ ReaderKeeps(stream)' /\ EndsAs(stream, "ok")'
         /\ Opens /\ Went(stream, stream', ReadNextBlock(From(bytes, stream.cursor)))
<1>. DEFINE q == From(bytes, stream.cursor)  f == ReadNextBlock(q)  t == ReadEndTail(q, f.n)
            a == Len(EncodeVarint[END])
<1>1. /\ stream.status = "frames" /\ Steps(stream, stream', f)
      /\ Failed(f) => stream'.status = f.error
      /\ ~Failed(f) /\ f.value.type = END =>
           stream'.status = IF Failed(t) THEN t.error ELSE "ok"
  BY StreamReads
<1>2. Opens /\ Went(stream, stream', f) /\ \A s : s = stream' => ReaderKeeps(s)
  <2>1. f \in {ReadFrame(From(bytes, stream.cursor)), ReadNextBlock(From(bytes, stream.cursor))}
    OBVIOUS
  <2>. HIDE DEF f
  <2>. QED  BY <1>1, <2>1, FrameKeeps
<1>3. ReaderKeeps(stream)'
  BY <1>2, StreamStays
<1>4. ASSUME stream'.status \notin {"header", "frames"}, change \in {"none", "cut", "longer"}
      PROVE  /\ change = "none" => stream'.status = "ok"
             /\ change = "cut" => stream'.status # "ok"
             /\ change = "longer" => stream'.status = "ok"
  <2>1. Failed(f) \/ f.value.type = END
    BY <1>2, <1>4 DEF Went
  <2>2. \/ \E g, d : g.type # END /\ f = Ok(g, d)
        \/ change = "cut" /\ f \in Cut
        \/ /\ f = Ok(EndFrame, a)
           /\ change = "cut" => ReadEndTail(q, a) \in Cut
           /\ change # "cut" => ~Failed(ReadEndTail(q, a))
    BY <1>1, <1>2, <1>4, EndFound
  <2>. HIDE DEF f, q, a
  <2>3. CASE \E g, d : g.type # END /\ f = Ok(g, d)
    BY <2>1, <2>3, OkIs
  <2>4. CASE change = "cut" /\ f \in Cut
    BY <1>1, <2>4, CutFails
  <2>5. CASE f = Ok(EndFrame, a)
    <3>1. ~Failed(f) /\ f.value.type = END /\ f.n = a /\ f \notin Cut
      BY <2>5, OkIs, CutFails DEF EndFrame
    <3>2. ~ \E g, d : g.type # END /\ f = Ok(g, d)
      BY <3>1, OkIs
    <3>. QED  BY <1>1, <1>4, <2>2, <3>1, <3>2, CutFails
  <2>. QED  BY <2>2, <2>3, <2>4, <2>5
<1>5. EndsAs(stream, "ok")'
  BY <1>4 DEF EndsAs, Done
<1>. QED  BY <1>2, <1>3, <1>5
-----------------------------------------------------------------------------
(* The places that both decoders come by.                                  *)

\* One more frame is one more place.
LEMMA WalksOn ==
  ASSUME NEW r, ReaderTyped(r), NEW f, f = ReadFrame(From(bytes, r.cursor)), Gets(r, f),
         NEW s, Went(r, s, f),
         NEW c \in [0 .. Len(r.frames) -> 0 .. Len(bytes)], Walked(r, c)
  PROVE  \E d \in [0 .. Len(s.frames) -> 0 .. Len(bytes)] : Walked(s, d)
<1>. DEFINE n == Len(r.frames)  L == Len(bytes)
<1>1. n \in Nat /\ r.frames \in Seq(Frame) /\ r.cursor \in 0 .. L
  BY DEF ReaderTyped
<1>2. CASE Done(s)
  <2>1. s.frames = r.frames /\ s.cursor = r.cursor
    BY <1>2 DEF Went, Done
  <2>2. Walked(s, c)
    BY <2>1 DEF Walked
  <2>. QED  BY <2>1, <2>2
<1>3. CASE ~Done(s)
  <2>1. /\ ~Failed(f) /\ f.value.type # END /\ f.value \in Frame
        /\ s.frames = Append(r.frames, f.value) /\ s.cursor = r.cursor + f.n
    BY <1>3 DEF Went, Done
  <2>2. f = Ok(f.value, f.n) /\ f.n \in 1 .. L - r.cursor
    <3>1. ~ \E x \in Faults : f = Err(x)
      BY <2>1 DEF Err, Failed, Faults
    <3>2. PICK g \in Frame, m \in 1 .. Len(bytes) - r.cursor : f = Ok(g, m)
      BY <3>1 DEF Gets
    <3>. QED  BY <3>2, OkIs
  <2>3. /\ Len(s.frames) = n + 1 /\ s.frames[n + 1] = f.value
        /\ \A i \in 1 .. n : s.frames[i] = r.frames[i]
    BY <1>1, <2>1
  <2>. DEFINE d == [i \in 0 .. n + 1 |-> IF i = n + 1 THEN s.cursor ELSE c[i]]
  <2>4. s.cursor \in 0 .. L /\ s.cursor - r.cursor = f.n
    BY <1>1, <2>1, <2>2 DEF Went, ReaderTyped
  <2>5. d \in [0 .. n + 1 -> 0 .. L] /\ d[n + 1] = s.cursor /\ \A i \in 0 .. n : d[i] = c[i]
    BY <1>1, <2>4
  <2>. HIDE DEF d, n, L
  <2>6. /\ c[0] = HeaderSize /\ c[n] = r.cursor
        /\ \A i \in 1 .. n : /\ ReadFrame(From(bytes, c[i - 1])) = Ok(r.frames[i], c[i] - c[i - 1])
                             /\ r.frames[i].type # END
    BY DEF Walked, n
  <2>7. ASSUME NEW i \in 1 .. n + 1
        PROVE  /\ ReadFrame(From(bytes, d[i - 1])) = Ok(s.frames[i], d[i] - d[i - 1])
               /\ s.frames[i].type # END
    <3>1. CASE i = n + 1
      <4>1. i - 1 = n /\ n \in 0 .. n
        BY <1>1, <3>1
      <4>2. d[i - 1] = r.cursor /\ d[i] = s.cursor /\ s.frames[i] = f.value
        BY <4>1, <3>1, <2>3, <2>5, <2>6
      <4>. QED  BY <4>2, <2>1, <2>2, <2>4
    <3>2. CASE i # n + 1
      <4>1. i \in 1 .. n /\ i \in 0 .. n /\ i - 1 \in 0 .. n
        BY <1>1, <3>2
      <4>2. d[i - 1] = c[i - 1] /\ d[i] = c[i] /\ s.frames[i] = r.frames[i]
        BY <4>1, <2>3, <2>5
      <4>. QED  BY <4>1, <4>2, <2>6
    <3>. QED  BY <3>1, <3>2
  <2>8. d[0] = HeaderSize
    BY <1>1, <2>5, <2>6
  <2>9. Walked(s, d)
    BY <2>3, <2>5, <2>7, <2>8 DEF Walked
  <2>. QED  BY <2>3, <2>5, <2>9 DEF L
<1>. QED  BY <1>2, <1>3

\* The stream goes on to the next place, or stops at the last for the same reason.
LEMMA TracksOn ==
  ASSUME FileKept, Opens, ReaderKeeps(sync), ReaderKeeps(stream), Done(sync), SyncStopped,
         sync.status # "InvalidBlockType", StreamFrame, UNCHANGED <<sent, change, at, bytes>>,
         NEW c \in [0 .. Len(sync.frames) -> 0 .. Len(bytes)], Walked(sync, c), Tracks(stream, c),
         NEW s, s = stream'
  PROVE  Tracks(s, c)
<1>. DEFINE k == Len(stream.frames)  n == Len(sync.frames)  L == Len(bytes)
            q == From(bytes, stream.cursor)  f == ReadNextBlock(q)  t == ReadEndTail(q, f.n)
            g == ReadFrame(q)
<1>1. /\ Failed(f) => s.status = f.error
      /\ ~Failed(f) /\ f.value.type = END => s.status = IF Failed(t) THEN t.error ELSE "ok"
  BY StreamReads
<1>2. Went(stream, s, f)
  BY StreamEnds
<1>3. /\ bytes \in Seq(Byte) /\ ReaderTyped(stream) /\ ReaderTyped(sync) /\ L \in Nat
      /\ stream.cursor \in 0 .. L /\ k \in Nat /\ n \in Nat
      /\ stream.frames \in Seq(Frame) /\ sync.frames \in Seq(Frame)
  BY BytesAre DEF ReaderKeeps, ReaderTyped
<1>4. q \in Seq(Byte) /\ Len(q) = L - stream.cursor /\ Len(q) <= Memory
  <2>1. q \in Seq(Byte) /\ Len(q) = L - stream.cursor
    BY <1>3, FromIs
  <2>2. L <= Memory
    BY BytesAre
  <2>. HIDE DEF q, L
  <2>. QED  BY <1>3, <2>1, <2>2, FramingAssumption
<1>5. /\ k <= n /\ stream.cursor = c[k]
      /\ \A i \in 1 .. k : stream.frames[i] = sync.frames[i]
  BY DEF Tracks
<1>6. \/ FrameAlike(g, f, Len(q))
      \/ g = Err("InvalidBlockType") /\ FrameAlike(f, f, Len(q))
  BY <1>4, FramesAlike
<1>. HIDE DEF f, g, q, k, n, L
<1>7. CASE k < n
  <2>1. k + 1 \in 1 .. n /\ (k + 1) - 1 = k
    BY <1>3, <1>7
  <2>. DEFINE v == sync.frames[k + 1]  d == c[k + 1] - c[k]
  <2>2. g = Ok(v, d) /\ v.type # END
    BY <1>5, <2>1 DEF Walked, n, g, q
  <2>3. g \notin Cut /\ g # Err("InvalidBlockType")
    BY <2>2, CutFails, OkIs DEF Err, Failed
  <2>4. f = Ok(v, d)
    BY <1>6, <2>2, <2>3 DEF FrameAlike
  <2>5. ~Failed(f) /\ f.value = v /\ f.n = d
    BY <2>4, OkIs
  <2>6. ~Done(s) /\ s.frames = Append(stream.frames, v) /\ s.cursor = stream.cursor + d /\ v \in Frame
    BY <1>2, <2>2, <2>5 DEF Went, Done
  <2>7. /\ Len(s.frames) = k + 1 /\ s.frames[k + 1] = v
        /\ \A i \in 1 .. k : s.frames[i] = stream.frames[i]
    BY <1>3, <2>6 DEF k
  <2>8. s.cursor = c[k + 1]
    <3>1. c[k] \in 0 .. L /\ c[k + 1] \in 0 .. L
      <4>1. k \in 0 .. n /\ k + 1 \in 0 .. n
        BY <1>3, <1>7
      <4>. QED  BY <4>1 DEF L, n
    <3>. QED  BY <3>1, <1>3, <1>5, <2>6
  <2>9. \A i \in 1 .. k + 1 : s.frames[i] = sync.frames[i]
    <3>1. \A i \in 1 .. k + 1 : i = k + 1 \/ i \in 1 .. k
      BY <1>3
    <3>. QED  BY <3>1, <1>5, <2>7
  <2>10. k + 1 <= n
    BY <1>3, <1>7
  <2>. QED  BY <2>6, <2>7, <2>8, <2>9, <2>10 DEF Tracks, n
<1>8. CASE k = n
  <2>1. sync.cursor = stream.cursor
    BY <1>5, <1>8 DEF Walked, n
  <2>2. \/ sync.status = "MissingEndSentinel" /\ sync.cursor = L
        \/ Failed(g) /\ sync.status = g.error
        \/ /\ ~Failed(g) /\ g.value.type = END
           /\ sync.status = "ok" => ~Failed(EndSize(q, g.n))
    BY <2>1 DEF SyncStopped, g, q, L
  <2>3. ASSUME Failed(f) \/ f.value.type = END, sync.status = "ok" => s.status = "ok"
        PROVE  Tracks(s, c)
    <3>1. s.frames = stream.frames /\ s.cursor = stream.cursor
      BY <1>2, <2>3 DEF Went
    <3>. QED  BY <3>1, <1>5, <1>8, <2>3 DEF Tracks, k, n
  <2>4. CASE sync.status = "MissingEndSentinel" /\ sync.cursor = L
    <3>1. Len(q) = 0
      BY <1>3, <1>4, <2>1, <2>4
    <3>2. f \in Cut
      BY <1>6, <3>1 DEF FrameAlike
    <3>. QED  BY <2>3, <2>4, <3>2, CutFails
  <2>5. CASE Failed(g) /\ sync.status = g.error
    <3>1. g # Err("InvalidBlockType")
      BY <2>5 DEF Err
    <3>2. g \in Cut /\ f \in Cut
      BY <1>6, <2>5, <3>1, OkIs DEF FrameAlike
    <3>. QED  BY <2>3, <2>5, <3>2, CutFails
  <2>6. CASE /\ ~Failed(g) /\ g.value.type = END
             /\ sync.status = "ok" => ~Failed(EndSize(q, g.n))
    <3>1. g # Err("InvalidBlockType") /\ g \notin Cut
      BY <2>6, CutFails DEF Err, Failed
    <3>2. PICK h \in Frame, m \in 1 .. Len(q) : g = Ok(h, m) /\ f = Ok(h, m)
      BY <1>6, <3>1 DEF FrameAlike
    <3>3. ~Failed(f) /\ f.value.type = END /\ f.n = m /\ g.n = m
      BY <2>6, <3>2, OkIs
    <3>4. ~Failed(EndSize(q, m)) => ~Failed(t)
      BY <1>4, <3>3, TailsAlike, CutFails
    <3>5. sync.status = "ok" => s.status = "ok"
      BY <1>1, <2>6, <3>3, <3>4
    <3>. QED  BY <2>3, <3>3, <3>5
  <2>. QED  BY <2>2, <2>4, <2>5, <2>6
<1>. QED  BY <1>3, <1>5, <1>7, <1>8
-----------------------------------------------------------------------------
(* The inductive invariant holds.                                          *)

LEMMA InitKeeps ==
  ASSUME Init
  PROVE  IInv
<1>1. FileKept
  <2>1. PICK n \in 0 .. MaxFrames : sent \in [flags : HeaderFlags, frames : [1 .. n -> Frames]]
    BY DEF Init
  <2>2. n \in Nat
    BY FramingAssumption
  <2>3. [1 .. n -> Frames] \subseteq Seq(Frames)
    BY <2>2
  <2>4. sent \in Sendable
    BY <2>1, <2>3 DEF Sendable
  <2>. QED  BY <2>4 DEF Init, FileKept
<1>2. bytes \in Seq(Byte) /\ Len(bytes) \in Nat
  BY <1>1, BytesAre
<1>3. sync = Reader /\ stream = Reader /\ Reader.status = "header"
  BY DEF Init, Reader
<1>4. ReaderTyped(Reader)
  <2>1. Reader \in [cursor : 0 .. Len(bytes), frames : {<<>>}, status : {"header"}]
    BY <1>2 DEF Reader
  <2>. QED  BY <2>1, NewIsTyped
<1>5. HeaderRead(Reader) /\ Follows(Reader) /\ ~Done(Reader)
  BY <1>3 DEF HeaderRead, Follows, Done
<1>. QED  BY <1>1, <1>3, <1>4, <1>5 DEF IInv, Readers, EndsAs, SyncStopped, ReadAlike

LEMMA SyncKeeps ==
  ASSUME IInv, SyncNext
  PROVE  IInv'
<1>1. /\ FileKept /\ ReaderKeeps(sync) /\ ReaderKeeps(stream) /\ EndsAs(stream, "ok") /\ ReadAlike
      /\ UNCHANGED <<sent, change, at, bytes>> /\ stream' = stream
  BY DEF IInv, Readers, ReaderKeeps, SyncNext
<1>2. FileKept' /\ (Opens' <=> Opens)
  BY <1>1, FileStays
<1>3. ReaderKeeps(stream)'
  BY <1>1, StreamStays
<1>4. EndsAs(stream, "ok")'
  BY <1>1, <1>2 DEF EndsAs, Done
<1>5. stream'.status = "header"
  BY <1>1 DEF SyncNext, SyncOpen, SyncFrame, SyncRunOut, ReadAlike, Done
<1>6. /\ ReaderKeeps(sync)' /\ EndsAs(sync, "TrailingData")' /\ SyncStopped'
      /\ Opens => \E s : s = sync' /\ \E d \in [0 .. Len(s.frames) -> 0 .. Len(bytes)] : Walked(s, d)
  <2>1. CASE SyncOpen
    <3>. DEFINE s == Opened(sync)
    <3>1. sync' = s /\ ReaderKeeps(s) /\ (Opens => ~Done(s) /\ s.cursor = HeaderSize /\ s.frames = <<>>)
      BY <1>1, <2>1, OpenKeeps DEF SyncOpen
    <3>. HIDE DEF s
    <3>2. ReaderKeeps(sync)'
      BY <1>1, <3>1, SyncStays
    <3>3. EndsAs(sync, "TrailingData")' /\ SyncStopped'
      BY <1>2, <3>1 DEF EndsAs, SyncStopped, Done
    <3>4. ASSUME Opens
          PROVE  \E d \in [0 .. Len(s.frames) -> 0 .. Len(bytes)] : Walked(s, d)
      <4>1. Len(s.frames) = 0 /\ s.cursor = HeaderSize /\ s.cursor \in 0 .. Len(bytes)
        BY <3>1, <3>4 DEF ReaderKeeps, ReaderTyped
      <4>. DEFINE d == [i \in 0 .. 0 |-> HeaderSize]
      <4>2. d \in [0 .. 0 -> 0 .. Len(bytes)] /\ d[0] = HeaderSize
        BY <4>1
      <4>. HIDE DEF d
      <4>3. Walked(s, d)
        BY <4>1, <4>2 DEF Walked
      <4>. QED  BY <4>1, <4>2, <4>3
    <3>. QED  BY <3>1, <3>2, <3>3, <3>4
  <2>2. CASE SyncFrame \/ SyncRunOut
    <3>. DEFINE f == ReadFrame(From(bytes, sync.cursor))
    <3>1. /\ ReaderKeeps(sync)' /\ EndsAs(sync, "TrailingData")' /\ SyncStopped'
          /\ Opens /\ sync.status = "frames" /\ Went(sync, sync', f)
      BY <1>1, <2>2, SyncEnds
    <3>2. ReaderTyped(sync) /\ Gets(sync, f)
      BY <1>1, BytesAre, ReaderGets DEF ReaderKeeps
    <3>3. PICK c \in [0 .. Len(sync.frames) -> 0 .. Len(bytes)] : Walked(sync, c)
      BY <1>1, <3>1 DEF ReadAlike
    <3>4. f = ReadFrame(From(bytes, sync.cursor))
      OBVIOUS
    <3>. HIDE DEF f
    <3>5. \A s : s = sync' => \E d \in [0 .. Len(s.frames) -> 0 .. Len(bytes)] : Walked(s, d)
      BY <3>1, <3>2, <3>3, <3>4, WalksOn
    <3>. QED  BY <3>1, <3>5
  <2>. QED  BY <2>1, <2>2 DEF SyncNext
<1>7. ReadAlike'
  <2> SUFFICES ASSUME Opens
               PROVE  \E c \in [0 .. Len(sync'.frames) -> 0 .. Len(bytes')] : Walked(sync, c)'
    BY <1>2, <1>5 DEF ReadAlike
  <2>1. PICK s : s = sync' /\ \E d \in [0 .. Len(s.frames) -> 0 .. Len(bytes)] : Walked(s, d)
    BY <1>6
  <2>2. PICK d \in [0 .. Len(s.frames) -> 0 .. Len(bytes)] : Walked(s, d)
    BY <2>1
  <2>3. Walked(sync, d)'
    BY <1>1, <2>1, <2>2 DEF Walked
  <2>. QED  BY <1>1, <2>1, <2>2, <2>3
<1>. QED  BY <1>2, <1>3, <1>4, <1>6, <1>7 DEF IInv, Readers, ReaderKeeps

LEMMA StreamKeeps ==
  ASSUME IInv, StreamNext
  PROVE  IInv'
<1>1. /\ FileKept /\ ReaderKeeps(sync) /\ ReaderKeeps(stream) /\ EndsAs(sync, "TrailingData")
      /\ SyncStopped /\ ReadAlike /\ Done(sync)
      /\ UNCHANGED <<sent, change, at, bytes>> /\ sync' = sync
  BY DEF IInv, Readers, ReaderKeeps, StreamNext, Done
<1>2. FileKept' /\ (Opens' <=> Opens)
  BY <1>1, FileStays
<1>3. ReaderKeeps(sync)'
  BY <1>1, SyncStays
<1>4. EndsAs(sync, "TrailingData")' /\ SyncStopped'
  BY <1>1, <1>2 DEF EndsAs, SyncStopped, Done
<1>5. /\ ReaderKeeps(stream)' /\ EndsAs(stream, "ok")'
      /\ Opens /\ sync.status # "InvalidBlockType" =>
           \A c \in [0 .. Len(sync.frames) -> 0 .. Len(bytes)] :
             /\ Walked(sync, c)
             /\ stream.status # "header" => Tracks(stream, c)
             => \A s : s = stream' => Tracks(s, c)
  <2>1. CASE StreamOpen
    <3>. DEFINE s == Opened(stream)
    <3>1. stream' = s /\ ReaderKeeps(s) /\ (Opens => ~Done(s) /\ s.cursor = HeaderSize /\ s.frames = <<>>)
      BY <1>1, <2>1, OpenKeeps DEF StreamOpen
    <3>. HIDE DEF s
    <3>2. ReaderKeeps(stream)'
      BY <1>1, <3>1, StreamStays
    <3>3. EndsAs(stream, "ok")'
      BY <1>2, <3>1 DEF EndsAs, Done
    <3>4. ASSUME Opens, NEW c \in [0 .. Len(sync.frames) -> 0 .. Len(bytes)], Walked(sync, c)
          PROVE  Tracks(s, c)
      <4>1. Len(s.frames) = 0 /\ s.cursor = HeaderSize /\ ~Done(s) /\ Len(sync.frames) \in Nat
        BY <1>1, <3>1, <3>4 DEF ReaderKeeps, ReaderTyped
      <4>2. 0 <= Len(sync.frames) /\ c[0] = HeaderSize
        BY <3>4, <4>1 DEF Walked
      <4>. QED  BY <4>1, <4>2 DEF Tracks
    <3>. QED  BY <3>1, <3>2, <3>3, <3>4
  <2>2. CASE StreamFrame
    <3>1. ReaderKeeps(stream)' /\ EndsAs(stream, "ok")' /\ stream.status = "frames"
      BY <1>1, <2>2, StreamEnds, StreamReads
    <3>2. ASSUME Opens, sync.status # "InvalidBlockType",
                 NEW c \in [0 .. Len(sync.frames) -> 0 .. Len(bytes)], Walked(sync, c),
                 Tracks(stream, c), NEW s, s = stream'
          PROVE  Tracks(s, c)
      BY <1>1, <2>2, <3>2, TracksOn
    <3>. QED  BY <3>1, <3>2
  <2>. QED  BY <2>1, <2>2 DEF StreamNext
<1>6. ReadAlike'
  <2>1. Done(sync)'
    BY <1>1 DEF Done
  <2>2. ASSUME Opens, sync.status # "header"
        PROVE  \E c \in [0 .. Len(sync'.frames) -> 0 .. Len(bytes')] :
                 /\ Walked(sync, c)'
                 /\ sync'.status # "InvalidBlockType" => Tracks(stream, c)'
    <3>1. PICK c \in [0 .. Len(sync.frames) -> 0 .. Len(bytes)] :
            /\ Walked(sync, c)
            /\ stream.status # "header" /\ sync.status # "InvalidBlockType" => Tracks(stream, c)
      BY <1>1, <2>2 DEF ReadAlike
    <3>2. Walked(sync, c)'
      BY <1>1, <3>1 DEF Walked
    <3>3. ASSUME sync.status # "InvalidBlockType"
          PROVE  Tracks(stream, c)'
      <4>1. \A s : s = stream' => Tracks(s, c)
        BY <1>5, <2>2, <3>1, <3>3
      <4>2. PICK s : s = stream' /\ Tracks(s, c)
        BY <4>1
      <4>. QED  BY <1>1, <4>2 DEF Tracks, Done
    <3>. QED  BY <1>1, <3>2, <3>3
  <2>. QED  BY <1>1, <1>2, <2>1, <2>2 DEF ReadAlike
<1>. QED  BY <1>2, <1>3, <1>4, <1>5, <1>6 DEF IInv, Readers, ReaderKeeps

LEMMA StutterKeeps ==
  ASSUME IInv, UNCHANGED vars
  PROVE  IInv'
<1>1. UNCHANGED <<sent, change, at, bytes>> /\ sync' = sync /\ stream' = stream
  BY DEF vars
<1>2. FileKept' /\ (Opens' <=> Opens)
  BY <1>1, FileStays DEF IInv
<1>3. ReaderKeeps(sync)' /\ ReaderKeeps(stream)'
  BY <1>1, SyncStays, StreamStays DEF IInv, Readers, ReaderKeeps
<1>4. EndsAs(sync, "TrailingData")' /\ EndsAs(stream, "ok")' /\ SyncStopped'
  BY <1>1, <1>2 DEF IInv, EndsAs, SyncStopped, Done
<1>5. ReadAlike'
  BY <1>1, <1>2 DEF IInv, ReadAlike, Walked, Tracks, Done
<1>. QED  BY <1>2, <1>3, <1>4, <1>5 DEF IInv, Readers, ReaderKeeps

\* The inductive invariant: where each reader stands in the file, what it has delivered of
\* the frames in front of a change, and how it ends.
THEOREM InvariantHolds == Spec => []IInv
<1>1. IInv /\ [Next]_vars => IInv'
  BY SyncKeeps, StreamKeeps, StutterKeeps DEF Next
<1>. QED  BY <1>1, InitKeeps, PTL DEF Spec
-----------------------------------------------------------------------------
(* What the runs check.                                                    *)

\* What a reader of a file that it opens has delivered of the frames in front of a change.
LEMMA DeliveredIntact ==
  ASSUME FileKept, Opens, NEW r, ReaderKeeps(r), r.status # "header",
         change \in {"none", "cut", "longer"}
  PROVE  /\ Len(r.frames) <= Len(sent.frames)
         /\ \A k \in 1 .. Len(r.frames) : r.frames[k] = sent.frames[k]
         /\ change # "cut" /\ Done(r) => Len(r.frames) = Len(sent.frames)
<1>. DEFINE n == Len(r.frames)  all == Len(sent.frames)
<1>1. n \in Nat /\ all \in Nat /\ sent \in Sendable
  BY DEF FileKept, Sendable, ReaderKeeps, ReaderTyped
<1>2. /\ n <= all /\ Intact(n)
      /\ \A k \in 1 .. all : Intact(k) =>
           (n >= k => r.frames[k] = sent.frames[k]) /\ (Done(r) => n >= k)
  BY DEF ReaderKeeps, Follows
<1>3. ASSUME NEW k \in 1 .. n
      PROVE  k \in 1 .. all /\ Intact(k) /\ n >= k
  <2>1. k \in 1 .. all /\ n >= k /\ k \in 0 .. n /\ n \in 0 .. all /\ n # 0
    BY <1>1, <1>2
  <2>2. at \in Nat
    BY HeaderSays DEF ChangedAs, Begins
  <2>3. SizeOf(sent, k) \in Nat /\ SizeOf(sent, n) \in Nat /\ SizeOf(sent, k) <= SizeOf(sent, n)
    <3>1. n \in 0 .. Len(sent.frames) /\ n \in 0 .. n
      BY <1>1, <2>1
    <3>. HIDE DEF n
    <3>. QED  BY <1>1, <2>1, <3>1, SizesGrow
  <2>. QED  BY <1>2, <2>1, <2>2, <2>3 DEF Intact
<1>4. ASSUME change # "cut", Done(r)
      PROVE  n = all
  <2> SUFFICES ASSUME all # 0 PROVE n >= all
    BY <1>1, <1>2
  <2>1. Intact(all)
    <3>1. ChangedAs(change, File(sent), bytes, at) /\ FileLaid(sent, File(sent))
      BY <1>1, HeaderSays, FileIsLaid
    <3>2. at = Len(File(sent))
      BY <1>4, <3>1 DEF ChangedAs
    <3>3. all \in 0 .. all
      BY <1>1
    <3>4. /\ Len(File(sent)) = SizeOf(sent, all) + Len(WriteFrame(EndFrame))
          /\ SizeOf(sent, all) \in Nat
      BY <3>1, <3>3 DEF FileLaid
    <3>5. Len(WriteFrame(EndFrame)) \in Nat
      BY FramesAre, VarintAssumption, WrittenTyped
    <3>. QED  BY <3>2, <3>4, <3>5 DEF Intact
  <2>2. all \in 1 .. all
    BY <1>1
  <2>. QED  BY <1>2, <1>4, <2>1, <2>2
<1>. QED  BY <1>2, <1>3, <1>4

\* What a reader that the header stops has delivered: nothing, and it does not succeed.
LEMMA HeaderStops ==
  ASSUME FileKept, NEW r, ReaderKeeps(r), r.status = "header" \/ ~Opens
  PROVE  r.frames = <<>> /\ r.status # "ok"
<1>1. CASE r.status = "header"
  BY <1>1 DEF ReaderKeeps, HeaderRead, Reader
<1>2. CASE r.status # "header" /\ ~Opens
  <2>1. r = Opened(Reader)
    BY <1>2 DEF ReaderKeeps, HeaderRead
  <2>2. Opened(Reader) \in [cursor : 0 .. Len(bytes), frames : {<<>>}, status : Faults]
    BY <1>2, BytesAre, OpensIs
  <2>. QED  BY <2>1, <2>2 DEF Faults
<1>. QED  BY <1>1, <1>2

\* Of any file of any frames, both decoders deliver the frames sent, in order, as far as
\* the file goes, and succeed exactly when its end is there.
THEOREM FramesDoArrive == Spec => []FramesArrive
<1>1. IInv => FramesArrive
  <2> SUFFICES ASSUME IInv, NEW r \in Readers, change \in {"none", "cut"}
               PROVE  /\ IsPrefix(r.frames, sent.frames)
                      /\ Done(r) => (r.status = "ok" <=> change = "none")
                      /\ change = "none" /\ Done(r) => r.frames = sent.frames
    BY DEF FramesArrive
  <2>1. FileKept /\ ReaderKeeps(r) /\ \E x \in {"TrailingData", "ok"} : EndsAs(r, x)
    BY DEF IInv, Readers, ReaderKeeps
  <2>2. r.frames \in Seq(Frame) /\ sent.frames \in Seq(Frame)
    <3>1. sent.frames \in Seq(Frames)
      BY <2>1 DEF FileKept, Sendable
    <3>2. Seq(Frames) \subseteq Seq(Frame)
      BY FramesAre
    <3>. QED  BY <2>1, <3>1, <3>2 DEF ReaderKeeps, ReaderTyped
  <2>3. CASE r.status # "header" /\ Opens
    <3>1. /\ Len(r.frames) <= Len(sent.frames)
          /\ \A k \in 1 .. Len(r.frames) : r.frames[k] = sent.frames[k]
          /\ change # "cut" /\ Done(r) => Len(r.frames) = Len(sent.frames)
      BY <2>1, <2>3, DeliveredIntact
    <3>2. IsPrefix(r.frames, sent.frames)
      BY <2>2, <3>1 DEF IsPrefix
    <3>3. change = "none" /\ Done(r) => r.frames = sent.frames
      BY <2>2, <3>1
    <3>4. Done(r) => (r.status = "ok" <=> change = "none")
      BY <2>1, <2>3 DEF EndsAs
    <3>. QED  BY <3>2, <3>3, <3>4
  <2>4. CASE r.status = "header" \/ ~Opens
    <3>1. r.frames = <<>> /\ r.status # "ok"
      BY <2>1, <2>4, HeaderStops
    <3>2. IsPrefix(r.frames, sent.frames)
      BY <2>2, <3>1 DEF IsPrefix
    <3>3. Done(r) => change # "none"
      <4>1. Done(r) => ~Opens
        BY <2>4 DEF Done
      <4>. QED  BY <2>1, <4>1, HeaderSays
    <3>. QED  BY <3>1, <3>2, <3>3
  <2>. QED  BY <2>3, <2>4
<1>. QED  BY <1>1, InvariantHolds, PTL

\* Whatever byte follows END, the decoder that has the whole file refuses it, and either
\* decoder has delivered every frame by then.
THEOREM TrailingIsRefused == Spec => []TrailingRefused
<1>1. IInv => TrailingRefused
  <2> SUFFICES ASSUME IInv, change = "longer"
               PROVE  /\ Done(sync) => sync.status = "TrailingData"
                      /\ \A r \in Readers : Done(r) => r.frames = sent.frames
    BY DEF TrailingRefused
  <2>1. FileKept /\ Opens
    <3>1. FileKept
      BY DEF IInv
    <3>. QED  BY <3>1, HeaderSays
  <2>2. Done(sync) => sync.status = "TrailingData"
    BY <2>1 DEF IInv, EndsAs
  <2>3. ASSUME NEW r \in Readers, Done(r)
        PROVE  r.frames = sent.frames
    <3>1. ReaderKeeps(r) /\ r.status # "header"
      BY <2>3 DEF IInv, ReaderKeeps, Done
    <3>2. r.frames \in Seq(Frame) /\ sent.frames \in Seq(Frames)
      BY <2>1, <3>1 DEF FileKept, Sendable, ReaderKeeps, ReaderTyped
    <3>3. /\ Len(r.frames) = Len(sent.frames)
          /\ \A k \in 1 .. Len(r.frames) : r.frames[k] = sent.frames[k]
      BY <2>1, <2>3, <3>1, DeliveredIntact
    <3>. QED  BY <3>2, <3>3
  <2>. QED  BY <2>2, <2>3
<1>. QED  BY <1>1, InvariantHolds, PTL

\* Whichever byte of a file is changed, and to whatever: the frames that end in front of it
\* arrive whole, also when a length is damaged so that the stream dies, and damage to any
\* byte of the magic, to the major version or to the reserved byte is seen.
THEOREM DamageIsContained == Spec => []DamageStaysBehind
<1>1. IInv => DamageStaysBehind
  <2> SUFFICES ASSUME IInv, change = "damaged", NEW r \in Readers
               PROVE  /\ \A k \in 1 .. Len(sent.frames) :
                           (SizeOf(sent, k) <= at /\ Len(r.frames) >= k) => r.frames[k] = sent.frames[k]
                      /\ \A k \in 1 .. Len(sent.frames) :
                           (SizeOf(sent, k) <= at /\ Done(r)) => Len(r.frames) >= k
                      /\ at \in (0 .. Len(Magic)) \cup {HeaderSize - 1} => r.frames = <<>> /\ r.status # "ok"
    BY DEF DamageStaysBehind
  <2>1. FileKept /\ ReaderKeeps(r)
    BY DEF IInv, Readers, ReaderKeeps
  <2>2. /\ HeaderSize <= at => Opens
        /\ at \in (0 .. Len(Magic)) \cup {HeaderSize - 1} => ~Opens
        /\ at \in Nat
    BY <2>1, HeaderSays DEF ChangedAs, Begins
  <2>3. ASSUME NEW k \in 1 .. Len(sent.frames), SizeOf(sent, k) <= at
        PROVE  Opens /\ Intact(k)
    <3>1. sent \in Sendable /\ k \in 0 .. Len(sent.frames) /\ k \in 0 .. k
      BY <2>1 DEF FileKept, Sendable
    <3>2. SizeOf(sent, k) \in Nat /\ HeaderSize <= SizeOf(sent, k)
      BY <3>1, SizesGrow
    <3>3. HeaderSize \in Nat
      <4>1. Len(Magic) \in Nat
        BY FramingAssumption
      <4>. QED  BY <4>1 DEF HeaderSize
    <3>. QED  BY <2>2, <2>3, <3>2, <3>3 DEF Intact
  <2>4. CASE r.status # "header" /\ Opens
    BY <2>1, <2>2, <2>3, <2>4 DEF ReaderKeeps, Follows
  <2>5. CASE r.status = "header" \/ ~Opens
    <3>1. r.frames = <<>> /\ r.status # "ok" /\ Len(r.frames) = 0
      BY <2>1, <2>5, HeaderStops
    <3>2. Done(r) => ~Opens
      BY <2>5 DEF Done
    <3>3. \A k \in 1 .. Len(sent.frames) : ~(0 >= k)
      OBVIOUS
    <3>. QED  BY <2>3, <3>1, <3>2, <3>3
  <2>. QED  BY <2>4, <2>5
<1>. QED  BY <1>1, InvariantHolds, PTL

\* Whatever bytes come, unless one decoder refuses a block type, both deliver the same
\* frames, and the stream accepts what the other accepts.
THEOREM DecodersReadAlike == Spec => []ReadersAgree
<1>1. IInv => ReadersAgree
  <2> SUFFICES ASSUME IInv, Done(sync), Done(stream), sync.status # "InvalidBlockType"
               PROVE  sync.frames = stream.frames /\ (sync.status = "ok" => stream.status = "ok")
    BY DEF ReadersAgree
  <2>1. /\ FileKept /\ ReaderKeeps(sync) /\ ReaderKeeps(stream)
        /\ sync.status # "header" /\ stream.status # "header"
    BY DEF IInv, Readers, ReaderKeeps, Done
  <2>2. CASE ~Opens
    BY <2>1, <2>2, HeaderStops
  <2>3. CASE Opens
    <3>1. PICK c : Tracks(stream, c)
      BY <2>1, <2>3 DEF IInv, ReadAlike
    <3>2. sync.frames \in Seq(Frame) /\ stream.frames \in Seq(Frame)
      BY <2>1 DEF ReaderKeeps, ReaderTyped
    <3>. QED  BY <3>1, <3>2 DEF Tracks
  <2>. QED  BY <2>2, <2>3
<1>. QED  BY <1>1, InvariantHolds, PTL
=============================================================================
