----------------------------- MODULE WireProofs -----------------------------
(***************************************************************************)
(* What Wire promises, for any keys, parameters, limits and number of      *)
(* altered datagrams: the codec is exact, and nothing reaches a hook but   *)
(* what the client built.                                                  *)
(***************************************************************************)
EXTENDS Wire, SequenceTheorems, TLAPS

-----------------------------------------------------------------------------
(* Boxes and packets as bytes.                                             *)

(* Elements of a concatenation.                                             *)
LEMMA Joined ==
    ASSUME NEW S, NEW s \in Seq(S), NEW t \in Seq(S)
    PROVE  /\ s \o t \in Seq(S) /\ Len(s \o t) = Len(s) + Len(t)
           /\ \A i \in 1 .. Len(s) : (s \o t)[i] = s[i]
           /\ \A i \in 1 .. Len(t) : (s \o t)[Len(s) + i] = t[i]
  <1> DEFINE c == s \o t
  <1>1. /\ c \in Seq(S) /\ Len(c) = Len(s) + Len(t)
        /\ \A i \in 1 .. Len(s) + Len(t) : c[i] = IF i <= Len(s) THEN s[i] ELSE t[i - Len(s)]
        BY ConcatProperties
  <1> HIDE DEF c
  <1>2. PICK m \in Nat, n \in Nat : m = Len(s) /\ n = Len(t)
        OBVIOUS
  <1>3. ASSUME NEW i \in 1 .. m PROVE c[i] = s[i]
        BY <1>1, <1>2
  <1>4. ASSUME NEW i \in 1 .. n PROVE c[m + i] = t[i]
    <2>1. m + i \in 1 .. m + n /\ ~(m + i <= m) /\ (m + i) - m = i
          OBVIOUS
    <2> QED
        BY <1>1, <1>2, <2>1
  <1> QED
      BY <1>1, <1>2, <1>3, <1>4 DEF c

LEMMA SmallMod == ASSUME NEW a \in Nat, NEW b \in Nat, a < b PROVE a % b = a
  OBVIOUS

(* A box is its first byte and ciphertext of its plaintext's length.        *)
LEMMA BoxBytes ==
    ASSUME NEW S, NEW made, made.inner \in Seq(S), NEW n \in Nat \ {0}
    PROVE  /\ Box(made, n) \in Seq({made, Cipher})
           /\ Len(Box(made, n)) = n + Len(made.inner)
           /\ Box(made, n)[1] = made
  <1> DEFINE k == n - 1 + Len(made.inner)
             rest == [i \in 1 .. k |-> Cipher]
  <1>1. k \in Nat /\ k + 1 = n + Len(made.inner)
        OBVIOUS
  <1> HIDE DEF k
  <1>2. rest \in Seq({made, Cipher}) /\ Len(rest) = k
        BY <1>1
  <1> HIDE DEF rest
  <1> DEFINE first == <<made>>
  <1>3. first \in Seq({made, Cipher}) /\ Len(first) = 1 /\ first[1] = made
        OBVIOUS
  <1>4. Box(made, n) = first \o rest
        BY DEF Box, rest, k
  <1> HIDE DEF first
  <1>5. /\ first \o rest \in Seq({made, Cipher}) /\ Len(first \o rest) = 1 + k
        /\ (first \o rest)[1] = first[1]
    <2>1. /\ first \o rest \in Seq({made, Cipher}) /\ Len(first \o rest) = Len(first) + Len(rest)
          /\ \A i \in 1 .. Len(first) : (first \o rest)[i] = first[i]
      <3> DEFINE T == {made, Cipher}
      <3>1. first \in Seq(T) /\ rest \in Seq(T)
            BY <1>2, <1>3
      <3> HIDE DEF T
      <3>2. /\ first \o rest \in Seq(T) /\ Len(first \o rest) = Len(first) + Len(rest)
            /\ \A i \in 1 .. Len(first) : (first \o rest)[i] = first[i]
            BY ONLY <3>1, Joined
      <3> QED
          BY <3>2 DEF T
    <2> QED
        BY <1>1, <1>2, <1>3, <2>1
  <1> QED
      BY <1>1, <1>3, <1>4, <1>5

(* protocol.rs: a HELLO is six bytes, which decode to it.                   *)
LEMMA HelloBytes ==
    ASSUME NEW p \in Hellos
    PROVE  /\ Encode(p) = <<MAGIC, Header("hello"), p.id, p.time, p.nonce, p.sig>>
           /\ Encode(p) \in Seq(PacketBytes)
           /\ Decode(Encode(p)) = p
  <1> DEFINE b == <<MAGIC, Header("hello"), p.id, p.time, p.nonce, p.sig>>
  <1>1. Encode(p) = b
        BY DEF Encode, Hellos
  <1>2. /\ p.type = "hello" /\ p.id = Me /\ p.time \in Numbers /\ p.nonce \in Numbers /\ p.sig \in HelloPayloads
        /\ p = [type |-> "hello", id |-> p.id, time |-> p.time, nonce |-> p.nonce, sig |-> p.sig]
        BY DEF Hellos, Numbers
  <1>3. Header("hello") \in Headers
        BY DEF Header, Headers, Types
  <1>4. b \in Seq(PacketBytes)
    <2>1. /\ MAGIC \in PacketBytes /\ Header("hello") \in PacketBytes /\ p.id \in PacketBytes
          /\ p.time \in PacketBytes /\ p.nonce \in PacketBytes /\ p.sig \in PacketBytes
          BY <1>2, <1>3 DEF PacketBytes
    <2> QED
        BY <2>1
  <1>5. Decode(b) = [type |-> "hello", id |-> p.id, time |-> p.time, nonce |-> p.nonce, sig |-> p.sig]
        BY DEF Decode, Exact, Header
  <1> QED
      BY <1>1, <1>2, <1>4, <1>5

(* A CHALLENGE is five.                                                     *)
LEMMA ChallengeBytes ==
    ASSUME NEW p \in ChallengePackets
    PROVE  /\ Encode(p) = <<MAGIC, Header("challenge"), p.id, p.nonce, p.exp>>
           /\ Encode(p) \in Seq(PacketBytes)
           /\ Decode(Encode(p)) = p
  <1> DEFINE b == <<MAGIC, Header("challenge"), p.id, p.nonce, p.exp>>
  <1>1. Encode(p) = b
        BY DEF Encode, ChallengePackets
  <1>2. /\ p.type = "challenge" /\ p.id = Me /\ p.nonce \in Numbers /\ p.exp \in Numbers
        /\ p = [type |-> "challenge", id |-> p.id, nonce |-> p.nonce, exp |-> p.exp]
        BY DEF ChallengePackets, Numbers
  <1>3. Header("challenge") \in Headers
        BY DEF Header, Headers, Types
  <1>4. b \in Seq(PacketBytes)
    <2>1. /\ MAGIC \in PacketBytes /\ Header("challenge") \in PacketBytes /\ p.id \in PacketBytes
          /\ p.nonce \in PacketBytes /\ p.exp \in PacketBytes
          BY <1>2, <1>3 DEF PacketBytes
    <2> QED
        BY <2>1
  <1>5. Decode(b) = [type |-> "challenge", id |-> p.id, nonce |-> p.nonce, exp |-> p.exp]
        BY DEF Decode, Exact, Header
  <1> QED
      BY <1>1, <1>2, <1>4, <1>5

(* An answer is seven and its parameter, whose length its sixth byte gives. *)
LEMMA AnswerBytes ==
    ASSUME NEW p \in Answers, Len(p.param) < LenMod
    PROVE  /\ Encode(p) \in Seq(PacketBytes)
           /\ Len(Encode(p)) = 7 + Len(p.param)
           /\ Encode(p)[1] = MAGIC /\ Encode(p)[2] = Header(p.type) /\ Encode(p)[3] = p.id
           /\ Encode(p)[4] = p.nonce /\ Encode(p)[5] = p.interval
           /\ Encode(p)[6] = [len |-> Len(p.param)]
           /\ \A i \in 1 .. Len(p.param) : Encode(p)[6 + i] = p.param[i]
           /\ Encode(p)[7 + Len(p.param)] = p.sig
           /\ Decode(Encode(p)) = p
  <1>1. /\ p.type \in Modes /\ p.id = Me /\ p.nonce \in Numbers /\ p.interval \in Numbers
        /\ p.param \in Seq(ParamBytes) /\ p.sig \in AnswerPayloads(ParamBytes)
        /\ p = [type |-> p.type, id |-> p.id, nonce |-> p.nonce, interval |-> p.interval,
                param |-> p.param, sig |-> p.sig]
        BY DEF Answers, Numbers
  <1>2. PICK n \in Nat : n = Len(p.param) /\ n < LenMod
        BY <1>1
  <1>3. LenMod \in Nat /\ n % LenMod = n
        BY <1>2, WireAssumption, SmallMod
  <1>4. Prefix(p.param) = [len |-> n] /\ [len |-> n] \in Prefixes
    <2>1. Prefix(p.param) = [len |-> n % LenMod]
          BY <1>2 DEF Prefix
    <2>2. n \in 0 .. LenMod - 1
          BY <1>2, <1>3
    <2> QED
        BY <1>3, <2>1, <2>2 DEF Prefixes
  <1>5. Header(p.type) \in Headers
        BY <1>1 DEF Header, Headers, Types
  <1> DEFINE front == <<MAGIC, Header(p.type), p.id, p.nonce, p.interval, [len |-> n]>>
             b == front \o p.param \o <<p.sig>>
  <1>6. Encode(p) = b
        BY <1>1, <1>4 DEF Encode, Modes
  <1>7. /\ MAGIC \in PacketBytes /\ Header(p.type) \in PacketBytes /\ p.id \in PacketBytes
        /\ p.nonce \in PacketBytes /\ p.interval \in PacketBytes /\ [len |-> n] \in PacketBytes
        /\ p.sig \in PacketBytes /\ ParamBytes \subseteq PacketBytes
        BY <1>1, <1>4, <1>5 DEF PacketBytes, TailBytes
  <1>8. front \in Seq(PacketBytes) /\ p.param \in Seq(PacketBytes) /\ <<p.sig>> \in Seq(PacketBytes)
        BY <1>1, <1>7
  <1>9. /\ Len(front) = 6 /\ front[1] = MAGIC /\ front[2] = Header(p.type) /\ front[3] = p.id
        /\ front[4] = p.nonce /\ front[5] = p.interval /\ front[6] = [len |-> n]
        OBVIOUS
  <1>10. Len(<<p.sig>>) = 1 /\ <<p.sig>>[1] = p.sig
        OBVIOUS
  <1> HIDE DEF front
  <1> DEFINE fp == front \o p.param
  <1>11. /\ fp \in Seq(PacketBytes) /\ Len(fp) = 6 + n
         /\ \A i \in 1 .. 6 : fp[i] = front[i]
         /\ \A i \in 1 .. n : fp[6 + i] = p.param[i]
    <2>1. /\ fp \in Seq(PacketBytes) /\ Len(fp) = Len(front) + Len(p.param)
          /\ \A i \in 1 .. Len(front) : fp[i] = front[i]
          /\ \A i \in 1 .. Len(p.param) : fp[Len(front) + i] = p.param[i]
          BY <1>8, Joined
    <2> HIDE DEF fp
    <2> QED
        BY <1>2, <1>9, <2>1
  <1> HIDE DEF fp
  <1>12. /\ b \in Seq(PacketBytes) /\ Len(b) = 7 + n
         /\ \A i \in 1 .. 6 + n : b[i] = fp[i]
         /\ b[7 + n] = p.sig
    <2>1. b = fp \o <<p.sig>>
          BY DEF fp
    <2>2. /\ fp \o <<p.sig>> \in Seq(PacketBytes) /\ Len(fp \o <<p.sig>>) = Len(fp) + Len(<<p.sig>>)
          /\ \A i \in 1 .. Len(fp) : (fp \o <<p.sig>>)[i] = fp[i]
          /\ \A i \in 1 .. Len(<<p.sig>>) : (fp \o <<p.sig>>)[Len(fp) + i] = <<p.sig>>[i]
          BY <1>8, <1>11, Joined
    <2> HIDE DEF b
    <2>3. /\ b \in Seq(PacketBytes) /\ Len(b) = Len(fp) + 1
          /\ \A i \in 1 .. Len(fp) : b[i] = fp[i]
          /\ b[Len(fp) + 1] = p.sig
          BY <1>10, <2>1, <2>2
    <2> QED
        BY <1>8, <1>10, <1>11, <2>3
  <1> HIDE DEF b
  <1>13. /\ b[1] = MAGIC /\ b[2] = Header(p.type) /\ b[3] = p.id
         /\ b[4] = p.nonce /\ b[5] = p.interval /\ b[6] = [len |-> n]
         /\ \A i \in 1 .. n : b[6 + i] = p.param[i]
         BY <1>9, <1>11, <1>12
  <1>14. SubSeq(b, 7, 6 + n) = p.param
    <2> DEFINE s == SubSeq(b, 7, 6 + n)
    <2>1. s \in Seq(PacketBytes) /\ Len(s) = n /\ \A i \in 1 .. n : s[i] = b[6 + i]
          BY <1>12
    <2> HIDE DEF s
    <2>2. p.param \in Seq(PacketBytes) /\ Len(s) = Len(p.param)
          BY <1>2, <1>8, <2>1
    <2>3. \A i \in 1 .. Len(s) : s[i] = p.param[i]
          BY <1>13, <2>1
    <2>4. s = p.param
          BY ONLY <2>1, <2>2, <2>3, SeqEqual
    <2> QED
        BY <2>4 DEF s
  <1>15. Decode(b) = DecodeAnswer(b)
    <2>1. ~(Len(b) < 2) /\ Len(b) >= 7 /\ b[6] \in Prefixes /\ b[6].len = n /\ Len(b) = 7 + b[6].len
          BY <1>4, <1>12, <1>13
    <2>2. b[2] # Header("hello") /\ b[2] # Header("challenge") /\ \E mode \in Modes : b[2] = Header(mode)
          BY <1>1, <1>13 DEF Header, Modes
    <2> QED
        BY <1>13, <2>1, <2>2 DEF Decode, Exact
  <1>16. DecodeAnswer(b) = p
    <2>1. b[2].type = p.type /\ b[6].len = n
          BY <1>13 DEF Header
    <2> QED
        BY <1>1, <1>12, <1>13, <1>14, <2>1 DEF DecodeAnswer
  <1> QED
      BY <1>2, <1>6, <1>12, <1>13, <1>15, <1>16

\* The three shapes of a datagram that decodes.
HelloShape(b) ==
    /\ Len(b) = 6 /\ b[2] = Header("hello")
    /\ Decode(b) = [type |-> "hello", id |-> b[3], time |-> b[4], nonce |-> b[5], sig |-> b[6]]
ChallengeShape(b) ==
    /\ Len(b) = 5 /\ b[2] = Header("challenge")
    /\ Decode(b) = [type |-> "challenge", id |-> b[3], nonce |-> b[4], exp |-> b[5]]
AnswerShape(b) ==
    /\ \E mode \in Modes : b[2] = Header(mode)
    /\ b[6] \in Prefixes /\ Len(b) = 7 + b[6].len
    /\ Decode(b) = DecodeAnswer(b)

(* Packet::decode: what decodes has one of the shapes.                      *)
LEMMA DecodeShapes ==
    ASSUME NEW b, Decode(b) # NoEntry
    PROVE  b[1] = MAGIC /\ ~(Len(b) < 2) /\ (HelloShape(b) \/ ChallengeShape(b) \/ AnswerShape(b))
  <1>1. ~(Len(b) < 2 \/ b[1] # MAGIC)
        BY DEF Decode
  <1>2. CASE b[2] = Header("hello") /\ Exact(b, 6)
        BY <1>1, <1>2 DEF Decode, HelloShape, Exact
  <1>3. CASE b[2] = Header("challenge") /\ Exact(b, 5)
    <2>1. b[2] # Header("hello")
          BY <1>3 DEF Header
    <2> QED
        BY <1>1, <1>3, <2>1 DEF Decode, ChallengeShape, Exact
  <1>4. CASE ~(b[2] = Header("hello") /\ Exact(b, 6)) /\ ~(b[2] = Header("challenge") /\ Exact(b, 5))
    <2> DEFINE isAnswer == /\ \E mode \in Modes : b[2] = Header(mode)
                           /\ Len(b) >= 7 /\ b[6] \in Prefixes /\ Exact(b, 7 + b[6].len)
    <2>1. Decode(b) = IF isAnswer THEN DecodeAnswer(b) ELSE NoEntry
          BY <1>1, <1>4 DEF Decode
    <2> QED
        BY <1>1, <2>1 DEF AnswerShape, Exact
  <1> QED
      BY <1>2, <1>3, <1>4

(* Packet::decode: a packet has one encoding.                               *)
LEMMA DecodeExact ==
    ASSUME NEW S, NEW b \in Seq(S), Decode(b) # NoEntry
    PROVE  Encode(Decode(b)) = b
  <1>1. b[1] = MAGIC
        BY DecodeShapes
  <1>2. CASE HelloShape(b)
    <2>1. Encode(Decode(b)) = <<MAGIC, Header("hello"), b[3], b[4], b[5], b[6]>>
          BY <1>2 DEF HelloShape, Encode
    <2>2. b = <<b[1], b[2], b[3], b[4], b[5], b[6]>>
          BY <1>2 DEF HelloShape
    <2> QED
        BY <1>1, <1>2, <2>1, <2>2 DEF HelloShape
  <1>3. CASE ChallengeShape(b)
    <2>1. Encode(Decode(b)) = <<MAGIC, Header("challenge"), b[3], b[4], b[5]>>
          BY <1>3 DEF ChallengeShape, Encode
    <2>2. b = <<b[1], b[2], b[3], b[4], b[5]>>
          BY <1>3 DEF ChallengeShape
    <2> QED
        BY <1>1, <1>3, <2>1, <2>2 DEF ChallengeShape
  <1>4. CASE AnswerShape(b)
    <2>1. PICK mode \in Modes : b[2] = Header(mode)
          BY <1>4 DEF AnswerShape
    <2>2. PICK n \in 0 .. LenMod - 1 : b[6] = [len |-> n]
          BY <1>4 DEF AnswerShape, Prefixes
    <2>3. n \in Nat /\ n < LenMod /\ LenMod \in Nat
          BY <2>2, WireAssumption
    <2>4. Len(b) = 7 + n
          BY <1>4, <2>2 DEF AnswerShape
    <2> DEFINE param == SubSeq(b, 7, 6 + n)
               front == <<b[1], b[2], b[3], b[4], b[5], b[6]>>
               last == <<b[7 + n]>>
    <2>5. Decode(b) = [type |-> mode, id |-> b[3], nonce |-> b[4], interval |-> b[5],
                       param |-> param, sig |-> b[7 + n]]
      <3>1. b[2].type = mode /\ b[6].len = n
            BY <2>1, <2>2 DEF Header
      <3> QED
          BY <1>4, <3>1 DEF AnswerShape, DecodeAnswer
    <2>6. \A i \in 1 .. 7 + n : b[i] \in S
          BY <2>3, <2>4
    <2>7. param \in Seq(S) /\ Len(param) = n /\ \A i \in 1 .. n : param[i] = b[6 + i]
          BY <2>3, <2>4
    <2>8. /\ front \in Seq(S) /\ Len(front) = 6
          /\ \A i \in 1 .. 6 : front[i] = b[i]
      <3>1. b[1] \in S /\ b[2] \in S /\ b[3] \in S /\ b[4] \in S /\ b[5] \in S /\ b[6] \in S
            BY <2>3, <2>6
      <3> QED
          BY <3>1
    <2>9. last \in Seq(S) /\ Len(last) = 1 /\ last[1] = b[7 + n]
      <3>1. b[7 + n] \in S
            BY <2>3, <2>6
      <3> QED
          BY <3>1
    <2>10. Encode(Decode(b)) = front \o param \o last
      <3>1. Prefix(param) = [len |-> n]
        <4>1. n % LenMod = n
              BY <2>3, SmallMod
        <4> QED
            BY <2>7, <4>1 DEF Prefix
      <3> HIDE DEF param
      <3>2. Encode([type |-> mode, id |-> b[3], nonce |-> b[4], interval |-> b[5],
                    param |-> param, sig |-> b[7 + n]])
            = <<MAGIC, Header(mode), b[3], b[4], b[5], Prefix(param)>> \o param \o <<b[7 + n]>>
            BY DEF Encode, Modes
      <3> QED
          BY <1>1, <2>1, <2>2, <2>5, <3>1, <3>2
    <2> HIDE DEF param, front, last
    <2> DEFINE fp == front \o param
    <2>11. /\ fp \in Seq(S) /\ Len(fp) = 6 + n
           /\ \A i \in 1 .. 6 : fp[i] = front[i]
           /\ \A i \in 1 .. n : fp[6 + i] = param[i]
      <3>0. front \in Seq(S) /\ param \in Seq(S)
            BY <2>7, <2>8
      <3>1. /\ fp \in Seq(S) /\ Len(fp) = Len(front) + Len(param)
            /\ \A i \in 1 .. Len(front) : fp[i] = front[i]
            /\ \A i \in 1 .. Len(param) : fp[Len(front) + i] = param[i]
            BY <3>0, Joined
      <3> HIDE DEF fp
      <3> QED
          BY <2>7, <2>8, <3>1
    <2> HIDE DEF fp
    <2> DEFINE c == fp \o last
    <2>12. /\ c \in Seq(S) /\ Len(c) = 7 + n
           /\ \A i \in 1 .. 6 + n : c[i] = fp[i]
           /\ c[7 + n] = b[7 + n]
      <3>0. fp \in Seq(S) /\ last \in Seq(S)
            BY <2>9, <2>11
      <3>1. /\ c \in Seq(S) /\ Len(c) = Len(fp) + Len(last)
            /\ \A i \in 1 .. Len(fp) : c[i] = fp[i]
            /\ \A i \in 1 .. Len(last) : c[Len(fp) + i] = last[i]
            BY <3>0, Joined
      <3> HIDE DEF c
      <3>2. c[Len(fp) + 1] = b[7 + n]
            BY <2>9, <3>1
      <3>3. Len(fp) = 6 + n /\ Len(fp) + 1 = 7 + n
            BY <2>3, <2>11
      <3>4. Len(c) = 7 + n
            BY <2>9, <3>1, <3>3
      <3> QED
          BY <3>1, <3>2, <3>3, <3>4
    <2> HIDE DEF c
    <2>13. ASSUME NEW i \in 1 .. 7 + n PROVE c[i] = b[i]
      <3>1. CASE i \in 1 .. 6
        <4>1. i \in 1 .. 6 + n
              BY <2>3, <3>1
        <4>2. c[i] = fp[i] /\ fp[i] = front[i] /\ front[i] = b[i]
              BY <2>8, <2>11, <2>12, <3>1, <4>1
        <4> QED
            BY <4>2
      <3>2. CASE i - 6 \in 1 .. n
        <4>1. PICK j \in 1 .. n : i = 6 + j
              BY <3>2
        <4>2. 6 + j \in 1 .. 6 + n
              BY <2>3
        <4> QED
            BY <2>7, <2>11, <2>12, <4>1, <4>2
      <3>3. CASE i = 7 + n
            BY <2>12, <3>3
      <3> QED
          BY <2>3, <3>1, <3>2, <3>3
    <2>14. c = b
          BY <2>4, <2>12, <2>13, SeqEqual
    <2> QED
        BY <2>10, <2>14 DEF c, fp
  <1> QED
      BY <1>2, <1>3, <1>4, DecodeShapes

-----------------------------------------------------------------------------
(* What the network can do to a datagram.                                  *)

AnyBytes == PacketBytes \cup Boxes

\* The byte j of d, which was o: unchanged, junk, a header or a length prefix.
Touched(o, d, j) ==
    \/ j \in 1 .. Len(o) /\ d[j] = o[j]
    \/ d[j] = Junk
    \/ j = 2
    \/ j = 6 /\ d[j] \in Prefixes

LEMMA AlteredBytes ==
    ASSUME NEW o \in Seq(AnyBytes), NEW d \in Alterations(o)
    PROVE  d \in Seq(AnyBytes) /\ \A j \in 1 .. Len(d) : Touched(o, d, j)
  <1>1. PICK n \in Nat : n = Len(o)
        OBVIOUS
  <1>2. Junk \in AnyBytes /\ Headers \subseteq AnyBytes /\ Prefixes \subseteq AnyBytes
        BY DEF AnyBytes, PacketBytes, TailBytes
  <1>3. ASSUME NEW k \in 0 .. n - 1, d = SubSeq(o, 1, k)
        PROVE  d \in Seq(AnyBytes) /\ \A j \in 1 .. Len(d) : Touched(o, d, j)
    <2>1. d \in Seq(AnyBytes) /\ Len(d) = k /\ \A j \in 1 .. k : d[j] = o[j] /\ j \in 1 .. n
          BY <1>1, <1>3
    <2> QED
        BY <1>1, <2>1 DEF Touched
  <1>4. ASSUME d = Append(o, Junk)
        PROVE  d \in Seq(AnyBytes) /\ \A j \in 1 .. Len(d) : Touched(o, d, j)
    <2>1. /\ d \in Seq(AnyBytes) /\ Len(d) = n + 1 /\ d[n + 1] = Junk
          /\ \A j \in 1 .. n : d[j] = o[j]
          BY <1>1, <1>2, <1>4
    <2> QED
        BY <1>1, <2>1 DEF Touched
  <1>5. ASSUME NEW i \in DOMAIN o, NEW x \in Changes(o, i), d = [o EXCEPT ![i] = x]
        PROVE  d \in Seq(AnyBytes) /\ \A j \in 1 .. Len(d) : Touched(o, d, j)
    <2>1. i \in 1 .. n
          BY <1>1
    <2>2. x = Junk \/ (i = 2 /\ x \in Headers) \/ (i = 6 /\ x \in Prefixes)
          BY DEF Changes
    <2>3. x \in AnyBytes
          BY <1>2, <2>2
    <2>4. d \in Seq(AnyBytes) /\ Len(d) = n /\ \A j \in 1 .. n : d[j] = IF j = i THEN x ELSE o[j]
          BY <1>1, <1>5, <2>1, <2>3, ExceptSeq
    <2> QED
        BY <1>1, <2>2, <2>4 DEF Touched
  <1> QED
      BY <1>1, <1>3, <1>4, <1>5 DEF Alterations

(* Signatures, prefixes, boxes and the bytes that stand for themselves are  *)
(* different things.                                                        *)
LEMMA Distinct ==
    /\ Junk \notin HelloPayloads /\ Junk \notin AnswerPayloads(TailBytes)
    /\ \A x \in Prefixes : x \notin HelloPayloads
    /\ \A x \in ParamBytes : x \notin AnswerPayloads(TailBytes)
    /\ AnswerPayloads(ParamBytes) \subseteq AnswerPayloads(TailBytes)
    /\ ParamBytes \subseteq TailBytes /\ AnswerPayloads(ParamBytes) \subseteq TailBytes /\ Junk \in TailBytes
    /\ \A x \in Boxes \cup ParamBoxes : x \notin {MAGIC, Cipher, Junk}
  <1>1. Junk \notin HelloPayloads /\ Junk \notin AnswerPayloads(TailBytes) /\ Cipher \notin AnswerPayloads(TailBytes)
        BY SymbolAssumption
  <1>2. ASSUME NEW x \in Prefixes, x \in HelloPayloads PROVE FALSE
    <2>1. DOMAIN x = {"len"}
          BY DEF Prefixes
    <2>2. "for" \in DOMAIN x
          BY <1>2 DEF HelloPayloads
    <2> QED
        BY <2>1, <2>2
  <1>3. ASSUME NEW x \in ParamBoxes, x \in AnswerPayloads(TailBytes) PROVE FALSE
    <2>1. DOMAIN x = {"to", "eph", "context", "inner"}
          BY DEF ParamBoxes
    <2>2. "for" \in DOMAIN x
          BY <1>3 DEF AnswerPayloads
    <2> QED
        BY <2>1, <2>2
  <1>4. ParamBytes \subseteq TailBytes /\ AnswerPayloads(ParamBytes) \subseteq TailBytes /\ Junk \in TailBytes
        BY DEF TailBytes
  <1>5. AnswerPayloads(ParamBytes) \subseteq AnswerPayloads(TailBytes)
    <2>1. Seq(ParamBytes) \subseteq Seq(TailBytes)
          BY <1>4, SeqMonotonic
    <2> QED
        BY <2>1 DEF AnswerPayloads
  <1>6. \A x \in Boxes \cup ParamBoxes : x \notin {MAGIC, Cipher, Junk}
        BY SymbolAssumption
  <1> QED
      BY <1>1, <1>2, <1>3, <1>4, <1>5, <1>6 DEF ParamBytes

-----------------------------------------------------------------------------
(* What can be on its way.                                                 *)

\* A packet as attempt_once builds it, in a cycle of this mode and parameter text.
BuiltHello(p) ==
    p \in Hellos /\ p.nonce \in 1 .. MaxAttempts /\ p.sig = HelloPayload(p.id, p.time, p.nonce)
BuiltAnswer(p, cf, mode, text) ==
    /\ p \in Answers /\ p.type = mode /\ Len(p.param) < LenMod
    /\ \E exp \in Numbers : p.sig = AnswerPayload(p.type, p.id, p.nonce, p.interval, exp, p.param)
    /\ text = NoEntry => p.param = <<>>
    /\ text # NoEntry => \E e \in Ephs : p.param = Seal(cf.pub, e, text, "param")
BuiltOk(p, cf, mode, text) == BuiltHello(p) \/ BuiltAnswer(p, cf, mode, text)

\* The packet as a datagram, with the ephemeral key e.
Made(p, e, cf) == [to |-> cf.pub, eph |-> e, context |-> "wire", inner |-> Encode(p)]
Framed(p, e, cf) == IF cf.wire THEN Seal(cf.pub, e, Encode(p), "wire") ELSE Encode(p)

\* In cleartext, after any alteration: a signature is that of a packet built.
ClearByte(d, j, B) ==
    /\ j \in {4, 5} => d[j] \in Numbers
    /\ j = 6 /\ d[j] \in HelloPayloads => \E p \in B \cap Hellos : p.sig = d[j]
    /\ j >= 7 => d[j] \in TailBytes
    /\ j >= 7 /\ d[j] \in AnswerPayloads(TailBytes) => \E p \in B \cap Answers : p.sig = d[j]

\* A datagram to the server, when B are the packets built.
ServerFine(d, cf, B) ==
    /\ d \in Seq(AnyBytes)
    /\ Len(d) >= 1 =>
          \/ d[1] = Junk
          \/ ~cf.wire /\ d[1] = MAGIC /\ \A j \in 1 .. Len(d) : ClearByte(d, j, B)
          \/ cf.wire /\ \E p \in B, e \in Ephs : d[1] = Made(p, e, cf)

(* A packet built has an encoding that decodes to it.                       *)
LEMMA BuiltBytes ==
    ASSUME NEW cf, NEW mode, NEW text, NEW p, BuiltOk(p, cf, mode, text)
    PROVE  /\ Encode(p) \in Seq(PacketBytes) /\ Decode(Encode(p)) = p
           /\ p \in Hellos \cup Answers /\ p # NoEntry
  <1>1. CASE BuiltHello(p)
        BY <1>1, HelloBytes, SymbolAssumption DEF BuiltHello
  <1>2. CASE BuiltAnswer(p, cf, mode, text)
        BY <1>2, AnswerBytes, SymbolAssumption DEF BuiltAnswer
  <1> QED
      BY <1>1, <1>2 DEF BuiltOk

(* In cleartext.                                                            *)
LEMMA ClearFine ==
    ASSUME NEW cf, NEW mode, NEW text, NEW B, NEW p \in B, BuiltOk(p, cf, mode, text)
    PROVE  Encode(p)[1] = MAGIC /\ \A j \in 1 .. Len(Encode(p)) : ClearByte(Encode(p), j, B)
  <1>1. CASE BuiltHello(p)
    <2> DEFINE b == <<MAGIC, Header("hello"), p.id, p.time, p.nonce, p.sig>>
    <2>1. p \in Hellos /\ Encode(p) = b
          BY <1>1, HelloBytes DEF BuiltHello
    <2>2. p.time \in Numbers /\ p.nonce \in Numbers
          BY <2>1 DEF Hellos, Numbers
    <2>3. Len(b) = 6 /\ b[1] = MAGIC /\ b[4] = p.time /\ b[5] = p.nonce /\ b[6] = p.sig
          OBVIOUS
    <2> HIDE DEF b
    <2>4. \A j \in 1 .. Len(b) : ClearByte(b, j, B)
          BY <2>1, <2>2, <2>3 DEF ClearByte
    <2> QED
        BY <2>1, <2>3, <2>4
  <1>2. CASE BuiltAnswer(p, cf, mode, text)
    <2> DEFINE b == Encode(p)
    <2>1. p \in Answers /\ Len(p.param) < LenMod /\ p.param \in Seq(ParamBytes)
          BY <1>2 DEF BuiltAnswer, Answers
    <2>2. PICK n \in Nat : n = Len(p.param)
          BY <2>1
    <2>3. /\ Len(b) = 7 + n /\ b[1] = MAGIC /\ b[4] = p.nonce /\ b[5] = p.interval
          /\ b[6] = [len |-> n] /\ b[7 + n] = p.sig
          /\ \A i \in 1 .. n : b[6 + i] = p.param[i]
          BY <2>1, <2>2, AnswerBytes
    <2>4. p.nonce \in Numbers /\ p.interval \in Numbers /\ p.sig \in AnswerPayloads(ParamBytes)
          BY <2>1 DEF Answers, Numbers
    <2>5. [len |-> n] \notin HelloPayloads
      <3>1. n \in 0 .. LenMod - 1
            BY <2>1, <2>2, WireAssumption
      <3> QED
          BY <3>1, Distinct DEF Prefixes
    <2> HIDE DEF b
    <2> SUFFICES ASSUME NEW j \in 1 .. 7 + n PROVE ClearByte(b, j, B)
        BY <2>3 DEF b
    <2>6. CASE j < 7
          BY <2>3, <2>4, <2>5, <2>6 DEF ClearByte
    <2>7. CASE j = 7 + n
      <3>1. b[j] \in TailBytes /\ b[j] = p.sig
            BY <2>3, <2>4, <2>7, Distinct
      <3>2. j >= 7
            BY <2>7
      <3> QED
          BY <2>1, <3>1, <3>2 DEF ClearByte
    <2>8. CASE j >= 7 /\ j # 7 + n
      <3>1. PICK i \in 1 .. n : j = 6 + i
            BY <2>8
      <3>2. b[j] = p.param[i] /\ p.param[i] \in ParamBytes
            BY <2>1, <2>2, <2>3, <3>1
      <3>3. b[j] \in TailBytes /\ b[j] \notin AnswerPayloads(TailBytes)
            BY <3>2, Distinct
      <3> QED
          BY <2>8, <3>3 DEF ClearByte
    <2> QED
        BY <2>6, <2>7, <2>8
  <1> QED
      BY <1>1, <1>2 DEF BuiltOk

(* frame_outbound: a datagram of the client's own is fine.                  *)
LEMMA FrameFine ==
    ASSUME NEW cf \in Confs, NEW mode, NEW text, NEW B, NEW p \in B, BuiltOk(p, cf, mode, text),
           NEW e \in Ephs
    PROVE  ServerFine(Framed(p, e, cf), cf, B)
  <1>1. Encode(p) \in Seq(PacketBytes)
        BY BuiltBytes
  <1>2. CASE cf.wire
    <2> DEFINE made == Made(p, e, cf)
    <2>1. made.inner = Encode(p) /\ made \in Boxes
      <3>1. cf.pub \in Keys
            BY DEF Confs
      <3> QED
          BY <1>1, <3>1 DEF Made, Boxes
    <2>2. Framed(p, e, cf) = Box(made, Overhead)
          BY <1>2 DEF Framed, Seal, Made
    <2>3. {made, Cipher} \subseteq AnyBytes
          BY <2>1 DEF AnyBytes, PacketBytes, TailBytes, ParamBytes
    <2> HIDE DEF made
    <2>4. Box(made, Overhead) \in Seq({made, Cipher}) /\ Box(made, Overhead)[1] = made
      <3>1. made.inner \in Seq(PacketBytes) /\ Overhead \in Nat \ {0}
            BY <1>1, <2>1, WireAssumption
      <3> QED
          BY <3>1, BoxBytes
    <2>5. Box(made, Overhead) \in Seq(AnyBytes)
          BY <2>3, <2>4, SeqMonotonic
    <2> QED
        BY <1>2, <2>2, <2>4, <2>5 DEF ServerFine, made
  <1>3. CASE ~cf.wire
    <2>1. Framed(p, e, cf) = Encode(p)
          BY <1>3 DEF Framed
    <2>2. Encode(p) \in Seq(AnyBytes)
          BY <1>1, SeqMonotonic DEF AnyBytes
    <2> QED
        BY <1>3, <2>1, <2>2, ClearFine DEF ServerFine
  <1> QED
      BY <1>2, <1>3

(* The network cannot make another of it.                                   *)
LEMMA AlterFine ==
    ASSUME NEW cf, NEW B, NEW o, ServerFine(o, cf, B), NEW d \in Alterations(o)
    PROVE  ServerFine(d, cf, B)
  <1>1. o \in Seq(AnyBytes)
        BY DEF ServerFine
  <1>2. d \in Seq(AnyBytes) /\ \A j \in 1 .. Len(d) : Touched(o, d, j)
        BY <1>1, AlteredBytes
  <1> SUFFICES ASSUME Len(d) >= 1, d[1] # Junk
               PROVE  \/ ~cf.wire /\ d[1] = MAGIC /\ \A j \in 1 .. Len(d) : ClearByte(d, j, B)
                      \/ cf.wire /\ \E p \in B, e \in Ephs : d[1] = Made(p, e, cf)
      BY <1>2 DEF ServerFine
  <1>3. Len(o) >= 1 /\ d[1] = o[1]
    <2>1. 1 \in 1 .. Len(d)
          BY <1>2
    <2>2. Touched(o, d, 1)
          BY <1>2, <2>1
    <2> QED
        BY <1>1, <2>2 DEF Touched
  <1>4. CASE cf.wire
        BY <1>3, <1>4 DEF ServerFine
  <1>5. CASE ~cf.wire
    <2>1. o[1] = MAGIC /\ \A j \in 1 .. Len(o) : ClearByte(o, j, B)
          BY <1>3, <1>5 DEF ServerFine
    <2>2. ASSUME NEW j \in 1 .. Len(d) PROVE ClearByte(d, j, B)
      <3>1. Touched(o, d, j)
            BY <1>2
      <3>2. CASE j \in 1 .. Len(o) /\ d[j] = o[j]
            BY <2>1, <3>2 DEF ClearByte
      <3>3. CASE d[j] = Junk
        <4>1. Junk \in Numbers /\ Junk \in TailBytes /\ Junk \notin HelloPayloads /\ Junk \notin AnswerPayloads(TailBytes)
              BY Distinct DEF Numbers
        <4> QED
            BY <3>3, <4>1 DEF ClearByte
      <3>4. CASE j = 2
            BY <3>4 DEF ClearByte
      <3>5. CASE j = 6 /\ d[j] \in Prefixes
        <4>1. d[j] \notin HelloPayloads
              BY <3>5, Distinct
        <4> QED
            BY <3>5, <4>1 DEF ClearByte
      <3> QED
          BY <3>1, <3>2, <3>3, <3>4, <3>5 DEF Touched
    <2> QED
        BY <1>3, <1>5, <2>1, <2>2
  <1> QED
      BY <1>4, <1>5

\* A datagram to the client, when iss are the CHALLENGEs sent.
ChallengeOf(n) == [type |-> "challenge", id |-> Me, nonce |-> n, exp |-> n]
Replied(n, e, cf, iss) ==
    [from |-> cf.secret, eph |-> e, bind |-> iss[n], inner |-> Encode(ChallengeOf(n))]
ClientFine(d, cf, iss) ==
    /\ d \in Seq(AnyBytes)
    /\ Len(d) >= 1 =>
          \/ d[1] = Junk
          \/ ~cf.serverWire /\ d[1] = MAGIC /\ \A j \in 1 .. Len(d) : j \in {4, 5} => d[j] \in Numbers
          \/ cf.serverWire /\ \E n \in 1 .. Len(iss), e \in Ephs : d[1] = Replied(n, e, cf, iss)

(* The CHALLENGE as bytes.                                                  *)
LEMMA ChallengeOfBytes ==
    ASSUME NEW n \in Nat
    PROVE  /\ ChallengeOf(n) \in ChallengePackets /\ ChallengeOf(n) # NoEntry
           /\ Encode(ChallengeOf(n)) = <<MAGIC, Header("challenge"), Me, n, n>>
           /\ Encode(ChallengeOf(n)) \in Seq(PacketBytes)
           /\ Decode(Encode(ChallengeOf(n))) = ChallengeOf(n)
  <1> DEFINE p == ChallengeOf(n)
  <1>1. p \in ChallengePackets /\ p.id = Me /\ p.nonce = n /\ p.exp = n
        BY DEF ChallengeOf, ChallengePackets
  <1> HIDE DEF p
  <1>2. /\ Encode(p) = <<MAGIC, Header("challenge"), p.id, p.nonce, p.exp>>
        /\ Encode(p) \in Seq(PacketBytes) /\ Decode(Encode(p)) = p
        BY <1>1, ChallengeBytes
  <1> QED
      BY <1>1, <1>2, SymbolAssumption DEF p

(* send_reply: the server's own reply is fine.                              *)
LEMMA ReplyFine ==
    ASSUME NEW cf \in Confs, NEW iss \in Seq(Nat), NEW n \in 1 .. Len(iss), NEW e,
           cf.serverWire => e \in Ephs, NEW d,
           d = IF cf.serverWire THEN SealReply(cf.secret, e, Encode(ChallengeOf(n)), iss[n])
               ELSE Encode(ChallengeOf(n))
    PROVE  ClientFine(d, cf, iss)
  <1>1. n \in Nat /\ iss[n] \in Nat
        OBVIOUS
  <1> DEFINE b == Encode(ChallengeOf(n))
  <1>2. b = <<MAGIC, Header("challenge"), Me, n, n>> /\ b \in Seq(PacketBytes)
        BY <1>1, ChallengeOfBytes
  <1>3. CASE cf.serverWire
    <2> DEFINE made == Replied(n, e, cf, iss)
    <2>1. made.inner = b /\ made \in Boxes
      <3>1. cf.secret \in Keys /\ e \in Ephs
            BY <1>3 DEF Confs
      <3> QED
          BY <1>1, <1>2, <3>1 DEF Replied, Boxes
    <2>2. d = Box(made, ReplyOverhead)
          BY <1>3 DEF SealReply, Replied
    <2>3. {made, Cipher} \subseteq AnyBytes
          BY <2>1 DEF AnyBytes, PacketBytes, TailBytes, ParamBytes
    <2> HIDE DEF made, b
    <2>4. Box(made, ReplyOverhead) \in Seq({made, Cipher}) /\ Box(made, ReplyOverhead)[1] = made
      <3>1. made.inner \in Seq(PacketBytes) /\ ReplyOverhead \in Nat \ {0}
            BY <1>2, <2>1, WireAssumption
      <3> QED
          BY <3>1, BoxBytes
    <2>5. Box(made, ReplyOverhead) \in Seq(AnyBytes)
          BY <2>3, <2>4, SeqMonotonic
    <2> QED
        BY <1>3, <2>2, <2>4, <2>5 DEF ClientFine, made
  <1>4. CASE ~cf.serverWire
    <2>1. d = b
          BY <1>4
    <2>2. d \in Seq(AnyBytes)
          BY <1>2, <2>1, SeqMonotonic DEF AnyBytes
    <2>3. Len(d) = 5 /\ d[1] = MAGIC /\ d[4] = n /\ d[5] = n
          BY <1>2, <2>1
    <2>4. n \in Numbers
          BY <1>1 DEF Numbers
    <2> QED
        BY <1>4, <2>2, <2>3, <2>4 DEF ClientFine
  <1> QED
      BY <1>3, <1>4

(* The network cannot make another of it.                                   *)
LEMMA ClientAlterFine ==
    ASSUME NEW cf, NEW iss, NEW o, ClientFine(o, cf, iss), NEW d \in Alterations(o)
    PROVE  ClientFine(d, cf, iss)
  <1>1. o \in Seq(AnyBytes)
        BY DEF ClientFine
  <1>2. d \in Seq(AnyBytes) /\ \A j \in 1 .. Len(d) : Touched(o, d, j)
        BY <1>1, AlteredBytes
  <1> SUFFICES ASSUME Len(d) >= 1, d[1] # Junk
               PROVE  \/ /\ ~cf.serverWire /\ d[1] = MAGIC
                         /\ \A j \in 1 .. Len(d) : j \in {4, 5} => d[j] \in Numbers
                      \/ cf.serverWire /\ \E n \in 1 .. Len(iss), e \in Ephs : d[1] = Replied(n, e, cf, iss)
      BY <1>2 DEF ClientFine
  <1>3. Len(o) >= 1 /\ d[1] = o[1]
    <2>1. 1 \in 1 .. Len(d)
          BY <1>2
    <2>2. Touched(o, d, 1)
          BY <1>2, <2>1
    <2> QED
        BY <1>1, <2>2 DEF Touched
  <1>4. CASE cf.serverWire
        BY <1>3, <1>4 DEF ClientFine
  <1>5. CASE ~cf.serverWire
    <2>1. o[1] = MAGIC /\ \A j \in 1 .. Len(o) : j \in {4, 5} => o[j] \in Numbers
          BY <1>3, <1>5 DEF ClientFine
    <2>2. ASSUME NEW j \in 1 .. Len(d), j \in {4, 5} PROVE d[j] \in Numbers
      <3>1. Touched(o, d, j)
            BY <1>2
      <3> QED
          BY <2>1, <2>2, <3>1 DEF Touched, Numbers
    <2> QED
        BY <1>3, <1>5, <2>1, <2>2
  <1> QED
      BY <1>4, <1>5

(* More packets built change nothing, and neither do more CHALLENGEs.       *)
LEMMA ServerFineStays ==
    ASSUME NEW cf, NEW d, NEW B, NEW C, B \subseteq C, ServerFine(d, cf, B)
    PROVE  ServerFine(d, cf, C)
  <1>1. \A j \in 1 .. Len(d) : ClearByte(d, j, B) => ClearByte(d, j, C)
        BY DEF ClearByte
  <1> QED
      BY <1>1 DEF ServerFine

LEMMA ClientFineStays ==
    ASSUME NEW cf, NEW d, NEW iss \in Seq(Nat), NEW x \in Nat, ClientFine(d, cf, iss)
    PROVE  ClientFine(d, cf, Append(iss, x))
  <1>1. \A n \in 1 .. Len(iss) : n \in 1 .. Len(Append(iss, x)) /\ Append(iss, x)[n] = iss[n]
        OBVIOUS
  <1>2. \A n \in 1 .. Len(iss), e \in Ephs : Replied(n, e, cf, Append(iss, x)) = Replied(n, e, cf, iss)
        BY <1>1 DEF Replied
  <1> QED
      BY <1>1, <1>2 DEF ClientFine

-----------------------------------------------------------------------------
(* The inductive invariant.                                                *)

NetType == net \in [server : SUBSET Seq(AnyBytes), client : SUBSET Seq(AnyBytes)]

BuiltInv == \A p \in built : BuiltOk(p, conf, client.mode, client.param)

CycleInv ==
    /\ client.pc = "idle" => built = {} /\ hooks = {}
    /\ client.param # NoEntry => Len(client.param) <= conf.paramMax
    /\ client.pc = "sign" => client.challenge # NoEntry

SentInv == \A d \in sent : d \in net.server /\ \E p \in built, e \in Ephs : d = Framed(p, e, conf)
ServerInv == \A d \in net.server : ServerFine(d, conf, built)
ClientInv == \A d \in net.client : ClientFine(d, conf, issued)
FaultyInv == \A d \in faulty : d \in sent /\ Parsed(d) = NoEntry

\* Only the cycle's own RESPONSE gives the client another lease.
LeaseInv == lease \subseteq earlier \/ (client.pc # "idle" /\ client.mode = "response")

WireInv == NetType /\ BuiltInv /\ CycleInv /\ SentInv /\ ServerInv /\ ClientInv /\ FaultyInv
Inv == TypeOK /\ WireInv /\ AcceptedAsBuilt /\ ParamReachesHook /\ LeaseInv /\ ReplyIsForHello

(* handle_datagram: what parses came sealed and was built, or in cleartext. *)
LEMMA ParsedCases ==
    ASSUME TypeOK, BuiltInv, NEW d, ServerFine(d, conf, built), Parsed(d) # NoEntry
    PROVE  \/ conf.serverWire /\ Parsed(d) \in built /\ d[1].eph \in Ephs
           \/ /\ ~conf.serverWire /\ Parsed(d) = Decode(d) /\ d \in Seq(AnyBytes)
              /\ \A j \in 1 .. Len(d) : ClearByte(d, j, built)
  <1>0. d \in Seq(AnyBytes) /\ conf \in Confs
        BY DEF ServerFine, TypeOK
  <1>1. CASE conf.serverWire
    <2>1. IsBox(d) /\ Parsed(d) = Decode(d[1].inner)
          BY <1>1 DEF Parsed, Opens
    <2>2. Len(d) >= 1 /\ d[1] # Junk /\ d[1] # MAGIC
          BY <1>0, <2>1 DEF IsBox
    <2>3. PICK p \in built, e \in Ephs : d[1] = Made(p, e, conf)
          BY <2>2 DEF ServerFine
    <2>4. d[1].inner = Encode(p) /\ d[1].eph = e
          BY <2>3 DEF Made
    <2>5. BuiltOk(p, conf, client.mode, client.param)
          BY DEF BuiltInv
    <2>6. Decode(Encode(p)) = p
          BY <2>5, BuiltBytes
    <2> QED
        BY <1>1, <2>1, <2>4, <2>6
  <1>2. CASE ~conf.serverWire
    <2>1. Parsed(d) = Decode(d) /\ Decode(d) # NoEntry
          BY <1>2 DEF Parsed
    <2>2. d[1] = MAGIC /\ ~(Len(d) < 2)
          BY <2>1, DecodeShapes
    <2>3. Len(d) >= 1 /\ d[1] # Junk
          BY <1>0, <2>2, WireAssumption
    <2>4. ~(conf.wire /\ \E p \in built, e \in Ephs : d[1] = Made(p, e, conf))
      <3> SUFFICES ASSUME NEW p \in built, NEW e \in Ephs, d[1] = Made(p, e, conf) PROVE FALSE
          OBVIOUS
      <3>1. BuiltOk(p, conf, client.mode, client.param)
            BY DEF BuiltInv
      <3>2. Encode(p) \in Seq(PacketBytes) /\ conf.pub \in Keys
            BY <1>0, <3>1, BuiltBytes DEF Confs
      <3>3. Made(p, e, conf) \in Boxes
            BY <3>2 DEF Made, Boxes
      <3> QED
          BY <2>2, <3>3, Distinct
    <2> QED
        BY <1>0, <1>2, <2>1, <2>3, <2>4 DEF ServerFine
  <1> QED
      BY <1>1, <1>2

(* handle_hello: a HELLO whose signature verifies was built.                *)
LEMMA HelloBuilt ==
    ASSUME TypeOK, BuiltInv, NEW d, ServerFine(d, conf, built), Parsed(d) # NoEntry,
           Parsed(d).type = "hello", Parsed(d).id = Me,
           Parsed(d).sig = HelloPayload(Parsed(d).id, Parsed(d).time, Parsed(d).nonce)
    PROVE  /\ Parsed(d) \in built /\ BuiltHello(Parsed(d))
           /\ conf.serverWire => d[1].eph \in Ephs
  <1> DEFINE p == Parsed(d)
  <1>1. p \in built /\ (conf.serverWire => d[1].eph \in Ephs)
    <2>1. CASE conf.serverWire
          BY <2>1, ParsedCases
    <2>2. CASE ~conf.serverWire
      <3>1. p = Decode(d) /\ \A j \in 1 .. Len(d) : ClearByte(d, j, built)
            BY <2>2, ParsedCases
      <3>2. HelloShape(d)
        <4>1. HelloShape(d) \/ ChallengeShape(d) \/ AnswerShape(d)
              BY <3>1, DecodeShapes
        <4>2. ~ChallengeShape(d)
              BY <3>1 DEF ChallengeShape
        <4>3. ~AnswerShape(d)
          <5> SUFFICES ASSUME AnswerShape(d) PROVE FALSE
              OBVIOUS
          <5>1. PICK mode \in Modes : d[2] = Header(mode)
                BY DEF AnswerShape
          <5>2. p.type = mode
                BY <3>1, <5>1 DEF AnswerShape, DecodeAnswer, Header
          <5> QED
              BY <5>2 DEF Modes
        <4> QED
            BY <4>1, <4>2, <4>3
      <3>3. /\ p = [type |-> "hello", id |-> Me, time |-> d[4], nonce |-> d[5], sig |-> d[6]]
            /\ Len(d) = 6
            BY <3>1, <3>2 DEF HelloShape
      <3>4. /\ ClearByte(d, 4, built) /\ ClearByte(d, 5, built) /\ ClearByte(d, 6, built)
            BY <3>1, <3>3
      <3>5. d[4] \in Numbers /\ d[5] \in Numbers
            BY <3>4 DEF ClearByte
      <3>6. d[6] = HelloPayload(Me, d[4], d[5])
            BY <3>3
      <3>7. d[6] \in HelloPayloads
            BY <3>5, <3>6 DEF HelloPayload, HelloPayloads
      <3>8. PICK q \in built \cap Hellos : q.sig = d[6]
            BY <3>4, <3>7 DEF ClearByte
      <3>9. q.sig = HelloPayload(q.id, q.time, q.nonce)
        <4>1. BuiltOk(q, conf, client.mode, client.param)
              BY DEF BuiltInv
        <4>2. q \notin Answers
              BY DEF Hellos, Answers, Modes
        <4> QED
            BY <4>1, <4>2 DEF BuiltOk, BuiltHello, BuiltAnswer
      <3>10. q.id = Me /\ q.time = d[4] /\ q.nonce = d[5]
            BY <3>6, <3>8, <3>9 DEF HelloPayload
      <3>11. q = [type |-> "hello", id |-> q.id, time |-> q.time, nonce |-> q.nonce, sig |-> q.sig]
            BY DEF Hellos
      <3>12. p = q
            BY <3>3, <3>8, <3>10, <3>11
      <3> QED
          BY <2>2, <3>12
    <2> QED
        BY <2>1, <2>2
  <1>2. BuiltHello(p)
    <2>1. BuiltOk(p, conf, client.mode, client.param)
          BY <1>1 DEF BuiltInv
    <2>2. p \notin Answers
          BY DEF Answers, Modes
    <2> QED
        BY <2>1, <2>2 DEF BuiltOk, BuiltAnswer
  <1> QED
      BY <1>1, <1>2

(* handle_response, handle_bye: so was a RESPONSE or BYE.                   *)
LEMMA AnswerBuilt ==
    ASSUME TypeOK, BuiltInv, NEW d, ServerFine(d, conf, built), Parsed(d) # NoEntry,
           Parsed(d).type \in Modes, Parsed(d).id = Me, Parsed(d).nonce \in DOMAIN issued,
           Parsed(d).sig = AnswerPayload(Parsed(d).type, Parsed(d).id, Parsed(d).nonce,
                                         Parsed(d).interval, Parsed(d).nonce, Parsed(d).param)
    PROVE  Parsed(d) \in built /\ BuiltAnswer(Parsed(d), conf, client.mode, client.param)
  <1> DEFINE p == Parsed(d)
  <1>1. p \in built
    <2>1. CASE conf.serverWire
          BY <2>1, ParsedCases
    <2>2. CASE ~conf.serverWire
      <3>1. /\ p = Decode(d) /\ d \in Seq(AnyBytes)
            /\ \A j \in 1 .. Len(d) : ClearByte(d, j, built)
            BY <2>2, ParsedCases
      <3>2. AnswerShape(d)
        <4>1. HelloShape(d) \/ ChallengeShape(d) \/ AnswerShape(d)
              BY <3>1, DecodeShapes
        <4>2. ~ChallengeShape(d) /\ ~HelloShape(d)
              BY <3>1 DEF ChallengeShape, HelloShape, Modes
        <4> QED
            BY <4>1, <4>2
      <3>3. PICK mode \in Modes : d[2] = Header(mode)
            BY <3>2 DEF AnswerShape
      <3>4. PICK n \in 0 .. LenMod - 1 : d[6] = [len |-> n]
            BY <3>2 DEF AnswerShape, Prefixes
      <3>5. n \in Nat /\ Len(d) = 7 + n
            BY <3>2, <3>4, WireAssumption DEF AnswerShape
      <3> DEFINE param == SubSeq(d, 7, 6 + n)
      <3>6. p = [type |-> mode, id |-> d[3], nonce |-> d[4], interval |-> d[5],
                 param |-> param, sig |-> d[7 + n]]
        <4>1. d[2].type = mode /\ d[6].len = n
              BY <3>3, <3>4 DEF Header
        <4> QED
            BY <3>1, <3>2, <4>1 DEF AnswerShape, DecodeAnswer
      <3>7. \A j \in 7 .. 7 + n : d[j] \in TailBytes
            BY <3>1, <3>5 DEF ClearByte
      <3>8. param \in Seq(TailBytes)
        <4>1. 7 \in Int /\ 6 + n \in Int /\ \A j \in 7 .. 6 + n : d[j] \in TailBytes
              BY <3>5, <3>7
        <4> QED
            BY <4>1, SubSeqProperties
      <3>9. d[5] \in Numbers
        <4>1. 5 \in 1 .. Len(d)
              BY <3>5
        <4>2. ClearByte(d, 5, built)
              BY <3>1, <4>1
        <4> QED
            BY <4>2 DEF ClearByte
      <3>10. p.nonce \in Numbers
            BY DEF TypeOK, Numbers
      <3> HIDE DEF param
      <3>11. d[7 + n] = AnswerPayload(mode, Me, p.nonce, d[5], p.nonce, param)
            BY <3>6
      <3>12. d[7 + n] \in AnswerPayloads(TailBytes)
            BY <3>8, <3>9, <3>10, <3>11 DEF AnswerPayload, AnswerPayloads
      <3>13. PICK q \in built \cap Answers : q.sig = d[7 + n]
        <4>1. 7 + n \in 1 .. Len(d) /\ 7 + n >= 7
              BY <3>5
        <4>2. ClearByte(d, 7 + n, built)
              BY <3>1, <4>1
        <4> QED
            BY <3>12, <4>1, <4>2 DEF ClearByte
      <3>14. PICK exp \in Numbers : q.sig = AnswerPayload(q.type, q.id, q.nonce, q.interval, exp, q.param)
        <4>1. BuiltOk(q, conf, client.mode, client.param)
              BY DEF BuiltInv
        <4>2. q \notin Hellos
              BY DEF Hellos, Answers, Modes
        <4> QED
            BY <4>1, <4>2 DEF BuiltOk, BuiltHello, BuiltAnswer
      <3>15. q.type = mode /\ q.id = Me /\ q.nonce = p.nonce /\ q.interval = d[5] /\ q.param = param
            BY <3>11, <3>13, <3>14 DEF AnswerPayload
      <3>16. q = [type |-> q.type, id |-> q.id, nonce |-> q.nonce, interval |-> q.interval,
                  param |-> q.param, sig |-> q.sig]
            BY DEF Answers
      <3>17. p.nonce = d[4] /\ p.id = d[3]
            BY <3>6
      <3>18. p = q
            BY <3>6, <3>13, <3>15, <3>16, <3>17
      <3> QED
          BY <3>18
    <2> QED
        BY <2>1, <2>2
  <1>2. BuiltAnswer(p, conf, client.mode, client.param)
    <2>1. BuiltOk(p, conf, client.mode, client.param)
          BY <1>1 DEF BuiltInv
    <2>2. p \notin Hellos
          BY DEF Hellos, Modes
    <2> QED
        BY <2>1, <2>2 DEF BuiltOk, BuiltHello
  <1> QED
      BY <1>1, <1>2

(* Nothing has been sent at the start.                                      *)
LEMMA InitInv == Init => Inv
  <1> SUFFICES ASSUME Init PROVE Inv
      OBVIOUS
  <1>1. TypeOK
    <2>1. client \in Cycle
          BY WireAssumption DEF Init, Cycle, Modes
    <2>2. issued \in Seq(1 .. MaxAttempts) /\ Len(issued) <= MaxNonces
          BY WireAssumption DEF Init
    <2> QED
        BY <2>1, <2>2, WireAssumption DEF Init, TypeOK
  <1>2. WireInv
        BY DEF Init, WireInv, NetType, BuiltInv, CycleInv, SentInv, ServerInv, ClientInv, FaultyInv
  <1> QED
      BY <1>1, <1>2 DEF Init, Inv, AcceptedAsBuilt, ParamReachesHook, LeaseInv, ReplyIsForHello

(* A step of the client that sends nothing and keeps the cycle's mode and   *)
(* parameter.                                                               *)
LEMMA ClientStays ==
    ASSUME Inv, client' \in Cycle, client.pc # "idle", client'.pc # "idle",
           client'.mode = client.mode, client'.param = client.param,
           client'.pc = "sign" => client'.challenge # NoEntry, ReplyIsForHello',
           UNCHANGED <<conf, net, issued, earlier, lease, altered, faulty, sent, built, accepted, hooks>>
    PROVE  Inv'
  <1>1. TypeOK'
        BY DEF Inv, TypeOK
  <1>2. /\ NetType' /\ SentInv' /\ ServerInv' /\ ClientInv'
        BY DEF Inv, WireInv, NetType, SentInv, ServerInv, ClientInv
  <1>3. FaultyInv'
        BY DEF Inv, WireInv, FaultyInv, Parsed, Opens
  <1>4. BuiltInv' /\ CycleInv'
        BY DEF Inv, WireInv, BuiltInv, CycleInv
  <1>5. AcceptedAsBuilt' /\ ParamReachesHook' /\ LeaseInv'
        BY DEF Inv, AcceptedAsBuilt, ParamReachesHook, LeaseInv
  <1> QED
      BY <1>1, <1>2, <1>3, <1>4, <1>5 DEF Inv, WireInv

(* run_cycle begins.                                                        *)
LEMMA BeginInv ==
    ASSUME Inv, NEW mode \in Modes, NEW param \in Params \cup {NoEntry}, Begin(mode, param)
    PROVE  Inv'
  <1>1. /\ client \in Cycle /\ built = {} /\ hooks = {} /\ accepted = {} /\ lease \subseteq earlier
        BY DEF Begin, Inv, TypeOK, WireInv, CycleInv, AcceptedAsBuilt, LeaseInv
  <1>2. /\ client' \in Cycle /\ client'.pc = "hello" /\ client'.param = param
        /\ client'.attempt = client.attempt /\ client'.challenge = client.challenge
        BY <1>1 DEF Begin, Cycle
  <1>3. TypeOK'
        BY <1>2 DEF Begin, Inv, TypeOK
  <1>4. NetType' /\ SentInv' /\ ServerInv' /\ ClientInv'
        BY DEF Begin, Inv, WireInv, NetType, SentInv, ServerInv, ClientInv
  <1>5. FaultyInv'
        BY DEF Begin, Inv, WireInv, FaultyInv, Parsed, Opens
  <1>6. BuiltInv' /\ CycleInv'
        BY <1>1, <1>2 DEF Begin, BuiltInv, CycleInv, ValidParam
  <1>7. AcceptedAsBuilt' /\ ParamReachesHook' /\ LeaseInv'
        BY <1>1 DEF Begin, AcceptedAsBuilt, ParamReachesHook, LeaseInv
  <1>8. ReplyIsForHello'
        BY <1>2 DEF Begin, Inv, ReplyIsForHello
  <1> QED
      BY <1>3, <1>4, <1>5, <1>6, <1>7, <1>8 DEF Inv, WireInv

(* The attempt failed: the next one has no CHALLENGE yet.                   *)
LEMMA RetryInv ==
    ASSUME Inv, client.pc # "idle", client' = NextAttempt,
           UNCHANGED <<conf, net, issued, earlier, lease, altered, faulty, sent, built, accepted, hooks>>
    PROVE  Inv'
  <1>1. client \in Cycle /\ MaxAttempts \in Nat /\ client.attempt \in 1 .. MaxAttempts
        BY WireAssumption DEF Inv, TypeOK, Cycle
  <1>2. CASE client.attempt < MaxAttempts
    <2>1. client' = [client EXCEPT !.pc = "hello", !.attempt = @ + 1, !.challenge = NoEntry]
          BY <1>2 DEF NextAttempt
    <2>2. client.attempt + 1 \in 1 .. MaxAttempts
          BY <1>1, <1>2
    <2>3. /\ client' \in Cycle /\ client'.pc = "hello" /\ client'.challenge = NoEntry
          /\ client'.mode = client.mode /\ client'.param = client.param
          BY <1>1, <2>1, <2>2 DEF Cycle
    <2> QED
        BY <2>3, ClientStays DEF ReplyIsForHello
  <1>3. CASE ~(client.attempt < MaxAttempts)
    <2>1. client' = [client EXCEPT !.pc = "failed"]
          BY <1>3 DEF NextAttempt
    <2>2. /\ client' \in Cycle /\ client'.pc = "failed"
          /\ client'.challenge = client.challenge /\ client'.attempt = client.attempt
          /\ client'.mode = client.mode /\ client'.param = client.param
          BY <1>1, <2>1 DEF Cycle
    <2>3. ReplyIsForHello'
          BY <2>2 DEF Inv, ReplyIsForHello
    <2> QED
        BY <2>2, <2>3, ClientStays
  <1> QED
      BY <1>2, <1>3

(* unframe_inbound: what a client with encryption opens is the CHALLENGE    *)
(* for this attempt's HELLO.                                                *)
LEMMA ReceiveInv ==
    ASSUME Inv, NEW d \in net.client, Receive(d)
    PROVE  Inv'
  <1> DEFINE p == Unframed(d)
             good == p # NoEntry /\ p.type = "challenge" /\ p.id = Me
             c == [nonce |-> p.nonce, exp |-> p.exp]
  <1>0. client.pc = "wait"
        BY DEF Receive
  <1>1. CASE ~good
    <2>1. client' = NextAttempt
          BY <1>1 DEF Receive
    <2> QED
        BY <1>0, <2>1, RetryInv DEF Receive
  <1>2. CASE good
    <2>0. client' = [client EXCEPT !.pc = "sign", !.challenge = c]
          BY <1>2 DEF Receive
    <2>1. ClientFine(d, conf, issued) /\ conf \in Confs /\ client \in Cycle /\ issued \in Seq(1 .. MaxAttempts)
          BY DEF Inv, WireInv, ClientInv, TypeOK
    <2>2. d \in Seq(AnyBytes)
          BY <2>1 DEF ClientFine
    <2>3. CASE conf.wire
      <3>1. OpensReply(Eph("hello"), conf.pub, d, client.attempt) /\ p = Decode(d[1].inner)
            BY <1>2, <2>3 DEF Unframed
      <3>2. Len(d) >= 1 /\ d[1] # Junk /\ d[1] # MAGIC
            BY <2>2, <3>1 DEF OpensReply, IsBox
      <3>3. PICK n \in 1 .. Len(issued), e \in Ephs : d[1] = Replied(n, e, conf, issued)
            BY <2>1, <3>2 DEF ClientFine
      <3>4. n \in Nat /\ n \in DOMAIN issued
            BY <2>1
      <3>5. d[1].inner = Encode(ChallengeOf(n)) /\ d[1].from = conf.secret /\ d[1].bind = issued[n]
            BY <3>3 DEF Replied
      <3>6. p = ChallengeOf(n) /\ d[1].inner \in Seq(PacketBytes)
            BY <3>1, <3>4, <3>5, ChallengeOfBytes
      <3>7. d[1].from = conf.pub /\ d[1].bind = client.attempt
        <4> DEFINE made == [from |-> conf.pub, eph |-> Eph("hello"), bind |-> client.attempt,
                            inner |-> d[1].inner]
        <4>1. d = Box(made, ReplyOverhead)
              BY <3>1 DEF OpensReply, SealReply
        <4>2. made.inner = d[1].inner /\ made.from = conf.pub /\ made.bind = client.attempt
              OBVIOUS
        <4> HIDE DEF made
        <4>3. made.inner \in Seq(PacketBytes) /\ ReplyOverhead \in Nat \ {0}
              BY <3>6, <4>2, WireAssumption
        <4>4. Box(made, ReplyOverhead)[1] = made
              BY <4>3, BoxBytes
        <4> QED
            BY <4>1, <4>2, <4>4
      <3>8. c = [nonce |-> n, exp |-> n]
            BY <3>6 DEF ChallengeOf
      <3>9. c \in Challenges /\ c.nonce = n /\ c.exp = n
            BY <3>4, <3>8 DEF Challenges, Numbers
      <3>10. c # NoEntry
            BY <3>9, SymbolAssumption
      <3> HIDE DEF c
      <3>11. /\ client' \in Cycle /\ client'.pc = "sign" /\ client'.challenge = c
             /\ client'.attempt = client.attempt
             /\ client'.mode = client.mode /\ client'.param = client.param
             BY <2>0, <2>1, <3>9 DEF Cycle
      <3>12. ReplyIsForHello'
        <4>1. conf.pub = conf.secret /\ issued[n] = client.attempt
              BY <3>5, <3>7
        <4>2. UNCHANGED <<conf, issued>>
              BY DEF Receive
        <4> QED
            BY <3>4, <3>9, <3>11, <4>1, <4>2 DEF ReplyIsForHello
      <3> QED
          BY <1>0, <3>10, <3>11, <3>12, ClientStays DEF Receive
    <2>4. CASE ~conf.wire
      <3>1. p = Decode(d)
            BY <2>4 DEF Unframed
      <3>2. d[1] = MAGIC /\ ~(Len(d) < 2)
            BY <1>2, <3>1, DecodeShapes
      <3>3. ChallengeShape(d)
        <4>1. HelloShape(d) \/ ChallengeShape(d) \/ AnswerShape(d)
              BY <1>2, <3>1, DecodeShapes
        <4>2. ~HelloShape(d)
              BY <1>2, <3>1 DEF HelloShape
        <4>3. ~AnswerShape(d)
          <5> SUFFICES ASSUME AnswerShape(d) PROVE FALSE
              OBVIOUS
          <5>1. PICK mode \in Modes : d[2] = Header(mode)
                BY DEF AnswerShape
          <5>2. p.type = mode
                BY <3>1, <5>1 DEF AnswerShape, DecodeAnswer, Header
          <5> QED
              BY <1>2, <5>2 DEF Modes
        <4> QED
            BY <4>1, <4>2, <4>3
      <3>4. Len(d) = 5 /\ p.nonce = d[4] /\ p.exp = d[5]
            BY <3>1, <3>3 DEF ChallengeShape
      <3>5. d[4] \in Numbers /\ d[5] \in Numbers
        <4>1. ~(conf.serverWire /\ \E n \in 1 .. Len(issued), e \in Ephs : d[1] = Replied(n, e, conf, issued))
          <5> SUFFICES ASSUME NEW n \in 1 .. Len(issued), NEW e \in Ephs, d[1] = Replied(n, e, conf, issued)
                       PROVE  FALSE
              OBVIOUS
          <5>1. n \in Nat /\ issued[n] \in Nat
            <6>1. issued \in Seq(1 .. MaxAttempts)
                  BY <2>1
            <6>2. issued[n] \in 1 .. MaxAttempts
                  BY <6>1, ElementOfSeq
            <6> QED
                BY <6>1, <6>2, WireAssumption
          <5>2. conf.secret \in Keys
                BY <2>1 DEF Confs
          <5>3. Replied(n, e, conf, issued) \in Boxes
                BY <5>1, <5>2, ChallengeOfBytes DEF Replied, Boxes
          <5> QED
              BY <3>2, <5>3, Distinct
        <4>2. Len(d) >= 1 /\ d[1] # Junk
              BY <3>2, <3>4, WireAssumption
        <4> QED
            BY <2>1, <3>4, <4>1, <4>2 DEF ClientFine
      <3>6. c \in Challenges
            BY <3>4, <3>5 DEF Challenges
      <3>7. c # NoEntry
            BY <3>6, SymbolAssumption
      <3> HIDE DEF c
      <3>8. /\ client' \in Cycle /\ client'.pc = "sign" /\ client'.challenge = c
            /\ client'.mode = client.mode /\ client'.param = client.param
            BY <2>0, <2>1, <3>6 DEF Cycle
      <3>9. ReplyIsForHello'
            BY <2>4 DEF Receive, ReplyIsForHello
      <3> QED
          BY <1>0, <3>7, <3>8, <3>9, ClientStays DEF Receive
    <2> QED
        BY <2>3, <2>4
  <1> QED
      BY <1>1, <1>2

(* frame_outbound and send: a packet built as it should be goes out.        *)
LEMMA SendInv ==
    ASSUME Inv, NEW p, NEW use \in {"hello", "answer"}, Sends(p, use),
           BuiltOk(p, conf, client.mode, client.param), client.pc # "idle",
           NEW pc \in {"wait", "done"}, client' = [client EXCEPT !.pc = pc],
           UNCHANGED <<conf, issued, earlier, lease, altered, faulty, accepted, hooks>>
    PROVE  Inv'
  <1>1. /\ conf \in Confs /\ client \in Cycle /\ built \subseteq Hellos \cup Answers
        /\ net \in [server : SUBSET Seq(AnyBytes), client : SUBSET Seq(AnyBytes)]
        BY DEF Inv, TypeOK, WireInv, NetType
  <1>2. /\ client' \in Cycle /\ client'.pc = pc /\ client'.mode = client.mode
        /\ client'.param = client.param /\ client'.challenge = client.challenge
        /\ client'.attempt = client.attempt
        BY <1>1 DEF Cycle
  <1>3. PICK e \in Ephs : e = Eph(use)
        BY <1>1 DEF Eph, Ephs, Cycle
  <1> DEFINE f == Framed(p, e, conf)
  <1>4. Frame(p, use) = f
        BY <1>3 DEF Frame, Framed
  <1>5. /\ built' = built \cup {p} /\ sent' = sent \cup {f}
        /\ net' = [net EXCEPT !.server = @ \cup {f}]
        BY <1>4 DEF Sends
  <1>6. ServerFine(f, conf, built')
        BY <1>1, <1>5, FrameFine
  <1>7. f \in Seq(AnyBytes)
        BY <1>6 DEF ServerFine
  <1>8. Framed(p, e, conf)' = f
        BY DEF Framed, Encode, Seal, Prefix
  <1>9. /\ net'.server = net.server \cup {f} /\ net'.client = net.client /\ NetType'
        BY <1>1, <1>5, <1>7 DEF NetType
  <1> HIDE DEF f
  <1>10. TypeOK'
    <2>1. p \in Hellos \cup Answers
          BY BuiltBytes
    <2> QED
        BY <1>1, <1>2, <1>5, <2>1 DEF Inv, TypeOK
  <1>11. BuiltInv'
        BY <1>2, <1>5 DEF Inv, WireInv, BuiltInv
  <1>12. CycleInv'
        BY <1>2 DEF Inv, WireInv, CycleInv
  <1>13. SentInv'
    <2>1. ASSUME NEW d \in sent PROVE d \in net'.server /\ \E q \in built', g \in Ephs : d = Framed(q, g, conf)
          BY <1>5, <1>9 DEF Inv, WireInv, SentInv
    <2>2. f \in net'.server /\ p \in built' /\ f = Framed(p, e, conf)
          BY <1>5, <1>9 DEF f
    <2> QED
        BY <1>5, <2>1, <2>2 DEF SentInv
  <1>14. ServerInv'
    <2>1. ASSUME NEW d \in net.server PROVE ServerFine(d, conf, built')
          BY <1>5, ServerFineStays DEF Inv, WireInv, ServerInv
    <2> QED
        BY <1>6, <1>9, <2>1 DEF ServerInv
  <1>15. ClientInv'
        BY <1>9 DEF Inv, WireInv, ClientInv
  <1>16. FaultyInv'
        BY <1>5 DEF Inv, WireInv, FaultyInv, Parsed, Opens
  <1>17. AcceptedAsBuilt' /\ ParamReachesHook' /\ LeaseInv'
        BY <1>2, <1>5 DEF Inv, AcceptedAsBuilt, ParamReachesHook, LeaseInv
  <1>18. ReplyIsForHello'
        BY <1>2 DEF Inv, ReplyIsForHello
  <1> QED
      BY <1>9, <1>10, <1>11, <1>12, <1>13, <1>14, <1>15, <1>16, <1>17, <1>18 DEF Inv, WireInv

(* Steps 1 and 2 of attempt_once.                                           *)
LEMMA SendHelloInv == ASSUME Inv, SendHello PROVE Inv'
  <1> DEFINE k == client.attempt
             p == [type |-> "hello", id |-> Me, time |-> k, nonce |-> k, sig |-> HelloPayload(Me, k, k)]
  <1>1. k \in 1 .. MaxAttempts /\ k \in Nat
        BY WireAssumption DEF Inv, TypeOK, Cycle
  <1>2. HelloPayload(Me, k, k) \in HelloPayloads
        BY <1>1 DEF HelloPayload, HelloPayloads, Numbers
  <1>3. BuiltHello(p)
    <2>1. p \in Hellos
          BY <1>1, <1>2 DEF Hellos
    <2>2. p.id = Me /\ p.time = k /\ p.nonce = k /\ p.sig = HelloPayload(Me, k, k)
          OBVIOUS
    <2> QED
        BY <1>1, <2>1, <2>2 DEF BuiltHello
  <1>4. Sends(p, "hello") /\ client.pc # "idle" /\ client' = [client EXCEPT !.pc = "wait"]
        BY DEF SendHello
  <1> HIDE DEF p
  <1> QED
      BY <1>3, <1>4, SendInv DEF SendHello, BuiltOk

(* seal_param: a sealed parameter fits the length prefix.                   *)
LEMMA SealedParam ==
    ASSUME NEW cf \in Confs, NEW e \in Ephs, NEW text \in Params, Len(text) <= cf.paramMax
    PROVE  LET b == Seal(cf.pub, e, text, "param") IN b \in Seq(ParamBytes) /\ Len(b) < LenMod
  <1> DEFINE made == [to |-> cf.pub, eph |-> e, context |-> "param", inner |-> text]
             b == Box(made, Overhead)
  <1>1. Seal(cf.pub, e, text, "param") = b
        BY DEF Seal
  <1>2. cf.pub \in Keys /\ cf.paramMax \in ParamLimits
        BY DEF Confs
  <1>3. made \in ParamBoxes /\ made.inner = text
        BY <1>2 DEF ParamBoxes
  <1>4. text \in Seq(STRING) /\ Overhead \in Nat \ {0}
        BY WireAssumption
  <1> HIDE DEF made
  <1>5. b \in Seq({made, Cipher}) /\ Len(b) = Overhead + Len(text)
        BY <1>3, <1>4, BoxBytes
  <1>6. {made, Cipher} \subseteq ParamBytes
        BY <1>3 DEF ParamBytes
  <1>7. b \in Seq(ParamBytes)
        BY <1>5, <1>6, SeqMonotonic
  <1>8. Len(b) < LenMod
    <2>1. /\ cf.paramMax \in Nat /\ Overhead + cf.paramMax < LenMod /\ LenMod \in Nat /\ Overhead \in Nat
          BY <1>2, WireAssumption
    <2>2. PICK n \in Nat : n = Len(text)
          BY <1>4
    <2>3. n <= cf.paramMax /\ Len(b) = Overhead + n
          BY <1>5, <2>2
    <2> QED
        BY <2>1, <2>3
  <1> QED
      BY <1>1, <1>7, <1>8

(* Steps 4 to 6 of attempt_once.                                            *)
LEMMA SendAnswerInv == ASSUME Inv, SendAnswer PROVE Inv'
  <1>0. /\ client.pc = "sign" /\ client \in Cycle /\ conf \in Confs /\ client.challenge # NoEntry
        BY DEF SendAnswer, Inv, TypeOK, WireInv, CycleInv
  <1>1. CASE client.param # NoEntry /\ conf.pub = NoEntry
        BY <1>0, <1>1, RetryInv DEF SendAnswer
  <1>2. CASE ~(client.param # NoEntry /\ conf.pub = NoEntry)
    <2> DEFINE param == IF client.param = NoEntry THEN <<>>
                        ELSE Seal(conf.pub, Eph("param"), client.param, "param")
               c == client.challenge
               sig == AnswerPayload(client.mode, Me, c.nonce, 1, c.exp, param)
               p == [type |-> client.mode, id |-> Me, nonce |-> c.nonce, interval |-> 1,
                     param |-> param, sig |-> sig]
    <2>1. Sends(p, "answer") /\ client' = [client EXCEPT !.pc = "done"]
          BY <1>2 DEF SendAnswer
    <2>2. Eph("param") \in Ephs
          BY <1>0 DEF Eph, Ephs, Cycle
    <2>3. /\ param \in Seq(ParamBytes) /\ Len(param) < LenMod
          /\ client.param = NoEntry => param = <<>>
          /\ client.param # NoEntry => \E e \in Ephs : param = Seal(conf.pub, e, client.param, "param")
      <3>1. CASE client.param = NoEntry
            BY <3>1, WireAssumption
      <3>2. CASE client.param # NoEntry
        <4>1. client.param \in Params /\ Len(client.param) <= conf.paramMax
              BY <1>0, <3>2 DEF Cycle, Inv, WireInv, CycleInv
        <4>2. param = Seal(conf.pub, Eph("param"), client.param, "param")
              BY <3>2
        <4> HIDE DEF param
        <4>3. param \in Seq(ParamBytes) /\ Len(param) < LenMod
              BY <1>0, <2>2, <4>1, <4>2, SealedParam
        <4> QED
            BY <2>2, <3>2, <4>2, <4>3
      <3> QED
          BY <3>1, <3>2
    <2> HIDE DEF param
    <2>4. client.mode \in Modes /\ c.nonce \in Numbers /\ c.exp \in Numbers
          BY <1>0 DEF Cycle, Challenges
    <2>5. sig \in AnswerPayloads(ParamBytes)
          BY <2>3, <2>4 DEF AnswerPayload, AnswerPayloads, Numbers
    <2>6. p \in Answers
          BY <2>3, <2>4, <2>5 DEF Answers
    <2>7. /\ p.type = client.mode /\ p.id = Me /\ p.nonce = c.nonce /\ p.interval = 1
          /\ p.param = param /\ p.sig = sig
          OBVIOUS
    <2> HIDE DEF p
    <2>8. \E exp \in Numbers : p.sig = AnswerPayload(p.type, p.id, p.nonce, p.interval, exp, p.param)
          BY <2>4, <2>7
    <2>9. BuiltAnswer(p, conf, client.mode, client.param)
          BY <2>3, <2>6, <2>7, <2>8 DEF BuiltAnswer
    <2> QED
        BY <1>0, <2>1, <2>9, SendInv DEF SendAnswer, BuiltOk
  <1> QED
      BY <1>1, <1>2

(* handle_datagram: a datagram is faulty for good.                          *)
LEMMA FaultyStep == ASSUME Inv, NEW d \in net.server, HandleFaulty(d) PROVE Inv'
  <1>1. FaultyInv'
    <2>1. /\ faulty' = faulty \cup ({d} \cap sent) /\ Parsed(d) = NoEntry
          /\ UNCHANGED <<conf, sent>>
          BY DEF HandleFaulty
    <2>2. \A b \in faulty' : b \in sent /\ Parsed(b) = NoEntry
          BY <2>1 DEF Inv, WireInv, FaultyInv
    <2> QED
        BY <2>1, <2>2 DEF FaultyInv, Parsed, Opens
  <1>2. NetType' /\ BuiltInv' /\ CycleInv' /\ SentInv' /\ ServerInv' /\ ClientInv'
        BY DEF HandleFaulty, Inv, WireInv, NetType, BuiltInv, CycleInv, SentInv, ServerInv, ClientInv
  <1>3. TypeOK' /\ AcceptedAsBuilt' /\ ParamReachesHook' /\ LeaseInv' /\ ReplyIsForHello'
        BY DEF HandleFaulty, Inv, TypeOK, AcceptedAsBuilt, ParamReachesHook, LeaseInv, ReplyIsForHello
  <1> QED
      BY <1>1, <1>2, <1>3 DEF Inv, WireInv

(* handle_hello: the CHALLENGE goes to the HELLO's ephemeral key, bound to  *)
(* its nonce; those already sent stay as they are.                          *)
LEMMA HandleHelloInv == ASSUME Inv, NEW d \in net.server, HandleHello(d) PROVE Inv'
  <1> DEFINE p == Parsed(d)
             n == Len(issued) + 1
             r == Reply(ChallengeOf(n), d, p.nonce)
  <1>1. /\ p # NoEntry /\ p.type = "hello" /\ p.id = Me
        /\ p.sig = HelloPayload(p.id, p.time, p.nonce)
        /\ n <= MaxNonces /\ issued' = Append(issued, p.nonce) /\ accepted' = accepted \cup {p}
        BY DEF HandleHello
  <1>2. net' = [net EXCEPT !.client = @ \cup {r}]
        BY <1>1 DEF HandleHello, ChallengeOf
  <1>3. UNCHANGED <<conf, client, earlier, lease, altered, faulty, sent, built, hooks>>
        BY DEF HandleHello
  <1>4. /\ TypeOK /\ BuiltInv /\ ServerFine(d, conf, built) /\ conf \in Confs
        /\ issued \in Seq(1 .. MaxAttempts)
        BY DEF Inv, WireInv, ServerInv, TypeOK
  <1>5. p \in built /\ BuiltHello(p) /\ (conf.serverWire => d[1].eph \in Ephs)
        BY <1>1, <1>4, HelloBuilt
  <1>6. p.nonce \in 1 .. MaxAttempts /\ p.nonce \in Nat
        BY <1>5, WireAssumption DEF BuiltHello
  <1>7. issued \in Seq(Nat)
    <2>1. 1 .. MaxAttempts \subseteq Nat
          BY WireAssumption
    <2> QED
        BY <1>4, <2>1, SeqMonotonic
  <1>8. /\ issued' \in Seq(1 .. MaxAttempts) /\ Len(issued') = n /\ issued'[n] = p.nonce
        /\ \A m \in 1 .. Len(issued) : m \in 1 .. Len(issued') /\ issued'[m] = issued[m]
        BY <1>1, <1>4, <1>6, AppendProperties
  <1>9. issued' \in Seq(Nat) /\ n \in 1 .. Len(issued')
    <2>1. issued' \in Seq(Nat)
          BY <1>1, <1>6, <1>7, AppendProperties
    <2>2. n \in 1 .. n
          BY <1>7
    <2> QED
        BY <1>8, <2>1, <2>2
  <1> HIDE DEF p, n
  <1>10. ClientFine(r, conf, issued')
    <2>1. r = IF conf.serverWire THEN SealReply(conf.secret, d[1].eph, Encode(ChallengeOf(n)), issued'[n])
              ELSE Encode(ChallengeOf(n))
          BY <1>8 DEF Reply
    <2> HIDE DEF r
    <2> QED
        BY <1>4, <1>5, <1>9, <2>1, ReplyFine
  <1> HIDE DEF r
  <1>11. r \in Seq(AnyBytes)
        BY <1>10 DEF ClientFine
  <1>12. net \in [server : SUBSET Seq(AnyBytes), client : SUBSET Seq(AnyBytes)]
        BY DEF Inv, WireInv, NetType
  <1>13. net'.server = net.server /\ net'.client = net.client \cup {r} /\ NetType'
        BY <1>2, <1>11, <1>12 DEF NetType
  <1>14. ClientInv'
    <2>1. ASSUME NEW b \in net.client PROVE ClientFine(b, conf, issued')
          BY <1>1, <1>6, <1>7, ClientFineStays DEF Inv, WireInv, ClientInv
    <2> QED
        BY <1>3, <1>10, <1>13, <2>1 DEF ClientInv
  <1>15. TypeOK'
        BY <1>1, <1>3, <1>4, <1>8 DEF TypeOK
  <1>16. BuiltInv' /\ CycleInv' /\ SentInv' /\ ServerInv'
        BY <1>3, <1>13 DEF Inv, WireInv, BuiltInv, CycleInv, SentInv, ServerInv
  <1>17. FaultyInv'
        BY <1>3 DEF Inv, WireInv, FaultyInv, Parsed, Opens
  <1>18. AcceptedAsBuilt' /\ ParamReachesHook' /\ LeaseInv'
        BY <1>1, <1>3, <1>5 DEF Inv, AcceptedAsBuilt, ParamReachesHook, LeaseInv
  <1>19. ReplyIsForHello'
    <2> SUFFICES ASSUME conf.wire, client.challenge # NoEntry
                 PROVE  LET c == client.challenge
                        IN  /\ conf.pub = conf.secret
                            /\ c.nonce \in DOMAIN issued' /\ c.exp = c.nonce
                            /\ issued'[c.nonce] = client.attempt
        BY <1>3 DEF ReplyIsForHello
    <2> DEFINE c == client.challenge
    <2>1. /\ conf.pub = conf.secret /\ c.nonce \in DOMAIN issued /\ c.exp = c.nonce
          /\ issued[c.nonce] = client.attempt
          BY DEF Inv, ReplyIsForHello
    <2>2. DOMAIN issued = 1 .. Len(issued) /\ DOMAIN issued' = 1 .. Len(issued')
          BY <1>4, <1>8
    <2> QED
        BY <1>8, <2>1, <2>2
  <1> QED
      BY <1>13, <1>14, <1>15, <1>16, <1>17, <1>18, <1>19 DEF Inv, WireInv

(* decrypt_param: what it lets through is what was sealed.                  *)
LEMMA ParamKept ==
    ASSUME NEW p, BuiltAnswer(p, conf, client.mode, client.param), conf \in Confs, client \in Cycle,
           NEW t \in DecryptParam(p.param)
    PROVE  t = client.param
  <1>1. CASE client.param = NoEntry
        BY <1>1 DEF BuiltAnswer, DecryptParam
  <1>2. CASE client.param # NoEntry
    <2>1. PICK e \in Ephs : p.param = Seal(conf.pub, e, client.param, "param")
          BY <1>2 DEF BuiltAnswer
    <2> DEFINE made == [to |-> conf.pub, eph |-> e, context |-> "param", inner |-> client.param]
    <2>2. p.param = Box(made, Overhead)
          BY <2>1 DEF Seal
    <2>3. client.param \in Seq(STRING) /\ Overhead \in Nat \ {0}
          BY <1>2, WireAssumption DEF Cycle
    <2>4. made.inner = client.param
          OBVIOUS
    <2> HIDE DEF made
    <2>5. /\ p.param \in Seq({made, Cipher}) /\ p.param[1] = made
          /\ Len(p.param) = Overhead + Len(client.param)
          BY <2>2, <2>3, <2>4, BoxBytes
    <2>6. p.param # <<>>
          BY <2>3, <2>5
    <2>7. t = p.param[1].inner
          BY <2>6 DEF DecryptParam
    <2> QED
        BY <2>4, <2>5, <2>7
  <1> QED
      BY <1>1, <1>2

(* handle_response, handle_bye: a packet that is verified was built in this *)
(* cycle, and what is decrypted of it is the cycle's parameter.             *)
LEMMA VerifiedBuilt ==
    ASSUME Inv, NEW d \in net.server, NEW mode \in Modes, Verifies(d, mode)
    PROVE  /\ mode = client.mode /\ client.pc # "idle" /\ AcceptedAsBuilt'
           /\ DecryptParam(Parsed(d).param) \subseteq {client.param}
           /\ client.param \in Params \cup {NoEntry}
  <1> DEFINE p == Parsed(d)
  <1>1. /\ p # NoEntry /\ p.type = mode /\ p.type \in Modes /\ p.id = Me /\ p.nonce \in DOMAIN issued
        /\ p.sig = AnswerPayload(p.type, p.id, p.nonce, p.interval, p.nonce, p.param)
        /\ accepted' = accepted \cup {p} /\ UNCHANGED built
        BY DEF Verifies
  <1>2. TypeOK /\ BuiltInv /\ ServerFine(d, conf, built) /\ conf \in Confs /\ client \in Cycle
        BY DEF Inv, WireInv, ServerInv, TypeOK
  <1>3. p \in built /\ BuiltAnswer(p, conf, client.mode, client.param)
        BY <1>1, <1>2, AnswerBuilt
  <1> HIDE DEF p
  <1>4. mode = client.mode
        BY <1>1, <1>3 DEF BuiltAnswer
  <1>5. client.pc # "idle"
        BY <1>3 DEF Inv, WireInv, CycleInv
  <1>6. AcceptedAsBuilt'
        BY <1>1, <1>3 DEF Inv, AcceptedAsBuilt
  <1>7. DecryptParam(p.param) \subseteq {client.param}
        BY <1>2, <1>3, ParamKept
  <1> QED
      BY <1>2, <1>4, <1>5, <1>6, <1>7 DEF Cycle, p

(* Their steps change the lease and the hooks only.                         *)
LEMMA AnswerStep ==
    ASSUME Inv, NEW d \in net.server, NEW mode \in Modes, Verifies(d, mode),
           lease' \subseteq lease \cup {client.param}, ParamReachesHook', LeaseInv'
    PROVE  Inv'
  <1>1. UNCHANGED <<conf, client, net, issued, earlier, altered, faulty, sent, built>>
        BY DEF Verifies
  <1>2. client.pc # "idle" /\ AcceptedAsBuilt' /\ client.param \in Params \cup {NoEntry}
        BY VerifiedBuilt
  <1>3. CycleInv'
        BY <1>1, <1>2 DEF Inv, WireInv, CycleInv
  <1>4. NetType' /\ BuiltInv' /\ SentInv' /\ ServerInv' /\ ClientInv'
        BY <1>1 DEF Inv, WireInv, NetType, BuiltInv, SentInv, ServerInv, ClientInv
  <1>5. FaultyInv'
        BY <1>1 DEF Inv, WireInv, FaultyInv, Parsed, Opens
  <1>6. TypeOK' /\ ReplyIsForHello'
        BY <1>1, <1>2 DEF Inv, TypeOK, ReplyIsForHello
  <1> QED
      BY <1>2, <1>3, <1>4, <1>5, <1>6 DEF Inv, WireInv

(* handle_response: the grant hook and the lease get the cycle's parameter. *)
LEMMA HandleResponseInv == ASSUME Inv, NEW d \in net.server, HandleResponse(d) PROVE Inv'
  <1> DEFINE param == DecryptParam(Parsed(d).param)
  <1>1. /\ Verifies(d, "response") /\ "response" \in Modes
        /\ lease' = lease \/ lease' = param
        /\ hooks' = hooks \/ hooks' = hooks \cup Calls("response", param)
        BY DEF HandleResponse, Modes
  <1>2. client.mode = "response" /\ client.pc # "idle" /\ param \subseteq {client.param}
        BY <1>1, VerifiedBuilt
  <1>3. UNCHANGED <<client, earlier>>
        BY <1>1 DEF Verifies
  <1> HIDE DEF param
  <1>4. ParamReachesHook'
        BY <1>1, <1>2, <1>3 DEF Inv, ParamReachesHook, Calls
  <1>5. LeaseInv'
        BY <1>2, <1>3 DEF LeaseInv
  <1> QED
      BY <1>1, <1>2, <1>4, <1>5, AnswerStep

(* handle_bye: the revoke hook gets the cycle's parameter or, if there is   *)
(* none, that of the lease, which is the one the client had before.         *)
LEMMA HandleByeInv == ASSUME Inv, NEW d \in net.server, HandleBye(d) PROVE Inv'
  <1> DEFINE param == DecryptParam(Parsed(d).param)
             params == {RevokeParam(t, stored) : t \in param, stored \in lease}
  <1>1. /\ Verifies(d, "bye") /\ "bye" \in Modes
        /\ lease' \subseteq lease
        /\ hooks' = hooks \/ hooks' = hooks \cup Calls("bye", params)
        BY DEF HandleBye, Modes
  <1>2. client.mode = "bye" /\ client.pc # "idle" /\ param \subseteq {client.param}
        BY <1>1, VerifiedBuilt
  <1>3. UNCHANGED <<client, earlier>> /\ lease \subseteq earlier
        BY <1>1, <1>2 DEF Verifies, Inv, LeaseInv
  <1>4. \A t \in params : earlier # {} /\ IF client.param # NoEntry THEN t = client.param
                                                                   ELSE t \in earlier
    <2> HIDE DEF param
    <2> QED
        BY <1>2, <1>3 DEF RevokeParam
  <1> HIDE DEF params
  <1>5. ParamReachesHook'
        BY <1>1, <1>2, <1>3, <1>4 DEF Inv, ParamReachesHook, Calls
  <1>6. LeaseInv'
        BY <1>1, <1>3 DEF LeaseInv
  <1> QED
      BY <1>1, <1>5, <1>6, AnswerStep

(* The network alters a datagram on its way.                                *)
LEMMA AlterInv == ASSUME Inv, Alter PROVE Inv'
  <1>1. UNCHANGED <<conf, client, issued, earlier, lease, faulty, sent, built, accepted, hooks>>
        BY DEF Alter
  <1>2. net \in [server : SUBSET Seq(AnyBytes), client : SUBSET Seq(AnyBytes)]
        BY DEF Inv, WireInv, NetType
  <1>3. TypeOK'
    <2>1. altered' \in 0 .. MaxAltered
          BY WireAssumption DEF Alter, Inv, TypeOK
    <2> QED
        BY <1>1, <2>1 DEF Inv, TypeOK
  <1>4. NetType' /\ SentInv' /\ ServerInv' /\ ClientInv'
    <2>1. ASSUME NEW o \in sent, NEW b \in Alterations(o), net' = [net EXCEPT !.server = @ \cup {b}]
          PROVE  NetType' /\ SentInv' /\ ServerInv' /\ ClientInv'
      <3>1. ServerFine(o, conf, built)
            BY DEF Inv, WireInv, SentInv, ServerInv
      <3>2. ServerFine(b, conf, built)
            BY <3>1, AlterFine
      <3>3. b \in Seq(AnyBytes)
            BY <3>2 DEF ServerFine
      <3>4. net'.server = net.server \cup {b} /\ net'.client = net.client /\ NetType'
            BY <1>2, <2>1, <3>3 DEF NetType
      <3>5. SentInv'
            BY <1>1, <3>4 DEF Inv, WireInv, SentInv
      <3>6. ServerInv'
            BY <1>1, <3>2, <3>4 DEF Inv, WireInv, ServerInv
      <3>7. ClientInv'
            BY <1>1, <3>4 DEF Inv, WireInv, ClientInv
      <3> QED
          BY <3>4, <3>5, <3>6, <3>7
    <2>2. ASSUME NEW o \in net.client, NEW b \in Alterations(o),
                 net' = [net EXCEPT !.client = @ \cup {b}]
          PROVE  NetType' /\ SentInv' /\ ServerInv' /\ ClientInv'
      <3>1. ClientFine(o, conf, issued)
            BY DEF Inv, WireInv, ClientInv
      <3>2. ClientFine(b, conf, issued)
            BY <3>1, ClientAlterFine
      <3>3. b \in Seq(AnyBytes)
            BY <3>2 DEF ClientFine
      <3>4. net'.client = net.client \cup {b} /\ net'.server = net.server /\ NetType'
            BY <1>2, <2>2, <3>3 DEF NetType
      <3>5. SentInv' /\ ServerInv'
            BY <1>1, <3>4 DEF Inv, WireInv, SentInv, ServerInv
      <3>6. ClientInv'
            BY <1>1, <3>2, <3>4 DEF Inv, WireInv, ClientInv
      <3> QED
          BY <3>4, <3>5, <3>6
    <2> QED
        BY <2>1, <2>2 DEF Alter
  <1>5. BuiltInv' /\ CycleInv'
        BY <1>1 DEF Inv, WireInv, BuiltInv, CycleInv
  <1>6. FaultyInv'
        BY <1>1 DEF Inv, WireInv, FaultyInv, Parsed, Opens
  <1>7. AcceptedAsBuilt' /\ ParamReachesHook' /\ LeaseInv' /\ ReplyIsForHello'
        BY <1>1 DEF Inv, AcceptedAsBuilt, ParamReachesHook, LeaseInv, ReplyIsForHello
  <1> QED
      BY <1>3, <1>4, <1>5, <1>6, <1>7 DEF Inv, WireInv

LEMMA StutterInv == ASSUME Inv, UNCHANGED vars PROVE Inv'
  <1>1. TypeOK' /\ AcceptedAsBuilt' /\ ParamReachesHook' /\ LeaseInv' /\ ReplyIsForHello'
        BY DEF vars, Inv, TypeOK, AcceptedAsBuilt, ParamReachesHook, LeaseInv, ReplyIsForHello
  <1>2. NetType' /\ BuiltInv' /\ CycleInv' /\ SentInv' /\ ServerInv' /\ ClientInv'
        BY DEF vars, Inv, WireInv, NetType, BuiltInv, CycleInv, SentInv, ServerInv, ClientInv
  <1>3. FaultyInv'
        BY DEF vars, Inv, WireInv, FaultyInv, Parsed, Opens
  <1> QED
      BY <1>1, <1>2, <1>3 DEF Inv, WireInv

LEMMA NextInv == Inv /\ [Next]_vars => Inv'
  <1> SUFFICES ASSUME Inv, [Next]_vars PROVE Inv'
      OBVIOUS
  <1>1. CASE UNCHANGED vars
        BY <1>1, StutterInv
  <1>2. ASSUME NEW mode \in Modes, NEW param \in Params \cup {NoEntry}, Begin(mode, param)
        PROVE  Inv'
        BY <1>2, BeginInv
  <1>3. CASE SendHello
        BY <1>3, SendHelloInv
  <1>4. CASE TimeOut
    <2>1. client.pc # "idle" /\ client' = NextAttempt
          BY <1>4 DEF TimeOut
    <2> QED
        BY <1>4, <2>1, RetryInv DEF TimeOut
  <1>5. CASE SendAnswer
        BY <1>5, SendAnswerInv
  <1>6. ASSUME NEW d \in net.client, Receive(d) PROVE Inv'
        BY <1>6, ReceiveInv
  <1>7. ASSUME NEW d \in net.server,
               HandleFaulty(d) \/ HandleHello(d) \/ HandleResponse(d) \/ HandleBye(d)
        PROVE  Inv'
        BY <1>7, FaultyStep, HandleHelloInv, HandleResponseInv, HandleByeInv
  <1>8. CASE Alter
        BY <1>8, AlterInv
  <1> QED
      BY <1>1, <1>2, <1>3, <1>4, <1>5, <1>6, <1>7, <1>8 DEF Next

LEMMA Invariance == Spec => []Inv
  BY InitInv, NextInv, PTL DEF Spec

-----------------------------------------------------------------------------
(* The theorems.                                                           *)

(* The configurations, the cycle and the packets built stay what they are   *)
(* declared to be, for any keys, parameters and limits.                     *)
THEOREM TypeCorrect == Spec => []TypeOK
  <1>1. Inv => TypeOK
        BY DEF Inv
  <1> QED
      BY <1>1, Invariance, PTL

(* Packet::decode: whatever arrives at either side is exactly the encoding  *)
(* of what decode makes of it, for any parameter lengths and any number of  *)
(* alterations.                                                             *)
THEOREM OneEncodingHolds == Spec => []OneEncoding
  <1>1. ASSUME Inv PROVE OneEncoding
    <2>1. ASSUME NEW d \in net.server \cup net.client, Decode(d) # NoEntry
          PROVE  Encode(Decode(d)) = d
      <3>1. d \in Seq(AnyBytes)
            BY <1>1 DEF Inv, WireInv, ServerInv, ClientInv, ServerFine, ClientFine
      <3> QED
          BY <2>1, <3>1, DecodeExact
    <2> QED
        BY <2>1 DEF OneEncoding
  <1> QED
      BY <1>1, Invariance, PTL

(* handle_hello, handle_response, handle_bye: what the server verifies is   *)
(* what the client built, in cleartext too, whatever the network altered.   *)
THEOREM AcceptedAsBuiltHolds == Spec => []AcceptedAsBuilt
  <1>1. Inv => AcceptedAsBuilt
        BY DEF Inv
  <1> QED
      BY <1>1, Invariance, PTL

(* handle_datagram: between two sides that agree on encryption and key, no  *)
(* datagram the client sent counts as faulty, for any limits the            *)
(* configuration allows.                                                    *)
THEOREM OwnTrafficFaultlessHolds == Spec => []OwnTrafficFaultless
  <1>1. ASSUME Inv PROVE OwnTrafficFaultless
    <2> SUFFICES ASSUME Agree, NEW d \in sent PROVE Parsed(d) # NoEntry
        BY <1>1 DEF OwnTrafficFaultless, Inv, WireInv, FaultyInv
    <2>1. PICK p \in built, e \in Ephs : d = Framed(p, e, conf)
          BY <1>1 DEF Inv, WireInv, SentInv
    <2>2. BuiltOk(p, conf, client.mode, client.param) /\ conf \in Confs
          BY <1>1 DEF Inv, WireInv, BuiltInv, TypeOK
    <2>3. Encode(p) \in Seq(PacketBytes) /\ Decode(Encode(p)) = p /\ p # NoEntry
          BY <2>2, BuiltBytes
    <2>4. conf.wire = conf.serverWire /\ (conf.wire => conf.pub = conf.secret)
          BY DEF Agree
    <2>5. CASE conf.wire
      <3> DEFINE made == Made(p, e, conf)
      <3>1. made.inner = Encode(p) /\ made.eph = e
            BY DEF Made
      <3>2. d = Box(made, Overhead) /\ d = Seal(conf.secret, e, Encode(p), "wire")
            BY <2>1, <2>4, <2>5 DEF Framed, Seal, Made
      <3>3. made \notin {MAGIC, Cipher, Junk}
        <4>1. conf.pub \in Keys
              BY <2>2 DEF Confs
        <4>2. made \in Boxes
              BY <2>3, <4>1 DEF Made, Boxes
        <4> QED
            BY <4>2, Distinct
      <3> HIDE DEF made
      <3>4. made.inner \in Seq(PacketBytes) /\ Overhead \in Nat \ {0}
            BY <2>3, <3>1, WireAssumption
      <3>5. d \in Seq({made, Cipher}) /\ Len(d) = Overhead + Len(made.inner) /\ d[1] = made
            BY <3>2, <3>4, BoxBytes
      <3>6. d # <<>>
            BY <3>4, <3>5
      <3>7. Opens(conf.secret, d, "wire")
            BY <3>1, <3>2, <3>3, <3>5, <3>6 DEF Opens, IsBox
      <3> QED
          BY <2>3, <2>4, <2>5, <3>1, <3>5, <3>7 DEF Parsed
    <2>6. CASE ~conf.wire
          BY <2>1, <2>3, <2>4, <2>6 DEF Parsed, Framed
    <2> QED
        BY <2>5, <2>6
  <1> QED
      BY <1>1, Invariance, PTL

(* seal_param, decrypt_param, handle_response and handle_bye: whatever was  *)
(* stored before, altered or repeated, a grant hook runs with the cycle's   *)
(* parameter, and a BYE's revoke hook with the BYE's or else the lease's.   *)
THEOREM ParamReachesHookHolds == Spec => []ParamReachesHook
  <1>1. Inv => ParamReachesHook
        BY DEF Inv
  <1> QED
      BY <1>1, Invariance, PTL

(* seal_reply, open_reply: with encryption the client signs only for the    *)
(* CHALLENGE its server sent for the HELLO of the attempt it is in, however *)
(* many attempts and late or altered replies there are.                     *)
THEOREM ReplyIsForHelloHolds == Spec => []ReplyIsForHello
  <1>1. Inv => ReplyIsForHello
        BY DEF Inv
  <1> QED
      BY <1>1, Invariance, PTL

=============================================================================
