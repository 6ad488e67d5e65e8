------------------------- MODULE SerialFramingProofs -------------------------
(* Theorems about SerialFraming, for every payload that fits, every size   *)
(* of a byte and of the buffer, and every number of frames and faults.     *)
EXTENDS SerialFraming, SequenceTheorems, TLAPS

-----------------------------------------------------------------------------
(* The inductive invariant. *)

\* The bytes of the frame that were sent, or lost, so far.
Sent == Len(Encode(frame)) - Len(sending)

\* What is still to come is the rest of the frame.
LineInv ==
    sending # <<>> =>
        /\ frame \in Payloads /\ Sent >= 0
        /\ \A i \in 1 .. Len(sending) : sending[i] = Encode(frame)[Sent + i]

\* The call has read what was sent of the frame, and nothing since but that;
\* before the first byte it looks for a start byte, and may have seen one.
InStep ==
    /\ open
    /\ Sent = 0 => parser.state \in {"seekFirst", "seekSecond"}
    /\ Sent = 1 => parser.state = "seekSecond"
    /\ Sent = 2 => parser.state = "readLenHi"
    /\ Sent = 3 => parser.state = "readLenLo" /\ parser.hi = Len(frame) \div Base
    /\ Sent >= 4 =>
        /\ parser.state = "readBody" /\ parser.want = Len(frame)
        /\ Len(parser.body) = Sent - 4
        /\ \A i \in 1 .. Sent - 4 : parser.body[i] = frame[i]

DueInv ==
    due => IF sending = <<>> THEN open /\ parser.state = "seekFirst" ELSE InStep

Bytes == 0 .. Base - 1

\* The locals of ReceiveFromRadio.
ParserInv ==
    parser \in [state : States, hi : Bytes, want : 0 .. MaxEnvelopeBytes, body : Seq(Bytes)]

Inv == TypeOK /\ ParserInv /\ LineInv /\ DueInv

-----------------------------------------------------------------------------
(* Frames. *)

LEMMA Division ==
    ASSUME NEW b \in Nat, b > 0, NEW n \in Nat
    PROVE  /\ n \div b \in Nat /\ n % b \in 0 .. b - 1
           /\ b * (n \div b) + (n % b) = n
<1>1. n % b \in 0 .. b - 1
  OBVIOUS
<1>2. n \div b \in Nat
  OBVIOUS
<1>3. b * (n \div b) + (n % b) = n
  OBVIOUS
<1> QED BY <1>1, <1>2, <1>3

LEMMA TimesMonotonic ==
    ASSUME NEW b \in Nat, NEW q \in Nat, q >= b
    PROVE  b * q >= b * b
  OBVIOUS

\* The sizes, apart from what is assumed of the messages.
LEMMA Sizes ==
    /\ Base \in Nat \ {0} /\ MaxEnvelopeBytes \in Nat \ {0} /\ MaxEnvelopeBytes < Base * Base
    /\ Start1 \in Bytes /\ Start2 \in Bytes /\ Start1 # Start2 /\ StrayBytes \subseteq Bytes
    /\ 0 \in Bytes /\ MaxFrames \in Nat /\ MaxFaults \in Nat
  BY FramingAssumption DEF Bytes

\* Two bytes hold every length that is sent, and say it again.
LEMMA LengthBytes ==
    ASSUME NEW n \in 1 .. MaxEnvelopeBytes
    PROVE  /\ n \div Base \in Bytes /\ n % Base \in Bytes
           /\ Base * (n \div Base) + (n % Base) = n
<1>1. n \in Nat /\ n < Base * Base /\ Base \in Nat /\ Base > 0
  BY Sizes
<1> DEFINE q == n \div Base
           r == n % Base
<1>2. q \in Nat /\ r \in 0 .. Base - 1 /\ Base * q + r = n
  BY <1>1, Division
<1> HIDE DEF q, r
<1>3. q < Base
  <2> SUFFICES ASSUME q >= Base PROVE FALSE
    BY <1>1, <1>2
  <2>1. Base * q >= Base * Base
    BY <1>1, <1>2, TimesMonotonic
  <2> QED BY <1>1, <1>2, <2>1
<1>4. q \in Bytes /\ r \in Bytes /\ Base * q + r = n
  BY <1>1, <1>2, <1>3 DEF Bytes
<1> QED BY <1>4, Zenon DEF q, r

LEMMA EncodeShape ==
    ASSUME NEW p \in Payloads
    PROVE  /\ p \in Seq(Bytes) /\ Len(p) \in 1 .. MaxEnvelopeBytes
           /\ Encode(p) \in Seq(Bytes) /\ Len(Encode(p)) = Len(p) + 4
           /\ Encode(p)[1] = Start1 /\ Encode(p)[2] = Start2
           /\ Encode(p)[3] = Len(p) \div Base /\ Encode(p)[4] = Len(p) % Base
           /\ \A i \in 1 .. Len(p) : Encode(p)[i + 4] = p[i]
<1>1. p \in Seq(Bytes) /\ Len(p) \in 1 .. MaxEnvelopeBytes
  BY FramingAssumption DEF Bytes
<1> DEFINE head == <<Start1, Start2, Len(p) \div Base, Len(p) % Base>>
<1>2. head \in Seq(Bytes) /\ Len(head) = 4
  <2> DEFINE hi == Len(p) \div Base
             lo == Len(p) % Base
  <2>1. hi \in Bytes /\ lo \in Bytes
    BY <1>1, LengthBytes, Zenon
  <2>2. Start1 \in Bytes /\ Start2 \in Bytes
    BY Sizes
  <2> HIDE DEF hi, lo
  <2>3. <<Start1, Start2, hi, lo>> \in Seq(Bytes) /\ Len(<<Start1, Start2, hi, lo>>) = 4
    BY <2>1, <2>2
  <2> QED BY <2>3 DEF hi, lo
<1>3. head[1] = Start1 /\ head[2] = Start2 /\ head[3] = Len(p) \div Base /\ head[4] = Len(p) % Base
  OBVIOUS
<1>4. Encode(p) = head \o p
  BY DEF Encode
<1> HIDE DEF head
<1>5. /\ Encode(p) \in Seq(Bytes) /\ Len(Encode(p)) = 4 + Len(p)
      /\ \A i \in 1 .. 4 + Len(p) : Encode(p)[i] = IF i <= 4 THEN head[i] ELSE p[i - 4]
  <2>1. /\ head \o p \in Seq(Bytes) /\ Len(head \o p) = Len(head) + Len(p)
        /\ \A i \in 1 .. Len(head) + Len(p) :
              (head \o p)[i] = IF i <= Len(head) THEN head[i] ELSE p[i - Len(head)]
    BY <1>1, <1>2, ConcatProperties, Zenon
  <2> QED BY <1>2, <1>4, <2>1
<1>6. Len(p) \in Nat /\ \A i \in 1 .. 4 : Encode(p)[i] = head[i]
  BY <1>1, <1>5
<1>7. \A i \in 1 .. Len(p) : Encode(p)[i + 4] = p[i]
  <2> TAKE i \in 1 .. Len(p)
  <2>1. i + 4 \in 1 .. 4 + Len(p) /\ ~(i + 4 <= 4) /\ (i + 4) - 4 = i
    BY <1>6
  <2> QED BY <1>5, <2>1
<1> QED BY <1>1, <1>3, <1>5, <1>6, <1>7

-----------------------------------------------------------------------------
(* Type correctness. *)

LEMMA FreshTypes ==
    Fresh \in [state : States, hi : Bytes, want : 0 .. MaxEnvelopeBytes, body : Seq(Bytes)]
  BY Sizes DEF Fresh, States

\* The parts of the types that a call of ReceiveFromRadio changes, and those
\* of the line.
PortTypeOK ==
    /\ open \in BOOLEAN /\ timed \in BOOLEAN
    /\ parser \in [state : States, hi : Bytes, want : 0 .. MaxEnvelopeBytes, body : Seq(Bytes)]
    /\ parser.state = "readBody" =>
         parser.want \in 1 .. MaxEnvelopeBytes /\ Len(parser.body) < parser.want
    /\ parser.state # "seekFirst" => open /\ timed
    /\ returned # None => returned \in Seq(Bytes)

LineTypeOK ==
    /\ due \in BOOLEAN /\ frame \in Payloads \cup {None} /\ sending \in Seq(Bytes)
    /\ frames \in 0 .. MaxFrames /\ faults \in 0 .. MaxFaults

LEMMA TypeParts == TypeOK /\ ParserInv <=> PortTypeOK /\ LineTypeOK
<1>1. TypeOK /\ ParserInv => PortTypeOK
  BY DEF TypeOK, ParserInv, PortTypeOK, Bytes
<1>2. TypeOK => LineTypeOK
  BY DEF TypeOK, LineTypeOK, Bytes
<1>3. PortTypeOK /\ LineTypeOK => TypeOK /\ ParserInv
  BY DEF TypeOK, ParserInv, PortTypeOK, LineTypeOK, Bytes
<1> QED BY <1>1, <1>2, <1>3

\* A length beyond the buffer, or none, makes the call start again.
LEMMA LengthCases ==
    ASSUME NEW b \in Bytes, ReadLenLo(b)
    PROVE  \/ LET want == Base * parser.hi + b
              IN  /\ want \in 1 .. MaxEnvelopeBytes
                  /\ parser' = [parser EXCEPT !.state = "readBody", !.want = want, !.body = <<>>]
                  /\ timed' = TRUE /\ UNCHANGED open
           \/ parser' = Fresh /\ timed' = FALSE /\ (open' = open \/ open' = FALSE)
  BY DEF ReadLenLo

LEMMA ReadKeepsTypes ==
    ASSUME PortTypeOK, NEW b \in Bytes, Read(b)
    PROVE  PortTypeOK'
<1> USE DEF PortTypeOK
<1>0. \A e : <<>> \in Seq(Bytes) /\ Len(<<>>) = 0
  OBVIOUS
<1>1. CASE ~open /\ returned' = None /\ UNCHANGED port
  BY <1>1 DEF port
<1>2. CASE open /\ SeekFirst(b)
  BY <1>2 DEF SeekFirst, States
<1>3. CASE open /\ SeekSecond(b)
  BY <1>3 DEF SeekSecond, States
<1>4. CASE open /\ ReadLenHi(b)
  BY <1>4 DEF ReadLenHi, States
<1>5. CASE open /\ ReadLenLo(b)
  <2>1. returned' = None
    BY <1>5 DEF ReadLenLo
  <2>2. ASSUME NEW want \in 1 .. MaxEnvelopeBytes,
               parser' = [parser EXCEPT !.state = "readBody", !.want = want, !.body = <<>>],
               timed' = TRUE, UNCHANGED open
        PROVE  PortTypeOK'
    <3>1. want \in 0 .. MaxEnvelopeBytes /\ want > 0
      BY Sizes
    <3>2. parser' \in [state : States, hi : Bytes, want : 0 .. MaxEnvelopeBytes, body : Seq(Bytes)]
      BY <1>0, <2>2, <3>1 DEF States
    <3> QED BY <1>0, <1>5, <2>1, <2>2, <3>1, <3>2
  <2>3. CASE parser' = Fresh /\ timed' = FALSE /\ (open' = open \/ open' = FALSE)
    BY <2>1, <2>3, FreshTypes DEF Fresh
  <2> QED BY <1>5, <2>2, <2>3, LengthCases
<1>6. CASE open /\ ReadBody(b)
  <2> DEFINE body == Append(parser.body, b)
  <2>1. body \in Seq(Bytes) /\ parser.want \in 1 .. MaxEnvelopeBytes
    BY <1>6 DEF ReadBody
  <2>2. \/ Len(body) < parser.want /\ parser' = [parser EXCEPT !.body = body]
           /\ timed' = TRUE /\ returned' = None /\ UNCHANGED open
        \/ parser' = Fresh /\ timed' = FALSE /\ UNCHANGED open
           /\ (returned' = body \/ returned' = None)
    BY <1>6 DEF ReadBody
  <2> HIDE DEF body
  <2>3. CASE Len(body) < parser.want /\ parser' = [parser EXCEPT !.body = body]
               /\ timed' = TRUE /\ returned' = None /\ UNCHANGED open
    BY <1>6, <2>1, <2>3
  <2>4. CASE parser' = Fresh /\ timed' = FALSE /\ UNCHANGED open
               /\ (returned' = body \/ returned' = None)
    BY <2>1, <2>4, FreshTypes DEF Fresh
  <2> QED BY <2>2, <2>3, <2>4
<1> QED BY <1>1, <1>2, <1>3, <1>4, <1>5, <1>6 DEF Read

LEMMA TimeOutKeepsTypes == PortTypeOK /\ ReadTimesOut => PortTypeOK'
<1> SUFFICES ASSUME PortTypeOK, ReadTimesOut PROVE PortTypeOK'
  OBVIOUS
<1>1. CASE parser' = Fresh /\ timed' = FALSE /\ returned' = None /\ UNCHANGED open
  BY <1>1, FreshTypes DEF PortTypeOK, Fresh
<1>2. CASE UNCHANGED <<timed, parser, open>> /\ returned' = None
  BY <1>2 DEF PortTypeOK
<1> QED BY <1>1, <1>2 DEF ReadTimesOut

LEMMA TypeStep == PortTypeOK /\ LineTypeOK /\ [Next]_vars => PortTypeOK' /\ LineTypeOK'
<1> SUFFICES ASSUME PortTypeOK, LineTypeOK, [Next]_vars PROVE PortTypeOK' /\ LineTypeOK'
  OBVIOUS
<1>1. sending # <<>> => Head(sending) \in Bytes /\ Tail(sending) \in Seq(Bytes)
  BY DEF LineTypeOK
<1>2. ASSUME UNCHANGED port, returned' = None \/ returned' = returned PROVE PortTypeOK'
  BY <1>2 DEF PortTypeOK, port
<1>3. ASSUME NEW p \in Payloads, BeginFrame(p) PROVE PortTypeOK' /\ LineTypeOK'
  <2>1. Encode(p) \in Seq(Bytes)
    BY EncodeShape
  <2>2. LineTypeOK'
    BY <1>3, <2>1, Sizes DEF BeginFrame, LineTypeOK, PortTypeOK, Seeking
  <2> QED BY <1>2, <1>3, <2>2 DEF BeginFrame
<1>4. ASSUME SendByte PROVE PortTypeOK' /\ LineTypeOK'
  BY <1>1, <1>4, ReadKeepsTypes DEF SendByte, LineTypeOK
<1>5. ASSUME Fault, sending' \in Seq(Bytes) PROVE LineTypeOK'
  <2>0. MaxFaults \in Nat
    BY Sizes
  <2>1. faults + 1 \in 0 .. MaxFaults
    BY <1>5, <2>0 DEF Fault, LineTypeOK
  <2> QED BY <1>5, <2>1 DEF Fault, LineTypeOK
<1>6. ASSUME LoseByte PROVE PortTypeOK' /\ LineTypeOK'
  BY <1>1, <1>2, <1>5, <1>6 DEF LoseByte
<1>7. ASSUME NEW b \in StrayBytes, DamageByte(b) \/ Noise(b) PROVE PortTypeOK' /\ LineTypeOK'
  <2>1. b \in Bytes /\ sending \in Seq(Bytes)
    BY Sizes DEF LineTypeOK
  <2> QED BY <1>1, <1>5, <1>7, <2>1, ReadKeepsTypes DEF DamageByte, Noise
<1>8. ASSUME Gap PROVE PortTypeOK' /\ LineTypeOK'
  BY <1>8, TimeOutKeepsTypes DEF Gap, LineTypeOK, PortTypeOK
<1>9. ASSUME Stall PROVE PortTypeOK' /\ LineTypeOK'
  <2>1. sending \in Seq(Bytes)
    BY DEF LineTypeOK
  <2> QED BY <1>5, <1>9, <2>1, TimeOutKeepsTypes DEF Stall
<1>10. ASSUME LosePort PROVE PortTypeOK' /\ LineTypeOK'
  <2>1. sending \in Seq(Bytes)
    BY DEF LineTypeOK
  <2>2. PortTypeOK'
    BY <1>10, FreshTypes DEF LosePort, PortTypeOK, Fresh
  <2> QED BY <1>5, <1>10, <2>1, <2>2 DEF LosePort
<1>11. ASSUME Open PROVE PortTypeOK' /\ LineTypeOK'
  BY <1>11 DEF Open, PortTypeOK, LineTypeOK
<1>12. CASE UNCHANGED vars
  BY <1>2, <1>12 DEF vars, LineTypeOK
<1> QED BY <1>3, <1>4, <1>6, <1>7, <1>8, <1>9, <1>10, <1>11, <1>12 DEF Next

-----------------------------------------------------------------------------
(* The line. *)

\* The byte that comes next is that of the frame, and there is one while the
\* frame is not over.
LEMMA NextByte ==
    ASSUME LineTypeOK, LineInv, sending # <<>>
    PROVE  /\ frame \in Payloads /\ Len(frame) \in 1 .. MaxEnvelopeBytes /\ Len(sending) \in Nat
           /\ Sent \in 0 .. Len(frame) + 3
           /\ Head(sending) = Encode(frame)[Sent + 1]
           /\ Tail(sending) \in Seq(Bytes) /\ Len(Tail(sending)) = Len(sending) - 1
           /\ \A i \in 1 .. Len(Tail(sending)) : Tail(sending)[i] = sending[i + 1]
           /\ Sent = Len(frame) + 3 <=> Len(sending) = 1
           /\ Tail(sending) = <<>> <=> Len(sending) = 1
<1>1. /\ frame \in Payloads /\ Sent >= 0 /\ sending \in Seq(Bytes)
      /\ \A i \in 1 .. Len(sending) : sending[i] = Encode(frame)[Sent + i]
  BY DEF LineTypeOK, LineInv
<1>2. Len(sending) \in Nat /\ Len(sending) >= 1 /\ Head(sending) = sending[1]
  BY <1>1
<1>3. Len(frame) \in 1 .. MaxEnvelopeBytes /\ Len(Encode(frame)) = Len(frame) + 4
  BY <1>1, EncodeShape
<1>4. /\ Sent \in 0 .. Len(frame) + 3
      /\ (Sent = Len(frame) + 3) <=> (Len(sending) = 1)
  <2>1. Len(frame) \in Nat
    BY <1>3, Sizes
  <2>2. Sent = (Len(frame) + 4) - Len(sending)
    BY <1>3 DEF Sent
  <2>3. ASSUME NEW l \in Nat, NEW r \in Nat, r >= 1, NEW n \in Int, n = (l + 4) - r, n >= 0
        PROVE  n \in 0 .. l + 3 /\ (n = l + 3 <=> r = 1)
    BY <2>3
  <2>4. (Len(frame) + 4) - Len(sending) \in Int
    BY <1>2, <2>1
  <2> QED BY <1>1, <1>2, <2>1, <2>2, <2>3, <2>4
<1>5. /\ Tail(sending) \in Seq(Bytes) /\ Len(Tail(sending)) = Len(sending) - 1
      /\ \A i \in 1 .. Len(Tail(sending)) : Tail(sending)[i] = sending[i + 1]
  BY <1>1, HeadTailProperties
<1>6. Tail(sending) = <<>> <=> Len(sending) = 1
  <2>1. Tail(sending) = <<>> <=> Len(Tail(sending)) = 0
    BY <1>5, EmptySeq
  <2> QED BY <1>2, <1>5, <2>1
<1>7. Head(sending) = Encode(frame)[Sent + 1]
  BY <1>1, <1>2
<1> QED BY <1>1, <1>2, <1>3, <1>4, <1>5, <1>6, <1>7

\* A byte leaves the line, read or lost.
LEMMA LineMoves ==
    ASSUME LineTypeOK, LineInv, sending # <<>>, sending' = Tail(sending), frame' = frame
    PROVE  LineInv' /\ Sent' = Sent + 1
<1>1. Len(Encode(frame)) = Len(frame) + 4 /\ Len(frame) \in Nat
  BY NextByte, EncodeShape
<1>2. Len(sending) \in Nat /\ Sent \in Nat /\ Len(sending') = Len(sending) - 1
  BY NextByte
<1>3. Sent' = Sent + 1
  BY <1>1, <1>2 DEF Sent
<1>4. ASSUME NEW i \in 1 .. Len(sending') PROVE sending'[i] = Encode(frame')[Sent' + i]
  <2>1. i + 1 \in 1 .. Len(sending) /\ Sent' + i = Sent + (i + 1)
    BY <1>2, <1>3
  <2>2. sending'[i] = sending[i + 1]
    BY NextByte
  <2>3. sending[i + 1] = Encode(frame)[Sent + (i + 1)]
    BY <2>1 DEF LineInv
  <2> QED BY <2>1, <2>2, <2>3
<1>5. frame' \in Payloads /\ Sent' >= 0
  BY <1>2, <1>3, NextByte
<1> QED BY <1>3, <1>4, <1>5 DEF LineInv

LEMMA LineStep == LineTypeOK /\ LineInv /\ [Next]_vars => LineInv'
<1> SUFFICES ASSUME LineTypeOK, LineInv, [Next]_vars PROVE LineInv'
  OBVIOUS
<1>1. ASSUME NEW p \in Payloads, BeginFrame(p) PROVE LineInv'
  <2>1. frame' = p /\ sending' = Encode(p) /\ Len(Encode(p)) \in Nat
    BY <1>1, EncodeShape DEF BeginFrame
  <2>2. Sent' = 0
    BY <2>1 DEF Sent
  <2> QED BY <2>1, <2>2 DEF LineInv
<1>2. CASE sending # <<>> /\ sending' = Tail(sending) /\ frame' = frame
  BY <1>2, LineMoves
<1>3. CASE UNCHANGED <<sending, frame>>
  BY <1>3 DEF LineInv, Sent
<1>4. \/ \E p \in Payloads : BeginFrame(p)
      \/ sending # <<>> /\ sending' = Tail(sending) /\ frame' = frame
      \/ UNCHANGED <<sending, frame>>
  BY DEF Next, SendByte, LoseByte, Gap, Stall, LosePort, Open, DamageByte, Noise, Fault, vars
<1> QED BY <1>1, <1>2, <1>3, <1>4

-----------------------------------------------------------------------------
(* The frames that are due. *)

\* The call reads the next byte of a frame that is due: it stays in step, and
\* returns the frame with its last byte.
LEMMA ReadsInStep ==
    ASSUME PortTypeOK, LineTypeOK, LineInv, sending # <<>>, InStep,
           Read(Head(sending)), sending' = Tail(sending), frame' = frame
    PROVE  \/ sending' # <<>> /\ InStep' /\ returned' = None
           \/ sending' = <<>> /\ open' /\ parser'.state = "seekFirst" /\ returned' = frame
<1> DEFINE b == Head(sending)
<1>1. /\ frame \in Payloads /\ Len(frame) \in Nat /\ Len(frame) >= 1
      /\ Len(frame) \in 1 .. MaxEnvelopeBytes
      /\ Sent \in 0 .. Len(frame) + 3 /\ b = Encode(frame)[Sent + 1]
      /\ sending' = <<>> <=> Sent = Len(frame) + 3
  BY NextByte, Sizes
<1>2. Sent' = Sent + 1 /\ Sent \in Nat
  BY <1>1, LineMoves
<1>3. parser \in [state : States, hi : Bytes, want : 0 .. MaxEnvelopeBytes, body : Seq(Bytes)] /\ open
  BY DEF PortTypeOK, InStep
<1>4. SeekFirst(b) \/ SeekSecond(b) \/ ReadLenHi(b) \/ ReadLenLo(b) \/ ReadBody(b)
  BY <1>3 DEF Read
<1> HIDE DEF b
<1>5. CASE Sent = 0
  <2>1. b = Start1 /\ b # Start2 /\ parser.state \in {"seekFirst", "seekSecond"}
    BY <1>1, <1>5, EncodeShape, Sizes DEF InStep
  <2>2. open' /\ parser'.state = "seekSecond" /\ returned' = None
    BY <1>3, <1>4, <2>1 DEF SeekFirst, SeekSecond, ReadLenHi, ReadLenLo, ReadBody
  <2>3. sending' # <<>>
    BY <1>1, <1>5
  <2> QED BY <1>2, <1>5, <2>2, <2>3 DEF InStep
<1>6. CASE Sent = 1
  <2>1. b = Start2 /\ b # Start1 /\ parser.state = "seekSecond"
    BY <1>1, <1>6, EncodeShape, Sizes DEF InStep
  <2>2. open' /\ parser'.state = "readLenHi" /\ returned' = None
    BY <1>3, <1>4, <2>1 DEF SeekFirst, SeekSecond, ReadLenHi, ReadLenLo, ReadBody
  <2>3. sending' # <<>>
    BY <1>1, <1>6
  <2> QED BY <1>2, <1>6, <2>2, <2>3 DEF InStep
<1>7. CASE Sent = 2
  <2>1. b = Len(frame) \div Base /\ parser.state = "readLenHi"
    BY <1>1, <1>7, EncodeShape DEF InStep
  <2>2. open' /\ parser'.state = "readLenLo" /\ parser'.hi = b /\ returned' = None
    BY <1>3, <1>4, <2>1 DEF SeekFirst, SeekSecond, ReadLenHi, ReadLenLo, ReadBody
  <2>3. sending' # <<>>
    BY <1>1, <1>7
  <2> QED BY <1>2, <1>7, <2>1, <2>2, <2>3 DEF InStep
<1>8. CASE Sent = 3
  <2>1. b = Len(frame) % Base /\ parser.state = "readLenLo" /\ parser.hi = Len(frame) \div Base
    BY <1>1, <1>8, EncodeShape DEF InStep
  <2>2. Base * parser.hi + b = Len(frame)
    BY <1>1, <2>1, LengthBytes
  <2>3. ReadLenLo(b)
    BY <1>4, <2>1 DEF SeekFirst, SeekSecond, ReadLenHi, ReadBody
  <2>4. /\ parser' = [parser EXCEPT !.state = "readBody", !.want = Len(frame), !.body = <<>>]
        /\ UNCHANGED open /\ returned' = None
    <3> DEFINE want == Base * parser.hi + b
    <3>1. want = Len(frame)
      BY <2>2
    <3>2. \/ want > MaxEnvelopeBytes
          \/ want = 0
          \/ /\ parser' = [parser EXCEPT !.state = "readBody", !.want = want, !.body = <<>>]
             /\ UNCHANGED open
      BY <2>3 DEF ReadLenLo
    <3>3. returned' = None
      BY <2>3 DEF ReadLenLo
    <3> HIDE DEF want
    <3> QED BY <1>1, <3>1, <3>2, <3>3, Sizes
  <2>5. /\ open' /\ parser'.state = "readBody" /\ parser'.want = Len(frame)
        /\ Len(parser'.body) = 0
    BY <1>3, <2>4
  <2>6. sending' # <<>> /\ Sent' = 4
    BY <1>1, <1>2, <1>8
  <2> QED BY <2>4, <2>5, <2>6 DEF InStep
<1>9. CASE Sent >= 4
  <2>1. /\ parser.state = "readBody" /\ parser.want = Len(frame)
        /\ Len(parser.body) = Sent - 4
        /\ \A i \in 1 .. Sent - 4 : parser.body[i] = frame[i]
    BY <1>9 DEF InStep
  <2> DEFINE body == Append(parser.body, b)
  <2>2. b = frame[Sent - 3] /\ b \in Bytes /\ frame \in Seq(Bytes)
    <3>1. Sent - 3 \in 1 .. Len(frame) /\ (Sent - 3) + 4 = Sent + 1
      BY <1>1, <1>9
    <3>2. frame \in Seq(Bytes) /\ b = frame[Sent - 3]
      BY <1>1, <3>1, EncodeShape
    <3> QED BY <3>1, <3>2
  <2>3. /\ body \in Seq(Bytes) /\ Len(body) = Sent - 3
        /\ \A i \in 1 .. Sent - 3 : body[i] = frame[i]
    <3>1. /\ body \in Seq(Bytes) /\ Len(body) = Len(parser.body) + 1
          /\ \A i \in 1 .. Len(parser.body) : body[i] = parser.body[i]
          /\ body[Len(parser.body) + 1] = b
      BY <1>3, <2>2, AppendProperties
    <3> HIDE DEF body
    <3>2. Len(body) = Sent - 3
      BY <1>2, <2>1, <3>1
    <3>3. \A i \in 1 .. Sent - 3 : i \in 1 .. Sent - 4 \/ i = (Sent - 4) + 1
      BY <1>2, <1>9
    <3>4. (Sent - 4) + 1 = Sent - 3
      BY <1>2
    <3> QED BY <2>1, <2>2, <3>1, <3>2, <3>3, <3>4
  <2>4. ReadBody(b)
    BY <1>4, <2>1 DEF SeekFirst, SeekSecond, ReadLenHi, ReadLenLo
  <2>5. /\ UNCHANGED open
        /\ \/ /\ Len(body) < parser.want /\ parser' = [parser EXCEPT !.body = body]
              /\ returned' = None
           \/ /\ Len(body) = parser.want /\ parser' = Fresh
              /\ returned' = body \/ body \notin Payloads
    BY <2>4 DEF ReadBody
  <2> HIDE DEF body
  <2>6. CASE Sent = Len(frame) + 3
    <3>1. Len(body) = Len(frame)
      BY <1>1, <2>3, <2>6
    <3>2. body = frame
      BY <2>2, <2>3, <2>6, <3>1, SeqEqual
    <3> QED BY <1>1, <1>3, <2>1, <2>5, <2>6, <3>1, <3>2 DEF Fresh
  <2>7. CASE Sent # Len(frame) + 3
    <3>1. Len(body) # Len(frame) /\ sending' # <<>>
      BY <1>1, <2>3, <2>7
    <3>2. /\ parser'.state = "readBody" /\ parser'.want = Len(frame) /\ parser'.body = body
          /\ returned' = None /\ open'
      BY <1>3, <2>1, <2>5, <3>1
    <3>3. Sent' - 4 = Sent - 3 /\ Sent' >= 4 /\ Sent' \in Nat
      BY <1>2, <1>9
    <3>4. Len(parser'.body) = Sent' - 4 /\ \A i \in 1 .. Sent' - 4 : parser'.body[i] = frame'[i]
      BY <2>3, <3>2, <3>3
    <3>5. Sent' # 0 /\ Sent' # 1 /\ Sent' # 2 /\ Sent' # 3
      BY <3>3
    <3> QED BY <3>1, <3>2, <3>3, <3>4, <3>5 DEF InStep
  <2> QED BY <2>6, <2>7
<1> QED BY <1>1, <1>5, <1>6, <1>7, <1>8, <1>9

LEMMA DueStep == Inv /\ [Next]_vars => DueInv'
<1> SUFFICES ASSUME Inv, [Next]_vars PROVE DueInv'
  OBVIOUS
<1>0. PortTypeOK /\ LineTypeOK /\ LineInv /\ DueInv
  BY TypeParts DEF Inv
<1>1. ASSUME NEW p \in Payloads, BeginFrame(p) PROVE DueInv'
  <2>1. sending' = Encode(p) /\ frame' = p /\ sending' # <<>> /\ Len(Encode(p)) \in Nat
    BY <1>1, EncodeShape DEF BeginFrame
  <2>2. Sent' = 0
    BY <2>1 DEF Sent
  <2>3. due' => open /\ parser.state \in {"seekFirst", "seekSecond"}
    BY <1>0, <1>1 DEF BeginFrame, Seeking, DueInv
  <2>4. UNCHANGED <<open, parser>>
    BY <1>1 DEF BeginFrame, port
  <2> QED BY <2>1, <2>2, <2>3, <2>4 DEF DueInv, InStep
<1>2. ASSUME SendByte PROVE DueInv'
  BY <1>0, <1>2, ReadsInStep DEF SendByte, DueInv
<1>3. ASSUME Gap PROVE DueInv'
  BY <1>0, <1>3 DEF Gap, ReadTimesOut, PortTypeOK, DueInv, Fresh
<1>4. ASSUME Open PROVE DueInv'
  BY <1>0, <1>4 DEF Open, PortTypeOK, DueInv
<1>5. ASSUME Fault PROVE DueInv'
  BY <1>5 DEF Fault, DueInv
<1>6. CASE UNCHANGED vars
  BY <1>0, <1>6 DEF vars, port, DueInv, InStep, Sent
<1> QED
  BY <1>1, <1>2, <1>3, <1>4, <1>5, <1>6 DEF Next, LoseByte, Stall, LosePort, DamageByte, Noise

-----------------------------------------------------------------------------
(* The theorems. *)

LEMMA InvHolds == Spec => []Inv
<1>1. Init => Inv
  <2> SUFFICES ASSUME Init PROVE Inv
    OBVIOUS
  <2>1. PortTypeOK
    BY FreshTypes DEF Init, PortTypeOK, Fresh
  <2>2. LineTypeOK
    BY Sizes DEF Init, LineTypeOK
  <2>3. LineInv /\ DueInv
    BY DEF Init, LineInv, DueInv, Fresh
  <2> QED BY <2>1, <2>2, <2>3, TypeParts DEF Inv
<1>2. Inv /\ [Next]_vars => Inv'
  <2> SUFFICES ASSUME Inv, [Next]_vars PROVE Inv'
    OBVIOUS
  <2>1. PortTypeOK /\ LineTypeOK /\ LineInv
    BY TypeParts DEF Inv
  <2>2. PortTypeOK' /\ LineTypeOK'
    BY <2>1, TypeStep
  <2>3. TypeOK' /\ ParserInv'
    BY <2>2 DEF TypeOK, ParserInv, PortTypeOK, LineTypeOK, Bytes
  <2> QED BY <2>1, <2>3, LineStep, DueStep DEF Inv
<1> QED BY <1>1, <1>2, PTL DEF Spec

\* The body stays within the buffer of maxEnvelopeBytes, whatever length the
\* line claims, and every read within a frame has a deadline.
THEOREM TypeCorrect == Spec => []TypeOK
<1>1. Inv => TypeOK
  BY DEF Inv
<1> QED BY InvHolds, <1>1, PTL

\* An intact frame that the call is ready for is returned whole, with its last
\* byte and not before: the framing loses or invents nothing by itself.
THEOREM FramesAreWhole == Spec => WholeFrames
<1> DEFINE A == due /\ due' =>
                   /\ (returned' # None) <=> (Len(sending) = 1 /\ sending' = <<>>)
                   /\ returned' # None => returned' = frame
<1>1. Inv /\ [Next]_vars => [A]_vars
  <2> SUFFICES ASSUME Inv, Next, due, due' PROVE A
    OBVIOUS
  <2>0. PortTypeOK /\ LineTypeOK /\ LineInv /\ DueInv
    BY TypeParts DEF Inv
  <2>1. CASE SendByte
    <3>1. sending # <<>> /\ InStep /\ Read(Head(sending)) /\ sending' = Tail(sending) /\ frame' = frame
      BY <2>0, <2>1 DEF SendByte, DueInv
    <3>2. sending' = <<>> <=> Len(sending) = 1
      BY <2>0, <3>1, NextByte
    <3>3. frame # None
      BY <2>0, <3>1, NextByte, FramingAssumption
    <3> QED BY <2>0, <3>1, <3>2, <3>3, ReadsInStep
  <2>2. CASE Open \/ Gap \/ \E p \in Payloads : BeginFrame(p)
    <3>1. returned' = None /\ (sending = <<>> \/ sending' = sending)
      BY <2>2 DEF Open, Gap, ReadTimesOut, BeginFrame
    <3>2. Len(<<>>) # 1
      OBVIOUS
    <3> QED BY <3>1, <3>2
  <2>3. ~Fault
    BY DEF Fault
  <2> QED BY <2>1, <2>2, <2>3 DEF Next, LoseByte, Stall, LosePort, DamageByte, Noise
<1> QED BY InvHolds, <1>1, PTL DEF Spec, WholeFrames
=============================================================================
