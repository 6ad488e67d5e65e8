--------------------------- MODULE SerialFraming ---------------------------
(***************************************************************************)
(* How ReceiveFromRadio finds the radio's frames in the bytes of a serial  *)
(* port.  A frame is two start bytes, a length of two bytes and a body.    *)
(* Other text may come in between, bytes may be lost or damaged, and the   *)
(* port may be opened while the radio is in the middle of a frame.         *)
(*                                                                         *)
(* The line holds nothing back: the radio's bytes are read one at a time   *)
(* as they are sent.  A read that waits longer than serialInterByteTimeout *)
(* is a Gap.                                                               *)
(***************************************************************************)
EXTENDS Naturals, Sequences

CONSTANTS
    Start1, Start2,    \* 0x94, 0xc3
    Base,              \* 256: the bytes are 0 .. Base - 1
    MaxEnvelopeBytes,  \* maxEnvelopeBytes
    Payloads,          \* the messages of the radio
    StrayBytes,        \* what may be read in place of a byte or besides it
    None,              \* no message
    MaxFrames, MaxFaults

ASSUME FramingAssumption ==
    /\ Base \in Nat \ {0} /\ MaxEnvelopeBytes \in 1 .. Base * Base - 1
    /\ {Start1, Start2} \cup StrayBytes \subseteq 0 .. Base - 1 /\ Start1 # Start2
    /\ \A p \in Payloads : p \in Seq(0 .. Base - 1) /\ Len(p) \in 1 .. MaxEnvelopeBytes
    /\ \A p \in Payloads : p # None
    /\ MaxFrames \in Nat /\ MaxFaults \in Nat

VARIABLES
    open,      \* there is a port, and a call of ReceiveFromRadio reads it
    timed,     \* reads of the port end after serialInterByteTimeout
    parser,    \* the locals of the call
    returned,  \* the message the last step returned to runAttempt, or None
    frame,     \* the message the radio sends, or sent last
    sending,   \* the bytes of it still to come
    frames, faults,  \* how many there were
    due        \* history: the call is, or must be, ready for the next frame

port == <<open, timed, parser>>
vars == <<port, returned, frame, sending, frames, faults, due>>

States == {"seekFirst", "seekSecond", "readLenHi", "readLenLo", "readBody"}

\* A call begins, or begins to look for a frame again.
Fresh == [state |-> "seekFirst", hi |-> 0, want |-> 0, body |-> <<>>]

Seeking == open /\ parser.state \in {"seekFirst", "seekSecond"}

Init ==
    /\ open = TRUE /\ timed = FALSE /\ parser = Fresh /\ returned = None
    /\ frame = None /\ sending = <<>> /\ frames = 0 /\ faults = 0
    /\ due = TRUE

-----------------------------------------------------------------------------
(* ReceiveFromRadio reads a byte.  Every byte within a frame is to come in  *)
(* time.                                                                    *)

SeekFirst(b) ==
    /\ parser.state = "seekFirst"
    /\ IF b = Start1 THEN parser' = [parser EXCEPT !.state = "seekSecond"] /\ timed' = TRUE
                     ELSE UNCHANGED <<parser, timed>>
    /\ returned' = None /\ UNCHANGED open

\* Mutant: any byte but the second start byte ends the search.
SeekSecondOnce(b) ==
    /\ parser.state = "seekSecond"
    /\ parser' = [parser EXCEPT !.state = IF b = Start2 THEN "readLenHi" ELSE "seekFirst"]
    /\ timed' = TRUE /\ returned' = None /\ UNCHANGED open

\* A first start byte may come more than once.
SeekSecond(b) ==
    /\ parser.state = "seekSecond"
    /\ parser' = [parser EXCEPT !.state = CASE b = Start2 -> "readLenHi"
                                            [] b = Start1 -> "seekSecond"
                                            [] OTHER -> "seekFirst"]
    /\ timed' = TRUE /\ returned' = None /\ UNCHANGED open

ReadLenHi(b) ==
    /\ parser.state = "readLenHi"
    /\ parser' = [parser EXCEPT !.state = "readLenLo", !.hi = b]
    /\ timed' = TRUE /\ returned' = None /\ UNCHANGED open

\* Mutant: a length is taken as it comes.
ReadLenLoUnbounded(b) ==
    LET want == Base * parser.hi + b
    IN  /\ parser.state = "readLenLo"
        /\ parser' = [parser EXCEPT !.state = "readBody", !.want = want, !.body = <<>>]
        /\ timed' = TRUE /\ open' = (want # 0)
        /\ returned' = None

\* A length beyond the buffer ends the frame; an empty message is an error,
\* after which runAttempt closes the port.
ReadLenLo(b) ==
    LET want == Base * parser.hi + b
    IN  /\ parser.state = "readLenLo"
        /\ \/ want > MaxEnvelopeBytes /\ parser' = Fresh /\ timed' = FALSE /\ UNCHANGED open
           \/ want = 0 /\ open' = FALSE /\ timed' = FALSE /\ parser' = Fresh
           \/ /\ want \in 1 .. MaxEnvelopeBytes
              /\ parser' = [parser EXCEPT !.state = "readBody", !.want = want, !.body = <<>>]
              /\ timed' = TRUE /\ UNCHANGED open
        /\ returned' = None

\* Whether the bytes of a broken frame make a message is left open.
ReadBody(b) ==
    LET body == Append(parser.body, b)
    IN  /\ parser.state = "readBody"
        /\ \/ /\ Len(body) < parser.want
              /\ parser' = [parser EXCEPT !.body = body]
              /\ timed' = TRUE /\ returned' = None
           \/ /\ Len(body) = parser.want
              /\ parser' = Fresh /\ timed' = FALSE
              /\ returned' = body \/ (body \notin Payloads /\ returned' = None)
        /\ UNCHANGED open

\* Without a port a byte is lost.
Read(b) ==
    \/ ~open /\ returned' = None /\ UNCHANGED port
    \/ open /\ (SeekFirst(b) \/ SeekSecond(b) \/ ReadLenHi(b) \/ ReadLenLo(b) \/ ReadBody(b))

-----------------------------------------------------------------------------
(* The radio and the line. *)

Encode(p) == <<Start1, Start2, Len(p) \div Base, Len(p) % Base>> \o p

BeginFrame(p) ==
    /\ sending = <<>> /\ frames < MaxFrames
    /\ frame' = p /\ sending' = Encode(p) /\ frames' = frames + 1
    /\ returned' = None
    /\ due' = (due \/ Seeking)
    /\ UNCHANGED <<port, faults>>

SendByte ==
    /\ sending # <<>>
    /\ Read(Head(sending)) /\ sending' = Tail(sending)
    /\ UNCHANGED <<frame, frames, faults, due>>

Fault ==
    /\ faults < MaxFaults
    /\ faults' = faults + 1 /\ due' = FALSE
    /\ UNCHANGED <<frame, frames>>

LoseByte ==
    /\ sending # <<>> /\ sending' = Tail(sending) /\ returned' = None
    /\ UNCHANGED port
    /\ Fault

DamageByte(b) ==
    /\ sending # <<>> /\ sending' = Tail(sending) /\ Read(b)
    /\ Fault

\* Text of the radio's console, within a frame or between two.
Noise(b) == Read(b) /\ UNCHANGED sending /\ Fault

\* A read of the port returns no byte: whatever the call has begun is given up.
ReadTimesOut ==
    /\ returned' = None /\ UNCHANGED open
    /\ IF open /\ timed /\ parser.state # "seekFirst"
       THEN parser' = Fresh /\ timed' = FALSE
       ELSE UNCHANGED <<timed, parser>>

\* Nothing comes for serialInterByteTimeout, between two frames ...
Gap ==
    /\ sending = <<>>
    /\ ReadTimesOut
    /\ due' = open
    /\ UNCHANGED <<frame, sending, frames, faults>>

\* ... or within one.
Stall == sending # <<>> /\ ReadTimesOut /\ UNCHANGED sending /\ Fault

\* A read or SetReadTimeout fails, or the attempt ends and closes the port.
LosePort ==
    /\ open /\ open' = FALSE /\ timed' = FALSE /\ parser' = Fresh /\ returned' = None
    /\ UNCHANGED sending
    /\ Fault

\* The next attempt opens the port anew.
Open ==
    /\ ~open /\ open' = TRUE
    /\ returned' = None /\ due' = (sending = <<>>)
    /\ UNCHANGED <<timed, parser, frame, sending, frames, faults>>

Next ==
    \/ \E p \in Payloads : BeginFrame(p)
    \/ SendByte \/ LoseByte \/ Gap \/ Stall \/ LosePort \/ Open
    \/ \E b \in StrayBytes : DamageByte(b) \/ Noise(b)

Spec == Init /\ [][Next]_vars

-----------------------------------------------------------------------------

\* The body never overruns its buffer, and within a frame no read waits for
\* ever.
TypeOK ==
    /\ open \in BOOLEAN /\ timed \in BOOLEAN /\ due \in BOOLEAN
    /\ parser.state \in States /\ parser.hi \in 0 .. Base - 1
    /\ parser.body \in Seq(0 .. Base - 1)
    /\ parser.state = "readBody" =>
        parser.want \in 1 .. MaxEnvelopeBytes /\ Len(parser.body) < parser.want
    /\ parser.state # "seekFirst" => open /\ timed
    /\ frame \in Payloads \cup {None} /\ sending \in Seq(0 .. Base - 1)
    /\ returned # None => returned \in Seq(0 .. Base - 1)
    /\ frames \in 0 .. MaxFrames /\ faults \in 0 .. MaxFaults

\* An intact frame is returned whole, with its last byte, and nothing else in
\* its place: when it follows such a frame, a gap or a fresh port, or begins
\* while the call looks for a start byte.  What came before, stray start bytes,
\* half a frame or a false length, costs no frame more.
WholeFrames ==
    [][due /\ due' =>
        /\ (returned' # None) <=> (Len(sending) = 1 /\ sending' = <<>>)
        /\ returned' # None => returned' = frame]_vars
=============================================================================
