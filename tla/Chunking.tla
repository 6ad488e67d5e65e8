------------------------------ MODULE Chunking ------------------------------
(***************************************************************************)
(* How Send divides a text into packets.  The text is scanned once to see  *)
(* how many chunks it makes, then again with the numbering that number     *)
(* calls for until the number stays the same, and a last time to send the  *)
(* chunks.  A text that makes too many is replaced by a notice.            *)
(*                                                                         *)
(* A text is a sequence of words, a word the sequence of the widths of its *)
(* runes.  What fits a packet depends on its length alone, so that a limit *)
(* stands for fitsPhysical.  What becomes of each chunk, and of the rest   *)
(* when one fails, is in Submission.tla.                                   *)
(***************************************************************************)
EXTENDS Naturals, SequencesExt, FiniteSetsExt

CONSTANTS
    Texts,
    Notice,          \* oversizedNotice
    SoftTargets,     \* text_chunk_bytes
    PhysicalLimits,  \* the longest payload, by direct or not and reply or not
    PrefixBytes,     \* the length of "[1/2] ", the same up to "[8/8] "
    MaxChunks        \* maxTextChunks

ASSUME ChunkingAssumption ==
    /\ \A t \in Texts \cup {Notice} : t \in Seq(Seq(Nat \ {0}) \ {<<>>})
    /\ SoftTargets \subseteq Nat \ {0} /\ PhysicalLimits \subseteq Nat \ {0}
    /\ PrefixBytes \in Nat /\ MaxChunks \in 1 .. 9

\* A prefix leaves room for any rune.
ASSUME RuneAssumption ==
    \A limit \in PhysicalLimits, t \in Texts \cup {Notice} :
        \A i \in DOMAIN t : \A r \in DOMAIN t[i] : PrefixBytes + t[i][r] <= limit

VARIABLES
    text, soft, physical,  \* what is sent, and the limits that hold for it
    pc,         \* "count", "number", "emit", "done" or "failed"
    total,      \* the total in the numbering
    oversized,  \* the notice stands for the text
    chunks      \* the chunks sent

limits == <<soft, physical>>
vars == <<text, limits, pc, total, oversized, chunks>>

Init ==
    /\ text \in Texts /\ soft \in SoftTargets /\ physical \in PhysicalLimits
    /\ pc = "count" /\ total = 0 /\ oversized = FALSE /\ chunks = <<>>

-----------------------------------------------------------------------------
(* scanChunks.  A chunk is a sequence of pieces of the text, with a space   *)
(* between two of them; a piece is a range of the runes of one word.        *)

Piece(i, from, to) == [word |-> i, from |-> from, to |-> to]
Word(i) == Piece(i, 1, Len(text[i]))

\* How many bytes the first, the first two, ... of these widths make.
Bytes(widths) ==
    LET upto[n \in 0 .. Len(widths)] == IF n = 0 THEN 0 ELSE upto[n - 1] + widths[n]
    IN  upto

Width(p) == Bytes(text[p.word])[p.to] - Bytes(text[p.word])[p.from - 1]

Size(chunk) ==
    Bytes([n \in DOMAIN chunk |-> Width(chunk[n])])[Len(chunk)] + (Len(chunk) - 1)

\* oversizedNotice has seven words, and each fits any packet.
ASSUME NoticeAssumption ==
    /\ Len(Notice) \in 1 .. MaxChunks
    /\ \A limit \in PhysicalLimits : \A i \in DOMAIN Notice :
            Bytes(Notice[i])[Len(Notice[i])] <= limit

Prefix(n) == IF n <= 1 THEN 0 ELSE PrefixBytes

Fits(n) == n <= physical

\* What the scan holds: the chunks so far, the one it builds, and whether it
\* gave up because there would be too many.
Start == [sent |-> <<>>, cur |-> <<>>, over |-> FALSE]

Full(s) == Len(s.sent) >= MaxChunks

GiveUp(s) == [s EXCEPT !.over = TRUE]

\* emitCur.
Flush(s) == IF s.cur = <<>> THEN s ELSE [s EXCEPT !.sent = Append(@, s.cur), !.cur = <<>>]

\* Mutant: the rest of a word that is cut is lost.
SplitHead(s, pieces) ==
    IF Len(s.sent) + Len(pieces) > MaxChunks THEN GiveUp(s)
    ELSE [s EXCEPT !.sent = Append(@, <<pieces[1]>>)]

\* Every fragment of a word is a chunk of its own.
Split(s, pieces) ==
    IF Len(s.sent) + Len(pieces) > MaxChunks THEN GiveUp(s)
    ELSE [s EXCEPT !.sent = @ \o [i \in DOMAIN pieces |-> <<pieces[i]>>]]

\* Mutant: the fragments leave no room for the numbering.
ExtendUnnumbered(i, prefix, pieces, r) ==
    IF pieces # <<>> /\ Fits(Width(Piece(i, Last(pieces).from, r)))
    THEN [pieces EXCEPT ![Len(pieces)].to = r]
    ELSE Append(pieces, Piece(i, r, r))

\* The next rune of a word joins the last piece, or starts one.
Extend(i, prefix, pieces, r) ==
    IF pieces # <<>> /\ Fits(prefix + Width(Piece(i, Last(pieces).from, r)))
    THEN [pieces EXCEPT ![Len(pieces)].to = r]
    ELSE Append(pieces, Piece(i, r, r))

\* The longest pieces of a word that fit a packet, one after the other.
Fragments(i, prefix) ==
    LET cut[r \in 0 .. Len(text[i])] ==
            IF r = 0 THEN <<>> ELSE Extend(i, prefix, cut[r - 1], r)
    IN  cut[Len(text[i])]

\* Mutant: every word is a chunk of its own.
AddWordAlone(s, i, prefix) ==
    IF s.over \/ Full(s) THEN GiveUp(s)
    ELSE IF Fits(prefix + Width(Word(i))) THEN Flush([Flush(s) EXCEPT !.cur = <<Word(i)>>])
    ELSE Split(Flush(s), Fragments(i, prefix))

\* The next word joins the chunk within the soft target, or starts one.  A
\* word beyond the target goes alone, one beyond the packet in fragments.
AddWord(s, i, prefix) ==
    LET joined == Append(s.cur, Word(i))
        f == Flush(s)
    IN  IF s.over \/ Full(s) THEN GiveUp(s)
        ELSE IF prefix + Size(joined) <= soft /\ Fits(prefix + Size(joined))
             THEN [s EXCEPT !.cur = joined]
        ELSE IF Full(f) THEN GiveUp(f)
        ELSE IF Fits(prefix + Width(Word(i)))
             THEN IF prefix + Width(Word(i)) > soft
                  THEN Flush([f EXCEPT !.cur = <<Word(i)>>])
                  ELSE [f EXCEPT !.cur = <<Word(i)>>]
        ELSE Split(f, Fragments(i, prefix))

ScanWith(prefix) ==
    LET scan[i \in 0 .. Len(text)] ==
            IF i = 0 THEN Start ELSE AddWord(scan[i - 1], i, prefix)
        s == scan[Len(text)]
    IN  IF s.over THEN s ELSE Flush(s)

Scan(n) == ScanWith(Prefix(n))

Count(n) == IF Scan(n).over THEN MaxChunks + 1 ELSE Len(Scan(n).sent)

-----------------------------------------------------------------------------
(* chunkCount, and Send's last pass. *)

Oversize ==
    /\ oversized' = TRUE /\ text' = Notice
    /\ total' = 1 /\ pc' = "emit"

\* The first pass, without numbering.
CountChunks ==
    /\ pc = "count"
    /\ \/ Count(0) > MaxChunks /\ Oversize
       \/ /\ Count(0) <= MaxChunks
          /\ total' = Count(0)
          /\ pc' = CASE Count(0) = 0 -> "done" [] Count(0) = 1 -> "emit" [] OTHER -> "number"
          /\ UNCHANGED <<text, oversized>>
    /\ UNCHANGED <<limits, chunks>>

\* Mutant: the number of the first pass is taken for the numbering.
NumberOnce ==
    /\ pc = "number"
    /\ pc' = "emit"
    /\ UNCHANGED <<text, total, oversized, limits, chunks>>

\* A pass with the numbering the last one called for.
NumberChunks ==
    /\ pc = "number"
    /\ \/ Count(total) > MaxChunks /\ Oversize
       \/ /\ Count(total) <= MaxChunks
          /\ total' = Count(total)
          /\ pc' = IF Count(total) = total THEN "emit"
                   ELSE IF Count(total) < total THEN "failed" ELSE "number"
          /\ UNCHANGED <<text, oversized>>
    /\ UNCHANGED <<limits, chunks>>

EmitChunks ==
    /\ pc = "emit"
    /\ chunks' = Scan(total).sent
    /\ pc' = "done"
    /\ UNCHANGED <<text, limits, total, oversized>>

Next == CountChunks \/ NumberChunks \/ EmitChunks

Spec == Init /\ [][Next]_vars

-----------------------------------------------------------------------------

\* Every packet fits a LoRa frame with its numbering, and keeps to the soft
\* target unless it is one word, or a fragment of one, that cannot.
ChunksFit ==
    \A i \in DOMAIN chunks :
        LET n == Prefix(total) + Size(chunks[i])
        IN  n <= physical /\ (n <= soft \/ Len(chunks[i]) = 1)

\* Where the text goes on after a piece.
After(p) == IF p.to = Len(text[p.word]) THEN <<p.word + 1, 1>> ELSE <<p.word, p.to + 1>>

\* Where piece j of chunk c goes on.
Before(list, c, j) ==
    IF j > 1 THEN After(list[c][j - 1])
    ELSE IF c > 1 THEN After(Last(list[c - 1]))
    ELSE <<1, 1>>

\* These chunks hold the first n words, once and in order: piece after piece,
\* the pieces of a word from its first rune to its last.
Holds(list, n) ==
    /\ (list = <<>>) <=> (n = 0)
    /\ \A c \in DOMAIN list :
        /\ list[c] # <<>>
        /\ \A j \in DOMAIN list[c] :
            /\ <<list[c][j].word, list[c][j].from>> = Before(list, c, j)
            /\ list[c][j].from <= list[c][j].to
    /\ list # <<>> => After(Last(Last(list))) = <<n + 1, 1>>

\* The packets hold the whole text once and in order.
TextKept == pc = "done" => Holds(chunks, Len(text))

\* The numbering is true: packet i of n is the i-th of n, and there are no
\* more than the eight of the "bounded eight-packet response policy".
NumberingIsTrue ==
    pc = "done" => /\ ~oversized => total = Len(chunks)
                   /\ Len(chunks) <= MaxChunks

-----------------------------------------------------------------------------
(* The fewest chunks there can be, among all ways to divide a text. *)

\* To come to each n there are ways[n]: from w.after, with w.chunks more.
\* How many each n takes at least.
Least(ways) ==
    LET least[n \in 0 .. Len(ways)] ==
            IF n = 0 THEN 0 ELSE Min({least[w.after] + w.chunks : w \in ways[n]})
    IN  least

Way(after, n) == [after |-> after, chunks |-> n]

\* A fragment ends with rune r and starts after rune q.
FragmentWays(i, prefix) ==
    [r \in DOMAIN text[i] |->
        {Way(q, 1) : q \in {q \in 0 .. r - 1 : Fits(prefix + Width(Piece(i, q + 1, r)))}}]

LeastFragments(i, prefix) == Least(FragmentWays(i, prefix))[Len(text[i])]

Words(i, j) == [k \in 1 .. j - i |-> Word(i + k)]

\* The words after word i up to word j may be one chunk.
Together(i, j, prefix) ==
    /\ prefix + Size(Words(i, j)) <= soft
    /\ Fits(prefix + Size(Words(i, j)))

\* A chunk of words ends with word j, or word j is in fragments.
ChunkWays(prefix) ==
    [j \in DOMAIN text |->
        {Way(i, 1) : i \in {i \in 0 .. j - 1 : Together(i, j, prefix)}}
            \cup {Way(j - 1, LeastFragments(j, prefix))}]

LeastChunks(prefix) == Least(ChunkWays(prefix))[Len(text)]

\* A pass counts the fewest packets any division of the text needs, or gives
\* up because that is too many.  So the notice replaces only a text that no
\* division brings within the limit, and the count never falls from one pass
\* to the next ("chunk count decreased" is never reported).
FewestChunks ==
    /\ pc # "failed"
    /\ pc \in {"count", "number"} =>
        Count(total) = Min({LeastChunks(Prefix(total)), MaxChunks + 1})
=============================================================================
