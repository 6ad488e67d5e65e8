--------------------------- MODULE ChunkingProofs ---------------------------
(***************************************************************************)
(* Theorems about Chunking, for every set of texts and limits.  What a     *)
(* recursive function computes is proved by induction on its argument: the *)
(* least argument for which it were wrong cannot be.                       *)
(***************************************************************************)
EXTENDS Chunking, WellFoundedInduction, TLAPS

-----------------------------------------------------------------------------
(* Induction over the numbers, and functions defined by it. *)

LEMMA LeastElement ==
    ASSUME NEW T \in SUBSET Nat, T # {}
    PROVE  \E n \in T : \A m \in T : n <= m
<1> DEFINE R == OpToRel(<, Nat)
<1>1. IsWellFoundedOn(R, Nat)
  BY NatLessThanWellFounded
<1>2. \A m \in T, n \in T : m < n => <<m, n>> \in R
  BY DEF OpToRel
<1> HIDE DEF R
<1>3. PICK n \in T : \A m \in T : <<m, n>> \notin R
  BY <1>1, WFMin
<1>4. ASSUME NEW m \in T PROVE n <= m
  <2>1. ~(m < n)
    BY <1>2, <1>3
  <2>2. m \in Nat /\ n \in Nat
    OBVIOUS
  <2> QED BY <2>1, <2>2
<1> QED BY <1>3, <1>4

\* A set that holds 0, and each number up to N after its predecessor, holds
\* all of them.
LEMMA UpTo ==
    ASSUME NEW N \in Nat, NEW T, 0 \in T,
           \A n \in 1 .. N : n - 1 \in T => n \in T
    PROVE  \A n \in 0 .. N : n \in T
<1> DEFINE Rest == {n \in 0 .. N : n \notin T}
<1>1. CASE Rest = {}
  BY <1>1
<1>2. CASE Rest # {}
  <2>1. PICK n \in Rest : \A m \in Rest : n <= m
    <3>1. Rest \in SUBSET Nat
      OBVIOUS
    <3> QED BY <1>2, <3>1, LeastElement
  <2>2. n \in 1 .. N /\ n - 1 \in 0 .. N /\ ~(n <= n - 1)
    BY <2>1
  <2>3. n - 1 \in T
    BY <2>1, <2>2
  <2> QED BY <2>1, <2>2, <2>3
<1> QED BY <1>1, <1>2

\* f starts from base, and each value comes from the one before it.
Recurs(f, N, base, step) ==
    f = [n \in 0 .. N |-> IF n = 0 THEN base ELSE step[n][f[n - 1]]]

\* A recursion over the numbers up to N defines a function.
LEMMA Recursion ==
    ASSUME NEW N \in Nat, NEW S, NEW base \in S, NEW step \in [1 .. N -> [S -> S]]
    PROVE  \E f \in [0 .. N -> S] : Recurs(f, N, base, step)
<1> DEFINE Good(f, n) ==
        /\ f \in [0 .. n -> S] /\ f[0] = base
        /\ \A k \in 1 .. n : f[k] = step[k][f[k - 1]]
           T == {n \in 0 .. N : \E f : Good(f, n)}
<1>1. 0 \in T
  <2> DEFINE h == [k \in 0 .. 0 |-> base]
  <2>1. h \in [0 .. 0 -> S] /\ h[0] = base
    OBVIOUS
  <2>2. 1 .. 0 = {} /\ 0 \in 0 .. N
    OBVIOUS
  <2> HIDE DEF h
  <2>3. Good(h, 0)
    BY <2>1, <2>2
  <2> QED BY <2>2, <2>3
<1>2. ASSUME NEW n \in 1 .. N, n - 1 \in T PROVE n \in T
  <2>1. PICK f : Good(f, n - 1)
    BY <1>2
  <2> DEFINE g == [k \in 0 .. n |-> IF k = n THEN step[n][f[n - 1]] ELSE f[k]]
  <2>2. f[n - 1] \in S
    BY <2>1
  <2>3. step[n][f[n - 1]] \in S
    BY <2>2
  <2>4. g \in [0 .. n -> S]
    BY <2>1, <2>3
  <2>5. g[0] = base
    BY <2>1
  <2>6. ASSUME NEW k \in 1 .. n PROVE g[k] = step[k][g[k - 1]]
    <3>1. CASE k = n
      BY <3>1
    <3>2. CASE k # n
      <4>1. k \in 1 .. n - 1 /\ k - 1 # n /\ k \in 0 .. n /\ k - 1 \in 0 .. n
        BY <3>2
      <4>2. g[k] = f[k] /\ g[k - 1] = f[k - 1]
        BY <3>2, <4>1
      <4>3. f[k] = step[k][f[k - 1]]
        BY <2>1, <4>1
      <4> HIDE DEF g
      <4> QED BY <4>2, <4>3
    <3> QED BY <3>1, <3>2
  <2> HIDE DEF g
  <2>7. Good(g, n)
    BY <2>4, <2>5, <2>6
  <2> QED BY <2>7
<1> HIDE DEF T
<1>3. N \in T
  <2>1. \A n \in 1 .. N : n - 1 \in T => n \in T
    BY <1>2
  <2>2. \A n \in 0 .. N : n \in T
    BY <1>1, <2>1, UpTo
  <2> QED BY <2>2
<1>4. PICK f : Good(f, N)
  BY <1>3 DEF T
<1>5. Recurs(f, N, base, step)
  BY <1>4 DEF Recurs
<1> QED BY <1>4, <1>5

-----------------------------------------------------------------------------
(* The bytes of a word and of a chunk. *)

LEMMA BytesOf ==
    ASSUME NEW widths \in Seq(Int)
    PROVE  /\ Bytes(widths) \in [0 .. Len(widths) -> Int]
           /\ Bytes(widths)[0] = 0
           /\ \A n \in 1 .. Len(widths) :
                    Bytes(widths)[n] = Bytes(widths)[n - 1] + widths[n]
<1> DEFINE N == Len(widths)
           step == [n \in 1 .. N |-> [m \in Int |-> m + widths[n]]]
<1>1. N \in Nat /\ \A n \in 1 .. N : widths[n] \in Int
  OBVIOUS
<1>2. step \in [1 .. N -> [Int -> Int]]
  BY <1>1
<1>3. \E f : f = [n \in 0 .. N |-> IF n = 0 THEN 0 ELSE f[n - 1] + widths[n]]
  <2> HIDE DEF step, N
  <2>1. PICK f \in [0 .. N -> Int] : Recurs(f, N, 0, step)
    <3>1. 0 \in Int /\ N \in Nat
      BY <1>1
    <3> QED BY <1>2, <3>1, Recursion
  <2>2. ASSUME NEW n \in 1 .. N PROVE step[n][f[n - 1]] = f[n - 1] + widths[n]
    <3>1. n - 1 \in 0 .. N
      BY <1>1
    <3>2. f[n - 1] \in Int
      BY <2>1, <3>1
    <3> QED BY <3>2 DEF step
  <2>3. f = [n \in 0 .. N |-> IF n = 0 THEN 0 ELSE step[n][f[n - 1]]]
    BY <2>1 DEF Recurs
  <2>4. f = [n \in 0 .. N |-> IF n = 0 THEN 0 ELSE f[n - 1] + widths[n]]
    <3>1. \A n \in 0 .. N : n # 0 => n \in 1 .. N
      OBVIOUS
    <3> QED BY <2>2, <2>3, <3>1
  <2> QED BY <2>4
<1>4. Bytes(widths) = [n \in 0 .. N |-> IF n = 0 THEN 0 ELSE Bytes(widths)[n - 1] + widths[n]]
  BY <1>3, Zenon DEF Bytes
<1> HIDE DEF N, step
<1>5. Bytes(widths)[0] = 0
      /\ \A n \in 1 .. N : Bytes(widths)[n] = Bytes(widths)[n - 1] + widths[n]
  BY <1>1, <1>4
<1>6. \A n \in 0 .. N : n \in {q \in 0 .. N : Bytes(widths)[q] \in Int}
  <2> DEFINE T == {q \in 0 .. N : Bytes(widths)[q] \in Int}
  <2>1. 0 \in T
    BY <1>1, <1>5
  <2>2. ASSUME NEW n \in 1 .. N, n - 1 \in T PROVE n \in T
    <3>1. Bytes(widths)[n] = Bytes(widths)[n - 1] + widths[n]
      BY <1>5
    <3> QED BY <1>1, <2>2, <3>1
  <2> HIDE DEF T
  <2>3. \A n \in 0 .. N : n \in T
    BY <1>1, <2>1, <2>2, UpTo
  <2> QED BY <2>3 DEF T
<1> QED BY <1>4, <1>5, <1>6 DEF N

\* More runes are no fewer bytes.
LEMMA BytesRise ==
    ASSUME NEW widths \in Seq(Nat), NEW m \in 0 .. Len(widths), NEW n \in m .. Len(widths)
    PROVE  Bytes(widths)[m] <= Bytes(widths)[n]
<1> DEFINE N == Len(widths)
           b == Bytes(widths)
           T == {k \in 0 .. N - m : b[m] <= b[m + k]}
<1>1. N \in Nat /\ m \in 0 .. N /\ n - m \in 0 .. N - m /\ m + (n - m) = n /\ N - m \in Nat
      /\ \A k \in 1 .. N : widths[k] \in Nat
  OBVIOUS
<1>2. b \in [0 .. N -> Int] /\ \A k \in 1 .. N : b[k] = b[k - 1] + widths[k]
  <2>1. widths \in Seq(Int)
    OBVIOUS
  <2> QED BY <2>1, BytesOf
<1> HIDE DEF N, b
<1>3. 0 \in T
  BY <1>1, <1>2
<1>4. ASSUME NEW k \in 1 .. N - m, k - 1 \in T PROVE k \in T
  <2>1. m + k \in 1 .. N /\ (m + k) - 1 = m + (k - 1) /\ m + (k - 1) \in 0 .. N
        /\ m + k \in 0 .. N
    BY <1>1
  <2>2. b[m + k] = b[m + (k - 1)] + widths[m + k] /\ widths[m + k] \in Nat
    BY <1>1, <1>2, <2>1
  <2>3. b[m] \in Int /\ b[m + k] \in Int /\ b[m + (k - 1)] \in Int
    BY <1>1, <1>2, <2>1
  <2>4. b[m] <= b[m + (k - 1)]
    BY <1>4
  <2> QED BY <1>4, <2>2, <2>3, <2>4
<1> HIDE DEF T
<1>5. \A k \in 0 .. N - m : k \in T
  BY <1>1, <1>3, <1>4, UpTo
<1> QED BY <1>1, <1>5 DEF T, b

\* A text as Send may be given one, in a packet it may be sent in.
Given == text \in Texts \cup {Notice} /\ soft \in SoftTargets /\ physical \in PhysicalLimits

LEMMA WordTypes ==
    ASSUME Given
    PROVE  /\ Len(text) \in Nat /\ DOMAIN text = 1 .. Len(text)
           /\ soft \in Nat /\ physical \in Nat /\ PrefixBytes \in Nat
           /\ MaxChunks \in Nat \ {0}
           /\ \A i \in DOMAIN text : /\ text[i] \in Seq(Nat) /\ Len(text[i]) \in Nat \ {0}
                                     /\ DOMAIN text[i] = 1 .. Len(text[i])
<1>1. text \in Seq(Seq(Nat \ {0}) \ {<<>>})
  BY ChunkingAssumption DEF Given
<1>2. ASSUME NEW word \in Seq(Nat \ {0}) \ {<<>>}
      PROVE  word \in Seq(Nat) /\ Len(word) \in Nat \ {0} /\ DOMAIN word = 1 .. Len(word)
  OBVIOUS
<1>3. soft \in Nat /\ physical \in Nat /\ PrefixBytes \in Nat /\ MaxChunks \in Nat \ {0}
  BY ChunkingAssumption DEF Given
<1> QED BY <1>1, <1>2, <1>3

\* Pieces of the i-th word, and of the text.
PiecesOf(i) == [word : {i}, from : DOMAIN text[i], to : DOMAIN text[i]]
Pieces == {p \in [word : DOMAIN text, from : Nat, to : Nat] : p \in PiecesOf(p.word)}

LEMMA Widths ==
    ASSUME Given
    PROVE  /\ \A p \in Pieces : Width(p) \in Int
           /\ \A i \in DOMAIN text : \A r \in DOMAIN text[i] : Width(Piece(i, r, r)) = text[i][r]
           /\ \A i \in DOMAIN text : Width(Word(i)) = Bytes(text[i])[Len(text[i])]
<1>1. ASSUME NEW i \in DOMAIN text
      PROVE  /\ Bytes(text[i]) \in [0 .. Len(text[i]) -> Int]
             /\ Bytes(text[i])[0] = 0
             /\ \A r \in 1 .. Len(text[i]) : Bytes(text[i])[r] = Bytes(text[i])[r - 1] + text[i][r]
  <2>1. text[i] \in Seq(Int)
    BY WordTypes
  <2> QED BY <2>1, BytesOf
<1>2. ASSUME NEW p \in Pieces PROVE Width(p) \in Int
  <2>1. /\ p.word \in DOMAIN text /\ DOMAIN text[p.word] = 1 .. Len(text[p.word])
        /\ p.from \in DOMAIN text[p.word] /\ p.to \in DOMAIN text[p.word]
        /\ Len(text[p.word]) \in Nat
    BY WordTypes DEF Pieces, PiecesOf
  <2>2. p.to \in 0 .. Len(text[p.word]) /\ p.from - 1 \in 0 .. Len(text[p.word])
    BY <2>1
  <2>3. Bytes(text[p.word])[p.to] \in Int /\ Bytes(text[p.word])[p.from - 1] \in Int
    BY <1>1, <2>1, <2>2
  <2> QED BY <2>3 DEF Width
<1>3. ASSUME NEW i \in DOMAIN text, NEW r \in DOMAIN text[i]
      PROVE  Width(Piece(i, r, r)) = text[i][r]
  <2>1. r \in 1 .. Len(text[i]) /\ text[i] \in Seq(Nat) /\ Len(text[i]) \in Nat
    BY WordTypes
  <2>2. Bytes(text[i])[r - 1] \in Int /\ text[i][r] \in Nat
        /\ Bytes(text[i])[r] = Bytes(text[i])[r - 1] + text[i][r]
    <3>1. r - 1 \in 0 .. Len(text[i])
      BY <2>1
    <3> QED BY <1>1, <2>1, <3>1
  <2>3. Width(Piece(i, r, r)) = Bytes(text[i])[r] - Bytes(text[i])[r - 1]
    BY DEF Width, Piece
  <2> QED BY <2>2, <2>3
<1>4. ASSUME NEW i \in DOMAIN text PROVE Width(Word(i)) = Bytes(text[i])[Len(text[i])]
  <2>1. Width(Word(i)) = Bytes(text[i])[Len(text[i])] - Bytes(text[i])[1 - 1]
    BY DEF Width, Word, Piece
  <2>2. Len(text[i]) \in 0 .. Len(text[i]) /\ 1 - 1 = 0
    BY WordTypes
  <2> QED BY <1>1, <2>1, <2>2
<1> QED BY <1>2, <1>3, <1>4

\* A chunk of one piece has no space.
LEMMA SizeOfOne ==
    ASSUME NEW p, Width(p) \in Int
    PROVE  Size(<<p>>) = Width(p)
<1> DEFINE chunk == <<p>>
           widths == [n \in DOMAIN chunk |-> Width(chunk[n])]
<1>1. Len(chunk) = 1 /\ DOMAIN chunk = 1 .. 1 /\ chunk[1] = p
  OBVIOUS
<1>2. Size(chunk) = Bytes(widths)[1] + (1 - 1)
  BY <1>1 DEF Size
<1> HIDE DEF chunk
<1>3. widths = <<Width(p)>>
  BY <1>1
<1> HIDE DEF widths
<1>4. widths \in Seq(Int) /\ Len(widths) = 1 /\ widths[1] = Width(p)
  BY <1>3
<1>5. Bytes(widths)[1] = Bytes(widths)[0] + widths[1] /\ Bytes(widths)[0] = 0
  <2>1. 1 \in 1 .. Len(widths) /\ 1 - 1 = 0
    BY <1>4
  <2> QED BY <1>4, <2>1, BytesOf
<1> QED BY <1>2, <1>4, <1>5 DEF chunk

-----------------------------------------------------------------------------
(* A word in fragments. *)

\* These pieces hold the first r runes of the i-th word, and each fits.
Cuts(i, prefix, pieces, r) ==
    /\ pieces \in Seq(PiecesOf(i))
    /\ (pieces = <<>>) <=> (r = 0)
    /\ \A j \in 1 .. Len(pieces) :
        /\ pieces[j].from = IF j = 1 THEN 1 ELSE pieces[j - 1].to + 1
        /\ pieces[j].from <= pieces[j].to
        /\ prefix + Width(pieces[j]) <= physical
    /\ pieces # <<>> => pieces[Len(pieces)].to = r

\* Extend changes the last piece only, or adds one.
LEMMA ExtendShapes ==
    ASSUME Given, NEW i \in DOMAIN text, NEW prefix, NEW pieces \in Seq(PiecesOf(i)),
           NEW r \in DOMAIN text[i]
    PROVE  /\ Extend(i, prefix, pieces, r) \in Seq(PiecesOf(i))
           /\ \/ /\ pieces # <<>>
                 /\ Len(Extend(i, prefix, pieces, r)) = Len(pieces)
                 /\ \A j \in 1 .. Len(pieces) - 1 : Extend(i, prefix, pieces, r)[j] = pieces[j]
                 /\ Extend(i, prefix, pieces, r)[Len(pieces)] =
                        Piece(i, pieces[Len(pieces)].from, r)
                 /\ prefix + Width(Piece(i, pieces[Len(pieces)].from, r)) <= physical
              \/ Extend(i, prefix, pieces, r) = Append(pieces, Piece(i, r, r))
<1>1. CASE /\ pieces # <<>>
           /\ Fits(prefix + Width(Piece(i, Last(pieces).from, r)))
  <2> DEFINE n == Len(pieces)
             e == [pieces EXCEPT ![n].to = r]
  <2>1. Extend(i, prefix, pieces, r) = e
    BY <1>1 DEF Extend
  <2>2. n \in Nat /\ n >= 1 /\ n \in DOMAIN pieces /\ Last(pieces) = pieces[n]
    BY <1>1 DEF Last
  <2>3. pieces[n] \in PiecesOf(i)
    BY <2>2
  <2>4. [pieces[n] EXCEPT !.to = r] = Piece(i, pieces[n].from, r)
        /\ Piece(i, pieces[n].from, r) \in PiecesOf(i)
    BY <2>3 DEF PiecesOf, Piece
  <2>5. e = [pieces EXCEPT ![n] = Piece(i, pieces[n].from, r)]
    BY <2>2, <2>4
  <2>6. e \in Seq(PiecesOf(i)) /\ Len(e) = n /\ e[n] = Piece(i, pieces[n].from, r)
        /\ \A j \in 1 .. n - 1 : e[j] = pieces[j]
    <3> HIDE DEF e
    <3> QED BY <2>2, <2>4, <2>5
  <2> HIDE DEF e
  <2> QED BY <1>1, <2>1, <2>2, <2>6 DEF Fits
<1>2. CASE ~(/\ pieces # <<>>
             /\ Fits(prefix + Width(Piece(i, Last(pieces).from, r))))
  <2>1. Extend(i, prefix, pieces, r) = Append(pieces, Piece(i, r, r))
    BY <1>2 DEF Extend
  <2>2. Piece(i, r, r) \in PiecesOf(i)
    BY DEF PiecesOf, Piece
  <2> QED BY <2>1, <2>2
<1> QED BY <1>1, <1>2

LEMMA ExtendCuts ==
    ASSUME Given, NEW i \in DOMAIN text, NEW prefix \in 0 .. PrefixBytes, NEW pieces,
           NEW r \in DOMAIN text[i], Cuts(i, prefix, pieces, r - 1)
    PROVE  Cuts(i, prefix, Extend(i, prefix, pieces, r), r)
<1> DEFINE e == Extend(i, prefix, pieces, r)
           n == Len(pieces)
<1>1. r \in Nat \ {0} /\ n \in Nat /\ pieces \in Seq(PiecesOf(i))
      /\ PrefixBytes \in Nat /\ physical \in Nat /\ text[i][r] \in Nat
  BY WordTypes DEF Cuts
<1>2. e \in Seq(PiecesOf(i))
  BY <1>1, ExtendShapes
<1>3. ASSUME NEW j \in 1 .. n
      PROVE  pieces[j] \in PiecesOf(i) /\ pieces[j].from \in Nat /\ pieces[j].to \in Nat
  <2>1. pieces[j] \in PiecesOf(i)
    BY <1>1
  <2>2. DOMAIN text[i] \subseteq Nat
    BY WordTypes
  <2> QED BY <2>1, <2>2 DEF PiecesOf
<1>4. CASE /\ pieces # <<>> /\ Len(e) = n
           /\ \A j \in 1 .. n - 1 : e[j] = pieces[j]
           /\ e[n] = Piece(i, pieces[n].from, r)
           /\ prefix + Width(Piece(i, pieces[n].from, r)) <= physical
  <2> HIDE DEF e
  <2>1. n >= 1 /\ e # <<>>
    BY <1>1, <1>2, <1>4
  <2>2. e[n].from = pieces[n].from /\ e[n].to = r
    BY <1>4 DEF Piece
  <2>3. pieces[n].from <= r
    <3>1. pieces[n].from <= pieces[n].to /\ pieces[n].to = r - 1
      BY <1>1, <1>4, <2>1 DEF Cuts
    <3> QED BY <1>1, <1>3, <2>1, <3>1
  <2>4. ASSUME NEW j \in 1 .. Len(e)
        PROVE  /\ e[j].from = IF j = 1 THEN 1 ELSE e[j - 1].to + 1
               /\ e[j].from <= e[j].to
               /\ prefix + Width(e[j]) <= physical
    <3>1. /\ pieces[j].from = IF j = 1 THEN 1 ELSE pieces[j - 1].to + 1
          /\ pieces[j].from <= pieces[j].to
          /\ prefix + Width(pieces[j]) <= physical
      BY <1>4 DEF Cuts
    <3>2. j # 1 => e[j - 1] = pieces[j - 1]
      BY <1>1, <1>4
    <3>3. CASE j = n
      BY <1>4, <2>2, <2>3, <3>1, <3>2, <3>3
    <3>4. CASE j # n
      <4>1. e[j] = pieces[j]
        BY <1>1, <1>4, <3>4
      <4> QED BY <3>1, <3>2, <4>1
    <3> QED BY <3>3, <3>4
  <2>5. (e = <<>>) <=> (r = 0)
    BY <1>1, <2>1
  <2>6. e[Len(e)].to = r
    BY <1>4, <2>2
  <2> HIDE DEF n
  <2>7. Cuts(i, prefix, e, r)
    BY <1>2, <2>4, <2>5, <2>6 DEF Cuts
  <2> QED BY <2>7 DEF e
<1>5. CASE e = Append(pieces, Piece(i, r, r))
  <2> HIDE DEF e
  <2>1. Len(e) = n + 1 /\ e[n + 1] = Piece(i, r, r) /\ (\A j \in 1 .. n : e[j] = pieces[j])
        /\ e # <<>>
    BY <1>1, <1>5
  <2>2. Piece(i, r, r).from = r /\ Piece(i, r, r).to = r
    BY DEF Piece
  <2>3. prefix + Width(Piece(i, r, r)) <= physical
    <3>1. Width(Piece(i, r, r)) = text[i][r]
      BY Widths
    <3>2. PrefixBytes + text[i][r] <= physical
      BY RuneAssumption DEF Given
    <3> QED BY <1>1, <3>1, <3>2
  <2>4. r = IF n + 1 = 1 THEN 1 ELSE pieces[n].to + 1
    <3>1. CASE pieces = <<>>
      BY <1>1, <3>1 DEF Cuts
    <3>2. CASE pieces # <<>>
      <4>1. n >= 1 /\ pieces[n].to = r - 1
        BY <1>1, <3>2 DEF Cuts
      <4> QED BY <1>1, <4>1
    <3> QED BY <3>1, <3>2
  <2>5. ASSUME NEW j \in 1 .. Len(e)
        PROVE  /\ e[j].from = IF j = 1 THEN 1 ELSE e[j - 1].to + 1
               /\ e[j].from <= e[j].to
               /\ prefix + Width(e[j]) <= physical
    <3>1. CASE j = n + 1
      <4>1. j # 1 => e[j - 1] = pieces[n]
        BY <1>1, <2>1, <3>1
      <4> QED BY <1>1, <2>1, <2>2, <2>3, <2>4, <3>1, <4>1
    <3>2. CASE j # n + 1
      <4>1. j \in 1 .. n /\ e[j] = pieces[j] /\ (j # 1 => e[j - 1] = pieces[j - 1])
        BY <1>1, <2>1, <3>2
      <4> QED BY <4>1 DEF Cuts
    <3> QED BY <3>1, <3>2
  <2>6. (e = <<>>) <=> (r = 0)
    BY <1>1, <2>1
  <2>7. e[Len(e)].to = r
    BY <2>1, <2>2
  <2> HIDE DEF n
  <2>8. Cuts(i, prefix, e, r)
    BY <1>2, <2>5, <2>6, <2>7 DEF Cuts
  <2> QED BY <2>8 DEF e
<1> QED BY <1>1, <1>4, <1>5, ExtendShapes

\* The recursion of Fragments defines it.
LEMMA FragmentsExist ==
    ASSUME Given, NEW i \in DOMAIN text, NEW prefix
    PROVE  \E cut \in [0 .. Len(text[i]) -> Seq(PiecesOf(i))] :
                /\ cut[0] = <<>>
                /\ \A r \in 1 .. Len(text[i]) : cut[r] = Extend(i, prefix, cut[r - 1], r)
                /\ Fragments(i, prefix) = cut[Len(text[i])]
<1> DEFINE N == Len(text[i])
           S == Seq(PiecesOf(i))
           step == [r \in 1 .. N |-> [pieces \in S |-> Extend(i, prefix, pieces, r)]]
           cut == CHOOSE f : f = [r \in 0 .. N |->
                                    IF r = 0 THEN <<>> ELSE Extend(i, prefix, f[r - 1], r)]
<1>1. N \in Nat /\ DOMAIN text[i] = 1 .. N /\ <<>> \in S
  BY WordTypes
<1>2. Fragments(i, prefix) = cut[N]
  BY DEF Fragments
<1>3. step \in [1 .. N -> [S -> S]]
  BY <1>1, ExtendShapes
<1>4. \E f : f = [r \in 0 .. N |-> IF r = 0 THEN <<>> ELSE Extend(i, prefix, f[r - 1], r)]
  <2> HIDE DEF step, N, S
  <2>1. PICK f \in [0 .. N -> S] : Recurs(f, N, <<>>, step)
    BY <1>1, <1>3, Recursion
  <2>2. ASSUME NEW r \in 1 .. N PROVE step[r][f[r - 1]] = Extend(i, prefix, f[r - 1], r)
    <3>1. r - 1 \in 0 .. N
      BY <1>1
    <3>2. f[r - 1] \in S
      BY <2>1, <3>1
    <3> QED BY <3>2 DEF step
  <2>3. f = [r \in 0 .. N |-> IF r = 0 THEN <<>> ELSE step[r][f[r - 1]]]
    BY <2>1 DEF Recurs
  <2>4. f = [r \in 0 .. N |-> IF r = 0 THEN <<>> ELSE Extend(i, prefix, f[r - 1], r)]
    <3>1. \A r \in 0 .. N : r # 0 => r \in 1 .. N
      OBVIOUS
    <3> QED BY <2>2, <2>3, <3>1
  <2> QED BY <2>4
<1>5. cut = [r \in 0 .. N |-> IF r = 0 THEN <<>> ELSE Extend(i, prefix, cut[r - 1], r)]
  BY <1>4, Zenon
<1> HIDE DEF cut, step, S, N
<1>6. cut[0] = <<>> /\ \A r \in 1 .. N : cut[r] = Extend(i, prefix, cut[r - 1], r)
  <2>1. 0 \in 0 .. N /\ \A r \in 1 .. N : r \in 0 .. N /\ r # 0
    BY <1>1
  <2> QED BY <1>5, <2>1
<1>7. \A r \in 0 .. N : r \in {q \in 0 .. N : cut[q] \in S}
  <2> DEFINE T == {q \in 0 .. N : cut[q] \in S}
  <2>1. 0 \in T
    BY <1>1, <1>6
  <2>2. ASSUME NEW r \in 1 .. N, r - 1 \in T PROVE r \in T
    <3>1. cut[r] = Extend(i, prefix, cut[r - 1], r) /\ cut[r - 1] \in S
      BY <1>6, <2>2
    <3>2. r \in DOMAIN text[i] /\ r \in 0 .. N
      BY <1>1
    <3> QED BY <3>1, <3>2, ExtendShapes DEF S
  <2> HIDE DEF T
  <2>3. \A r \in 0 .. N : r \in T
    BY <1>1, <2>1, <2>2, UpTo
  <2> QED BY <2>3 DEF T
<1>8. cut \in [0 .. N -> S]
  BY <1>5, <1>7
<1> QED BY <1>2, <1>6, <1>8 DEF N, S

\* The fragments of a word hold it from its first rune to its last.
LEMMA FragmentsCut ==
    ASSUME Given, NEW i \in DOMAIN text, NEW prefix \in 0 .. PrefixBytes
    PROVE  Cuts(i, prefix, Fragments(i, prefix), Len(text[i]))
<1> DEFINE N == Len(text[i])
<1>1. N \in Nat /\ DOMAIN text[i] = 1 .. N
  BY WordTypes
<1> HIDE DEF N
<1>2. PICK cut \in [0 .. N -> Seq(PiecesOf(i))] :
            /\ cut[0] = <<>>
            /\ \A r \in 1 .. N : cut[r] = Extend(i, prefix, cut[r - 1], r)
            /\ Fragments(i, prefix) = cut[N]
  BY FragmentsExist DEF N
<1>3. \A r \in 0 .. N : r \in {q \in 0 .. N : Cuts(i, prefix, cut[q], q)}
  <2> DEFINE T == {q \in 0 .. N : Cuts(i, prefix, cut[q], q)}
  <2>1. 0 \in T
    <3>1. Cuts(i, prefix, <<>>, 0)
      BY DEF Cuts
    <3> QED BY <1>1, <1>2, <3>1
  <2>2. ASSUME NEW r \in 1 .. N, r - 1 \in T PROVE r \in T
    <3>1. cut[r] = Extend(i, prefix, cut[r - 1], r)
      BY <1>2
    <3>2. r \in DOMAIN text[i] /\ Cuts(i, prefix, cut[r - 1], r - 1)
      BY <1>1, <2>2
    <3>3. Cuts(i, prefix, Extend(i, prefix, cut[r - 1], r), r)
      BY <3>2, ExtendCuts
    <3> QED BY <1>1, <3>1, <3>3
  <2> HIDE DEF T
  <2>3. \A r \in 0 .. N : r \in T
    BY <1>1, <2>1, <2>2, UpTo
  <2> QED BY <2>3 DEF T
<1> QED BY <1>1, <1>2, <1>3 DEF N

-----------------------------------------------------------------------------
(* The chunks the scan builds hold the words it has seen. *)

Lists == Seq(Seq(Pieces))

LEMMA PieceTypes ==
    ASSUME Given, NEW i \in DOMAIN text
    PROVE  /\ PiecesOf(i) \subseteq Pieces
           /\ Word(i) \in Pieces /\ Word(i).word = i /\ Word(i).from = 1
           /\ 1 <= Word(i).to /\ After(Word(i)) = <<i + 1, 1>>
<1>1. /\ DOMAIN text[i] = 1 .. Len(text[i]) /\ Len(text[i]) \in Nat \ {0}
  BY WordTypes
<1>2. 1 \in DOMAIN text[i] /\ Len(text[i]) \in DOMAIN text[i] /\ DOMAIN text[i] \subseteq Nat
  BY <1>1
<1>3. ASSUME NEW p \in PiecesOf(i) PROVE p \in Pieces
  BY <1>2, <1>3 DEF PiecesOf, Pieces
<1>4. Word(i) \in PiecesOf(i)
  BY <1>2 DEF Word, Piece, PiecesOf
<1>5. Word(i).word = i /\ Word(i).from = 1 /\ Word(i).to = Len(text[i])
  BY DEF Word, Piece
<1>6. 1 <= Word(i).to /\ After(Word(i)) = <<i + 1, 1>>
  BY <1>1, <1>5 DEF After
<1> QED BY <1>3, <1>4, <1>5, <1>6

\* The next word as a chunk of its own.
LEMMA HoldsAppend ==
    ASSUME Given, NEW i \in DOMAIN text, NEW list \in Lists, Holds(list, i - 1)
    PROVE  Holds(Append(list, <<Word(i)>>), i)
<1> DEFINE new == Append(list, <<Word(i)>>)
           n == Len(list)
<1>1. i \in Nat \ {0}
  BY WordTypes
<1>2. /\ n \in Nat /\ Len(new) = n + 1 /\ new # <<>> /\ DOMAIN new = 1 .. n + 1
      /\ new[n + 1] = <<Word(i)>> /\ \A c \in 1 .. n : new[c] = list[c]
      /\ DOMAIN list = 1 .. n
  <2> DEFINE chunk == <<Word(i)>>
  <2>1. chunk \in Seq(Pieces)
    BY PieceTypes
  <2> HIDE DEF chunk
  <2>2. /\ n \in Nat /\ DOMAIN list = 1 .. n
        /\ Len(Append(list, chunk)) = n + 1 /\ DOMAIN Append(list, chunk) = 1 .. n + 1
        /\ Append(list, chunk)[n + 1] = chunk
        /\ \A c \in 1 .. n : Append(list, chunk)[c] = list[c]
    BY <2>1 DEF Lists
  <2>3. Append(list, chunk) # <<>>
    BY <2>1 DEF Lists
  <2> QED BY <2>2, <2>3 DEF chunk
<1> HIDE DEF new
<1>3. ASSUME NEW c \in DOMAIN new
      PROVE  /\ new[c] # <<>>
             /\ \A j \in DOMAIN new[c] :
                    /\ <<new[c][j].word, new[c][j].from>> = Before(new, c, j)
                    /\ new[c][j].from <= new[c][j].to
  <2>1. CASE c <= n
    <3>1. c \in DOMAIN list /\ new[c] = list[c] /\ (c > 1 => new[c - 1] = list[c - 1])
      BY <1>2, <2>1
    <3>2. \A j : Before(new, c, j) = Before(list, c, j)
      BY <3>1 DEF Before
    <3> QED BY <3>1, <3>2 DEF Holds
  <2>2. CASE c = n + 1
    <3>1. new[c] = <<Word(i)>> /\ DOMAIN new[c] = {1} /\ new[c][1] = Word(i)
      BY <1>2, <2>2
    <3>2. Before(new, c, 1) = <<i, 1>>
      <4>1. CASE n = 0
        <5>1. list = <<>>
          BY <4>1 DEF Lists
        <5>2. i - 1 = 0
          BY <5>1 DEF Holds
        <5> QED BY <1>1, <2>2, <4>1, <5>2 DEF Before
      <4>2. CASE n # 0
        <5>1. list # <<>> /\ n \in 1 .. n /\ c > 1 /\ c - 1 = n
          BY <1>2, <2>2, <4>2
        <5>2. After(Last(Last(list))) = <<(i - 1) + 1, 1>>
          BY <5>1 DEF Holds
        <5>3. Before(new, c, 1) = After(Last(list[n]))
          BY <1>2, <5>1 DEF Before
        <5> QED BY <1>1, <5>2, <5>3 DEF Last
      <4> QED BY <4>1, <4>2
    <3>3. Word(i).word = i /\ Word(i).from = 1 /\ 1 <= Word(i).to
      BY PieceTypes
    <3>4. new[c] # <<>>
      BY <3>1
    <3> QED BY <3>1, <3>2, <3>3, <3>4
  <2> QED BY <1>2, <2>1, <2>2
<1>4. After(Last(Last(new))) = <<i + 1, 1>>
  <2>1. Last(new) = <<Word(i)>>
    BY <1>2 DEF Last
  <2>2. Last(<<Word(i)>>) = Word(i)
    BY DEF Last
  <2> QED BY <2>1, <2>2, PieceTypes
<1>5. Holds(new, i)
  BY <1>1, <1>2, <1>3, <1>4 DEF Holds
<1> QED BY <1>5 DEF new

\* The next word at the end of the last chunk.
LEMMA HoldsJoin ==
    ASSUME Given, NEW i \in DOMAIN text, NEW sent \in Lists, NEW cur \in Seq(Pieces),
           cur # <<>>, Holds(Append(sent, cur), i - 1)
    PROVE  Holds(Append(sent, Append(cur, Word(i))), i)
<1> DEFINE old == Append(sent, cur)
           joined == Append(cur, Word(i))
           new == Append(sent, joined)
           n == Len(sent) + 1
<1>1. i \in Nat \ {0}
  BY WordTypes
<1>2. /\ n \in Nat \ {0} /\ Len(new) = n /\ Len(old) = n /\ DOMAIN new = 1 .. n /\ DOMAIN old = 1 .. n
      /\ new[n] = joined /\ old[n] = cur /\ (\A c \in 1 .. n - 1 : new[c] = old[c])
      /\ new # <<>> /\ old # <<>>
  BY DEF Lists
<1>3. /\ Len(cur) \in Nat \ {0} /\ DOMAIN cur = 1 .. Len(cur) /\ DOMAIN joined = 1 .. Len(cur) + 1
      /\ Len(joined) = Len(cur) + 1 /\ joined # <<>>
      /\ joined[Len(cur) + 1] = Word(i) /\ \A j \in 1 .. Len(cur) : joined[j] = cur[j]
  <2>1. Word(i) \in Pieces
    BY PieceTypes
  <2> QED BY <2>1
<1>4. Holds(old, i - 1)
  OBVIOUS
<1> HIDE DEF new, old, joined
<1>5. ASSUME NEW c \in DOMAIN new
      PROVE  /\ new[c] # <<>>
             /\ \A j \in DOMAIN new[c] :
                    /\ <<new[c][j].word, new[c][j].from>> = Before(new, c, j)
                    /\ new[c][j].from <= new[c][j].to
  <2>1. c \in DOMAIN old /\ (c > 1 => new[c - 1] = old[c - 1])
    BY <1>2
  <2>2. CASE c # n
    <3>1. new[c] = old[c]
      BY <1>2, <2>2
    <3>2. \A j : Before(new, c, j) = Before(old, c, j)
      BY <2>1, <3>1 DEF Before
    <3> QED BY <1>4, <2>1, <3>1, <3>2 DEF Holds
  <2>3. CASE c = n
    <3>1. new[c] = joined /\ old[c] = cur
      BY <1>2, <2>3
    <3>2. ASSUME NEW j \in DOMAIN joined
          PROVE  /\ <<joined[j].word, joined[j].from>> = Before(new, c, j)
                 /\ joined[j].from <= joined[j].to
      <4>1. CASE j # Len(cur) + 1
        <5>1. j \in DOMAIN cur /\ joined[j] = cur[j] /\ (j > 1 => joined[j - 1] = cur[j - 1])
          BY <1>3, <4>1
        <5>2. Before(new, c, j) = Before(old, c, j)
          BY <2>1, <3>1, <5>1 DEF Before
        <5>3. <<cur[j].word, cur[j].from>> = Before(old, c, j) /\ cur[j].from <= cur[j].to
          BY <1>4, <2>1, <3>1, <5>1 DEF Holds
        <5> QED BY <5>1, <5>2, <5>3
      <4>2. CASE j = Len(cur) + 1
        <5>1. joined[j] = Word(i) /\ j > 1 /\ joined[j - 1] = cur[Len(cur)]
          BY <1>3, <4>2
        <5>2. Before(new, c, j) = After(cur[Len(cur)])
          BY <3>1, <5>1 DEF Before
        <5>3. After(cur[Len(cur)]) = <<(i - 1) + 1, 1>>
          <6>1. Last(Last(old)) = cur[Len(cur)]
            BY <1>2, <2>3 DEF Last
          <6> QED BY <1>2, <1>4, <6>1 DEF Holds
        <5>4. Word(i).word = i /\ Word(i).from = 1 /\ 1 <= Word(i).to
          BY PieceTypes
        <5> QED BY <1>1, <5>1, <5>2, <5>3, <5>4
      <4> QED BY <4>1, <4>2
    <3> QED BY <1>3, <3>1, <3>2
  <2> QED BY <2>2, <2>3
<1>6. After(Last(Last(new))) = <<i + 1, 1>>
  <2>1. Last(Last(new)) = Word(i)
    BY <1>2, <1>3 DEF Last
  <2> QED BY <2>1, PieceTypes
<1>7. Holds(new, i)
  BY <1>1, <1>2, <1>5, <1>6 DEF Holds
<1> QED BY <1>7 DEF new, joined

\* The fragments of the next word, each as a chunk of its own.
LEMMA HoldsSplit ==
    ASSUME Given, NEW i \in DOMAIN text, NEW prefix, NEW F, Cuts(i, prefix, F, Len(text[i])),
           NEW list \in Lists, Holds(list, i - 1)
    PROVE  /\ list \o [k \in DOMAIN F |-> <<F[k]>>] \in Lists
           /\ Holds(list \o [k \in DOMAIN F |-> <<F[k]>>], i)
<1> DEFINE m == Len(F)
           n == Len(list)
           tail == [k \in DOMAIN F |-> <<F[k]>>]
           new == list \o tail
<1>1. /\ i \in Nat \ {0} /\ Len(text[i]) \in Nat \ {0} /\ F \in Seq(PiecesOf(i))
      /\ m \in Nat /\ DOMAIN F = 1 .. m
  BY WordTypes DEF Cuts
<1>2. F # <<>> /\ m \in Nat \ {0}
  <2>1. F # <<>>
    BY <1>1 DEF Cuts
  <2> QED BY <1>1, <2>1
<1>3. \A k \in 1 .. m : F[k] \in PiecesOf(i) /\ F[k] \in Pieces /\ F[k].word = i
  <2>1. \A k \in 1 .. m : F[k] \in PiecesOf(i)
    BY <1>1
  <2>2. \A p \in PiecesOf(i) : p.word = i /\ p \in Pieces
    BY PieceTypes DEF PiecesOf
  <2> QED BY <2>1, <2>2
<1>4. tail \in Seq(Seq(Pieces)) /\ Len(tail) = m /\ \A k \in 1 .. m : tail[k] = <<F[k]>>
  <2>1. \A k \in 1 .. m : <<F[k]>> \in Seq(Pieces)
    BY <1>3
  <2>2. tail \in [1 .. m -> Seq(Pieces)]
    BY <1>1, <2>1
  <2> QED BY <1>1, <2>2
<1> HIDE DEF tail
<1>5. /\ n \in Nat /\ DOMAIN list = 1 .. n /\ new \in Lists /\ Len(new) = n + m
      /\ DOMAIN new = 1 .. n + m
      /\ (\A c \in 1 .. n : new[c] = list[c])
      /\ \A c \in n + 1 .. n + m : new[c] = tail[c - n]
  <2>1. list \in Seq(Seq(Pieces)) /\ tail \in Seq(Seq(Pieces))
    BY <1>4 DEF Lists
  <2>2. n \in Nat /\ DOMAIN list = 1 .. n
    BY <2>1
  <2>3. new \in Lists /\ Len(new) = n + m /\ DOMAIN new = 1 .. n + m
    <3>1. new \in Seq(Seq(Pieces))
      BY <2>1
    <3>2. Len(new) = Len(list) + Len(tail)
      BY <2>1
    <3> HIDE DEF new
    <3> QED BY <1>1, <1>4, <2>2, <3>1, <3>2 DEF Lists
  <2>4. ASSUME NEW c \in 1 .. n PROVE new[c] = list[c]
    BY <1>1, <1>4, <2>1
  <2>5. ASSUME NEW c \in n + 1 .. n + m PROVE new[c] = tail[c - n]
    BY <1>1, <1>4, <2>1
  <2> QED BY <2>2, <2>3, <2>4, <2>5
<1>6. new # <<>>
  BY <1>2, <1>4 DEF Lists
<1> HIDE DEF new, m, n
<1>7. \A c \in n + 1 .. n + m : c - n \in 1 .. m /\ new[c] = <<F[c - n]>>
  BY <1>1, <1>4, <1>5
<1>8. ASSUME NEW c \in DOMAIN new
      PROVE  /\ new[c] # <<>>
             /\ \A j \in DOMAIN new[c] :
                    /\ <<new[c][j].word, new[c][j].from>> = Before(new, c, j)
                    /\ new[c][j].from <= new[c][j].to
  <2>1. CASE c <= n
    <3>1. c \in DOMAIN list /\ new[c] = list[c] /\ (c > 1 => new[c - 1] = list[c - 1])
      BY <1>1, <1>5, <2>1
    <3>2. \A j : Before(new, c, j) = Before(list, c, j)
      BY <3>1 DEF Before
    <3> QED BY <3>1, <3>2 DEF Holds
  <2>2. CASE c > n
    <3>1. c \in n + 1 .. n + m
      BY <1>1, <1>5, <2>2
    <3> DEFINE k == c - n
    <3>2. k \in 1 .. m /\ new[c] = <<F[k]>>
      BY <1>7, <3>1
    <3>3. DOMAIN new[c] = {1} /\ new[c][1] = F[k] /\ new[c] # <<>>
      BY <3>2
    <3>4. F[k].word = i /\ F[k].from <= F[k].to
          /\ F[k].from = IF k = 1 THEN 1 ELSE F[k - 1].to + 1
      <4>1. k \in 1 .. Len(F)
        BY <3>2 DEF m
      <4> HIDE DEF k
      <4> QED BY <1>3, <3>2, <4>1 DEF Cuts
    <3>5. Before(new, c, 1) = <<i, F[k].from>>
      <4>1. CASE k = 1 /\ n = 0
        <5>1. list = <<>>
          BY <4>1 DEF Lists, n
        <5>2. i - 1 = 0
          BY <5>1 DEF Holds
        <5> QED BY <1>1, <3>4, <4>1, <5>2 DEF Before
      <4>2. CASE k = 1 /\ n # 0
        <5>1. list # <<>> /\ n \in 1 .. n /\ c > 1 /\ c - 1 = n
          BY <1>5, <3>1, <4>2 DEF n
        <5>2. After(Last(Last(list))) = <<(i - 1) + 1, 1>>
          BY <5>1 DEF Holds
        <5>3. Before(new, c, 1) = After(Last(list[n]))
          BY <1>5, <5>1 DEF Before
        <5>4. Last(list) = list[n]
          BY DEF Last, n
        <5> QED BY <1>1, <3>4, <4>2, <5>2, <5>3, <5>4
      <4>3. CASE k # 1
        <5>1. /\ k - 1 \in 1 .. m /\ c - 1 \in n + 1 .. n + m /\ c > 1
              /\ (c - 1) - n = k - 1
          BY <1>1, <1>5, <3>1, <3>2, <4>3
        <5>2. Last(new[c - 1]) = F[k - 1]
          <6>1. new[c - 1] = <<F[k - 1]>>
            BY <1>7, <5>1
          <6> QED BY <6>1 DEF Last
        <5>3. Before(new, c, 1) = After(F[k - 1])
          BY <5>1, <5>2 DEF Before
        <5>4. F[k - 1].to # Len(text[i]) /\ F[k - 1].word = i
          <6>1. F[k] \in PiecesOf(i) /\ F[k - 1] \in PiecesOf(i)
            BY <1>3, <3>2, <5>1
          <6>2. /\ F[k].from \in 1 .. Len(text[i]) /\ F[k - 1].to \in 1 .. Len(text[i])
                /\ F[k - 1].word = i
            BY <6>1, WordTypes DEF PiecesOf
          <6> HIDE DEF k
          <6> QED BY <1>1, <3>4, <4>3, <6>2
        <5> HIDE DEF k
        <5> QED BY <3>4, <4>3, <5>3, <5>4 DEF After
      <4> QED BY <4>1, <4>2, <4>3
    <3> QED BY <3>3, <3>4, <3>5
  <2> QED BY <1>5, <2>1, <2>2
<1>9. After(Last(Last(new))) = <<i + 1, 1>>
  <2>1. n + m \in n + 1 .. n + m /\ (n + m) - n = m
    BY <1>2, <1>5
  <2>2. new[n + m] = <<F[m]>>
    BY <1>7, <2>1
  <2>3. Last(Last(new)) = F[m]
    BY <1>5, <2>2 DEF Last
  <2>4. F[m].to = Len(text[i]) /\ F[m].word = i
    <3>1. m \in 1 .. m /\ m = Len(F)
      BY <1>2 DEF m
    <3> QED BY <1>2, <1>3, <3>1 DEF Cuts
  <2> QED BY <2>3, <2>4 DEF After
<1>10. Holds(new, i)
  BY <1>1, <1>6, <1>8, <1>9 DEF Holds
<1> QED BY <1>5, <1>10 DEF new, tail

-----------------------------------------------------------------------------
(* The steps of the scan. *)

States == [sent : Lists, cur : Seq(Pieces), over : BOOLEAN]

\* The chunks there are when the chunk at hand counts as one.
Flushed(s) == Flush(s).sent

\* What ChunksFit says of a chunk.
ChunkOK(chunk, prefix) ==
    /\ prefix + Size(chunk) <= physical
    /\ prefix + Size(chunk) <= soft \/ Len(chunk) = 1

LEMMA FlushShapes ==
    ASSUME NEW s \in States
    PROVE  /\ Flush(s) = [sent |-> Flushed(s), cur |-> <<>>, over |-> s.over]
           /\ Flushed(s) \in Lists
           /\ s.cur = <<>> => Flushed(s) = s.sent
           /\ s.cur # <<>> => Flushed(s) = Append(s.sent, s.cur)
<1>1. s.sent \in Lists /\ s.cur \in Seq(Pieces) /\ s = [sent |-> s.sent, cur |-> s.cur, over |-> s.over]
  BY DEF States
<1>2. CASE s.cur = <<>>
  <2>1. Flush(s) = s
    BY <1>2 DEF Flush
  <2> QED BY <1>1, <1>2, <2>1 DEF Flushed
<1>3. CASE s.cur # <<>>
  <2>1. Flush(s) = [s EXCEPT !.sent = Append(s.sent, s.cur), !.cur = <<>>]
    BY <1>3 DEF Flush
  <2>2. Flush(s) = [sent |-> Append(s.sent, s.cur), cur |-> <<>>, over |-> s.over]
    BY <1>1, <2>1
  <2>3. Append(s.sent, s.cur) \in Lists
    BY <1>1 DEF Lists
  <2> QED BY <1>3, <2>2, <2>3 DEF Flushed
<1> QED BY <1>2, <1>3

\* The next word may join the chunk at hand.
CanJoin(s, i, prefix) ==
    LET n == prefix + Size(Append(s.cur, Word(i)))
    IN  n <= soft /\ Fits(n)

\* The ways the scan takes a word.
Joins(s, a, i, prefix) ==
    /\ s.cur # <<>> /\ CanJoin(s, i, prefix)
    /\ a.sent = s.sent /\ a.cur = Append(s.cur, Word(i))
    /\ Flushed(a) = Append(s.sent, Append(s.cur, Word(i)))
    /\ Len(s.sent) < MaxChunks
    /\ ChunkOK(Append(s.cur, Word(i)), prefix)

Starts(s, a, i, prefix) ==
    /\ s.cur # <<>> => ~CanJoin(s, i, prefix)
    /\ \/ a.sent = Flushed(s) /\ a.cur = <<Word(i)>>
       \/ a.cur = <<>> /\ prefix + Size(<<Word(i)>>) > soft
    /\ Flushed(a) = Append(Flushed(s), <<Word(i)>>)
    /\ Len(Flushed(s)) < MaxChunks
    /\ ChunkOK(<<Word(i)>>, prefix)

Splits(s, a, i, prefix) ==
    LET F == Fragments(i, prefix)
    IN  /\ a.cur = <<>>
        /\ Flushed(a) = Flushed(s) \o [k \in DOMAIN F |-> <<F[k]>>]
        /\ Len(Flushed(s)) + Len(F) <= MaxChunks
        /\ ~Fits(prefix + Width(Word(i)))

\* The ways the scan gives up at a word.
NoRoom(s, i, prefix) ==
    /\ Len(Flushed(s)) >= MaxChunks
    /\ Full(s) \/ ~CanJoin(s, i, prefix)

NoRoomToSplit(s, i, prefix) ==
    /\ Len(Flushed(s)) + Len(Fragments(i, prefix)) > MaxChunks
    /\ ~Fits(prefix + Width(Word(i)))

LEMMA AddWordCases ==
    ASSUME Given, NEW s \in States, NEW i \in DOMAIN text, NEW prefix \in 0 .. PrefixBytes
    PROVE  /\ AddWord(s, i, prefix) \in States
           /\ ~AddWord(s, i, prefix).over =>
                /\ ~s.over
                /\ \/ Joins(s, AddWord(s, i, prefix), i, prefix)
                   \/ Starts(s, AddWord(s, i, prefix), i, prefix)
                   \/ Splits(s, AddWord(s, i, prefix), i, prefix)
           /\ AddWord(s, i, prefix).over =>
                s.over \/ NoRoom(s, i, prefix) \/ NoRoomToSplit(s, i, prefix)
<1> DEFINE W == Word(i)
           joined == Append(s.cur, W)
           f == Flush(s)
           F == Fragments(i, prefix)
           a == AddWord(s, i, prefix)
<1>1. /\ s.sent \in Lists /\ s.cur \in Seq(Pieces) /\ s.over \in BOOLEAN
      /\ s = [sent |-> s.sent, cur |-> s.cur, over |-> s.over]
  BY DEF States
<1>2. W \in Pieces /\ joined \in Seq(Pieces) /\ <<W>> \in Seq(Pieces) /\ <<W>> # <<>>
      /\ Len(<<W>>) = 1 /\ joined # <<>>
  BY <1>1, PieceTypes
<1>3. f = [sent |-> Flushed(s), cur |-> <<>>, over |-> s.over] /\ Flushed(s) \in Lists
  BY FlushShapes
<1>4. ASSUME NEW t \in States PROVE GiveUp(t) \in States /\ GiveUp(t).over
  BY <1>4 DEF GiveUp, States
<1>5. /\ Len(s.sent) \in Nat /\ Len(Flushed(s)) \in Nat
      /\ MaxChunks \in Nat
  BY <1>1, <1>3, WordTypes DEF Lists
<1>6. Size(<<W>>) = Width(W)
  BY <1>2, Widths, SizeOfOne
<1>7. CASE s.over \/ Full(s)
  <2>1. a = GiveUp(s)
    BY <1>7 DEF AddWord
  <2>2. Full(s) => Len(Flushed(s)) >= MaxChunks
    <3>1. s.cur # <<>> => Len(Flushed(s)) = Len(s.sent) + 1
      BY <1>1, FlushShapes DEF Lists
    <3> QED BY <1>5, <3>1, FlushShapes DEF Full
  <2> QED BY <1>4, <1>7, <2>1, <2>2 DEF NoRoom
<1>8. CASE /\ ~(s.over \/ Full(s))
           /\ prefix + Size(joined) <= soft /\ Fits(prefix + Size(joined))
  <2>1. a = [s EXCEPT !.cur = joined]
    BY <1>8 DEF AddWord
  <2>2. a = [sent |-> s.sent, cur |-> joined, over |-> s.over]
    BY <1>1, <2>1
  <2> HIDE DEF a, joined
  <2>3. a \in States /\ a.cur = joined /\ a.sent = s.sent /\ ~a.over
    BY <1>1, <1>2, <1>8, <2>2 DEF States
  <2>4. Flushed(a) = Append(s.sent, joined)
    BY <1>2, <2>3, FlushShapes
  <2>5. Len(s.sent) < MaxChunks
    BY <1>5, <1>8 DEF Full
  <2>6. ChunkOK(joined, prefix)
    BY <1>8 DEF ChunkOK, Fits
  <2>7. CASE s.cur = <<>>
    <3>1. joined = <<W>>
      BY <2>7 DEF joined
    <3>2. Flushed(s) = s.sent
      BY <2>7, FlushShapes
    <3>3. Starts(s, a, i, prefix)
      BY <2>3, <2>4, <2>5, <2>6, <2>7, <3>1, <3>2 DEF Starts, W
    <3> QED BY <1>8, <2>3, <3>3 DEF a
  <2>8. CASE s.cur # <<>>
    <3>1. Joins(s, a, i, prefix)
      BY <1>8, <2>3, <2>4, <2>5, <2>6, <2>8 DEF Joins, CanJoin, joined
    <3> QED BY <1>8, <2>3, <3>1 DEF a
  <2> QED BY <2>7, <2>8
<1>9. CASE /\ ~(s.over \/ Full(s))
           /\ ~(prefix + Size(joined) <= soft /\ Fits(prefix + Size(joined)))
  <2>1. a = IF Full(f) THEN GiveUp(f)
            ELSE IF Fits(prefix + Width(W))
                 THEN IF prefix + Width(W) > soft
                      THEN Flush([f EXCEPT !.cur = <<W>>])
                      ELSE [f EXCEPT !.cur = <<W>>]
            ELSE Split(f, F)
    BY <1>9, Zenon DEF AddWord
  <2> HIDE DEF a, f, F, W, joined
  <2>2. f \in States /\ f.sent = Flushed(s) /\ f.over = s.over
    BY <1>1, <1>3 DEF States
  <2>0. ~CanJoin(s, i, prefix)
    BY <1>9 DEF CanJoin, joined, W
  <2>3. CASE Full(f)
    <3>1. a = GiveUp(f)
      BY <2>1, <2>3
    <3>2. NoRoom(s, i, prefix)
      BY <2>0, <2>2, <2>3 DEF Full, NoRoom
    <3> QED BY <1>4, <2>2, <3>1, <3>2 DEF a
  <2>4. CASE ~Full(f) /\ Fits(prefix + Width(W))
    <3> DEFINE t == [sent |-> Flushed(s), cur |-> <<W>>, over |-> s.over]
    <3>1. [f EXCEPT !.cur = <<W>>] = t
      BY <1>3
    <3>2. a = IF prefix + Width(W) > soft THEN Flush(t) ELSE t
      BY <2>1, <2>4, <3>1
    <3>3. t \in States /\ t.cur # <<>> /\ t.cur = <<W>> /\ t.sent = Flushed(s)
          /\ ~t.over
      BY <1>1, <1>2, <1>3, <1>9 DEF States
    <3> HIDE DEF t
    <3>4. Flushed(t) = Append(Flushed(s), <<W>>) /\ Flushed(t) \in Lists
          /\ Flush(t) = [sent |-> Flushed(t), cur |-> <<>>, over |-> t.over]
      BY <3>3, FlushShapes
    <3>5. t.over \in BOOLEAN
      BY <3>3 DEF States
    <3>6. Flush(t) \in States /\ Flush(t).cur = <<>> /\ Flush(t).sent = Flushed(t)
          /\ ~Flush(t).over
      BY <3>3, <3>4, <3>5 DEF States
    <3>7. Flushed(Flush(t)) = Flushed(t)
      BY <3>6, FlushShapes
    <3>8. a \in States /\ Flushed(a) = Append(Flushed(s), <<W>>) /\ ~a.over
      BY <3>2, <3>3, <3>4, <3>6, <3>7
    <3>9. ChunkOK(<<W>>, prefix)
      BY <1>2, <1>6, <2>4 DEF ChunkOK, Fits
    <3>10. Len(Flushed(s)) < MaxChunks
      BY <1>5, <2>2, <2>4 DEF Full
    <3>11. (a.sent = Flushed(s) /\ a.cur = <<W>>) \/ (a.cur = <<>> /\ prefix + Size(<<W>>) > soft)
      <4>1. CASE prefix + Width(W) > soft
        <5>1. a = Flush(t) /\ a.cur = <<>>
          BY <3>2, <3>6, <4>1
        <5> QED BY <1>6, <4>1, <5>1
      <4>2. CASE ~(prefix + Width(W) > soft)
        <5>1. a = t
          BY <3>2, <4>2
        <5> QED BY <3>3, <5>1
      <4> QED BY <4>1, <4>2
    <3>12. Starts(s, a, i, prefix)
      BY <2>0, <3>8, <3>9, <3>10, <3>11 DEF Starts, W
    <3> QED BY <1>9, <3>8, <3>12 DEF a
  <2>5. CASE ~Full(f) /\ ~Fits(prefix + Width(W))
    <3>1. a = Split(f, F)
      BY <2>1, <2>5
    <3>2. CASE Len(f.sent) + Len(F) > MaxChunks
      <4>1. a = GiveUp(f)
        BY <3>1, <3>2 DEF Split
      <4>2. NoRoomToSplit(s, i, prefix)
        BY <2>2, <2>5, <3>2 DEF NoRoomToSplit, F, W
      <4> QED BY <1>4, <2>2, <4>1, <4>2 DEF a
    <3>3. CASE ~(Len(f.sent) + Len(F) > MaxChunks)
      <4> DEFINE tail == [k \in DOMAIN F |-> <<F[k]>>]
      <4>1. a = [f EXCEPT !.sent = f.sent \o tail]
        BY <3>1, <3>3 DEF Split
      <4>2. F \in Seq(PiecesOf(i))
        BY FragmentsCut DEF F, Cuts
      <4>3. tail \in Seq(Seq(Pieces))
        <5>1. \A k \in DOMAIN F : F[k] \in Pieces
          BY <4>2, PieceTypes
        <5>2. \A k \in DOMAIN F : <<F[k]>> \in Seq(Pieces)
          BY <5>1
        <5>3. DOMAIN F = 1 .. Len(F) /\ Len(F) \in Nat
          BY <4>2
        <5>4. tail \in [1 .. Len(F) -> Seq(Pieces)]
          BY <5>2, <5>3
        <5> HIDE DEF tail
        <5> QED BY <5>3, <5>4
      <4> HIDE DEF tail
      <4>4. Flushed(s) \o tail \in Lists
        BY <1>3, <4>3 DEF Lists
      <4>5. a = [sent |-> Flushed(s) \o tail, cur |-> <<>>, over |-> s.over]
        BY <1>3, <4>1
      <4>6. a \in States /\ a.cur = <<>> /\ a.sent = Flushed(s) \o tail /\ ~a.over
        BY <1>1, <1>9, <4>4, <4>5 DEF States
      <4>7. Flushed(a) = Flushed(s) \o tail
        BY <4>6, FlushShapes
      <4>8. Len(Flushed(s)) + Len(F) <= MaxChunks
        <5>1. Len(F) \in Nat
          BY <4>2
        <5> QED BY <1>5, <2>2, <3>3, <5>1
      <4>9. Splits(s, a, i, prefix)
        BY <2>5, <4>6, <4>7, <4>8 DEF Splits, F, tail, W
      <4> QED BY <1>9, <4>6, <4>9 DEF a
    <3> QED BY <3>2, <3>3
  <2> QED BY <2>3, <2>4, <2>5
<1> QED BY <1>7, <1>8, <1>9

\* What the scan has when it has seen i words.
Good(s, i, prefix) ==
    ~s.over => /\ Len(Flushed(s)) <= MaxChunks
               /\ Holds(Flushed(s), i)
               /\ \A c \in DOMAIN Flushed(s) : ChunkOK(Flushed(s)[c], prefix)

LEMMA AddWordGood ==
    ASSUME Given, NEW s \in States, NEW i \in DOMAIN text, NEW prefix \in 0 .. PrefixBytes,
           Good(s, i - 1, prefix)
    PROVE  Good(AddWord(s, i, prefix), i, prefix)
<1> DEFINE a == AddWord(s, i, prefix)
           W == Word(i)
           F == Fragments(i, prefix)
           old == Flushed(s)
           new == Flushed(a)
<1>1. SUFFICES ASSUME ~a.over
               PROVE  /\ Len(new) <= MaxChunks /\ Holds(new, i)
                      /\ \A c \in DOMAIN new : ChunkOK(new[c], prefix)
  BY DEF Good
<1>2. /\ Len(old) <= MaxChunks /\ Holds(old, i - 1)
      /\ \A c \in DOMAIN old : ChunkOK(old[c], prefix)
  BY <1>1, AddWordCases DEF Good
<1>3. Joins(s, a, i, prefix) \/ Starts(s, a, i, prefix) \/ Splits(s, a, i, prefix)
  BY <1>1, AddWordCases
<1>4. /\ s.sent \in Lists /\ s.cur \in Seq(Pieces) /\ old \in Lists /\ W \in Pieces
      /\ MaxChunks \in Nat
  BY FlushShapes, PieceTypes, WordTypes DEF States
<1> HIDE DEF a, W, F, old, new
<1>5. CASE Joins(s, a, i, prefix)
  <2> DEFINE joined == Append(s.cur, W)
  <2>1. /\ s.cur # <<>> /\ new = Append(s.sent, joined) /\ Len(s.sent) < MaxChunks
        /\ ChunkOK(joined, prefix)
    BY <1>5 DEF Joins, new, W
  <2>2. old = Append(s.sent, s.cur)
    BY <2>1, FlushShapes DEF old
  <2>3. Holds(new, i)
    BY <1>2, <1>4, <2>1, <2>2, HoldsJoin DEF W
  <2>4. joined \in Seq(Pieces)
    BY <1>4
  <2> HIDE DEF joined
  <2>5. Len(new) = Len(s.sent) + 1 /\ DOMAIN new = DOMAIN old
        /\ \A c \in DOMAIN new : new[c] = joined \/ new[c] = old[c]
    BY <1>4, <2>1, <2>2, <2>4 DEF Lists
  <2>6. Len(s.sent) \in Nat
    BY <1>4 DEF Lists
  <2> QED BY <1>2, <1>4, <2>1, <2>3, <2>5, <2>6
<1>6. CASE Starts(s, a, i, prefix)
  <2> DEFINE chunk == <<W>>
  <2>1. /\ new = Append(old, chunk) /\ Len(old) < MaxChunks /\ ChunkOK(chunk, prefix)
    BY <1>6 DEF Starts, new, old, W
  <2>2. Holds(new, i)
    BY <1>2, <1>4, <2>1, HoldsAppend DEF W
  <2>3. chunk \in Seq(Pieces)
    BY <1>4
  <2> HIDE DEF chunk
  <2>4. Len(new) = Len(old) + 1 /\ Len(old) \in Nat
        /\ \A c \in DOMAIN new : new[c] = chunk \/ (c \in DOMAIN old /\ new[c] = old[c])
    BY <1>4, <2>1, <2>3 DEF Lists
  <2> QED BY <1>2, <1>4, <2>1, <2>2, <2>4
<1>7. CASE Splits(s, a, i, prefix)
  <2> DEFINE tail == [k \in DOMAIN F |-> <<F[k]>>]
  <2>1. new = old \o tail /\ Len(old) + Len(F) <= MaxChunks
    BY <1>7 DEF Splits, new, old, F
  <2>2. Cuts(i, prefix, F, Len(text[i]))
    BY FragmentsCut DEF F
  <2>3. new \in Lists /\ Holds(new, i)
    BY <1>2, <1>4, <2>1, <2>2, HoldsSplit
  <2>4. F \in Seq(PiecesOf(i)) /\ \A k \in 1 .. Len(F) : prefix + Width(F[k]) <= physical
    BY <2>2 DEF Cuts
  <2>5. ASSUME NEW k \in 1 .. Len(F) PROVE <<F[k]>> \in Seq(Pieces) /\ ChunkOK(<<F[k]>>, prefix)
    <3>1. F[k] \in Pieces
      BY <2>4, PieceTypes
    <3>2. Size(<<F[k]>>) = Width(F[k])
      BY <3>1, SizeOfOne, Widths
    <3>3. <<F[k]>> \in Seq(Pieces) /\ Len(<<F[k]>>) = 1
      BY <3>1
    <3> QED BY <2>4, <3>2, <3>3 DEF ChunkOK
  <2>6. DOMAIN F = 1 .. Len(F) /\ Len(F) \in Nat
    BY <2>4
  <2>7. tail \in Seq(Seq(Pieces)) /\ Len(tail) = Len(F) /\ DOMAIN tail = 1 .. Len(F)
        /\ \A k \in DOMAIN tail : ChunkOK(tail[k], prefix)
    <3>1. tail \in [1 .. Len(F) -> Seq(Pieces)] /\ \A k \in 1 .. Len(F) : tail[k] = <<F[k]>>
      BY <2>5, <2>6
    <3> HIDE DEF tail
    <3>2. tail \in Seq(Seq(Pieces)) /\ Len(tail) = Len(F) /\ DOMAIN tail = 1 .. Len(F)
      BY <2>6, <3>1
    <3> QED BY <2>5, <3>1, <3>2
  <2> HIDE DEF tail
  <2>8. Len(new) = Len(old) + Len(tail)
    <3>1. old \in Seq(Seq(Pieces)) /\ tail \in Seq(Seq(Pieces))
      BY <1>4, <2>7 DEF Lists
    <3> QED BY <2>1, <3>1
  <2>9. ASSUME NEW c \in DOMAIN new PROVE ChunkOK(new[c], prefix)
    <3>1. Len(old) \in Nat /\ DOMAIN old = 1 .. Len(old)
      BY <1>4 DEF Lists
    <3>2. c \in 1 .. Len(old) + Len(tail)
      BY <2>3, <2>8 DEF Lists
    <3>3. CASE c <= Len(old)
      <4>1. c \in DOMAIN old /\ new[c] = old[c]
        BY <1>4, <2>1, <2>7, <3>1, <3>2, <3>3 DEF Lists
      <4> QED BY <1>2, <4>1
    <3>4. CASE c > Len(old)
      <4>1. c - Len(old) \in DOMAIN tail /\ new[c] = tail[c - Len(old)]
        BY <1>4, <2>1, <2>6, <2>7, <3>1, <3>2, <3>4 DEF Lists
      <4> QED BY <2>7, <4>1
    <3> QED BY <3>1, <3>2, <3>3, <3>4
  <2> QED BY <2>1, <2>3, <2>7, <2>8, <2>9
<1> QED BY <1>3, <1>5, <1>6, <1>7

\* A word that fits is never too many while there is room for a chunk.
LEMMA AddWordRoom ==
    ASSUME Given, NEW s \in States, NEW i \in DOMAIN text, NEW prefix \in 0 .. PrefixBytes,
           ~s.over, Len(Flushed(s)) < MaxChunks, Fits(prefix + Width(Word(i)))
    PROVE  /\ ~AddWord(s, i, prefix).over
           /\ Len(Flushed(AddWord(s, i, prefix))) <= Len(Flushed(s)) + 1
<1> DEFINE a == AddWord(s, i, prefix)
<1>1. ~a.over
  <2>1. Flushed(s) \in Lists /\ MaxChunks \in Nat
    BY FlushShapes, WordTypes
  <2>2. ~(Len(Flushed(s)) >= MaxChunks)
    BY <2>1 DEF Lists
  <2> QED BY <2>2, AddWordCases DEF NoRoom, NoRoomToSplit
<1>2. /\ s.sent \in Lists /\ s.cur \in Seq(Pieces) /\ Flushed(s) \in Lists /\ Word(i) \in Pieces
  BY FlushShapes, PieceTypes DEF States
<1>3. Joins(s, a, i, prefix) \/ Starts(s, a, i, prefix)
  BY <1>1, AddWordCases DEF Splits
<1> HIDE DEF a
<1>4. CASE Joins(s, a, i, prefix)
  <2>1. /\ Flushed(a) = Append(s.sent, Append(s.cur, Word(i)))
        /\ Flushed(s) = Append(s.sent, s.cur)
    BY <1>4, FlushShapes DEF Joins
  <2>2. Append(s.cur, Word(i)) \in Seq(Pieces)
    BY <1>2
  <2>3. Len(Flushed(a)) = Len(s.sent) + 1 /\ Len(Flushed(s)) = Len(s.sent) + 1 /\ Len(s.sent) \in Nat
    BY <1>2, <2>1, <2>2 DEF Lists
  <2> QED BY <1>1, <2>3 DEF a
<1>5. CASE Starts(s, a, i, prefix)
  <2> DEFINE chunk == <<Word(i)>>
  <2>1. Flushed(a) = Append(Flushed(s), chunk)
    BY <1>5 DEF Starts
  <2>2. chunk \in Seq(Pieces)
    BY <1>2
  <2> HIDE DEF chunk
  <2>3. Len(Flushed(a)) = Len(Flushed(s)) + 1 /\ Len(Flushed(s)) \in Nat
    BY <1>2, <2>1, <2>2 DEF Lists
  <2> QED BY <1>1, <2>3 DEF a
<1> QED BY <1>3, <1>4, <1>5

-----------------------------------------------------------------------------
(* The whole scan. *)

LEMMA PrefixType == ASSUME NEW n, PrefixBytes \in Nat PROVE Prefix(n) \in 0 .. PrefixBytes
  BY DEF Prefix

LEMMA StartGood ==
    ASSUME Given, NEW prefix
    PROVE  Start \in States /\ ~Start.over /\ Flushed(Start) = <<>> /\ Good(Start, 0, prefix)
<1>1. Start \in States /\ ~Start.over /\ Start.cur = <<>> /\ Start.sent = <<>>
  BY DEF Start, States, Lists
<1>2. Flushed(Start) = <<>>
  BY <1>1, FlushShapes
<1>3. Holds(<<>>, 0)
  BY DEF Holds
<1>4. Good(Start, 0, prefix)
  BY <1>2, <1>3, WordTypes DEF Good
<1> QED BY <1>1, <1>2, <1>4

LEMMA ScanExists ==
    ASSUME Given, NEW n
    PROVE  \E f \in [0 .. Len(text) -> States] :
                /\ f[0] = Start
                /\ \A i \in 1 .. Len(text) : f[i] = AddWord(f[i - 1], i, Prefix(n))
                /\ Scan(n) = IF f[Len(text)].over THEN f[Len(text)] ELSE Flush(f[Len(text)])
<1> DEFINE N == Len(text)
           prefix == Prefix(n)
           step == [i \in 1 .. N |-> [s \in States |-> AddWord(s, i, prefix)]]
           scan == CHOOSE f : f = [i \in 0 .. N |->
                                    IF i = 0 THEN Start ELSE AddWord(f[i - 1], i, prefix)]
<1>1. N \in Nat /\ DOMAIN text = 1 .. N /\ prefix \in 0 .. PrefixBytes
  BY WordTypes, PrefixType
<1>2. Scan(n) = IF scan[N].over THEN scan[N] ELSE Flush(scan[N])
  BY DEF Scan, ScanWith
<1>3. step \in [1 .. N -> [States -> States]]
  <2> HIDE DEF prefix
  <2> QED BY <1>1, AddWordCases
<1>4. PICK f \in [0 .. N -> States] : Recurs(f, N, Start, step)
  <2> HIDE DEF step, N
  <2> QED BY <1>1, <1>3, StartGood, Recursion
<1>5. ASSUME NEW i \in 1 .. N PROVE step[i][f[i - 1]] = AddWord(f[i - 1], i, prefix)
  <2>1. i - 1 \in 0 .. N
    BY <1>1
  <2>2. f[i - 1] \in States
    BY <2>1
  <2> QED BY <2>2
<1> HIDE DEF step
<1>6. f = [i \in 0 .. N |-> IF i = 0 THEN Start ELSE AddWord(f[i - 1], i, prefix)]
  <2>1. f = [i \in 0 .. N |-> IF i = 0 THEN Start ELSE step[i][f[i - 1]]]
    BY <1>4 DEF Recurs
  <2>2. \A i \in 0 .. N : i # 0 => i \in 1 .. N
    OBVIOUS
  <2> HIDE DEF N, prefix
  <2> QED BY <1>5, <2>1, <2>2
<1>7. scan = [i \in 0 .. N |-> IF i = 0 THEN Start ELSE AddWord(scan[i - 1], i, prefix)]
  <2>1. \E g : g = [i \in 0 .. N |-> IF i = 0 THEN Start ELSE AddWord(g[i - 1], i, prefix)]
    BY <1>6
  <2> QED BY <2>1, Zenon
<1> HIDE DEF scan, N, prefix
<1>8. scan[0] = Start /\ \A i \in 1 .. N : scan[i] = AddWord(scan[i - 1], i, prefix)
  <2>1. 0 \in 0 .. N /\ \A i \in 1 .. N : i \in 0 .. N /\ i # 0
    BY <1>1
  <2> QED BY <1>7, <2>1
<1>9. \A i \in 0 .. N : i \in {k \in 0 .. N : scan[k] \in States}
  <2> DEFINE T == {k \in 0 .. N : scan[k] \in States}
  <2>1. 0 \in T
    <3>1. Start \in States
      BY StartGood
    <3>2. 0 \in 0 .. N /\ scan[0] = Start
      BY <1>1, <1>8
    <3> QED BY <3>1, <3>2
  <2>2. ASSUME NEW i \in 1 .. N, i - 1 \in T PROVE i \in T
    <3>1. scan[i] = AddWord(scan[i - 1], i, prefix) /\ scan[i - 1] \in States
      BY <1>8, <2>2
    <3>2. i \in DOMAIN text /\ i \in 0 .. N
      BY <1>1
    <3> QED BY <1>1, <3>1, <3>2, AddWordCases
  <2> HIDE DEF T
  <2>3. \A i \in 0 .. N : i \in T
    BY <1>1, <2>1, <2>2, UpTo
  <2> QED BY <2>3 DEF T
<1>10. scan \in [0 .. N -> States]
  BY <1>7, <1>9
<1> QED BY <1>2, <1>8, <1>10 DEF N, prefix

\* A pass that does not give up divides the whole text.
LEMMA ScanDivides ==
    ASSUME Given, NEW n
    PROVE  /\ Scan(n) \in States
           /\ ~Scan(n).over =>
                /\ Len(Scan(n).sent) <= MaxChunks
                /\ Holds(Scan(n).sent, Len(text))
                /\ \A c \in DOMAIN Scan(n).sent : ChunkOK(Scan(n).sent[c], Prefix(n))
<1> DEFINE N == Len(text)
           prefix == Prefix(n)
<1>1. N \in Nat /\ DOMAIN text = 1 .. N /\ prefix \in 0 .. PrefixBytes
  BY WordTypes, PrefixType
<1> HIDE DEF N, prefix
<1>2. PICK f \in [0 .. N -> States] :
            /\ f[0] = Start
            /\ \A i \in 1 .. N : f[i] = AddWord(f[i - 1], i, prefix)
            /\ Scan(n) = IF f[N].over THEN f[N] ELSE Flush(f[N])
  BY ScanExists DEF N, prefix
<1>3. \A i \in 0 .. N : i \in {k \in 0 .. N : Good(f[k], k, prefix)}
  <2> DEFINE T == {k \in 0 .. N : Good(f[k], k, prefix)}
  <2>1. 0 \in T
    BY <1>1, <1>2, StartGood
  <2>2. ASSUME NEW i \in 1 .. N, i - 1 \in T PROVE i \in T
    <3>1. f[i] = AddWord(f[i - 1], i, prefix) /\ Good(f[i - 1], i - 1, prefix)
      BY <1>2, <2>2
    <3>2. i \in DOMAIN text /\ i \in 0 .. N /\ f[i - 1] \in States
      BY <1>1, <1>2, <2>2
    <3>3. Good(AddWord(f[i - 1], i, prefix), i, prefix)
      BY <1>1, <3>1, <3>2, AddWordGood
    <3> QED BY <3>1, <3>2, <3>3
  <2> HIDE DEF T
  <2>3. \A i \in 0 .. N : i \in T
    BY <1>1, <2>1, <2>2, UpTo
  <2> QED BY <2>3 DEF T
<1>4. f[N] \in States /\ Good(f[N], N, prefix)
  BY <1>1, <1>2, <1>3
<1> DEFINE s == f[N]
<1>5. s \in States /\ Good(s, N, prefix) /\ Scan(n) = IF s.over THEN s ELSE Flush(s)
  BY <1>2, <1>4
<1> HIDE DEF s
<1>6. CASE s.over
  BY <1>5, <1>6
<1>7. CASE ~s.over
  <2>1. Scan(n) = [sent |-> Flushed(s), cur |-> <<>>, over |-> s.over] /\ Flushed(s) \in Lists
    BY <1>5, <1>7, FlushShapes
  <2>2. s.over \in BOOLEAN /\ <<>> \in Seq(Pieces)
    BY <1>5 DEF States
  <2>3. Scan(n) \in States /\ Scan(n).sent = Flushed(s)
    BY <2>1, <2>2 DEF States
  <2> QED BY <1>5, <1>7, <2>3 DEF Good, N, prefix
<1> QED BY <1>6, <1>7

LEMMA CountType ==
    ASSUME Given, NEW n
    PROVE  /\ Count(n) \in Nat
           /\ Count(n) <= MaxChunks => ~Scan(n).over
           /\ ~Scan(n).over => Count(n) = Len(Scan(n).sent)
<1>1. MaxChunks \in Nat
  BY WordTypes
<1>2. Scan(n).sent \in Lists
  BY ScanDivides DEF States
<1>3. Len(Scan(n).sent) \in Nat
  BY <1>2 DEF Lists
<1> QED BY <1>1, <1>3 DEF Count

\* The notice never makes too many chunks.
LEMMA NoticeNeverOver ==
    ASSUME Given, text = Notice, NEW n \in {0, 1}
    PROVE  ~Scan(n).over
<1> DEFINE N == Len(text)
<1>1. /\ N \in Nat /\ DOMAIN text = 1 .. N /\ PrefixBytes \in Nat
      /\ MaxChunks \in Nat /\ N <= MaxChunks
  BY WordTypes, NoticeAssumption
<1>2. Prefix(n) = 0
  BY DEF Prefix
<1>3. \A i \in DOMAIN text : Fits(0 + Width(Word(i)))
  <2>1. ASSUME NEW i \in DOMAIN text PROVE Fits(0 + Width(Word(i)))
    <3>1. Width(Word(i)) = Bytes(text[i])[Len(text[i])] /\ Word(i) \in Pieces
      BY Widths, PieceTypes
    <3>2. Width(Word(i)) \in Int
      BY <3>1, Widths
    <3>3. Bytes(text[i])[Len(text[i])] <= physical
      BY NoticeAssumption DEF Given
    <3> QED BY <3>1, <3>2, <3>3 DEF Fits
  <2> QED BY <2>1
<1> HIDE DEF N
<1>4. PICK f \in [0 .. N -> States] :
            /\ f[0] = Start
            /\ \A i \in 1 .. N : f[i] = AddWord(f[i - 1], i, 0)
            /\ Scan(n) = IF f[N].over THEN f[N] ELSE Flush(f[N])
  BY <1>2, ScanExists DEF N
<1>5. \A i \in 0 .. N : i \in {k \in 0 .. N : ~f[k].over /\ Len(Flushed(f[k])) <= k}
  <2> DEFINE T == {k \in 0 .. N : ~f[k].over /\ Len(Flushed(f[k])) <= k}
  <2>1. 0 \in T
    BY <1>1, <1>4, StartGood
  <2>2. ASSUME NEW i \in 1 .. N, i - 1 \in T PROVE i \in T
    <3>1. i \in DOMAIN text /\ i \in 0 .. N /\ f[i - 1] \in States /\ i - 1 \in Nat
      BY <1>1, <1>4, <2>2
    <3>2. f[i] = AddWord(f[i - 1], i, 0) /\ ~f[i - 1].over /\ Len(Flushed(f[i - 1])) <= i - 1
      BY <1>4, <2>2
    <3> DEFINE s == f[i - 1]
               a == AddWord(s, i, 0)
    <3>3. s \in States /\ ~s.over /\ Len(Flushed(s)) <= i - 1 /\ Len(Flushed(s)) \in Nat
      <4>1. Flushed(s) \in Lists
        BY <3>1, FlushShapes
      <4> QED BY <3>1, <3>2, <4>1 DEF Lists
    <3> HIDE DEF s
    <3>4. Len(Flushed(s)) < MaxChunks
      BY <1>1, <3>1, <3>3
    <3>5. 0 \in 0 .. PrefixBytes
      BY <1>1
    <3>6. ~a.over /\ Len(Flushed(a)) <= Len(Flushed(s)) + 1 /\ a \in States
      BY <1>3, <3>1, <3>3, <3>4, <3>5, AddWordRoom, AddWordCases
    <3>7. Len(Flushed(a)) \in Nat
      <4>1. Flushed(a) \in Lists
        BY <3>6, FlushShapes
      <4> QED BY <4>1 DEF Lists
    <3>8. f[i] = a
      BY <3>2 DEF s
    <3> HIDE DEF a
    <3> QED BY <3>1, <3>3, <3>6, <3>7, <3>8
  <2> HIDE DEF T
  <2>3. \A i \in 0 .. N : i \in T
    BY <1>1, <2>1, <2>2, UpTo
  <2> QED BY <2>3 DEF T
<1>6. f[N] \in States /\ ~f[N].over
  BY <1>1, <1>4, <1>5
<1>7. Flush(f[N]).over = f[N].over
  BY <1>6, FlushShapes
<1> QED BY <1>4, <1>6, <1>7

-----------------------------------------------------------------------------
(* The fewest steps to come to a number. *)

\* Every n can be reached from a smaller one.
ProperWays(ways) ==
    /\ ways \in Seq(SUBSET [after : Nat, chunks : Nat])
    /\ \A n \in DOMAIN ways : ways[n] # {} /\ \A w \in ways[n] : w.after < n

LEMMA MinOf ==
    ASSUME NEW S \in SUBSET Nat, S # {}
    PROVE  Min(S) \in S /\ \A x \in S : Min(S) <= x
<1>1. \E x \in S : \A y \in S : x <= y
  BY LeastElement
<1> QED BY <1>1, Zenon DEF Min

\* What it costs to reach n by one of the ways, when f gives the costs before.
Costs(ways, f, n) == {f[w.after] + w.chunks : w \in ways[n]}

LEMMA CostsType ==
    ASSUME NEW ways, ProperWays(ways), NEW n \in 1 .. Len(ways), NEW f,
           \A m \in 0 .. n - 1 : f[m] \in Nat
    PROVE  /\ Costs(ways, f, n) \in SUBSET Nat
           /\ Costs(ways, f, n) # {}
<1>1. /\ ways[n] \in SUBSET [after : Nat, chunks : Nat] /\ ways[n] # {} /\ n \in Nat
      /\ \A w \in ways[n] : w.after < n
  BY DEF ProperWays
<1>2. ASSUME NEW w \in ways[n] PROVE f[w.after] + w.chunks \in Nat
  <2>1. w.after \in 0 .. n - 1 /\ w.chunks \in Nat
    BY <1>1
  <2> QED BY <2>1
<1> QED BY <1>1, <1>2 DEF Costs

LEMMA SameCosts ==
    ASSUME NEW ways, ProperWays(ways), NEW n \in 1 .. Len(ways), NEW f, NEW g,
           \A m \in 0 .. n - 1 : f[m] = g[m]
    PROVE  Costs(ways, f, n) = Costs(ways, g, n)
<1>1. /\ ways[n] \in SUBSET [after : Nat, chunks : Nat] /\ n \in Nat
      /\ \A w \in ways[n] : w.after < n
  BY DEF ProperWays
<1>2. \A w \in ways[n] : w.after \in 0 .. n - 1
  BY <1>1
<1>3. \A w \in ways[n] : f[w.after] = g[w.after]
  BY <1>2
<1> QED BY <1>3 DEF Costs

LEMMA LeastExists ==
    ASSUME NEW ways, ProperWays(ways)
    PROVE  \E f : f = [n \in 0 .. Len(ways) |-> IF n = 0 THEN 0 ELSE Min(Costs(ways, f, n))]
<1> DEFINE N == Len(ways)
           S == [0 .. N -> Nat]
           zero == [n \in 0 .. N |-> 0]
           step == [n \in 1 .. N |-> [g \in S |->
                        [g EXCEPT ![n] = Min(Costs(ways, g, n))]]]
<1>1. N \in Nat
  BY DEF ProperWays
<1>2. zero \in S /\ zero[0] = 0
  BY <1>1
<1>3. ASSUME NEW n \in 1 .. N, NEW g \in S PROVE Min(Costs(ways, g, n)) \in Nat
  <2>1. \A m \in 0 .. n - 1 : g[m] \in Nat
    BY <1>1
  <2>2. Costs(ways, g, n) \in SUBSET Nat /\ Costs(ways, g, n) # {}
    BY <2>1, CostsType
  <2> QED BY <2>2, MinOf
<1>4. step \in [1 .. N -> [S -> S]]
  <2>1. ASSUME NEW n \in 1 .. N, NEW g \in S PROVE [g EXCEPT ![n] = Min(Costs(ways, g, n))] \in S
    BY <1>3
  <2> HIDE DEF S
  <2> QED BY <2>1
<1>5. PICK h \in [0 .. N -> S] : Recurs(h, N, zero, step)
  <2> HIDE DEF N, S, zero, step
  <2> QED BY <1>1, <1>2, <1>4, Recursion
<1>6. /\ h[0] = zero
      /\ \A n \in 1 .. N : h[n] = [h[n - 1] EXCEPT ![n] = Min(Costs(ways, h[n - 1], n))]
  <2>1. h = [n \in 0 .. N |-> IF n = 0 THEN zero ELSE step[n][h[n - 1]]]
    BY <1>5 DEF Recurs
  <2>2. h[0] = zero
    BY <1>1, <2>1
  <2>3. ASSUME NEW n \in 1 .. N PROVE h[n] = [h[n - 1] EXCEPT ![n] = Min(Costs(ways, h[n - 1], n))]
    <3>1. n \in 0 .. N /\ n # 0 /\ n - 1 \in 0 .. N
      BY <1>1
    <3>2. h[n] = step[n][h[n - 1]]
      <4> HIDE DEF step
      <4> QED BY <2>1, <3>1
    <3>3. h[n - 1] \in S
      BY <1>5, <3>1
    <3> HIDE DEF S
    <3> QED BY <3>2, <3>3
  <2> QED BY <2>2, <2>3
<1> DEFINE f == [n \in 0 .. N |-> h[n][n]]
<1> HIDE DEF zero, step, N
\* Once set, a value stays.
<1>7. \A k \in 0 .. N : k \in {q \in 0 .. N : \A n \in 0 .. q : h[q][n] = f[n]}
  <2> DEFINE T == {q \in 0 .. N : \A n \in 0 .. q : h[q][n] = f[n]}
  <2>1. 0 \in T
    BY <1>1
  <2>2. ASSUME NEW k \in 1 .. N, k - 1 \in T PROVE k \in T
    <3>1. ASSUME NEW n \in 0 .. k PROVE h[k][n] = f[n]
      <4>1. CASE n = k
        BY <1>1, <4>1
      <4>2. CASE n # k
        <5>1. n \in 0 .. k - 1 /\ k - 1 \in 0 .. N /\ n \in 0 .. N /\ k \in 0 .. N
          BY <1>1, <4>2
        <5>2. h[k - 1][n] = f[n]
          <6> HIDE DEF f
          <6> QED BY <2>2, <5>1
        <5>3. h[k] = [h[k - 1] EXCEPT ![k] = Min(Costs(ways, h[k - 1], k))]
          BY <1>6
        <5>4. h[k - 1] \in S
          BY <1>5, <5>1
        <5>5. h[k][n] = h[k - 1][n]
          BY <4>2, <5>1, <5>3, <5>4
        <5> HIDE DEF f
        <5> QED BY <5>2, <5>5
      <4> QED BY <4>1, <4>2
    <3> HIDE DEF f
    <3> QED BY <1>1, <3>1
  <2> HIDE DEF T
  <2>3. \A k \in 0 .. N : k \in T
    BY <1>1, <2>1, <2>2, UpTo
  <2> QED BY <2>3 DEF T
<1>8. ASSUME NEW n \in 1 .. N PROVE f[n] = Min(Costs(ways, f, n))
  <2>1. n \in 0 .. N /\ n - 1 \in 0 .. N
    BY <1>1
  <2>2. f[n] = h[n][n]
    BY <2>1
  <2>3. h[n][n] = Min(Costs(ways, h[n - 1], n))
    <3>1. h[n] = [h[n - 1] EXCEPT ![n] = Min(Costs(ways, h[n - 1], n))]
      BY <1>6
    <3>2. h[n - 1] \in S
      BY <1>5, <2>1
    <3> QED BY <2>1, <3>1, <3>2
  <2>4. \A m \in 0 .. n - 1 : h[n - 1][m] = f[m]
    <3> HIDE DEF f
    <3> QED BY <1>7, <2>1
  <2>5. Costs(ways, h[n - 1], n) = Costs(ways, f, n)
    <3> HIDE DEF f
    <3>1. n \in 1 .. Len(ways)
      BY DEF N
    <3> QED BY <2>4, <3>1, SameCosts
  <2> HIDE DEF f
  <2> QED BY <2>2, <2>3, <2>5
<1>9. f[0] = 0
  BY <1>1, <1>2, <1>6
<1>10. f = [n \in 0 .. N |-> IF n = 0 THEN 0 ELSE Min(Costs(ways, f, n))]
  <2>1. \A n \in 0 .. N : n # 0 => n \in 1 .. N
    BY <1>1
  <2>2. \A n \in 0 .. N : f[n] = IF n = 0 THEN 0 ELSE Min(Costs(ways, f, n))
    <3> HIDE DEF f
    <3> QED BY <1>8, <1>9, <2>1
  <2>3. f = [n \in 0 .. N |-> f[n]]
    OBVIOUS
  <2> HIDE DEF f
  <2> QED BY <2>2, <2>3
<1> QED BY <1>10 DEF N

LEMMA LeastOf ==
    ASSUME NEW ways, ProperWays(ways)
    PROVE  /\ Least(ways) \in [0 .. Len(ways) -> Nat] /\ Least(ways)[0] = 0
           /\ \A n \in 1 .. Len(ways) :
                /\ \A w \in ways[n] : Least(ways)[n] <= Least(ways)[w.after] + w.chunks
                /\ \E w \in ways[n] : Least(ways)[n] = Least(ways)[w.after] + w.chunks
<1> DEFINE N == Len(ways)
           c == Least(ways)
<1>1. N \in Nat
  BY DEF ProperWays
<1>2. c = [n \in 0 .. N |-> IF n = 0 THEN 0 ELSE Min(Costs(ways, c, n))]
  <2>1. Least(ways) = CHOOSE f : f = [n \in 0 .. N |-> IF n = 0 THEN 0 ELSE Min(Costs(ways, f, n))]
    BY DEF Least, Costs
  <2>2. \E f : f = [n \in 0 .. N |-> IF n = 0 THEN 0 ELSE Min(Costs(ways, f, n))]
    BY LeastExists
  <2> QED BY <2>1, <2>2, Zenon
<1> HIDE DEF c, N
<1>3. c[0] = 0 /\ \A n \in 1 .. N : c[n] = Min(Costs(ways, c, n))
  <2>1. 0 \in 0 .. N /\ \A n \in 1 .. N : n \in 0 .. N /\ n # 0
    BY <1>1
  <2> QED BY <1>2, <2>1
<1>4. \A n \in 0 .. N : n \in {q \in 0 .. N : \A m \in 0 .. q : c[m] \in Nat}
  <2> DEFINE T == {q \in 0 .. N : \A m \in 0 .. q : c[m] \in Nat}
  <2>1. 0 \in T
    BY <1>1, <1>3
  <2>2. ASSUME NEW n \in 1 .. N, n - 1 \in T PROVE n \in T
    <3>1. \A m \in 0 .. n - 1 : c[m] \in Nat
      BY <2>2
    <3>2. Costs(ways, c, n) \in SUBSET Nat /\ Costs(ways, c, n) # {}
      BY <3>1, CostsType DEF N
    <3>3. c[n] \in Nat
      BY <1>3, <3>2, MinOf
    <3>4. \A m \in 0 .. n : m = n \/ m \in 0 .. n - 1
      BY <1>1
    <3> QED BY <1>1, <3>1, <3>3, <3>4
  <2> HIDE DEF T
  <2>3. \A n \in 0 .. N : n \in T
    BY <1>1, <2>1, <2>2, UpTo
  <2> QED BY <2>3 DEF T
<1>5. \A n \in 0 .. N : c[n] \in Nat
  BY <1>1, <1>4
<1>6. c \in [0 .. N -> Nat]
  BY <1>2, <1>5
<1>7. ASSUME NEW n \in 1 .. N
      PROVE  /\ \A w \in ways[n] : c[n] <= c[w.after] + w.chunks
             /\ \E w \in ways[n] : c[n] = c[w.after] + w.chunks
  <2>1. \A m \in 0 .. n - 1 : c[m] \in Nat
    BY <1>1, <1>5
  <2>2. Costs(ways, c, n) \in SUBSET Nat /\ Costs(ways, c, n) # {}
    BY <2>1, CostsType DEF N
  <2>3. c[n] \in Costs(ways, c, n) /\ \A x \in Costs(ways, c, n) : c[n] <= x
    BY <1>3, <2>2, MinOf
  <2> QED BY <2>3 DEF Costs
<1> QED BY <1>3, <1>6, <1>7 DEF c, N

\* With more ways, or cheaper ones, it takes no more.
LEMMA LeastFalls ==
    ASSUME NEW ways, NEW other, ProperWays(ways), ProperWays(other), Len(other) = Len(ways),
           \A n \in 1 .. Len(ways) : \A w \in ways[n] :
                \E v \in other[n] : v.after = w.after /\ v.chunks <= w.chunks
    PROVE  \A n \in 0 .. Len(ways) : Least(other)[n] <= Least(ways)[n]
<1> DEFINE N == Len(ways)
           c == Least(ways)
           d == Least(other)
           T == {q \in 0 .. N : \A m \in 0 .. q : d[m] <= c[m]}
<1>1. N \in Nat
  BY DEF ProperWays
<1>2. /\ c \in [0 .. N -> Nat] /\ c[0] = 0
      /\ \A n \in 1 .. N : \E w \in ways[n] : c[n] = c[w.after] + w.chunks
  BY LeastOf
<1>3. /\ d \in [0 .. N -> Nat] /\ d[0] = 0
      /\ \A n \in 1 .. N : \A w \in other[n] : d[n] <= d[w.after] + w.chunks
  BY LeastOf
<1> HIDE DEF c, d
<1>4. 0 \in T
  BY <1>1, <1>2, <1>3
<1>5. ASSUME NEW n \in 1 .. N, n - 1 \in T PROVE n \in T
  <2>1. PICK w \in ways[n] : c[n] = c[w.after] + w.chunks
    BY <1>2
  <2>2. PICK v \in other[n] : v.after = w.after /\ v.chunks <= w.chunks
    OBVIOUS
  <2>3. d[n] <= d[v.after] + v.chunks
    BY <1>3
  <2>4. w.after \in 0 .. n - 1 /\ w.chunks \in Nat /\ v.chunks \in Nat
    <3>1. ways[n] \in SUBSET [after : Nat, chunks : Nat] /\ other[n] \in SUBSET [after : Nat, chunks : Nat]
      BY DEF ProperWays
    <3>2. w.after < n
      BY DEF ProperWays
    <3>3. w.after \in Nat /\ w.chunks \in Nat /\ v.chunks \in Nat
      BY <3>1
    <3> QED BY <1>1, <3>2, <3>3
  <2>5. d[w.after] <= c[w.after] /\ d[w.after] \in Nat /\ c[w.after] \in Nat /\ d[n] \in Nat /\ c[n] \in Nat
    <3>1. w.after \in 0 .. N /\ n \in 0 .. N
      BY <1>1, <2>4
    <3> QED BY <1>2, <1>3, <1>5, <2>4, <3>1
  <2>6. d[n] <= c[n]
    BY <2>1, <2>2, <2>3, <2>4, <2>5
  <2>7. \A m \in 0 .. n : m = n \/ m \in 0 .. n - 1
    BY <1>1
  <2> QED BY <1>1, <1>5, <2>6, <2>7
<1> HIDE DEF T
<1>6. \A n \in 0 .. N : n \in T
  BY <1>1, <1>4, <1>5, UpTo
<1>7. \A n \in 0 .. N : d[n] <= c[n]
  BY <1>1, <1>6 DEF T
<1> QED BY <1>7 DEF c, d, N

\* When what comes to n from before n - 1 would also come to n - 1, the costs
\* rise.
LEMMA LeastRises ==
    ASSUME NEW ways, ProperWays(ways),
           \A n \in 2 .. Len(ways) : \A w \in ways[n] :
                w.after # n - 1 =>
                    \E v \in ways[n - 1] : v.after = w.after /\ v.chunks <= w.chunks,
           NEW m \in 0 .. Len(ways), NEW n \in m .. Len(ways)
    PROVE  Least(ways)[m] <= Least(ways)[n]
<1> DEFINE N == Len(ways)
           c == Least(ways)
           T == {k \in 0 .. N - m : c[m] <= c[m + k]}
<1>1. N \in Nat /\ m \in 0 .. N /\ n - m \in 0 .. N - m /\ m + (n - m) = n /\ N - m \in Nat
  BY DEF ProperWays
<1>2. /\ c \in [0 .. N -> Nat] /\ c[0] = 0
      /\ \A k \in 1 .. N :
            /\ \A w \in ways[k] : c[k] <= c[w.after] + w.chunks
            /\ \E w \in ways[k] : c[k] = c[w.after] + w.chunks
  BY LeastOf
<1> HIDE DEF c
<1>3. ASSUME NEW k \in 1 .. N PROVE c[k - 1] <= c[k]
  <2>1. k - 1 \in 0 .. N /\ k \in 0 .. N
    BY <1>1
  <2>2. c[k - 1] \in Nat /\ c[k] \in Nat
    BY <1>2, <2>1
  <2>3. PICK w \in ways[k] : c[k] = c[w.after] + w.chunks
    BY <1>2
  <2>4. w.after \in 0 .. k - 1 /\ w.chunks \in Nat
    <3>1. ways[k] \in SUBSET [after : Nat, chunks : Nat] /\ w.after < k
      BY DEF ProperWays
    <3>2. w.after \in Nat /\ w.chunks \in Nat
      BY <3>1
    <3> QED BY <1>1, <3>1, <3>2
  <2>5. c[w.after] \in Nat
    <3>1. w.after \in 0 .. N
      BY <1>1, <2>4
    <3> QED BY <1>2, <3>1
  <2>6. CASE w.after = k - 1
    BY <2>2, <2>3, <2>4, <2>6
  <2>7. CASE w.after # k - 1
    <3>1. k \in 2 .. N /\ k - 1 \in 1 .. N
      BY <1>1, <2>4, <2>7
    <3>2. PICK v \in ways[k - 1] : v.after = w.after /\ v.chunks <= w.chunks
      BY <2>7, <3>1
    <3>3. c[k - 1] <= c[v.after] + v.chunks
      BY <1>2, <3>1
    <3>4. v.chunks \in Nat
      BY <3>1 DEF ProperWays
    <3> QED BY <2>2, <2>3, <2>4, <2>5, <3>2, <3>3, <3>4
  <2> QED BY <2>6, <2>7
<1>4. 0 \in T
  BY <1>1, <1>2
<1>5. ASSUME NEW k \in 1 .. N - m, k - 1 \in T PROVE k \in T
  <2>1. m + k \in 1 .. N /\ (m + k) - 1 = m + (k - 1) /\ m + (k - 1) \in 0 .. N /\ m + k \in 0 .. N
    BY <1>1
  <2>2. c[m + (k - 1)] <= c[m + k]
    BY <1>3, <2>1
  <2>3. c[m] \in Nat /\ c[m + k] \in Nat /\ c[m + (k - 1)] \in Nat
    BY <1>1, <1>2, <2>1
  <2>4. c[m] <= c[m + (k - 1)]
    BY <1>5
  <2> QED BY <1>5, <2>2, <2>3, <2>4
<1> HIDE DEF T, N
<1>6. \A k \in 0 .. N - m : k \in T
  BY <1>1, <1>4, <1>5, UpTo
<1> QED BY <1>1, <1>6 DEF T, c

-----------------------------------------------------------------------------
(* The fewest fragments of a word. *)

\* A longer piece is no shorter in bytes.
LEMMA WidthRises ==
    ASSUME Given, NEW i \in DOMAIN text,
           NEW b \in 1 .. Len(text[i]), NEW a \in 1 .. b,
           NEW bb \in b .. Len(text[i]), NEW aa \in 1 .. a
    PROVE  /\ Width(Piece(i, a, b)) \in Int /\ Width(Piece(i, aa, bb)) \in Int
           /\ Width(Piece(i, a, b)) <= Width(Piece(i, aa, bb))
<1> DEFINE N == Len(text[i])
           c == Bytes(text[i])
<1>1. text[i] \in Seq(Nat) /\ text[i] \in Seq(Int) /\ N \in Nat
  BY WordTypes
<1>2. c \in [0 .. N -> Int]
  BY <1>1, BytesOf
<1>3. /\ b \in 0 .. N /\ bb \in b .. N /\ bb \in 0 .. N
      /\ aa - 1 \in 0 .. N /\ a - 1 \in aa - 1 .. N /\ a - 1 \in 0 .. N
  BY <1>1
<1>4. c[b] <= c[bb]
  BY <1>1, <1>3, BytesRise
<1>5. c[aa - 1] <= c[a - 1]
  BY <1>1, <1>3, BytesRise
<1>6. Width(Piece(i, a, b)) = c[b] - c[a - 1] /\ Width(Piece(i, aa, bb)) = c[bb] - c[aa - 1]
  BY DEF Width, Piece
<1>7. c[b] \in Int /\ c[bb] \in Int /\ c[aa - 1] \in Int /\ c[a - 1] \in Int
  BY <1>2, <1>3
<1> HIDE DEF c
<1> QED BY <1>4, <1>5, <1>6, <1>7

LEMMA FragmentWaysProper ==
    ASSUME Given, NEW i \in DOMAIN text, NEW prefix \in 0 .. PrefixBytes
    PROVE  /\ ProperWays(FragmentWays(i, prefix))
           /\ Len(FragmentWays(i, prefix)) = Len(text[i])
           /\ \A r \in 1 .. Len(text[i]) : \A w :
                w \in FragmentWays(i, prefix)[r] <=>
                    \E q \in 0 .. r - 1 : /\ w = Way(q, 1)
                                          /\ Fits(prefix + Width(Piece(i, q + 1, r)))
<1> DEFINE N == Len(text[i])
           ways == FragmentWays(i, prefix)
           At(r) == {Way(q, 1) : q \in {q \in 0 .. r - 1 :
                                        Fits(prefix + Width(Piece(i, q + 1, r)))}}
<1>1. N \in Nat /\ DOMAIN text[i] = 1 .. N /\ PrefixBytes \in Nat /\ physical \in Nat
      /\ text[i] \in Seq(Nat)
  BY WordTypes
<1>2. ways = [r \in 1 .. N |-> At(r)]
  BY <1>1 DEF FragmentWays
<1>3. ASSUME NEW r \in 1 .. N
      PROVE  /\ At(r) \in SUBSET [after : Nat, chunks : Nat]
             /\ \A w \in At(r) : w.after < r
  BY <1>1 DEF Way
<1>4. ASSUME NEW r \in 1 .. N PROVE At(r) # {}
  <2>1. Width(Piece(i, r, r)) = text[i][r] /\ text[i][r] \in Nat
    BY <1>1, Widths
  <2>2. PrefixBytes + text[i][r] <= physical
    BY <1>1, RuneAssumption DEF Given
  <2>3. r - 1 \in 0 .. r - 1 /\ (r - 1) + 1 = r
    BY <1>1
  <2>4. Fits(prefix + Width(Piece(i, (r - 1) + 1, r)))
    BY <1>1, <2>1, <2>2, <2>3 DEF Fits
  <2>5. Way(r - 1, 1) \in At(r)
    BY <2>3, <2>4
  <2> QED BY <2>5
<1>5. \A r \in 1 .. N : ways[r] = At(r)
  <2> HIDE DEF At, ways, N
  <2> QED BY <1>2
<1>6. ways \in [1 .. N -> SUBSET [after : Nat, chunks : Nat]]
  <2> HIDE DEF At, ways, N
  <2> QED BY <1>2, <1>3
<1>7. ways \in Seq(SUBSET [after : Nat, chunks : Nat]) /\ Len(ways) = N /\ DOMAIN ways = 1 .. N
  <2> HIDE DEF At, ways, N
  <2> QED BY <1>1, <1>6
<1>8. ProperWays(ways)
  <2> HIDE DEF At, ways, N
  <2> QED BY <1>3, <1>4, <1>5, <1>7 DEF ProperWays
<1>9. \A r \in 1 .. N : \A w :
        w \in ways[r] <=> \E q \in 0 .. r - 1 : /\ w = Way(q, 1)
                                                /\ Fits(prefix + Width(Piece(i, q + 1, r)))
  <2> HIDE DEF ways, N
  <2> QED BY <1>5
<1> QED BY <1>7, <1>8, <1>9

\* More runes take no fewer fragments.
LEMMA FragmentsRise ==
    ASSUME Given, NEW i \in DOMAIN text, NEW prefix \in 0 .. PrefixBytes,
           NEW m \in 0 .. Len(text[i]), NEW n \in m .. Len(text[i])
    PROVE  Least(FragmentWays(i, prefix))[m] <= Least(FragmentWays(i, prefix))[n]
<1> DEFINE N == Len(text[i])
           ways == FragmentWays(i, prefix)
<1>1. N \in Nat /\ prefix \in Nat /\ physical \in Nat /\ ProperWays(ways) /\ Len(ways) = N
  BY WordTypes, FragmentWaysProper
<1>2. ASSUME NEW r \in 2 .. N, NEW w \in ways[r], w.after # r - 1
      PROVE  \E v \in ways[r - 1] : v.after = w.after /\ v.chunks <= w.chunks
  <2>1. PICK q \in 0 .. r - 1 : w = Way(q, 1) /\ Fits(prefix + Width(Piece(i, q + 1, r)))
    <3>1. r \in 1 .. N
      BY <1>1
    <3> QED BY <3>1, FragmentWaysProper
  <2>2. q \in 0 .. (r - 1) - 1
    BY <1>1, <1>2, <2>1 DEF Way
  <2>3. /\ r - 1 \in 1 .. N /\ q + 1 \in 1 .. r - 1 /\ r \in r - 1 .. N /\ q + 1 \in 1 .. q + 1
    BY <1>1, <2>2
  <2>4. /\ Width(Piece(i, q + 1, r - 1)) \in Int /\ Width(Piece(i, q + 1, r)) \in Int
        /\ Width(Piece(i, q + 1, r - 1)) <= Width(Piece(i, q + 1, r))
    BY <2>3, WidthRises
  <2>5. Fits(prefix + Width(Piece(i, q + 1, r - 1)))
    BY <1>1, <2>1, <2>4 DEF Fits
  <2>6. w \in ways[r - 1]
    BY <2>1, <2>2, <2>3, <2>5, FragmentWaysProper
  <2>7. w.chunks <= w.chunks
    BY <2>1 DEF Way
  <2> QED BY <2>6, <2>7
<1> HIDE DEF ways
<1> QED BY <1>1, <1>2, LeastRises DEF ways

\* The pieces are as few as can be, and one fewer would not reach the last.
Tight(i, prefix, pieces, r) ==
    /\ Len(pieces) = Least(FragmentWays(i, prefix))[r]
    /\ pieces # <<>> =>
        LET from == Last(pieces).from
        IN  /\ from \in 1 .. r
            /\ Least(FragmentWays(i, prefix))[from] = Len(pieces)
            /\ Least(FragmentWays(i, prefix))[from - 1] = Len(pieces) - 1

LEMMA ExtendTight ==
    ASSUME Given, NEW i \in DOMAIN text, NEW prefix \in 0 .. PrefixBytes,
           NEW pieces \in Seq(PiecesOf(i)), NEW r \in DOMAIN text[i],
           Cuts(i, prefix, pieces, r - 1), Tight(i, prefix, pieces, r - 1)
    PROVE  Tight(i, prefix, Extend(i, prefix, pieces, r), r)
<1> DEFINE N == Len(text[i])
           ways == FragmentWays(i, prefix)
           c == Least(ways)
           n == Len(pieces)
           from == Last(pieces).from
           e == Extend(i, prefix, pieces, r)
<1>1. /\ N \in Nat /\ prefix \in Nat /\ physical \in Nat /\ DOMAIN text[i] = 1 .. N
      /\ r \in 1 .. N /\ r - 1 \in 0 .. N /\ r - 1 \in 0 .. r - 1 /\ (r - 1) + 1 = r /\ n \in Nat
  BY WordTypes
<1>2. ProperWays(ways) /\ Len(ways) = N
  BY FragmentWaysProper
<1>3. /\ c \in [0 .. N -> Nat] /\ c[0] = 0
      /\ \A w \in ways[r] : c[r] <= c[w.after] + w.chunks
      /\ \E w \in ways[r] : c[r] = c[w.after] + w.chunks
  <2> HIDE DEF ways
  <2> QED BY <1>1, <1>2, LeastOf
<1>4. \A q \in 0 .. r - 1 : Fits(prefix + Width(Piece(i, q + 1, r))) => c[r] <= c[q] + 1
  <2>1. ASSUME NEW q \in 0 .. r - 1, Fits(prefix + Width(Piece(i, q + 1, r)))
        PROVE  c[r] <= c[q] + 1
    <3>1. Way(q, 1) \in ways[r]
      BY <1>1, <2>1, FragmentWaysProper
    <3>2. c[r] <= c[Way(q, 1).after] + Way(q, 1).chunks
      BY <1>3, <3>1
    <3> QED BY <3>2 DEF Way
  <2> QED BY <2>1
<1>5. PICK q \in 0 .. r - 1 : c[r] = c[q] + 1 /\ Fits(prefix + Width(Piece(i, q + 1, r)))
  <2>1. PICK w \in ways[r] : c[r] = c[w.after] + w.chunks
    BY <1>3
  <2>2. PICK q \in 0 .. r - 1 : w = Way(q, 1) /\ Fits(prefix + Width(Piece(i, q + 1, r)))
    BY <1>1, FragmentWaysProper
  <2> QED BY <2>1, <2>2 DEF Way
<1>6. c[r - 1] <= c[r] /\ c[r] \in Nat /\ c[r - 1] \in Nat /\ c[q] \in Nat
  <2>1. r \in r - 1 .. N /\ r \in 0 .. N /\ q \in 0 .. N
    BY <1>1
  <2>2. c[r - 1] <= c[r]
    BY <1>1, <2>1, FragmentsRise
  <2> QED BY <1>1, <1>3, <2>1, <2>2
<1>7. n = c[r - 1]
  BY DEF Tight
<1>8. pieces # <<>> => from \in 1 .. r - 1 /\ c[from] = n /\ c[from - 1] = n - 1
  BY DEF Tight
<1>9. c[r] <= n + 1
  <2>1. Fits(prefix + Width(Piece(i, (r - 1) + 1, r)))
    <3>1. Width(Piece(i, r, r)) = text[i][r] /\ text[i][r] \in Nat /\ PrefixBytes \in Nat
      BY Widths, WordTypes
    <3>2. PrefixBytes + text[i][r] <= physical
      BY RuneAssumption DEF Given
    <3> QED BY <1>1, <3>1, <3>2 DEF Fits
  <2> HIDE DEF c
  <2> QED BY <1>1, <1>4, <1>7, <2>1
<1>10. CASE pieces # <<>> /\ Fits(prefix + Width(Piece(i, from, r)))
  <2>1. e = [pieces EXCEPT ![n].to = r]
    BY <1>10 DEF Extend
  <2>2. n \in DOMAIN pieces /\ n # 0 /\ pieces[n] \in PiecesOf(i) /\ Last(pieces) = pieces[n]
    BY <1>10 DEF Last
  <2>3. Len(e) = n /\ e # <<>> /\ Last(e).from = from
    <3>1. Len(e) = n /\ e[n] = [pieces[n] EXCEPT !.to = r]
      <4> HIDE DEF e
      <4> QED BY <2>1, <2>2
    <3>2. e[n].from = pieces[n].from
      <4> HIDE DEF e
      <4> QED BY <2>2, <3>1 DEF PiecesOf
    <3> HIDE DEF e
    <3> QED BY <1>1, <2>2, <3>1, <3>2 DEF Last
  <2>4. c[r] = n
    <3>1. from - 1 \in 0 .. r - 1 /\ (from - 1) + 1 = from
      BY <1>1, <1>8, <1>10
    <3>2. c[r] <= c[from - 1] + 1
      <4> HIDE DEF c, from
      <4> QED BY <1>4, <1>10, <3>1
    <3> HIDE DEF c, n
    <3> QED BY <1>1, <1>6, <1>7, <1>8, <1>10, <3>2
  <2>5. from \in 1 .. r
    BY <1>1, <1>8, <1>10
  <2> HIDE DEF c, e, n, from
  <2>6. Len(e) = c[r] /\ Last(e).from \in 1 .. r /\ c[Last(e).from] = Len(e)
        /\ c[Last(e).from - 1] = Len(e) - 1
    BY <1>8, <1>10, <2>3, <2>4, <2>5
  <2> QED BY <2>6 DEF Tight, c, e
<1>11. CASE ~(pieces # <<>> /\ Fits(prefix + Width(Piece(i, from, r))))
  <2>1. e = Append(pieces, Piece(i, r, r))
    BY <1>11 DEF Extend
  <2>2. Piece(i, r, r) \in PiecesOf(i) /\ Piece(i, r, r).from = r
    BY DEF PiecesOf, Piece
  <2>3. Len(e) = n + 1 /\ e # <<>> /\ Last(e).from = r
    <3>1. Len(e) = n + 1 /\ e[n + 1] = Piece(i, r, r) /\ e # <<>>
      <4> HIDE DEF e
      <4> QED BY <2>1, <2>2
    <3> HIDE DEF e
    <3> QED BY <2>2, <3>1 DEF Last
  <2>4. c[r] >= n + 1
    <3>1. CASE pieces = <<>>
      <4>1. n = 0
        BY <3>1
      <4> HIDE DEF c, n
      <4> QED BY <1>5, <1>6, <4>1
    <3>2. CASE pieces # <<>>
      <4>1. from \in 1 .. r - 1 /\ c[from] = n
        BY <1>8, <3>2
      <4>2. ~Fits(prefix + Width(Piece(i, from, r)))
        BY <1>11, <3>2
      <4> HIDE DEF from
      <4>3. q >= from
        <5>1. CASE q + 1 <= from
          <6>1. /\ r \in 1 .. Len(text[i]) /\ from \in 1 .. r /\ r \in r .. Len(text[i])
                /\ q + 1 \in 1 .. from
            BY <1>1, <4>1, <5>1
          <6>2. /\ Width(Piece(i, from, r)) \in Int /\ Width(Piece(i, q + 1, r)) \in Int
                /\ Width(Piece(i, from, r)) <= Width(Piece(i, q + 1, r))
            BY <6>1, WidthRises
          <6> QED BY <1>1, <1>5, <4>2, <6>2 DEF Fits
        <5> QED BY <1>1, <4>1, <5>1
      <4>4. c[from] <= c[q]
        <5>1. from \in 0 .. Len(text[i]) /\ q \in from .. Len(text[i])
          BY <1>1, <4>1, <4>3
        <5> QED BY <5>1, FragmentsRise
      <4> HIDE DEF c, n
      <4> QED BY <1>1, <1>5, <1>6, <4>1, <4>4
    <3> QED BY <3>1, <3>2
  <2> HIDE DEF c, e, n
  <2>5. c[r] = n + 1
    BY <1>1, <1>6, <1>9, <2>4
  <2>6. Len(e) = c[r] /\ Last(e).from \in 1 .. r /\ c[Last(e).from] = Len(e)
        /\ c[Last(e).from - 1] = Len(e) - 1
    BY <1>1, <1>7, <2>3, <2>5
  <2> QED BY <2>6 DEF Tight, c, e
<1> QED BY <1>10, <1>11

\* A word is cut in as few fragments as can be.
LEMMA FragmentsLeast ==
    ASSUME Given, NEW i \in DOMAIN text, NEW prefix \in 0 .. PrefixBytes
    PROVE  Len(Fragments(i, prefix)) = LeastFragments(i, prefix)
<1> DEFINE N == Len(text[i])
<1>1. N \in Nat /\ DOMAIN text[i] = 1 .. N
  BY WordTypes
<1>2. Least(FragmentWays(i, prefix))[0] = 0
  BY FragmentWaysProper, LeastOf
<1> HIDE DEF N
<1>3. PICK cut \in [0 .. N -> Seq(PiecesOf(i))] :
            /\ cut[0] = <<>>
            /\ \A r \in 1 .. N : cut[r] = Extend(i, prefix, cut[r - 1], r)
            /\ Fragments(i, prefix) = cut[N]
  BY FragmentsExist DEF N
<1> DEFINE T == {q \in 0 .. N : Cuts(i, prefix, cut[q], q) /\ Tight(i, prefix, cut[q], q)}
<1>4. 0 \in T
  <2>1. Cuts(i, prefix, <<>>, 0)
    BY DEF Cuts
  <2>2. Tight(i, prefix, <<>>, 0)
    BY <1>2 DEF Tight
  <2> QED BY <1>1, <1>3, <2>1, <2>2
<1>5. ASSUME NEW r \in 1 .. N, r - 1 \in T PROVE r \in T
  <2>1. cut[r] = Extend(i, prefix, cut[r - 1], r)
    BY <1>3
  <2>2. r \in DOMAIN text[i] /\ r - 1 \in 0 .. N /\ r \in 0 .. N
    BY <1>1
  <2>3. /\ Cuts(i, prefix, cut[r - 1], r - 1) /\ Tight(i, prefix, cut[r - 1], r - 1)
        /\ cut[r - 1] \in Seq(PiecesOf(i))
    BY <1>3, <1>5, <2>2
  <2>4. /\ Cuts(i, prefix, Extend(i, prefix, cut[r - 1], r), r)
        /\ Tight(i, prefix, Extend(i, prefix, cut[r - 1], r), r)
    BY <2>2, <2>3, ExtendCuts, ExtendTight
  <2> QED BY <2>1, <2>2, <2>4
<1> HIDE DEF T
<1>6. \A r \in 0 .. N : r \in T
  BY <1>1, <1>4, <1>5, UpTo
<1>7. Tight(i, prefix, cut[N], N)
  BY <1>1, <1>6 DEF T
<1> QED BY <1>3, <1>7 DEF Tight, LeastFragments, N

-----------------------------------------------------------------------------
(* The size of a chunk of whole words. *)

WordWidths == [k \in DOMAIN text |-> Width(Word(k))]

LEMMA WordsTypes ==
    ASSUME Given
    PROVE  /\ WordWidths \in Seq(Nat) /\ WordWidths \in Seq(Int) /\ Len(WordWidths) = Len(text)
           /\ \A j \in DOMAIN text : WordWidths[j] = Width(Word(j)) /\ Width(Word(j)) \in Nat
<1>1. Len(text) \in Nat /\ DOMAIN text = 1 .. Len(text)
  BY WordTypes
<1>2. ASSUME NEW j \in DOMAIN text PROVE Width(Word(j)) \in Nat
  <2>1. text[j] \in Seq(Nat) /\ text[j] \in Seq(Int) /\ Len(text[j]) \in Nat
    BY WordTypes
  <2>2. Width(Word(j)) = Bytes(text[j])[Len(text[j])]
    BY Widths
  <2>3. Bytes(text[j])[0] = 0 /\ Bytes(text[j]) \in [0 .. Len(text[j]) -> Int]
    BY <2>1, BytesOf
  <2>4. 0 \in 0 .. Len(text[j]) /\ Len(text[j]) \in 0 .. Len(text[j])
    BY <2>1
  <2>5. Bytes(text[j])[0] <= Bytes(text[j])[Len(text[j])]
    BY <2>1, <2>4, BytesRise
  <2>6. Bytes(text[j])[Len(text[j])] \in Int
    BY <2>3, <2>4
  <2> QED BY <2>2, <2>3, <2>5, <2>6
<1>3. WordWidths \in [1 .. Len(text) -> Nat]
  BY <1>1, <1>2 DEF WordWidths
<1>4. WordWidths \in Seq(Nat) /\ Len(WordWidths) = Len(text)
  BY <1>1, <1>3
<1>5. WordWidths \in Seq(Int)
  BY <1>4
<1> QED BY <1>2, <1>4, <1>5 DEF WordWidths

\* The size of a chunk of whole words.
LEMMA WordsSize ==
    ASSUME Given, NEW j \in 1 .. Len(text), NEW i \in 0 .. j - 1
    PROVE  Size(Words(i, j)) = Bytes(WordWidths)[j] - Bytes(WordWidths)[i] + (j - i - 1)
<1> DEFINE N == Len(text)
           c == Bytes(WordWidths)
           m == j - i
           chunk == Words(i, j)
           widths == [n \in DOMAIN chunk |-> Width(chunk[n])]
<1>1. /\ N \in Nat /\ DOMAIN text = 1 .. N /\ j \in 1 .. N /\ i \in 0 .. N /\ m \in Nat
      /\ i + m = j
  BY WordTypes
<1>2. /\ c \in [0 .. N -> Int]
      /\ \A k \in 1 .. N : c[k] = c[k - 1] + WordWidths[k]
  BY WordsTypes, BytesOf
<1>3. DOMAIN chunk = 1 .. m /\ Len(chunk) = m /\ \A n \in 1 .. m : chunk[n] = Word(i + n)
  BY <1>1 DEF Words
<1> HIDE DEF c, m, chunk, N
<1>4. widths = [n \in 1 .. m |-> Width(Word(i + n))]
  BY <1>3
<1> HIDE DEF widths
<1>5. \A n \in 1 .. m : widths[n] = WordWidths[i + n] /\ widths[n] \in Int
                        /\ i + n \in 1 .. N /\ (i + n) - 1 = i + (n - 1)
  <2>1. ASSUME NEW n \in 1 .. m
        PROVE  i + n \in 1 .. N /\ (i + n) - 1 = i + (n - 1)
    BY <1>1
  <2>2. ASSUME NEW n \in 1 .. m PROVE widths[n] = WordWidths[i + n] /\ widths[n] \in Int
    <3>1. i + n \in DOMAIN text
      BY <1>1, <2>1
    <3>2. widths[n] = Width(Word(i + n))
      BY <1>4
    <3> QED BY <3>1, <3>2, WordsTypes
  <2> QED BY <2>1, <2>2
<1>6. widths \in [1 .. m -> Int]
  BY <1>4, <1>5
<1>7. widths \in Seq(Int) /\ Len(widths) = m
  BY <1>1, <1>6
<1>8. Bytes(widths)[0] = 0 /\ \A n \in 1 .. m : Bytes(widths)[n] = Bytes(widths)[n - 1] + widths[n]
  BY <1>7, BytesOf
<1> DEFINE T == {n \in 0 .. m : Bytes(widths)[n] = c[i + n] - c[i]}
<1>9. 0 \in T
  BY <1>1, <1>2, <1>8
<1>10. ASSUME NEW n \in 1 .. m, n - 1 \in T PROVE n \in T
  <2>1. Bytes(widths)[n] = Bytes(widths)[n - 1] + widths[n]
    BY <1>8
  <2>2. Bytes(widths)[n - 1] = c[i + (n - 1)] - c[i]
    BY <1>10
  <2>3. c[i + n] = c[i + (n - 1)] + widths[n] /\ widths[n] \in Int
    BY <1>2, <1>5
  <2>4. c[i + (n - 1)] \in Int /\ c[i] \in Int
    <3>1. i + (n - 1) \in 0 .. N
      BY <1>1, <1>5
    <3> QED BY <1>1, <1>2, <3>1
  <2> QED BY <1>1, <2>1, <2>2, <2>3, <2>4
<1> HIDE DEF T
<1>11. \A n \in 0 .. m : n \in T
  BY <1>1, <1>9, <1>10, UpTo
<1>12. Bytes(widths)[m] = c[j] - c[i]
  <2>1. m \in T
    BY <1>1, <1>11
  <2> QED BY <1>1, <2>1 DEF T
<1>13. Size(chunk) = Bytes(widths)[m] + (m - 1)
  BY <1>3 DEF Size, widths
<1>14. c[j] \in Int /\ c[i] \in Int
  BY <1>1, <1>2
<1>15. Size(chunk) = c[j] - c[i] + (j - i - 1)
  BY <1>1, <1>12, <1>13, <1>14 DEF m
<1> QED BY <1>15 DEF chunk, c

\* Fewer words are no more bytes.
LEMMA TogetherRises ==
    ASSUME Given, NEW prefix \in Nat,
           NEW j \in 1 .. Len(text), NEW i \in 0 .. j - 1,
           NEW jj \in j .. Len(text), NEW ii \in 0 .. i
    PROVE  /\ Size(Words(i, j)) \in Int /\ Size(Words(ii, jj)) \in Int
           /\ Size(Words(i, j)) <= Size(Words(ii, jj))
           /\ Together(ii, jj, prefix) => Together(i, j, prefix)
<1> DEFINE N == Len(text)
           c == Bytes(WordWidths)
<1>1. /\ N \in Nat /\ j \in 0 .. N /\ jj \in j .. N /\ jj \in 1 .. N /\ jj \in 0 .. N
      /\ i \in 0 .. N /\ ii \in 0 .. N /\ i \in ii .. N /\ ii \in 0 .. jj - 1
      /\ soft \in Nat /\ physical \in Nat
  BY WordTypes
<1>2. c \in [0 .. N -> Int]
  BY WordsTypes, BytesOf
<1>3. c[ii] <= c[i] /\ c[j] <= c[jj]
  BY <1>1, WordsTypes, BytesRise
<1>4. Size(Words(i, j)) = c[j] - c[i] + (j - i - 1)
  BY WordsSize
<1>5. Size(Words(ii, jj)) = c[jj] - c[ii] + (jj - ii - 1)
  BY <1>1, WordsSize
<1>6. c[i] \in Int /\ c[ii] \in Int /\ c[j] \in Int /\ c[jj] \in Int
  BY <1>1, <1>2
<1> HIDE DEF c
<1>7. /\ Size(Words(i, j)) \in Int /\ Size(Words(ii, jj)) \in Int
      /\ Size(Words(i, j)) <= Size(Words(ii, jj))
  <2>1. i \in Int /\ ii \in Int /\ j \in Int /\ jj \in Int /\ ii <= i /\ j <= jj
    BY <1>1
  <2>2. /\ c[j] - c[i] + (j - i - 1) \in Int /\ c[jj] - c[ii] + (jj - ii - 1) \in Int
        /\ c[j] - c[i] + (j - i - 1) <= c[jj] - c[ii] + (jj - ii - 1)
    BY <1>3, <1>6, <2>1
  <2> QED BY <1>4, <1>5, <2>2
<1> QED BY <1>1, <1>7 DEF Together, Fits

LEMMA WordsGrow ==
    ASSUME Given, NEW j \in 1 .. Len(text)
    PROVE  /\ Words(j - 1, j) = <<Word(j)>>
           /\ \A i \in 0 .. j - 2 : Words(i, j) = Append(Words(i, j - 1), Word(j))
<1>1. Len(text) \in Nat
  BY WordTypes
<1>2. Words(j - 1, j) = <<Word(j)>>
  <2>1. j - (j - 1) = 1 /\ (j - 1) + 1 = j
    BY <1>1
  <2>2. Words(j - 1, j) = [k \in 1 .. 1 |-> Word((j - 1) + k)]
    BY <2>1 DEF Words
  <2>3. Words(j - 1, j) = [k \in 1 .. 1 |-> Word(j)]
    BY <2>1, <2>2
  <2> QED BY <2>3
<1>3. ASSUME NEW i \in 0 .. j - 2 PROVE Words(i, j) = Append(Words(i, j - 1), Word(j))
  <2> DEFINE m == (j - 1) - i
             short == Words(i, j - 1)
  <2>1. m \in Nat /\ j - i = m + 1 /\ i + (m + 1) = j
    BY <1>1
  <2>2. short = [k \in 1 .. m |-> Word(i + k)]
    BY DEF Words
  <2>3. Words(i, j) = [k \in 1 .. m + 1 |-> Word(i + k)]
    BY <2>1 DEF Words
  <2> HIDE DEF m, short
  <2>4. short \in Seq(Pieces) /\ Len(short) = m
    <3>1. ASSUME NEW k \in 1 .. m PROVE Word(i + k) \in Pieces
      <4>1. i + k \in DOMAIN text
        BY <1>1, <2>1, WordTypes
      <4> QED BY <4>1, PieceTypes
    <3>2. short \in [1 .. m -> Pieces]
      BY <2>2, <3>1
    <3> QED BY <2>1, <3>2
  <2>5. Append(short, Word(j)) = [k \in 1 .. m + 1 |-> IF k = m + 1 THEN Word(j) ELSE short[k]]
    <3>1. Word(j) \in Pieces
      BY WordTypes, PieceTypes
    <3>2. Append(short, Word(j)) \in Seq(Pieces) /\ Len(Append(short, Word(j))) = m + 1
      BY <2>4, <3>1
    <3>3. \A k \in 1 .. m + 1 : Append(short, Word(j))[k] = IF k = m + 1 THEN Word(j) ELSE short[k]
      BY <2>1, <2>4, <3>1
    <3>4. Append(short, Word(j)) = [k \in 1 .. m + 1 |-> Append(short, Word(j))[k]]
      <4> DEFINE long == Append(short, Word(j))
      <4>1. long \in Seq(Pieces) /\ Len(long) = m + 1
        BY <3>2
      <4> HIDE DEF long
      <4>2. long = [k \in 1 .. m + 1 |-> long[k]]
        BY <4>1
      <4> QED BY <4>2 DEF long
    <3> QED BY <3>3, <3>4
  <2>6. \A k \in 1 .. m + 1 : Word(i + k) = IF k = m + 1 THEN Word(j) ELSE short[k]
    <3>1. \A k \in 1 .. m + 1 : k = m + 1 \/ k \in 1 .. m
      BY <2>1
    <3> QED BY <2>1, <2>2, <3>1
  <2>7. Words(i, j) = Append(short, Word(j))
    BY <2>3, <2>5, <2>6
  <2> QED BY <2>7 DEF short
<1> QED BY <1>2, <1>3

-----------------------------------------------------------------------------
(* The fewest chunks of a text. *)

LEMMA FragmentsCount ==
    ASSUME Given, NEW j \in DOMAIN text, NEW prefix \in 0 .. PrefixBytes
    PROVE  /\ LeastFragments(j, prefix) \in Nat \ {0}
           /\ Fits(prefix + Width(Word(j))) => LeastFragments(j, prefix) = 1
<1> DEFINE N == Len(text[j])
           ways == FragmentWays(j, prefix)
<1>1. N \in Nat \ {0} /\ prefix \in Nat
  BY WordTypes
<1>2. LeastFragments(j, prefix) \in Nat \ {0}
  <2>1. Cuts(j, prefix, Fragments(j, prefix), Len(text[j]))
    BY FragmentsCut
  <2>2. Fragments(j, prefix) \in Seq(PiecesOf(j)) /\ Fragments(j, prefix) # <<>>
    BY <1>1, <2>1 DEF Cuts
  <2>3. Len(Fragments(j, prefix)) \in Nat \ {0}
    BY <2>2
  <2> QED BY <2>3, FragmentsLeast
<1>3. ASSUME Fits(prefix + Width(Word(j))) PROVE LeastFragments(j, prefix) = 1
  <2>1. ProperWays(ways) /\ Len(ways) = N
    BY FragmentWaysProper
  <2>2. N \in 1 .. N /\ 0 \in 0 .. N - 1 /\ 0 + 1 = 1
    BY <1>1
  <2>3. Fits(prefix + Width(Piece(j, 0 + 1, N)))
    BY <1>3, <2>2 DEF Word
  <2>4. Way(0, 1) \in ways[N]
    BY <2>2, <2>3, FragmentWaysProper
  <2> HIDE DEF ways, N
  <2>5. Least(ways)[N] <= Least(ways)[Way(0, 1).after] + Way(0, 1).chunks
    BY <2>1, <2>2, <2>4, LeastOf
  <2>6. Least(ways)[0] = 0
    BY <2>1, LeastOf
  <2>7. Least(ways)[N] <= 1
    BY <2>5, <2>6 DEF Way
  <2> QED BY <1>2, <2>7 DEF LeastFragments, ways, N
<1> QED BY <1>2, <1>3

LEMMA ChunkWaysProper ==
    ASSUME Given, NEW prefix \in 0 .. PrefixBytes
    PROVE  /\ ProperWays(ChunkWays(prefix))
           /\ Len(ChunkWays(prefix)) = Len(text)
           /\ \A j \in 1 .. Len(text) : \A w :
                w \in ChunkWays(prefix)[j] <=>
                    \/ \E i \in 0 .. j - 1 : w = Way(i, 1) /\ Together(i, j, prefix)
                    \/ w = Way(j - 1, LeastFragments(j, prefix))
<1> DEFINE N == Len(text)
           ways == ChunkWays(prefix)
           At(j) == {Way(i, 1) : i \in {i \in 0 .. j - 1 : Together(i, j, prefix)}}
                        \cup {Way(j - 1, LeastFragments(j, prefix))}
<1>1. N \in Nat /\ DOMAIN text = 1 .. N
  BY WordTypes
<1>2. ways = [j \in 1 .. N |-> At(j)]
  BY <1>1 DEF ChunkWays
<1>3. ASSUME NEW j \in 1 .. N
      PROVE  /\ At(j) \in SUBSET [after : Nat, chunks : Nat] /\ At(j) # {}
             /\ \A w \in At(j) : w.after < j
  <2>1. LeastFragments(j, prefix) \in Nat
    BY <1>1, FragmentsCount
  <2>2. ASSUME NEW i \in 0 .. j - 1, NEW n \in Nat
        PROVE  Way(i, n) \in [after : Nat, chunks : Nat] /\ Way(i, n).after < j
    BY <1>1 DEF Way
  <2>3. j - 1 \in 0 .. j - 1
    BY <1>1
  <2> QED BY <2>1, <2>2, <2>3
<1>4. \A j \in 1 .. N : ways[j] = At(j)
  <2> HIDE DEF At, ways, N
  <2> QED BY <1>2
<1>5. ways \in [1 .. N -> SUBSET [after : Nat, chunks : Nat]]
  <2> HIDE DEF At, ways, N
  <2> QED BY <1>2, <1>3
<1>6. ways \in Seq(SUBSET [after : Nat, chunks : Nat]) /\ Len(ways) = N /\ DOMAIN ways = 1 .. N
  <2> HIDE DEF At, ways, N
  <2> QED BY <1>1, <1>5
<1>7. ProperWays(ways)
  <2> HIDE DEF At, ways, N
  <2> QED BY <1>3, <1>4, <1>6 DEF ProperWays
<1>8. \A j \in 1 .. N : \A w :
        w \in ways[j] <=> \/ \E i \in 0 .. j - 1 : w = Way(i, 1) /\ Together(i, j, prefix)
                          \/ w = Way(j - 1, LeastFragments(j, prefix))
  <2> HIDE DEF ways, N
  <2> QED BY <1>4
<1> QED BY <1>6, <1>7, <1>8

\* What the fewest chunks of the first j words come from.
LEMMA ChunkSteps ==
    ASSUME Given, NEW prefix \in 0 .. PrefixBytes, NEW j \in 1 .. Len(text)
    PROVE  LET c == Least(ChunkWays(prefix))
           IN  /\ c \in [0 .. Len(text) -> Nat] /\ c[0] = 0
               /\ \A i \in 0 .. j - 1 : Together(i, j, prefix) => c[j] <= c[i] + 1
               /\ c[j] <= c[j - 1] + LeastFragments(j, prefix)
               /\ \/ \E i \in 0 .. j - 1 : Together(i, j, prefix) /\ c[j] = c[i] + 1
                  \/ c[j] = c[j - 1] + LeastFragments(j, prefix)
<1> DEFINE ways == ChunkWays(prefix)
           c == Least(ways)
<1>1. ProperWays(ways) /\ Len(ways) = Len(text)
  BY ChunkWaysProper
<1>2. /\ c \in [0 .. Len(text) -> Nat] /\ c[0] = 0
      /\ \A w \in ways[j] : c[j] <= c[w.after] + w.chunks
      /\ \E w \in ways[j] : c[j] = c[w.after] + w.chunks
  <2> HIDE DEF ways
  <2> QED BY <1>1, LeastOf
<1>3. \A w : w \in ways[j] <=>
                    \/ \E i \in 0 .. j - 1 : w = Way(i, 1) /\ Together(i, j, prefix)
                    \/ w = Way(j - 1, LeastFragments(j, prefix))
  BY ChunkWaysProper
<1> HIDE DEF c, ways
<1>4. \A i, n : Way(i, n).after = i /\ Way(i, n).chunks = n
  BY DEF Way
<1>5. ASSUME NEW i \in 0 .. j - 1, Together(i, j, prefix) PROVE c[j] <= c[i] + 1
  <2>1. Way(i, 1) \in ways[j]
    BY <1>3, <1>5
  <2> QED BY <1>2, <1>4, <2>1
<1>6. c[j] <= c[j - 1] + LeastFragments(j, prefix)
  <2>1. Way(j - 1, LeastFragments(j, prefix)) \in ways[j]
    BY <1>3
  <2> QED BY <1>2, <1>4, <2>1
<1>7. \/ \E i \in 0 .. j - 1 : Together(i, j, prefix) /\ c[j] = c[i] + 1
      \/ c[j] = c[j - 1] + LeastFragments(j, prefix)
  <2>1. PICK w \in ways[j] : c[j] = c[w.after] + w.chunks
    BY <1>2
  <2> QED BY <1>3, <1>4, <2>1
<1> QED BY <1>2, <1>5, <1>6, <1>7 DEF c, ways

\* More words take no fewer chunks.
LEMMA ChunksRise ==
    ASSUME Given, NEW prefix \in 0 .. PrefixBytes,
           NEW m \in 0 .. Len(text), NEW n \in m .. Len(text)
    PROVE  Least(ChunkWays(prefix))[m] <= Least(ChunkWays(prefix))[n]
<1> DEFINE N == Len(text)
           ways == ChunkWays(prefix)
<1>1. N \in Nat /\ prefix \in Nat /\ ProperWays(ways) /\ Len(ways) = N
  BY WordTypes, ChunkWaysProper
<1>2. ASSUME NEW j \in 2 .. N, NEW w \in ways[j], w.after # j - 1
      PROVE  \E v \in ways[j - 1] : v.after = w.after /\ v.chunks <= w.chunks
  <2>1. j \in 1 .. N /\ j - 1 \in 1 .. N /\ j \in j - 1 .. N
    BY <1>1
  <2>2. PICK i \in 0 .. j - 1 : w = Way(i, 1) /\ Together(i, j, prefix)
    <3>1. w # Way(j - 1, LeastFragments(j, prefix))
      BY <1>2 DEF Way
    <3> QED BY <2>1, <3>1, ChunkWaysProper
  <2>3. i \in 0 .. (j - 1) - 1 /\ i \in 0 .. i
    BY <1>1, <1>2, <2>1, <2>2 DEF Way
  <2>4. Together(i, j - 1, prefix)
    BY <1>1, <2>1, <2>2, <2>3, TogetherRises
  <2>5. w \in ways[j - 1]
    BY <2>1, <2>2, <2>3, <2>4, ChunkWaysProper
  <2>6. w.chunks <= w.chunks
    BY <2>2 DEF Way
  <2> QED BY <2>5, <2>6
<1> HIDE DEF ways
<1> QED BY <1>1, <1>2, LeastRises DEF ways

\* The scan is at the fewest chunks of the first j words, and the chunk at
\* hand could not have started later without being one more.
Snug(s, j, prefix) ==
    LET c == Least(ChunkWays(prefix))
    IN  IF s.over THEN c[j] > MaxChunks
        ELSE /\ Len(Flushed(s)) = c[j]
             /\ s.cur = <<>> => j = 0 \/ ~Together(j - 1, j, prefix)
             /\ s.cur # <<>> =>
                    \E b \in 0 .. j - 1 : /\ s.cur = Words(b, j)
                                          /\ c[b] = Len(s.sent) /\ c[b + 1] = Len(s.sent) + 1

\* A word that does not join the chunk at hand makes one chunk more.
LEMMA OneMore ==
    ASSUME Given, NEW s \in States, NEW j \in DOMAIN text, NEW prefix \in 0 .. PrefixBytes,
           ~s.over, Snug(s, j - 1, prefix), s.cur = <<>> \/ ~CanJoin(s, j, prefix)
    PROVE  Least(ChunkWays(prefix))[j] >= Least(ChunkWays(prefix))[j - 1] + 1
<1> DEFINE N == Len(text)
           c == Least(ChunkWays(prefix))
<1>1. /\ N \in Nat /\ DOMAIN text = 1 .. N /\ j \in 1 .. N /\ j - 1 \in 0 .. N /\ prefix \in Nat
  BY WordTypes
<1>2. /\ c \in [0 .. N -> Nat] /\ c[0] = 0
      /\ \/ \E i \in 0 .. j - 1 : Together(i, j, prefix) /\ c[j] = c[i] + 1
         \/ c[j] = c[j - 1] + LeastFragments(j, prefix)
  BY ChunkSteps
<1>3. c[j] \in Nat /\ c[j - 1] \in Nat
  BY <1>1, <1>2
<1>4. CASE c[j] = c[j - 1] + LeastFragments(j, prefix)
  <2>1. LeastFragments(j, prefix) \in Nat \ {0}
    BY FragmentsCount
  <2> HIDE DEF c
  <2>2. c[j] >= c[j - 1] + 1
    BY <1>3, <1>4, <2>1
  <2> QED BY <2>2 DEF c
<1>5. ASSUME NEW i \in 0 .. j - 1, Together(i, j, prefix), c[j] = c[i] + 1
      PROVE  c[j] >= c[j - 1] + 1
  <2>1. c[i] \in Nat
    BY <1>1, <1>2
  <2>2. c[i] >= c[j - 1]
    <3>1. CASE i = j - 1
      BY <1>3, <3>1
    <3>2. CASE i # j - 1 /\ s.cur = <<>>
      <4>1. j - 1 # 0 /\ ~Together((j - 1) - 1, j - 1, prefix)
        BY <1>1, <3>2 DEF Snug
      <4>2. /\ j - 1 \in 1 .. N /\ (j - 1) - 1 \in 0 .. (j - 1) - 1 /\ j \in j - 1 .. N
            /\ i \in 0 .. (j - 1) - 1
        BY <1>1, <3>2, <4>1
      <4>3. Together((j - 1) - 1, j - 1, prefix)
        BY <1>1, <1>5, <4>2, TogetherRises
      <4> QED BY <4>1, <4>3
    <3>3. CASE i # j - 1 /\ s.cur # <<>>
      <4>1. PICK b \in 0 .. (j - 1) - 1 :
                /\ s.cur = Words(b, j - 1)
                /\ c[b] = Len(s.sent) /\ c[b + 1] = Len(s.sent) + 1
        BY <3>3 DEF Snug
      <4>2. b \in 0 .. j - 2 /\ b \in 0 .. j - 1 /\ b + 1 \in 0 .. N
        BY <1>1
      <4>3. Words(b, j) = Append(s.cur, Word(j))
        BY <1>1, <4>1, <4>2, WordsGrow
      <4>4. ~Together(b, j, prefix)
        BY <3>3, <4>3 DEF CanJoin, Together
      <4>5. i > b
        <5>1. CASE i <= b
          <6>1. i \in 0 .. b /\ j \in j .. N
            BY <1>1, <5>1
          <6>2. Together(b, j, prefix)
            BY <1>1, <1>5, <4>2, <6>1, TogetherRises
          <6> QED BY <4>4, <6>2
        <5> QED BY <1>1, <4>2, <5>1
      <4>6. c[b + 1] <= c[i]
        <5>1. i \in b + 1 .. N
          BY <1>1, <4>2, <4>5
        <5> QED BY <4>2, <5>1, ChunksRise
      <4>7. c[j - 1] = c[b + 1]
        <5>1. Len(Flushed(s)) = c[j - 1]
          BY DEF Snug
        <5>2. Flushed(s) = Append(s.sent, s.cur)
          BY <3>3, FlushShapes
        <5>3. s.sent \in Lists /\ s.cur \in Seq(Pieces)
          BY DEF States
        <5>4. Len(Flushed(s)) = Len(s.sent) + 1
          BY <5>2, <5>3 DEF Lists
        <5> HIDE DEF c
        <5> QED BY <4>1, <5>1, <5>4
      <4> HIDE DEF c
      <4> QED BY <2>1, <1>3, <4>6, <4>7
    <3> QED BY <3>1, <3>2, <3>3
  <2> HIDE DEF c
  <2> QED BY <1>3, <1>5, <2>1, <2>2
<1> QED BY <1>2, <1>4, <1>5

\* A word beyond a packet adds all its fragments.
LEMMA FragmentsMore ==
    ASSUME Given, NEW j \in DOMAIN text, NEW prefix \in 0 .. PrefixBytes,
           ~Fits(prefix + Width(Word(j)))
    PROVE  /\ ~Together(j - 1, j, prefix)
           /\ Least(ChunkWays(prefix))[j] =
                    Least(ChunkWays(prefix))[j - 1] + Len(Fragments(j, prefix))
<1>1. /\ Len(text) \in Nat /\ j \in 1 .. Len(text) /\ prefix \in Nat
      /\ j - 1 \in 0 .. j - 1 /\ j \in j .. Len(text)
  BY WordTypes
<1>2. ~Together(j - 1, j, prefix)
  <2>1. Size(Words(j - 1, j)) = Width(Word(j))
    BY <1>1, WordsGrow, WordsTypes, SizeOfOne
  <2> QED BY <2>1 DEF Together
<1>3. ASSUME NEW i \in 0 .. j - 1 PROVE ~Together(i, j, prefix)
  <2>1. i \in 0 .. j - 1 /\ i \in 0 .. j - 1 /\ i \in 0 .. (j - 1)
    OBVIOUS
  <2> QED BY <1>1, <1>2, <2>1, TogetherRises
<1>4. LeastFragments(j, prefix) = Len(Fragments(j, prefix))
  BY FragmentsLeast
<1> QED BY <1>1, <1>2, <1>3, <1>4, ChunkSteps

LEMMA AddWordSnug ==
    ASSUME Given, NEW s \in States, NEW j \in DOMAIN text, NEW prefix \in 0 .. PrefixBytes,
           Good(s, j - 1, prefix), Snug(s, j - 1, prefix)
    PROVE  Snug(AddWord(s, j, prefix), j, prefix)
<1> DEFINE c == Least(ChunkWays(prefix))
           a == AddWord(s, j, prefix)
           W == Word(j)
           F == Fragments(j, prefix)
<1>1. /\ Len(text) \in Nat /\ j \in 1 .. Len(text) /\ j - 1 \in 0 .. Len(text)
      /\ j \in 0 .. Len(text) /\ j \in j - 1 .. Len(text) /\ MaxChunks \in Nat /\ j # 0
      /\ prefix \in Nat
  BY WordTypes
<1>2. c \in [0 .. Len(text) -> Nat] /\ c[j] <= c[j - 1] + LeastFragments(j, prefix)
      /\ \A i \in 0 .. j - 1 : Together(i, j, prefix) => c[j] <= c[i] + 1
  BY <1>1, ChunkSteps
<1>3. c[j] \in Nat /\ c[j - 1] \in Nat /\ c[j - 1] <= c[j]
  BY <1>1, <1>2, ChunksRise
<1>4. /\ s.sent \in Lists /\ s.cur \in Seq(Pieces) /\ W \in Pieces /\ Flushed(s) \in Lists
      /\ a \in States
  BY PieceTypes, FlushShapes, AddWordCases DEF States
<1>5. Len(s.sent) \in Nat /\ Len(Flushed(s)) \in Nat
  BY <1>4 DEF Lists
<1>6. ~s.over => Len(Flushed(s)) = c[j - 1]
  BY DEF Snug
<1>7. s.cur # <<>> => Len(Flushed(s)) = Len(s.sent) + 1
  BY <1>4, FlushShapes DEF Lists
<1>8. F \in Seq(PiecesOf(j)) /\ Len(F) \in Nat
  BY FragmentsCut DEF Cuts
<1>9. ~s.over /\ (s.cur = <<>> \/ ~CanJoin(s, j, prefix)) => c[j] >= c[j - 1] + 1
  BY OneMore
<1>10. CASE a.over
  <2>1. c[j] > MaxChunks
    <3>1. CASE s.over
      <4>1. c[j - 1] > MaxChunks
        BY <3>1 DEF Snug
      <4> HIDE DEF c
      <4> QED BY <1>1, <1>3, <4>1
    <3>2. CASE ~s.over /\ NoRoom(s, j, prefix)
      <4>1. Len(Flushed(s)) <= MaxChunks
        BY <3>2 DEF Good
      <4>2. s.cur = <<>> \/ ~CanJoin(s, j, prefix)
        BY <1>1, <1>5, <1>7, <3>2, <4>1 DEF NoRoom, Full
      <4> HIDE DEF c
      <4> QED BY <1>1, <1>3, <1>5, <1>6, <1>9, <3>2, <4>2 DEF NoRoom
    <3>3. CASE ~s.over /\ NoRoomToSplit(s, j, prefix)
      <4>1. c[j] = c[j - 1] + Len(F)
        BY <3>3, FragmentsMore DEF NoRoomToSplit
      <4> HIDE DEF c
      <4> QED BY <1>6, <3>3, <4>1 DEF NoRoomToSplit
    <3> QED BY <1>10, <3>1, <3>2, <3>3, AddWordCases
  <2> QED BY <1>10, <2>1 DEF Snug
<1>11. CASE ~a.over /\ Joins(s, a, j, prefix)
  <2>1. /\ ~s.over /\ s.cur # <<>> /\ CanJoin(s, j, prefix)
        /\ a.sent = s.sent /\ a.cur = Append(s.cur, W)
        /\ Flushed(a) = Append(s.sent, Append(s.cur, W))
    BY <1>11, AddWordCases DEF Joins
  <2>2. PICK b \in 0 .. (j - 1) - 1 :
            s.cur = Words(b, j - 1) /\ c[b] = Len(s.sent) /\ c[b + 1] = Len(s.sent) + 1
    BY <2>1 DEF Snug
  <2>3. b \in 0 .. j - 2 /\ b \in 0 .. j - 1
    BY <1>1
  <2>4. Append(s.cur, W) = Words(b, j)
    BY <1>1, <2>2, <2>3, WordsGrow
  <2>5. Together(b, j, prefix)
    BY <2>1, <2>4 DEF CanJoin, Together
  <2>6. c[j] <= c[b] + 1
    <3> HIDE DEF c
    <3> QED BY <1>2, <2>3, <2>5
  <2>7. Append(s.cur, W) \in Seq(Pieces) /\ Append(s.cur, W) # <<>>
    BY <1>4
  <2>8. Len(Flushed(a)) = Len(s.sent) + 1
    BY <1>4, <2>1, <2>7 DEF Lists
  <2> HIDE DEF c, a, W
  <2>9. Len(Flushed(a)) = c[j]
    BY <1>3, <1>5, <1>6, <1>7, <2>1, <2>2, <2>6, <2>8
  <2>10. a.cur # <<>> /\ a.cur = Words(b, j) /\ c[b] = Len(a.sent) /\ c[b + 1] = Len(a.sent) + 1
    BY <2>1, <2>2, <2>4, <2>7
  <2> QED BY <1>11, <2>3, <2>9, <2>10 DEF Snug, c, a
<1>12. CASE ~a.over /\ Starts(s, a, j, prefix)
  <2>1. /\ ~s.over /\ (s.cur # <<>> => ~CanJoin(s, j, prefix))
        /\ Flushed(a) = Append(Flushed(s), <<W>>)
        /\ ChunkOK(<<W>>, prefix)
        /\ \/ a.sent = Flushed(s) /\ a.cur = <<W>>
           \/ a.cur = <<>> /\ prefix + Size(<<W>>) > soft
    BY <1>12, AddWordCases DEF Starts
  <2>2. Len(Flushed(a)) = Len(Flushed(s)) + 1
    <3> DEFINE chunk == <<W>>
    <3>1. chunk \in Seq(Pieces)
      BY <1>4
    <3> HIDE DEF chunk
    <3>2. Len(Append(Flushed(s), chunk)) = Len(Flushed(s)) + 1
      BY <1>4, <3>1 DEF Lists
    <3> QED BY <2>1, <3>2 DEF chunk
  <2>3. Size(<<W>>) = Width(W) /\ Width(W) \in Nat
    BY <1>1, WordTypes, WordsTypes, SizeOfOne
  <2>4. Fits(prefix + Width(W))
    BY <2>1, <2>3 DEF ChunkOK, Fits
  <2>5. LeastFragments(j, prefix) = 1
    BY <2>4, FragmentsCount
  <2>6. c[j] = c[j - 1] + 1
    <3>1. c[j] >= c[j - 1] + 1
      <4> HIDE DEF c
      <4> QED BY <1>9, <2>1
    <3> HIDE DEF c
    <3> QED BY <1>2, <1>3, <2>5, <3>1
  <2>7. Words(j - 1, j) = <<W>>
    BY <1>1, WordsGrow
  <2>8. Len(Flushed(a)) = c[j]
    <3> HIDE DEF c, a
    <3> QED BY <1>6, <2>1, <2>2, <2>6
  <2>9. CASE a.sent = Flushed(s) /\ a.cur = <<W>>
    <3>1. a.cur # <<>> /\ a.cur = Words(j - 1, j)
      BY <2>7, <2>9
    <3>2. j - 1 \in 0 .. j - 1 /\ (j - 1) + 1 = j
      BY <1>1
    <3>3. c[j - 1] = Len(a.sent) /\ c[(j - 1) + 1] = Len(a.sent) + 1
      <4> HIDE DEF c, a
      <4> QED BY <1>6, <2>1, <2>6, <2>9, <3>2
    <3> HIDE DEF c, a, W
    <3> QED BY <1>12, <2>8, <3>1, <3>2, <3>3 DEF Snug, c, a
  <2>10. CASE a.cur = <<>> /\ prefix + Size(<<W>>) > soft
    <3>1. ~Together(j - 1, j, prefix)
      <4>1. soft \in Nat
        BY WordTypes
      <4> QED BY <1>1, <2>3, <2>7, <2>10, <4>1 DEF Together
    <3> HIDE DEF c, a, W
    <3> QED BY <1>12, <2>8, <2>10, <3>1 DEF Snug, c, a
  <2> QED BY <2>1, <2>9, <2>10
<1>13. CASE ~a.over /\ Splits(s, a, j, prefix)
  <2> DEFINE tail == [k \in DOMAIN F |-> <<F[k]>>]
  <2>1. /\ ~s.over /\ a.cur = <<>> /\ Flushed(a) = Flushed(s) \o tail
        /\ ~Fits(prefix + Width(W))
    BY <1>13, AddWordCases DEF Splits
  <2>2. c[j] = c[j - 1] + Len(F) /\ ~Together(j - 1, j, prefix)
    BY <2>1, FragmentsMore
  <2>3. tail \in Seq(Seq(Pieces)) /\ Len(tail) = Len(F)
    <3> HIDE DEF F
    <3>1. DOMAIN F = 1 .. Len(F) /\ \A k \in 1 .. Len(F) : F[k] \in Pieces
      BY <1>8, PieceTypes
    <3>2. tail \in [1 .. Len(F) -> Seq(Pieces)]
      BY <3>1
    <3> HIDE DEF tail
    <3> QED BY <1>8, <3>2
  <2> HIDE DEF tail
  <2>4. Len(Flushed(a)) = Len(Flushed(s)) + Len(tail)
    <3>1. Flushed(s) \in Seq(Seq(Pieces))
      BY <1>4 DEF Lists
    <3>2. tail \in Seq(Seq(Pieces))
      BY <2>3
    <3>3. Len(Flushed(s) \o tail) = Len(Flushed(s)) + Len(tail)
      BY <3>1, <3>2
    <3> QED BY <2>1, <3>3
  <2> HIDE DEF c, a, F
  <2>5. Len(Flushed(a)) = c[j]
    BY <1>6, <2>1, <2>2, <2>3, <2>4
  <2> QED BY <1>13, <2>1, <2>2, <2>5 DEF Snug, c, a
<1> QED BY <1>10, <1>11, <1>12, <1>13, AddWordCases

\* A pass counts the fewest packets there can be, or gives up for good reason.
LEMMA ScanIsLeast ==
    ASSUME Given, NEW n
    PROVE  /\ LeastChunks(Prefix(n)) \in Nat
           /\ Count(n) = Min({LeastChunks(Prefix(n)), MaxChunks + 1})
<1> DEFINE N == Len(text)
           prefix == Prefix(n)
           c == Least(ChunkWays(prefix))
<1>1. N \in Nat /\ DOMAIN text = 1 .. N /\ prefix \in 0 .. PrefixBytes /\ MaxChunks \in Nat
  BY WordTypes, PrefixType
<1>2. c \in [0 .. N -> Nat] /\ c[0] = 0
  BY <1>1, ChunkWaysProper, LeastOf
<1>3. c[N] = LeastChunks(prefix) /\ c[N] \in Nat
  BY <1>1, <1>2 DEF LeastChunks
<1>4. Good(Start, 0, prefix) /\ Snug(Start, 0, prefix) /\ Start \in States
  <2>1. Start \in States /\ ~Start.over /\ Flushed(Start) = <<>> /\ Start.cur = <<>>
    BY StartGood DEF Start
  <2>2. Good(Start, 0, prefix)
    BY StartGood
  <2> QED BY <1>2, <2>1, <2>2 DEF Snug
<1> HIDE DEF N, prefix, c
<1>5. PICK f \in [0 .. N -> States] :
            /\ f[0] = Start
            /\ \A i \in 1 .. N : f[i] = AddWord(f[i - 1], i, prefix)
            /\ Scan(n) = IF f[N].over THEN f[N] ELSE Flush(f[N])
  BY ScanExists DEF N, prefix
<1> DEFINE T == {k \in 0 .. N : Good(f[k], k, prefix) /\ Snug(f[k], k, prefix)}
<1>6. 0 \in T
  BY <1>1, <1>4, <1>5
<1>7. ASSUME NEW i \in 1 .. N, i - 1 \in T PROVE i \in T
  <2>1. /\ f[i] = AddWord(f[i - 1], i, prefix)
        /\ Good(f[i - 1], i - 1, prefix) /\ Snug(f[i - 1], i - 1, prefix)
    BY <1>5, <1>7
  <2>2. i \in DOMAIN text /\ i \in 0 .. N /\ f[i - 1] \in States
    BY <1>1, <1>5, <1>7
  <2>3. /\ Good(AddWord(f[i - 1], i, prefix), i, prefix)
        /\ Snug(AddWord(f[i - 1], i, prefix), i, prefix)
    BY <1>1, <2>1, <2>2, AddWordGood, AddWordSnug
  <2> QED BY <2>1, <2>2, <2>3
<1> HIDE DEF T
<1>8. \A i \in 0 .. N : i \in T
  BY <1>1, <1>6, <1>7, UpTo
<1>9. f[N] \in States /\ Snug(f[N], N, prefix) /\ Good(f[N], N, prefix)
  <2>1. N \in T
    BY <1>1, <1>8
  <2> QED BY <1>1, <1>5, <2>1 DEF T
<1>10. CASE f[N].over
  <2>1. c[N] > MaxChunks
    BY <1>9, <1>10 DEF Snug, c
  <2>2. Count(n) = MaxChunks + 1
    BY <1>5, <1>10 DEF Count
  <2>3. Min({c[N], MaxChunks + 1}) = MaxChunks + 1
    <3>1. {c[N], MaxChunks + 1} \in SUBSET Nat
      BY <1>1, <1>3
    <3>2. /\ Min({c[N], MaxChunks + 1}) \in {c[N], MaxChunks + 1}
          /\ \A x \in {c[N], MaxChunks + 1} : Min({c[N], MaxChunks + 1}) <= x
      BY <3>1, MinOf
    <3> QED BY <1>1, <1>3, <2>1, <3>2
  <2> QED BY <1>3, <2>2, <2>3 DEF prefix
<1>11. CASE ~f[N].over
  <2>1. c[N] = Len(Flushed(f[N])) /\ Len(Flushed(f[N])) <= MaxChunks
    BY <1>9, <1>11 DEF Snug, Good, c
  <2>2. Scan(n).sent = Flushed(f[N]) /\ ~Scan(n).over
    BY <1>5, <1>9, <1>11, FlushShapes
  <2>3. Count(n) = c[N]
    BY <2>1, <2>2 DEF Count
  <2>4. Min({c[N], MaxChunks + 1}) = c[N]
    <3>1. {c[N], MaxChunks + 1} \in SUBSET Nat
      BY <1>1, <1>3
    <3>2. /\ Min({c[N], MaxChunks + 1}) \in {c[N], MaxChunks + 1}
          /\ \A x \in {c[N], MaxChunks + 1} : Min({c[N], MaxChunks + 1}) <= x
      BY <3>1, MinOf
    <3> QED BY <1>1, <1>3, <2>1, <3>2
  <2> QED BY <1>3, <2>3, <2>4 DEF prefix
<1> QED BY <1>10, <1>11

\* The numbering never lets a text do with fewer packets.
LEMMA NumberingCosts ==
    ASSUME Given, NEW prefix \in 0 .. PrefixBytes
    PROVE  LeastChunks(0) <= LeastChunks(prefix)
<1>1. /\ prefix \in Nat /\ 0 \in 0 .. PrefixBytes /\ Len(text) \in Nat /\ DOMAIN text = 1 .. Len(text)
      /\ physical \in Nat /\ soft \in Nat
  BY WordTypes
<1>2. ASSUME NEW i \in DOMAIN text PROVE LeastFragments(i, 0) <= LeastFragments(i, prefix)
  <2> DEFINE N == Len(text[i])
             ways == FragmentWays(i, prefix)
             other == FragmentWays(i, 0)
  <2>1. N \in Nat /\ ProperWays(ways) /\ ProperWays(other) /\ Len(ways) = N /\ Len(other) = N
    BY <1>1, WordTypes, FragmentWaysProper
  <2>2. ASSUME NEW r \in 1 .. N, NEW w \in ways[r]
        PROVE  \E v \in other[r] : v.after = w.after /\ v.chunks <= w.chunks
    <3>1. PICK q \in 0 .. r - 1 : w = Way(q, 1) /\ Fits(prefix + Width(Piece(i, q + 1, r)))
      BY FragmentWaysProper
    <3>2. Width(Piece(i, q + 1, r)) \in Int
      <4>1. q + 1 \in 1 .. r /\ r \in r .. N /\ q + 1 \in 1 .. q + 1
        BY <2>1
      <4> QED BY <4>1, WidthRises
    <3>3. Fits(0 + Width(Piece(i, q + 1, r)))
      BY <1>1, <3>1, <3>2 DEF Fits
    <3>4. w \in other[r]
      BY <1>1, <3>1, <3>3, FragmentWaysProper
    <3>5. w.chunks <= w.chunks
      BY <3>1 DEF Way
    <3> QED BY <3>4, <3>5
  <2> HIDE DEF ways, other
  <2>3. \A r \in 0 .. Len(ways) : Least(other)[r] <= Least(ways)[r]
    BY <2>1, <2>2, LeastFalls
  <2> QED BY <2>1, <2>3 DEF LeastFragments, ways, other
<1> DEFINE N == Len(text)
           ways == ChunkWays(prefix)
           other == ChunkWays(0)
<1>3. ProperWays(ways) /\ ProperWays(other) /\ Len(ways) = N /\ Len(other) = N
  BY <1>1, ChunkWaysProper
<1>4. ASSUME NEW j \in 1 .. N, NEW w \in ways[j]
      PROVE  \E v \in other[j] : v.after = w.after /\ v.chunks <= w.chunks
  <2>1. CASE w = Way(j - 1, LeastFragments(j, prefix))
    <3>1. Way(j - 1, LeastFragments(j, 0)) \in other[j]
      BY <1>1, ChunkWaysProper
    <3> QED BY <1>1, <1>2, <2>1, <3>1 DEF Way
  <2>2. ASSUME NEW i \in 0 .. j - 1, w = Way(i, 1), Together(i, j, prefix)
        PROVE  \E v \in other[j] : v.after = w.after /\ v.chunks <= w.chunks
    <3>1. Size(Words(i, j)) \in Int
      <4>1. j \in j .. N /\ i \in 0 .. i
        BY <1>1
      <4> QED BY <1>1, <4>1, TogetherRises
    <3>2. Together(i, j, 0)
      BY <1>1, <2>2, <3>1 DEF Together, Fits
    <3>3. w \in other[j]
      BY <1>1, <2>2, <3>2, ChunkWaysProper
    <3>4. w.chunks <= w.chunks
      BY <2>2 DEF Way
    <3> QED BY <3>3, <3>4
  <2> QED BY <2>1, <2>2, ChunkWaysProper
<1> HIDE DEF ways, other
<1>5. \A j \in 0 .. Len(ways) : Least(other)[j] <= Least(ways)[j]
  BY <1>3, <1>4, LeastFalls
<1> QED BY <1>1, <1>3, <1>5 DEF LeastChunks, ways, other

LEMMA CountRises ==
    ASSUME Given, NEW n
    PROVE  Count(0) <= Count(n)
<1>1. Prefix(0) = 0 /\ Prefix(n) \in 0 .. PrefixBytes /\ MaxChunks \in Nat
  BY WordTypes, PrefixType DEF Prefix
<1> DEFINE a == LeastChunks(0)
           b == LeastChunks(Prefix(n))
           m == MaxChunks + 1
<1>2. a \in Nat /\ b \in Nat /\ a <= b /\ Count(0) = Min({a, m}) /\ Count(n) = Min({b, m})
  BY <1>1, ScanIsLeast, NumberingCosts
<1> HIDE DEF a, b
<1>3. {a, m} \in SUBSET Nat /\ {b, m} \in SUBSET Nat
  BY <1>1, <1>2
<1>4. /\ Min({a, m}) \in {a, m} /\ \A x \in {a, m} : Min({a, m}) <= x
      /\ Min({b, m}) \in {b, m} /\ \A x \in {b, m} : Min({b, m}) <= x
  BY <1>3, MinOf
<1> QED BY <1>1, <1>2, <1>4

-----------------------------------------------------------------------------
(* The passes of Send.  The number of the last pass before the chunks are  *)
(* sent is the one the numbering was made for, a further pass never counts *)
(* fewer, and the notice is only ever numbered as one packet.              *)

TypeInv ==
    /\ Given
    /\ pc \in {"count", "number", "emit", "done"}
    /\ total \in Nat /\ oversized \in BOOLEAN

NoticeInv == oversized => text = Notice /\ total = 1 /\ pc \in {"emit", "done"}

TotalInv == pc = "emit" /\ ~oversized => total <= MaxChunks /\ Count(total) = total

NumberInv == pc = "number" => total >= 2 /\ Count(total) >= total

ChunksInv ==
    IF pc # "done" THEN chunks = <<>>
    ELSE /\ Len(chunks) <= MaxChunks /\ (~oversized => total = Len(chunks))
         /\ Holds(chunks, Len(text))
         /\ \A c \in DOMAIN chunks : ChunkOK(chunks[c], Prefix(total))

Inv == TypeInv /\ NoticeInv /\ TotalInv /\ NumberInv /\ ChunksInv

LEMMA InitInv == Init => Inv
<1> SUFFICES ASSUME Init PROVE Inv
  OBVIOUS
<1>1. TypeInv
  BY DEF Init, TypeInv, Given
<1>2. NoticeInv /\ TotalInv /\ NumberInv
  BY DEF Init, NoticeInv, TotalInv, NumberInv
<1>3. ChunksInv
  BY DEF Init, ChunksInv
<1> QED BY <1>1, <1>2, <1>3 DEF Inv

\* The scan of a text that stays stays.
LEMMA SameCount ==
    ASSUME NEW n, UNCHANGED <<text, soft, physical>>
    PROVE  Count(n)' = Count(n)
<1>1. ASSUME NEW prefix PROVE ScanWith(prefix)' = ScanWith(prefix)
  BY DEF ScanWith, AddWord, Start, Word, Piece, Flush, GiveUp, Full, Split, Fragments,
         Extend, Width, Size, Fits
<1> QED BY <1>1 DEF Count, Scan

\* Nothing numbered and one packet are scanned alike.
LEMMA CountOfOne == Count(1) = Count(0) /\ Scan(1) = Scan(0)
<1>1. Prefix(1) = 0 /\ Prefix(0) = 0
  BY DEF Prefix
<1>2. Scan(1) = Scan(0)
  BY <1>1 DEF Scan
<1> QED BY <1>2 DEF Count

\* The count of a numbered pass is the same whatever its total.
LEMMA CountOfMany ==
    ASSUME NEW m \in Nat, NEW n \in Nat, m >= 2, n >= 2
    PROVE  Count(m) = Count(n)
<1>1. Prefix(m) = PrefixBytes /\ Prefix(n) = PrefixBytes
  BY DEF Prefix
<1>2. Scan(m) = Scan(n)
  BY <1>1 DEF Scan
<1> QED BY <1>2 DEF Count

\* A division of no words is empty.
LEMMA CountOfNone ==
    ASSUME Given, Count(0) = 0
    PROVE  Len(text) = 0 /\ Holds(<<>>, Len(text))
<1>1. ~Scan(0).over /\ Len(Scan(0).sent) = 0
  BY CountType, WordTypes
<1>2. Scan(0).sent = <<>>
  BY <1>1, ScanDivides DEF States, Lists
<1>3. Holds(Scan(0).sent, Len(text))
  BY <1>1, ScanDivides
<1> QED BY <1>2, <1>3 DEF Holds

LEMMA NextInv == Inv /\ [Next]_vars => Inv'
<1> SUFFICES ASSUME Inv, [Next]_vars PROVE Inv'
  OBVIOUS
<1>0. Given /\ MaxChunks \in Nat \ {0}
  BY WordTypes DEF Inv, TypeInv
<1>1. ASSUME Oversize, UNCHANGED <<limits, chunks>>, pc # "done" PROVE Inv'
  <2>1. Given'
    BY <1>0, <1>1 DEF Oversize, limits, Given
  <2> QED BY <1>1, <2>1 DEF Oversize, Inv, TypeInv, NoticeInv, TotalInv, NumberInv, ChunksInv
<1>2. ASSUME CountChunks PROVE Inv'
  <2>1. CASE Count(0) > MaxChunks /\ Oversize
    BY <1>1, <1>2, <2>1 DEF CountChunks
  <2>2. CASE /\ Count(0) <= MaxChunks /\ total' = Count(0)
             /\ pc' = CASE Count(0) = 0 -> "done" [] Count(0) = 1 -> "emit" [] OTHER -> "number"
             /\ UNCHANGED <<text, oversized>>
    <3>1. UNCHANGED <<text, soft, physical>> /\ UNCHANGED <<oversized, chunks>> /\ pc = "count"
      BY <1>2, <2>2 DEF CountChunks, limits
    <3>2. Given' /\ Count(0) \in Nat /\ chunks = <<>> /\ ~oversized
      BY <1>0, <3>1, CountType DEF Given, Inv, NoticeInv, ChunksInv
    <3>3. pc' \in {"done", "emit", "number"}
      BY <2>2
    <3>4. TypeInv' /\ NoticeInv'
      BY <2>2, <3>1, <3>2, <3>3 DEF Inv, TypeInv, NoticeInv
    <3>5. TotalInv'
      <4>1. CASE Count(0) = 1
        <5>1. Count(1)' = 1
          BY <3>1, <4>1, SameCount, CountOfOne
        <5> QED BY <1>0, <2>2, <4>1, <5>1 DEF TotalInv
      <4>2. CASE Count(0) # 1
        BY <2>2, <3>2, <4>2 DEF TotalInv
      <4> QED BY <4>1, <4>2
    <3>6. ChunksInv'
      <4>1. CASE Count(0) = 0
        <5>1. Len(text') = 0 /\ chunks' = <<>> /\ pc' = "done" /\ total' = 0
          BY <1>0, <2>2, <3>1, <3>2, <4>1, CountOfNone
        <5>2. Holds(chunks, Len(text))'
          BY <5>1 DEF Holds
        <5> QED BY <1>0, <5>1, <5>2 DEF ChunksInv
      <4>2. CASE Count(0) # 0
        BY <2>2, <3>1, <3>2, <4>2 DEF ChunksInv
      <4> QED BY <4>1, <4>2
    <3>7. NumberInv'
      <4>1. CASE Count(0) \in {0, 1}
        BY <2>2, <4>1 DEF NumberInv
      <4>2. CASE Count(0) \notin {0, 1}
        <5>1. PICK n : n = Count(0)
          OBVIOUS
        <5>2. n \in Nat /\ n >= 2 /\ Count(n) >= n
          BY <1>0, <3>2, <4>2, <5>1, CountRises, CountType
        <5>3. Count(n)' = Count(n)
          BY <3>1, SameCount
        <5>4. total' = n
          BY <2>2, <5>1
        <5>5. Count(total)' = Count(n)'
          BY <5>4 DEF Count, Scan
        <5> QED BY <5>2, <5>3, <5>4, <5>5 DEF NumberInv
      <4> QED BY <4>1, <4>2
    <3> QED BY <3>4, <3>5, <3>6, <3>7 DEF Inv
  <2> QED BY <1>2, <2>1, <2>2 DEF CountChunks
<1>3. ASSUME NumberChunks PROVE Inv'
  <2>1. CASE Count(total) > MaxChunks /\ Oversize
    BY <1>1, <1>3, <2>1 DEF NumberChunks
  <2>2. CASE /\ Count(total) <= MaxChunks
             /\ total' = Count(total)
             /\ pc' = IF Count(total) = total THEN "emit"
                      ELSE IF Count(total) < total THEN "failed" ELSE "number"
             /\ UNCHANGED <<text, oversized>>
    <3>1. UNCHANGED <<text, soft, physical>> /\ UNCHANGED <<oversized, chunks>> /\ pc = "number"
      BY <1>3, <2>2 DEF NumberChunks, limits
    <3>2. Given' /\ Count(total) \in Nat /\ chunks = <<>> /\ ~oversized
      BY <1>0, <3>1, CountType DEF Given, Inv, NoticeInv, ChunksInv
    <3>0. total \in Nat /\ total >= 2 /\ Count(total) >= total
      BY <3>1 DEF Inv, TypeInv, NumberInv
    <3>3. pc' = IF Count(total) = total THEN "emit" ELSE "number"
      BY <2>2, <3>0, <3>2
    <3>4. TypeInv' /\ NoticeInv'
      BY <2>2, <3>1, <3>2, <3>3 DEF Inv, TypeInv, NoticeInv
    <3>5. ASSUME pc' = "emit" PROVE total' <= MaxChunks /\ Count(total)' = total'
      <4>1. total' = total /\ Count(total) = total
        BY <2>2, <3>5
      <4>2. PICK n : n = total
        OBVIOUS
      <4>3. Count(n)' = n
        BY <3>1, <4>1, <4>2, SameCount
      <4>4. Count(total)' = n
        BY <4>1, <4>2, <4>3 DEF Count, Scan
      <4> QED BY <2>2, <4>1, <4>2, <4>4
    <3>6. TotalInv' /\ ChunksInv'
      BY <3>1, <3>2, <3>3, <3>5 DEF TotalInv, ChunksInv
    <3>7. NumberInv'
      <4>1. PICK n : n = Count(total)
        OBVIOUS
      <4>2. n \in Nat /\ n >= 2 /\ total' = n
        BY <2>2, <3>0, <3>2, <4>1
      <4>3. Count(n) = n
        BY <3>0, <4>1, <4>2, CountOfMany
      <4>4. Count(n)' = n
        BY <3>1, <4>3, SameCount
      <4>5. Count(total)' = Count(n)'
        BY <4>2 DEF Count, Scan
      <4> QED BY <4>2, <4>4, <4>5 DEF NumberInv
    <3> QED BY <3>4, <3>6, <3>7 DEF Inv
  <2> QED BY <1>3, <2>1, <2>2 DEF NumberChunks
<1>4. ASSUME EmitChunks PROVE Inv'
  <2>1. /\ UNCHANGED <<text, soft, physical, total, oversized>>
        /\ pc = "emit" /\ pc' = "done" /\ chunks' = Scan(total).sent
    BY <1>4 DEF EmitChunks, limits
  <2>2. Given'
    BY <1>0, <2>1 DEF Given
  <2>3. TypeInv' /\ NoticeInv' /\ TotalInv' /\ NumberInv'
    BY <2>1, <2>2 DEF Inv, TypeInv, NoticeInv, TotalInv, NumberInv
  <2>4. /\ ~Scan(total).over
        /\ ~oversized => total = Len(Scan(total).sent)
    <3>1. CASE oversized
      <4>1. text = Notice /\ total \in {0, 1}
        BY <3>1 DEF Inv, NoticeInv
      <4> QED BY <1>0, <3>1, <4>1, NoticeNeverOver
    <3>2. CASE ~oversized
      <4>1. total <= MaxChunks /\ Count(total) = total
        BY <2>1, <3>2 DEF Inv, TotalInv
      <4> QED BY <1>0, <4>1, CountType
    <3> QED BY <3>1, <3>2
  <2>5. PICK list : list = Scan(total).sent
    OBVIOUS
  <2>6. /\ Len(list) <= MaxChunks
        /\ Holds(list, Len(text))
        /\ \A c \in DOMAIN list : ChunkOK(list[c], Prefix(total))
    BY <1>0, <2>4, <2>5, ScanDivides
  <2>7. Holds(chunks, Len(text))'
    <3>1. Holds(list, Len(text))'
      BY <2>1, <2>6 DEF Holds, Before, After
    <3> QED BY <2>1, <2>5, <3>1 DEF Holds, Before
  <2>8. ASSUME NEW c \in DOMAIN list PROVE ChunkOK(list[c], Prefix(total))'
    <3>1. ChunkOK(list[c], Prefix(total))
      BY <2>6
    <3>2. Size(list[c])' = Size(list[c])
      BY <2>1 DEF Size, Width
    <3> QED BY <2>1, <3>1, <3>2 DEF ChunkOK, Prefix
  <2>9. \A c \in DOMAIN chunks' : ChunkOK(chunks[c], Prefix(total))'
    <3>1. chunks' = list
      BY <2>1, <2>5
    <3> QED BY <2>8, <3>1 DEF ChunkOK, Size, Width
  <2>10. ChunksInv'
    BY <2>1, <2>4, <2>5, <2>6, <2>7, <2>9 DEF ChunksInv
  <2> QED BY <2>3, <2>10 DEF Inv
<1>5. CASE UNCHANGED vars
  <2>1. UNCHANGED <<text, soft, physical, pc, total, oversized, chunks>>
    BY <1>5 DEF vars, limits
  <2>2. TypeInv' /\ NoticeInv'
    BY <2>1 DEF Inv, TypeInv, Given, NoticeInv
  <2>3. TotalInv' /\ NumberInv'
    <3>1. Count(total)' = Count(total)
      BY <2>1 DEF Count, Scan, ScanWith, AddWord, Start, Word, Piece, Flush, GiveUp, Full,
                  Split, Fragments, Extend, Width, Size, Fits, Prefix
    <3> QED BY <2>1, <3>1 DEF Inv, TotalInv, NumberInv
  <2>4. ChunksInv'
    <3>1. CASE pc # "done"
      BY <2>1, <3>1 DEF Inv, ChunksInv
    <3>2. CASE pc = "done"
      <4>1. Holds(chunks, Len(text))' = Holds(chunks, Len(text))
        BY <2>1 DEF Holds, Before, After
      <4>2. \A c : ChunkOK(chunks[c], Prefix(total))' = ChunkOK(chunks[c], Prefix(total))
        BY <2>1 DEF ChunkOK, Prefix, Size, Width
      <4> QED BY <2>1, <3>2, <4>1, <4>2 DEF Inv, ChunksInv
    <3> QED BY <3>1, <3>2
  <2> QED BY <2>2, <2>3, <2>4 DEF Inv
<1> QED BY <1>2, <1>3, <1>4, <1>5 DEF Next

THEOREM AlwaysInv == Spec => []Inv
<1> QED BY InitInv, NextInv, PTL DEF Spec

\* For every text and limits, each packet fits a frame with its numbering.
THEOREM PacketsFit == Spec => []ChunksFit
<1>1. Inv => ChunksFit
  <2>1. Inv /\ pc # "done" => DOMAIN chunks = {}
    BY DEF Inv, ChunksInv
  <2>2. Inv /\ pc = "done" => ChunksFit
    BY DEF Inv, ChunksInv, ChunksFit, ChunkOK
  <2> QED BY <2>1, <2>2 DEF ChunksFit
<1> QED BY <1>1, AlwaysInv, PTL

\* For every text, the packets hold the whole of it, once and in order.
THEOREM WholeText == Spec => []TextKept
<1>1. Inv => TextKept
  BY DEF Inv, ChunksInv, TextKept
<1> QED BY <1>1, AlwaysInv, PTL

\* For every text, the total in the numbering is the number of packets.
THEOREM TrueNumbering == Spec => []NumberingIsTrue
<1>1. Inv => NumberingIsTrue
  BY DEF Inv, ChunksInv, NumberingIsTrue
<1> QED BY <1>1, AlwaysInv, PTL

\* For every text, a pass counts the fewest packets that any division of the
\* text needs, or gives up because that is too many; and the count never falls
\* from one pass to the next.
THEOREM AsFewAsCanBe == Spec => []FewestChunks
<1>1. Inv => FewestChunks
  <2> SUFFICES ASSUME Inv PROVE FewestChunks
    OBVIOUS
  <2>1. pc # "failed"
    BY DEF Inv, TypeInv
  <2>2. Count(total) = Min({LeastChunks(Prefix(total)), MaxChunks + 1})
    BY ScanIsLeast DEF Inv, TypeInv
  <2> QED BY <2>1, <2>2 DEF FewestChunks
<1> QED BY <1>1, AlwaysInv, PTL
=============================================================================
