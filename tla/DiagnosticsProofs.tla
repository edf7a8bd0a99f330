------------------------- MODULE DiagnosticsProofs -------------------------
(***************************************************************************)
(* Proofs about Diagnostics, for any files, texts, offsets and replies:    *)
(* an escaped URI leads back to its file, the count of lines and columns   *)
(* gives the place that the offset has, and all places in a file are those *)
(* of one text of it.                                                      *)
(***************************************************************************)
EXTENDS Diagnostics, FiniteSetTheorems, SequenceTheorems, TLAPS

Paths == {UriToPath(u) : u \in Uris} \cup {<< >>}
Placed == [path : Paths, line : Nat, col : Nat]

Newlines(text, k) == {j \in 1 .. k : text[j] = "newline"}
Wides(text, k) == {j \in 1 .. k : text[j] = "wide"}

\* What there is to count in the first k characters of a text: units, lines and
\* the units since the last newline.
IsCount(text, k, units, ln, cl) ==
    /\ units = UnitsOf(text, k)
    /\ ln = 1 + Cardinality(Newlines(text, k))
    /\ \E b \in Newlines(text, k) \cup {0} :
         /\ \A j \in Newlines(text, k) : j <= b
         /\ cl = 1 + UnitsOf(text, k) - UnitsOf(text, b)

\* The count has not passed the offset.
CountIsDue ==
    pc = "counting" =>
        /\ Current.offset # NoOffset
        /\ i > 0 /\ IsCount(Counted, i - 1, seen, line, col)
        /\ \A j \in 0 .. i - 1 : j < i - 1 => UnitsOf(Counted, j) < Current.offset

\* Each place is that of the offset in the text that was kept for the URI.
PlacedInKept ==
    \A k \in DOMAIN placed : reply[k].uri \in Uris =>
        /\ reply[k].uri \in DOMAIN cache
        /\ [line |-> placed[k].line, col |-> placed[k].col]
             = PlaceOf(cache[reply[k].uri], reply[k].offset)

\* What is kept under a URI, its path has said since the server read it, and so
\* has every file what is on the disk.
KeptIsAVersion ==
    /\ \A u \in DOMAIN cache : cache[u] \in Said(UriToPath(u))
    /\ IF pc = "calling" THEN n = 1 /\ DOMAIN cache = {}
       ELSE \A f \in Files : disk[f] \in versions[f]

DiagInv ==
    /\ TypeOK /\ placed \in Seq(Placed)
    /\ CountIsDue /\ PlacedInKept /\ KeptIsAVersion

-----------------------------------------------------------------------------
(* Induction over positions.  A set of numbers has a least one, which is   *)
(* all that the functions over bytes need.                                 *)

\* A set of numbers has a least one: intervals are ordered by inclusion.
LEMMA LeastNumber ==
  ASSUME NEW B, B \subseteq Nat, B # {}
  PROVE  \E m \in B : \A k \in B : m <= k
  <1> DEFINE T == {1 .. k : k \in B}
             R == StrictSubsetOrdering(Nat)
  <1>1. IsWellFoundedOn(R, FiniteSubsetsOf(Nat))
    BY FS_StrictSubsetOrderingWellFounded
  <1>2. T \subseteq FiniteSubsetsOf(Nat) /\ T # {}
    <2>1. ASSUME NEW k \in B PROVE 1 .. k \in FiniteSubsetsOf(Nat)
      <3>1. IsFiniteSet(1 .. k)
        BY FS_Interval
      <3>2. 1 .. k \subseteq Nat
        OBVIOUS
      <3>3. QED
        BY <3>1, <3>2 DEF FiniteSubsetsOf
    <2>2. QED
      BY <2>1
  <1> HIDE DEF R, T
  <1>3. PICK x \in T : \A y \in T : <<y, x>> \notin R
    BY <1>1, <1>2, WFMin
  <1>4. PICK m \in B : x = 1 .. m
    BY <1>3 DEF T
  <1>5. ASSUME NEW k \in B, ~(m <= k) PROVE FALSE
    <2>1. 1 .. k \in T /\ 1 .. k \subseteq 1 .. m /\ 1 .. k # 1 .. m /\ 1 .. k \subseteq Nat /\ 1 .. m \subseteq Nat
      <3>1. m \in 1 .. m /\ m \notin 1 .. k
        BY <1>5
      <3>2. QED
        BY <1>5, <3>1 DEF T
    <2>2. <<1 .. k, 1 .. m>> \in R
      BY <2>1 DEF R, StrictSubsetOrdering
    <2>3. QED
      BY <1>3, <1>4, <2>1, <2>2
  <1>6. QED
    BY <1>5

\* Induction down to 1.
LEMMA Downwards ==
  ASSUME NEW top \in Nat \ {0}, NEW B, top \in B, \A k \in 1 .. top : k > 1 /\ k \in B => k - 1 \in B
  PROVE  1 .. top \subseteq B
  <1> DEFINE A == {k \in 1 .. top : \A m \in k .. top : m \in B}
  <1>1. top \in A /\ A \subseteq Nat
    OBVIOUS
  <1>2. PICK m \in A : \A k \in A : m <= k
    BY <1>1, LeastNumber
  <1>3. m = 1
    <2> SUFFICES ASSUME m > 1 PROVE FALSE
      BY <1>1
    <2>1. m - 1 \in B /\ m - 1 \in 1 .. top
      OBVIOUS
    <2>2. m - 1 \in A
      BY <2>1
    <2>3. QED
      BY <1>1, <1>2, <2>2
  <1>4. QED
    BY <1>3

\* Induction up from 1.
LEMMA Upwards ==
  ASSUME NEW top \in Nat, NEW B, 1 \in B, \A k \in 1 .. top : k < top /\ k \in B => k + 1 \in B
  PROVE  1 .. top \subseteq B
  <1> DEFINE A == {k \in 1 .. top : k \notin B}
  <1>1. ASSUME A # {} PROVE FALSE
    <2>0. A \subseteq Nat
      OBVIOUS
    <2>1. PICK m \in A : \A k \in A : m <= k
      BY <1>1, <2>0, LeastNumber
    <2>2. m \in 1 .. top /\ m \notin B
      BY <2>1
    <2>3. m # 1
      BY <2>2
    <2>4. m - 1 \in 1 .. top /\ m - 1 < top /\ (m - 1) + 1 = m
      BY <2>2, <2>3
    <2>5. m - 1 \in A
      BY <2>2, <2>4
    <2>6. QED
      BY <2>1, <2>2, <2>5
  <1>2. QED
    BY <1>1

\* A way through a sequence: a part at each position, and where it goes on.
IsWay(length, V, part, next) ==
    /\ length \in Nat
    /\ part \in [1 .. length -> Seq(V)]
    /\ next \in [1 .. length -> 1 .. length + 1]
    /\ \A k \in 1 .. length : next[k] > k

\* What is collected behind position m of a sequence: a part at each position,
\* then what is collected from a later one.
Collects(g, m, length, V, part, next) ==
    /\ g \in [m .. length + 1 -> Seq(V)]
    /\ \A k \in m .. length + 1 : g[k] = IF k > length THEN << >> ELSE part[k] \o g[next[k]]

\* A function that collects so exists.
LEMMA CollectionExists ==
  ASSUME NEW length, NEW V, NEW part, NEW next, IsWay(length, V, part, next)
  PROVE  \E g : Collects(g, 1, length, V, part, next)
  <1> USE DEF IsWay
  <1> DEFINE B == {m \in 1 .. length + 1 : \E g : Collects(g, m, length, V, part, next)}
  <1>1. length + 1 \in B
    <2> DEFINE g == [k \in {length + 1} |-> << >>]
    <2>1. length + 1 .. length + 1 = {length + 1} /\ << >> \in Seq(V)
      OBVIOUS
    <2>2. Collects(g, length + 1, length, V, part, next)
      <3>1. g \in [{length + 1} -> Seq(V)] /\ g[length + 1] = << >>
        BY <2>1
      <3> HIDE DEF g
      <3>2. length + 1 > length
        OBVIOUS
      <3>3. g[length + 1] = IF length + 1 > length THEN << >> ELSE part[length + 1] \o g[next[length + 1]]
        BY <3>1, <3>2, Zenon
      <3>4. QED
        BY <2>1, <3>1, <3>3 DEF Collects
    <2>3. QED
      BY <2>2
  <1>2. ASSUME NEW m \in 1 .. length + 1, m > 1, m \in B PROVE m - 1 \in B
    <2>1. PICK g : Collects(g, m, length, V, part, next)
      BY <1>2
    <2>2. m - 1 \in 1 .. length /\ next[m - 1] \in m .. length + 1
      BY <1>2
    <2>3. /\ g \in [m .. length + 1 -> Seq(V)]
          /\ \A k \in m .. length + 1 : g[k] = IF k > length THEN << >> ELSE part[k] \o g[next[k]]
      BY <2>1 DEF Collects
    <2> DEFINE first == part[m - 1] \o g[next[m - 1]]
               h == [k \in m - 1 .. length + 1 |-> IF k = m - 1 THEN first ELSE g[k]]
    <2>4. first \in Seq(V)
      <3>1. part[m - 1] \in Seq(V) /\ g[next[m - 1]] \in Seq(V)
        BY <2>2, <2>3
      <3>2. QED
        BY <3>1, ConcatProperties
    <2>5. /\ h \in [m - 1 .. length + 1 -> Seq(V)] /\ h[m - 1] = first
          /\ \A k \in m .. length + 1 : h[k] = g[k]
      <3>1. \A k \in m - 1 .. length + 1 : k # m - 1 => k \in m .. length + 1
        BY <2>2
      <3>2. \A k \in m .. length + 1 : k # m - 1 /\ k \in m - 1 .. length + 1
        BY <2>2
      <3>3. m - 1 \in m - 1 .. length + 1
        BY <2>2
      <3> HIDE DEF first
      <3>4. QED
        BY <2>3, <2>4, <3>1, <3>2, <3>3
    <2>6. ASSUME NEW k \in m - 1 .. length + 1
          PROVE  h[k] = IF k > length THEN << >> ELSE part[k] \o h[next[k]]
      <3> HIDE DEF h
      <3>1. CASE k = m - 1
        <4>1. h[next[m - 1]] = g[next[m - 1]] /\ ~(m - 1 > length)
          BY <2>2, <2>5
        <4>2. QED
          BY <2>5, <3>1, <4>1
      <3>2. CASE k # m - 1
        <4>1. k \in m .. length + 1 /\ h[k] = g[k]
          BY <2>2, <2>5, <3>2
        <4>2. k <= length => next[k] \in m .. length + 1
          BY <2>2, <4>1
        <4>3. k <= length => h[next[k]] = g[next[k]]
          BY <2>5, <4>2
        <4>4. CASE k > length
          BY <2>3, <4>1, <4>4
        <4>5. CASE ~(k > length)
          <5>1. k <= length
            BY <2>2, <4>1, <4>5
          <5>2. g[k] = part[k] \o g[next[k]]
            BY <2>3, <4>1, <4>5
          <5>3. QED
            BY <4>1, <4>3, <4>5, <5>1, <5>2
        <4>6. QED
          BY <4>4, <4>5
      <3>3. QED
        BY <3>1, <3>2
    <2>7. Collects(h, m - 1, length, V, part, next)
      <3> HIDE DEF h
      <3>1. QED
        BY <2>5, <2>6 DEF Collects
    <2>8. m - 1 \in 1 .. length + 1
      BY <2>2
    <2> HIDE DEF h
    <2>9. QED
      BY <2>7, <2>8
  <1>3. B \subseteq 1 .. length + 1
    OBVIOUS
  <1> HIDE DEF B
  <1>4. 1 \in B
    <2>1. length + 1 \in Nat \ {0} /\ 1 \in 1 .. length + 1
      OBVIOUS
    <2>2. QED
      BY <1>1, <1>2, <2>1, Downwards
  <1>5. QED
    BY <1>4 DEF B

\* The equation alone.
Solves(g, length, part, next) ==
    /\ g = [k \in 1 .. length + 1 |-> g[k]]
    /\ g[length + 1] = << >>
    /\ \A k \in 1 .. length : g[k] = part[k] \o g[next[k]]

\* A function that satisfies the equation collects so.
LEMMA CollectionIs ==
  ASSUME NEW length, NEW V, NEW part, NEW next, IsWay(length, V, part, next),
         NEW g, Solves(g, length, part, next)
  PROVE  g \in [1 .. length + 1 -> Seq(V)]
  <1>0. length \in Nat
    BY DEF IsWay
  <1> DEFINE B == {m \in 1 .. length + 1 : \A k \in m .. length + 1 : g[k] \in Seq(V)}
  <1>1. length + 1 \in B
    <2>1. << >> \in Seq(V)
      OBVIOUS
    <2>2. length + 1 .. length + 1 = {length + 1} /\ length + 1 \in 1 .. length + 1
      BY <1>0
    <2>3. \A k \in {length + 1} : g[k] \in Seq(V)
      BY <2>1 DEF Solves
    <2>4. QED
      BY <2>2, <2>3
  <1>2. ASSUME NEW m \in 1 .. length + 1, m > 1, m \in B PROVE m - 1 \in B
    <2>0. m - 1 \in 1 .. length /\ \A k \in m .. length + 1 : g[k] \in Seq(V)
      BY <1>0, <1>2
    <2> HIDE DEF B
    <2>1. next[m - 1] \in m .. length + 1 /\ part[m - 1] \in Seq(V)
      BY <2>0 DEF IsWay
    <2>2. g[next[m - 1]] \in Seq(V)
      BY <2>0, <2>1
    <2>3. g[m - 1] \in Seq(V)
      <3>1. part[m - 1] \o g[next[m - 1]] \in Seq(V)
        BY <2>1, <2>2, ConcatProperties
      <3>2. g[m - 1] = part[m - 1] \o g[next[m - 1]]
        BY <2>0 DEF Solves
      <3>3. QED
        BY <3>1, <3>2
    <2>4. \A k \in m - 1 .. length + 1 : k = m - 1 \/ k \in m .. length + 1
      BY <1>0, <2>0
    <2>5. m - 1 \in 1 .. length + 1
      BY <1>0, <2>0
    <2>6. QED
      BY <2>0, <2>3, <2>4, <2>5 DEF B
  <1>3. length + 1 \in Nat \ {0} /\ 1 \in 1 .. length + 1
    BY <1>0
  <1>4. \A m \in B : \A k \in m .. length + 1 : g[k] \in Seq(V)
    OBVIOUS
  <1> HIDE DEF B
  <1>5. 1 \in B
    BY <1>1, <1>2, <1>3, Downwards
  <1>6. QED
    BY <1>4, <1>5 DEF Solves

-----------------------------------------------------------------------------
(* What path_to_uri escapes, percent_decode leads back.                     *)

Ascii == 0 .. 127

LEMMA AsciiIsPlain == Ascii \subseteq Int /\ Ascii \cap Continuation = {}
  BY DEF Ascii, Continuation

\* What PercentEncode makes of one byte.
Chunk(b) == IF b \in Unreserved THEN <<b>> ELSE <<Percent, HexByte(b \div 16), HexByte(b % 16)>>

LEMMA HexByteIsHex ==
  ASSUME NEW v \in 0 .. 15
  PROVE  HexByte(v) \in Hex /\ HexByte(v) \in Ascii \ {Plus} /\ HexValue(HexByte(v)) = v
  <1>1. CASE v < 10
    BY <1>1 DEF HexByte, Hex, Digit, Ascii, Plus, HexValue
  <1>2. CASE v >= 10
    BY <1>2 DEF HexByte, Hex, Digit, Ascii, Plus, HexValue
  <1>3. QED
    BY <1>1, <1>2

\* An escape of a byte is read as that byte.
LEMMA EscapeIsRead ==
  ASSUME NEW b \in Byte
  PROVE  /\ IsHexPair(HexByte(b \div 16), HexByte(b % 16))
         /\ PairValue(HexByte(b \div 16), HexByte(b % 16)) = b
         /\ HexByte(b \div 16) \in Ascii /\ HexByte(b % 16) \in Ascii
  <1>1. PICK high \in 0 .. 15 : high = b \div 16
    BY DEF Byte
  <1>2. PICK low \in 0 .. 15 : low = b % 16 /\ 16 * high + low = b
    BY <1>1 DEF Byte
  <1>3. /\ HexByte(high) \in Hex /\ HexByte(high) \in Ascii \ {Plus} /\ HexValue(HexByte(high)) = high
        /\ HexByte(low) \in Hex /\ HexByte(low) \in Ascii \ {Plus} /\ HexValue(HexByte(low)) = low
    BY HexByteIsHex
  <1>4. /\ IsHexPair(HexByte(high), HexByte(low))
        /\ PairValue(HexByte(high), HexByte(low)) = b
        /\ HexByte(high) \in Ascii /\ HexByte(low) \in Ascii
    BY <1>2, <1>3 DEF IsHexPair, PairValue
  <1>5. QED
    BY <1>1, <1>2, <1>4

LEMMA PercentIsReserved == Percent \notin Unreserved
  BY DEF Unreserved, Letter, Digit, Slash, Colon, Percent

LEMMA ChunkType ==
  ASSUME NEW b \in Byte
  PROVE  Chunk(b) \in Seq(Ascii) /\ Len(Chunk(b)) = IF b \in Unreserved THEN 1 ELSE 3
  <1>1. CASE b \in Unreserved
    <2>1. b \in Ascii
      BY <1>1 DEF Unreserved, Letter, Digit, Slash, Colon, Ascii
    <2>2. QED
      BY <1>1, <2>1 DEF Chunk
  <1>2. CASE b \notin Unreserved
    <2>1. Percent \in Ascii
      BY DEF Percent, Ascii
    <2>2. QED
      BY <1>2, <2>1, EscapeIsRead DEF Chunk
  <1>3. QED
    BY <1>1, <1>2

\* What PercentEncode collects.
IsEncoding(g, s) ==
    /\ g \in [1 .. Len(s) + 1 -> Seq(Ascii)]
    /\ g[Len(s) + 1] = << >>
    /\ \A k \in 1 .. Len(s) : g[k] = Chunk(s[k]) \o g[k + 1]

LEMMA EncodingExists ==
  ASSUME NEW s \in Seq(Byte)
  PROVE  \E g : IsEncoding(g, s) /\ PercentEncode(s) = g[1]
  <1> DEFINE Body(g) == [k \in 1 .. Len(s) + 1 |->
                          IF k > Len(s) THEN << >>
                          ELSE (IF s[k] \in Unreserved THEN <<s[k]>>
                                ELSE <<Percent, HexByte(s[k] \div 16), HexByte(s[k] % 16)>>) \o g[k + 1]]
             enc == CHOOSE g : g = Body(g)
             part == [k \in 1 .. Len(s) |-> Chunk(s[k])]
             next == [k \in 1 .. Len(s) |-> k + 1]
  <1>1. Len(s) \in Nat /\ \A k \in 1 .. Len(s) : s[k] \in Byte
    OBVIOUS
  <1>2. IsWay(Len(s), Ascii, part, next)
    BY <1>1, ChunkType DEF IsWay
  <1>3. PICK g : Collects(g, 1, Len(s), Ascii, part, next)
    <2> HIDE DEF part, next
    <2>1. QED
      BY <1>2, CollectionExists
  <1>4. g = Body(g)
    <2>1. /\ g \in [1 .. Len(s) + 1 -> Seq(Ascii)]
          /\ \A k \in 1 .. Len(s) + 1 : g[k] = IF k > Len(s) THEN << >> ELSE part[k] \o g[next[k]]
      BY <1>3 DEF Collects
    <2>2. ASSUME NEW k \in 1 .. Len(s) + 1, ~(k > Len(s))
          PROVE  part[k] = Chunk(s[k]) /\ next[k] = k + 1
      BY <1>1, <2>2
    <2> HIDE DEF part, next
    <2>3. ASSUME NEW k \in 1 .. Len(s) + 1
          PROVE  g[k] = IF k > Len(s) THEN << >> ELSE Chunk(s[k]) \o g[k + 1]
      BY <2>1, <2>2
    <2>4. ASSUME NEW k \in 1 .. Len(s) + 1 PROVE g[k] = Body(g)[k]
      BY <2>3 DEF Chunk
    <2>5. QED
      BY <2>1, <2>4
  <1>5. enc = Body(enc)
    <2> HIDE DEF Body
    <2>1. QED
      BY <1>4
  <1>6. PercentEncode(s) = enc[1]
    BY DEF PercentEncode
  <1> HIDE DEF enc
  <1>7. /\ DOMAIN enc = 1 .. Len(s) + 1 /\ enc = [k \in DOMAIN enc |-> enc[k]]
        /\ \A k \in 1 .. Len(s) + 1 : enc[k] = IF k > Len(s) THEN << >> ELSE Chunk(s[k]) \o enc[k + 1]
    BY <1>5 DEF Chunk
  <1> HIDE DEF Body
  <1>8. enc[Len(s) + 1] = << >> /\ \A k \in 1 .. Len(s) : enc[k] = Chunk(s[k]) \o enc[k + 1]
    <2>1. Len(s) + 1 \in 1 .. Len(s) + 1 /\ Len(s) + 1 > Len(s)
      BY <1>1
    <2>2. ASSUME NEW k \in 1 .. Len(s) PROVE k \in 1 .. Len(s) + 1 /\ ~(k > Len(s))
      BY <1>1
    <2>3. enc[Len(s) + 1] = << >>
      BY <1>7, <2>1, Zenon
    <2>4. QED
      BY <1>7, <2>2, <2>3, Zenon
  <1>9. enc \in [1 .. Len(s) + 1 -> Seq(Ascii)]
    <2>1. \A k \in 1 .. Len(s) : part[k] = Chunk(s[k]) /\ next[k] = k + 1
      OBVIOUS
    <2> HIDE DEF part, next
    <2>2. \A k \in 1 .. Len(s) : enc[k] = part[k] \o enc[next[k]]
      BY <1>8, <2>1
    <2>3. Solves(enc, Len(s), part, next)
      BY <1>7, <1>8, <2>2 DEF Solves
    <2>4. QED
      BY <1>2, <2>3, CollectionIs
  <1>10. QED
    BY <1>6, <1>8, <1>9 DEF IsEncoding

\* There is an escape at this position.
IsEscape(u, k) == HasPair(u, k) /\ IsHexPair(u[k + 1], u[k + 2])

\* What DecodedBytes collects, where no byte is part of a longer character.
IsDecoding(d, u) ==
    /\ d[Len(u) + 1] = << >>
    /\ \A k \in 1 .. Len(u) :
         d[k] = IF IsEscape(u, k) THEN <<PairValue(u[k + 1], u[k + 2])>> \o d[k + 3] ELSE <<u[k]>> \o d[k + 1]

LEMMA DecodingExists ==
  ASSUME NEW u \in Seq(Ascii)
  PROVE  \E d : IsDecoding(d, u) /\ DecodedBytes(u) = d[1]
  <1> DEFINE Body(d) == [k \in 1 .. Len(u) + 1 |->
                          IF k > Len(u) THEN << >>
                          ELSE IF HasPair(u, k) /\ CutsCharacter(u, k) THEN <<Panic>>
                          ELSE IF HasPair(u, k) /\ IsHexPair(u[k + 1], u[k + 2])
                          THEN <<PairValue(u[k + 1], u[k + 2])>> \o d[k + 3]
                          ELSE <<u[k]>> \o d[k + 1]]
             dec == CHOOSE d : d = Body(d)
             part == [k \in 1 .. Len(u) |-> IF IsEscape(u, k) THEN <<PairValue(u[k + 1], u[k + 2])>> ELSE <<u[k]>>]
             next == [k \in 1 .. Len(u) |-> IF IsEscape(u, k) THEN k + 3 ELSE k + 1]
  <1> HIDE DEF Body, dec, part, next
  <1>1. Len(u) \in Nat /\ \A k \in 1 .. Len(u) : u[k] \in Ascii
    OBVIOUS
  <1>2. \A k \in 1 .. Len(u) : ~CutsCharacter(u, k)
    <2> SUFFICES ASSUME NEW k \in 1 .. Len(u), k + 3 <= Len(u), u[k + 3] \in Continuation PROVE FALSE
      BY DEF CutsCharacter
    <2>1. k + 3 \in 1 .. Len(u)
      BY <1>1
    <2>2. u[k + 3] \in Ascii
      BY <1>1, <2>1
    <2>3. QED
      BY <2>2, AsciiIsPlain
  <1>3. IsWay(Len(u), Int, part, next)
    <2>1. ASSUME NEW k \in 1 .. Len(u), IsEscape(u, k)
          PROVE  k + 3 \in 1 .. Len(u) + 1 /\ PairValue(u[k + 1], u[k + 2]) \in Int
      <3>1. k + 2 <= Len(u)
        BY <2>1 DEF IsEscape, HasPair
      <3>2. k + 1 \in 1 .. Len(u) /\ k + 2 \in 1 .. Len(u) /\ k + 3 \in 1 .. Len(u) + 1
        BY <1>1, <3>1
      <3>3. u[k + 1] \in Ascii /\ u[k + 2] \in Ascii
        BY <1>1, <3>2
      <3>4. ASSUME NEW a \in Ascii, NEW b \in Ascii PROVE PairValue(a, b) \in Int
        BY DEF PairValue, HexValue, Ascii
      <3>5. QED
        BY <3>2, <3>3, <3>4
    <2> USE DEF part, next
    <2>2. part \in [1 .. Len(u) -> Seq(Int)]
      <3>1. ASSUME NEW k \in 1 .. Len(u)
            PROVE  (IF IsEscape(u, k) THEN <<PairValue(u[k + 1], u[k + 2])>> ELSE <<u[k]>>) \in Seq(Int)
        <4>1. CASE IsEscape(u, k)
          <5>1. PairValue(u[k + 1], u[k + 2]) \in Int
            BY <2>1, <4>1
          <5>2. QED
            BY <4>1, <5>1
        <4>2. CASE ~IsEscape(u, k)
          <5>1. u[k] \in Int
            BY <1>1, AsciiIsPlain
          <5>2. QED
            BY <4>2, <5>1
        <4>3. QED
          BY <4>1, <4>2
      <3>2. QED
        BY <3>1
    <2>3. next \in [1 .. Len(u) -> 1 .. Len(u) + 1] /\ \A k \in 1 .. Len(u) : next[k] > k
      BY <1>1, <2>1
    <2> HIDE DEF part, next
    <2>4. QED
      BY <1>1, <2>2, <2>3 DEF IsWay
  <1>4. PICK g : Collects(g, 1, Len(u), Int, part, next)
    BY <1>3, CollectionExists
  <1>5. g = Body(g)
    <2>1. /\ g \in [1 .. Len(u) + 1 -> Seq(Int)]
          /\ \A k \in 1 .. Len(u) + 1 : g[k] = IF k > Len(u) THEN << >> ELSE part[k] \o g[next[k]]
      BY <1>4 DEF Collects
    <2>2. ASSUME NEW k \in 1 .. Len(u) + 1, ~(k > Len(u))
          PROVE  /\ part[k] = IF IsEscape(u, k) THEN <<PairValue(u[k + 1], u[k + 2])>> ELSE <<u[k]>>
                 /\ next[k] = IF IsEscape(u, k) THEN k + 3 ELSE k + 1
                 /\ ~CutsCharacter(u, k)
      BY <1>1, <1>2, <2>2 DEF part, next
    <2> USE DEF Body
    <2>3. ASSUME NEW k \in 1 .. Len(u) + 1 PROVE g[k] = Body(g)[k]
      <3>1. CASE k > Len(u)
        BY <2>1, <3>1
      <3>2. CASE ~(k > Len(u)) /\ IsEscape(u, k)
        BY <2>1, <2>2, <3>2 DEF IsEscape
      <3>3. CASE ~(k > Len(u)) /\ ~IsEscape(u, k)
        BY <2>1, <2>2, <3>3 DEF IsEscape
      <3>4. QED
        BY <3>1, <3>2, <3>3
    <2>4. QED
      BY <2>1, <2>3
  <1>6. dec = Body(dec)
    BY <1>5 DEF dec
  <1>7. DecodedBytes(u) = dec[1]
    BY DEF DecodedBytes, dec, Body
  <1>8. \A k \in 1 .. Len(u) + 1 :
           dec[k] = IF k > Len(u) THEN << >>
                    ELSE IF HasPair(u, k) /\ CutsCharacter(u, k) THEN <<Panic>>
                    ELSE IF HasPair(u, k) /\ IsHexPair(u[k + 1], u[k + 2])
                    THEN <<PairValue(u[k + 1], u[k + 2])>> \o dec[k + 3]
                    ELSE <<u[k]>> \o dec[k + 1]
    BY <1>6 DEF Body
  <1>9. dec[Len(u) + 1] = << >>
    <2>1. Len(u) + 1 \in 1 .. Len(u) + 1 /\ Len(u) + 1 > Len(u)
      BY <1>1
    <2>2. QED
      BY <1>8, <2>1, Zenon
  <1>10. ASSUME NEW k \in 1 .. Len(u)
         PROVE  dec[k] = IF IsEscape(u, k) THEN <<PairValue(u[k + 1], u[k + 2])>> \o dec[k + 3]
                         ELSE <<u[k]>> \o dec[k + 1]
    <2>1. k \in 1 .. Len(u) + 1 /\ ~(k > Len(u)) /\ ~CutsCharacter(u, k)
      BY <1>1, <1>2
    <2>2. QED
      BY <1>8, <2>1, Zenon DEF IsEscape
  <1>11. QED
    BY <1>7, <1>9, <1>10 DEF IsDecoding

\* One sequence is the end of another.
IsEnd(r, e) == Len(r) <= Len(e) /\ \A j \in 1 .. Len(r) : e[Len(e) - Len(r) + j] = r[j]

LEMMA EndOfEnd ==
  ASSUME NEW e \in Seq(Ascii), NEW c \in Seq(Ascii), NEW t \in Seq(Ascii), IsEnd(c \o t, e)
  PROVE  IsEnd(t, e)
  <1>1. PICK q \in Seq(Ascii) : q = c \o t
    BY ConcatProperties
  <1>2. /\ Len(q) = Len(c) + Len(t) /\ Len(c) \in Nat /\ Len(t) \in Nat /\ Len(e) \in Nat
        /\ \A j \in 1 .. Len(t) : q[Len(c) + j] = t[j]
    BY <1>1
  <1>3. Len(q) <= Len(e) /\ \A j \in 1 .. Len(q) : e[Len(e) - Len(q) + j] = q[j]
    BY <1>1 DEF IsEnd
  <1>4. Len(t) <= Len(e)
    BY <1>2, <1>3
  <1>5. ASSUME NEW j \in 1 .. Len(t) PROVE e[Len(e) - Len(t) + j] = t[j]
    <2>1. Len(c) + j \in 1 .. Len(q)
      BY <1>2
    <2>2. e[Len(e) - Len(q) + (Len(c) + j)] = q[Len(c) + j]
      BY <1>3, <2>1
    <2>3. Len(e) - Len(q) + (Len(c) + j) = Len(e) - Len(t) + j
      BY <1>2
    <2>4. q[Len(c) + j] = t[j]
      BY <1>2
    <2>5. QED
      BY <2>2, <2>3, <2>4
  <1>6. QED
    BY <1>4, <1>5 DEF IsEnd

\* What is collected behind a position of the path is the end of the whole.
LEMMA EncodingEnds ==
  ASSUME NEW s \in Seq(Byte), NEW g, IsEncoding(g, s)
  PROVE  \A k \in 1 .. Len(s) + 1 : IsEnd(g[k], g[1])
  <1> DEFINE B == {m \in 1 .. Len(s) + 1 : IsEnd(g[m], g[1])}
  <1>1. Len(s) \in Nat /\ \A m \in 1 .. Len(s) + 1 : g[m] \in Seq(Ascii)
    BY DEF IsEncoding
  <1>2. g[1] \in Seq(Ascii) /\ 1 \in 1 .. Len(s) + 1
    BY <1>1
  <1>3. 1 \in B
    <2>1. Len(g[1]) \in Nat
      BY <1>2
    <2>2. IsEnd(g[1], g[1])
      BY <2>1 DEF IsEnd
    <2>3. QED
      BY <1>2, <2>2
  <1>4. ASSUME NEW m \in 1 .. Len(s) + 1, m < Len(s) + 1, m \in B PROVE m + 1 \in B
    <2>1. m \in 1 .. Len(s) /\ m + 1 \in 1 .. Len(s) + 1
      BY <1>1, <1>4
    <2>2. Chunk(s[m]) \in Seq(Ascii)
      BY <2>1, ChunkType
    <2>3. g[m] = Chunk(s[m]) \o g[m + 1]
      BY <2>1 DEF IsEncoding
    <2>4. g[m + 1] \in Seq(Ascii)
      BY <1>1, <2>1
    <2>5. IsEnd(Chunk(s[m]) \o g[m + 1], g[1])
      BY <1>4, <2>3
    <2>6. IsEnd(g[m + 1], g[1])
      BY <1>2, <2>2, <2>4, <2>5, EndOfEnd
    <2>7. QED
      BY <2>1, <2>6
  <1>5. \A m \in B : IsEnd(g[m], g[1])
    OBVIOUS
  <1> HIDE DEF B
  <1>6. 1 .. Len(s) + 1 \subseteq B
    <2>1. Len(s) + 1 \in Nat
      BY <1>1
    <2>2. QED
      BY <1>3, <1>4, <2>1, Upwards
  <1>7. QED
    BY <1>5, <1>6

\* Decoded from there it is the end of the path.
LEMMA DecodingLeadsBack ==
  ASSUME NEW s \in Seq(Byte), NEW g, IsEncoding(g, s), NEW d, IsDecoding(d, g[1])
  PROVE  d[1] = s
  <1> DEFINE e == g[1]
             At(x) == Len(e) - Len(g[x]) + 1
             B == {x \in 1 .. Len(s) + 1 : d[At(x)] = SubSeq(s, x, Len(s))}
  <1>1. Len(s) \in Nat /\ Len(e) \in Nat /\ e \in Seq(Ascii)
    <2>1. Len(s) \in Nat /\ 1 \in 1 .. Len(s) + 1
      OBVIOUS
    <2>2. e \in Seq(Ascii)
      BY <2>1 DEF IsEncoding
    <2>3. QED
      BY <2>1, <2>2
  <1> HIDE DEF e, B, At
  <1>2. Len(s) + 1 \in B
    <2>1. g[Len(s) + 1] = << >> /\ Len(g[Len(s) + 1]) = 0
      BY DEF IsEncoding
    <2>2. At(Len(s) + 1) = Len(e) + 1
      BY <1>1, <2>1 DEF At
    <2>3. d[Len(e) + 1] = << >>
      BY DEF IsDecoding, e
    <2>4. SubSeq(s, Len(s) + 1, Len(s)) = << >>
      BY <1>1, SubSeqEmpty
    <2>5. Len(s) + 1 \in 1 .. Len(s) + 1
      BY <1>1
    <2>6. QED
      BY <2>2, <2>3, <2>4, <2>5 DEF B
  <1>3. ASSUME NEW m \in 1 .. Len(s) + 1, m > 1, m \in B PROVE m - 1 \in B
    <2>1. PICK k \in 1 .. Len(s) : k = m - 1 /\ k + 1 = m
      BY <1>1, <1>3
    <2>2. s[k] \in Byte
      BY <2>1
    <2>3. PICK c : c = Chunk(s[k])
      OBVIOUS
    <2>4. c \in Seq(Ascii) /\ Len(c) = (IF s[k] \in Unreserved THEN 1 ELSE 3)
      BY <2>2, <2>3, ChunkType
    <2>5. PICK t \in Seq(Ascii) : t = g[m]
      BY DEF IsEncoding
    <2>6. g[k] = c \o t
      BY <2>1, <2>3, <2>5 DEF IsEncoding
    <2>7. PICK r \in Seq(Ascii) : r = g[k]
      <3>1. k \in 1 .. Len(s) + 1
        BY <1>1
      <3>2. g[k] \in Seq(Ascii)
        BY <3>1 DEF IsEncoding
      <3>3. QED
        BY <3>2
    <2>8. /\ Len(r) = Len(c) + Len(t)
          /\ \A j \in 1 .. Len(c) : j \in 1 .. Len(r) /\ r[j] = c[j]
      <3>1. r = c \o t
        BY <2>6, <2>7
      <3>2. c \in Seq(Ascii) /\ t \in Seq(Ascii)
        BY <2>4
      <3>3. Len(r) = Len(c) + Len(t)
        BY <3>1, <3>2
      <3>4. Len(c) \in Nat /\ Len(t) \in Nat
        BY <3>2
      <3>5. \A j \in 1 .. Len(c) : j \in 1 .. Len(r)
        BY <3>3, <3>4
      <3>6. \A j \in 1 .. Len(c) : r[j] = c[j]
        BY <3>1, <3>2
      <3>7. QED
        BY <3>3, <3>5, <3>6
    <2>9. Len(r) <= Len(e) /\ \A j \in 1 .. Len(r) : e[Len(e) - Len(r) + j] = r[j]
      <3>1. k \in 1 .. Len(s) + 1
        BY <1>1
      <3>2. IsEnd(r, e)
        BY <2>7, <3>1, EncodingEnds DEF e
      <3>3. QED
        BY <3>2 DEF IsEnd
    <2>10. PICK p \in Nat : p = Len(e) - Len(r)
      <3>1. Len(r) \in Nat
        BY <2>8
      <3>2. Len(e) - Len(r) \in Nat
        BY <1>1, <2>9, <3>1
      <3>3. QED
        BY <3>2
    <2>11. /\ \A j \in 1 .. Len(c) : e[p + j] = c[j]
           /\ At(k) = p + 1 /\ At(m) = p + 1 + Len(c) /\ p + Len(c) <= Len(e)
      <3>1. At(k) = p + 1 /\ At(m) = p + 1 + Len(c) /\ p + Len(c) <= Len(e)
        BY <1>1, <2>4, <2>5, <2>7, <2>8, <2>10 DEF At
      <3>2. QED
        BY <2>8, <2>9, <2>10, <3>1
    <2>12. d[p + 1 + Len(c)] = SubSeq(s, m, Len(s))
      BY <1>3, <2>11 DEF B
    <2>13. SubSeq(s, k, Len(s)) = <<s[k]>> \o SubSeq(s, k + 1, Len(s))
      BY <1>1, SubSeqRecursiveFirst
    <2>14. p + 1 \in 1 .. Len(e)
      BY <1>1, <2>4, <2>11
    <2>15. d[p + 1] = <<s[k]>> \o d[p + 1 + Len(c)]
      <3>1. CASE s[k] \in Unreserved
        <4>1. Len(c) = 1 /\ c[1] = s[k]
          BY <2>3, <2>4, <3>1 DEF Chunk
        <4>2. e[p + 1] = s[k]
          BY <2>11, <4>1
        <4>3. s[k] # Percent
          BY <3>1, PercentIsReserved
        <4>4. ~IsEscape(e, p + 1)
          BY <4>2, <4>3 DEF IsEscape, HasPair
        <4>5. d[p + 1] = <<e[p + 1]>> \o d[p + 1 + 1]
          BY <2>14, <4>4 DEF IsDecoding, e
        <4>6. QED
          BY <4>1, <4>2, <4>5
      <3>2. CASE s[k] \notin Unreserved
        <4>1. /\ Len(c) = 3 /\ c[1] = Percent
              /\ c[2] = HexByte(s[k] \div 16) /\ c[3] = HexByte(s[k] % 16)
          BY <2>3, <2>4, <3>2 DEF Chunk
        <4>2. /\ e[p + 1] = Percent /\ e[p + 1 + 1] = HexByte(s[k] \div 16)
              /\ e[p + 1 + 2] = HexByte(s[k] % 16)
          <5>1. 1 \in 1 .. Len(c) /\ 2 \in 1 .. Len(c) /\ 3 \in 1 .. Len(c)
            BY <4>1
          <5>2. e[p + 1] = c[1] /\ e[p + 2] = c[2] /\ e[p + 3] = c[3]
            BY <2>11, <5>1
          <5>3. p + 2 = p + 1 + 1 /\ p + 3 = p + 1 + 2
            OBVIOUS
          <5>4. QED
            BY <4>1, <5>2, <5>3
        <4>3. HasPair(e, p + 1)
          BY <1>1, <2>11, <4>1, <4>2 DEF HasPair
        <4>4. IsEscape(e, p + 1) /\ PairValue(e[p + 1 + 1], e[p + 1 + 2]) = s[k]
          BY <2>2, <4>2, <4>3, EscapeIsRead DEF IsEscape
        <4>5. d[p + 1] = <<PairValue(e[p + 1 + 1], e[p + 1 + 2])>> \o d[p + 1 + 3]
          BY <2>14, <4>4 DEF IsDecoding, e
        <4>6. QED
          BY <4>1, <4>4, <4>5
      <3>3. QED
        BY <3>1, <3>2
    <2>16. k \in 1 .. Len(s) + 1
      BY <1>1
    <2>17. QED
      BY <2>1, <2>11, <2>12, <2>13, <2>15, <2>16 DEF B
  <1>4. 1 \in B
    <2>1. Len(s) + 1 \in Nat \ {0} /\ 1 \in 1 .. Len(s) + 1
      BY <1>1
    <2>2. QED
      BY <1>2, <1>3, <2>1, Downwards
  <1>5. At(1) = 1
    BY <1>1 DEF e, At
  <1>6. SubSeq(s, 1, Len(s)) = s
    BY SubSeqFull
  <1>7. QED
    BY <1>4, <1>5, <1>6 DEF B

\* Whatever bytes a path has, what is decoded of its escaped form is the path.
THEOREM DecodedIsEncoded == \A s \in Seq(Byte) : DecodedBytes(PercentEncode(s)) = s
  <1> SUFFICES ASSUME NEW s \in Seq(Byte) PROVE DecodedBytes(PercentEncode(s)) = s
    OBVIOUS
  <1>1. PICK g : IsEncoding(g, s) /\ PercentEncode(s) = g[1]
    BY EncodingExists
  <1>2. g[1] \in Seq(Ascii)
    <2>1. 1 \in 1 .. Len(s) + 1
      OBVIOUS
    <2>2. QED
      BY <1>1, <2>1 DEF IsEncoding
  <1>3. PICK d : IsDecoding(d, g[1]) /\ DecodedBytes(g[1]) = d[1]
    BY <1>2, DecodingExists
  <1>4. QED
    BY <1>1, <1>3, DecodingLeadsBack

\* uri_to_path leads the URI of each file back to it, and does not panic.
LEMMA EscapesDoLeadBack == EscapesLeadBack /\ \A f \in Files : ~Panics(Escaped[f])
  <1> SUFFICES ASSUME NEW f \in Files
               PROVE  UriToPath(Escaped[f]) = f /\ ~Panics(Escaped[f])
    BY DEF EscapesLeadBack
  <1>1. /\ Escaped[f].file /\ Escaped[f].rest = PercentEncode(f)
        /\ f \in Seq(Byte) /\ ~IsDrive(f) /\ Lossy(f) = f
    BY FilesAssumption DEF Escaped, PathToUri
  <1>2. DecodedBytes(Escaped[f].rest) = f
    BY <1>1, DecodedIsEncoded
  <1>3. UriToPath(Escaped[f]) = f
    BY <1>1, <1>2 DEF UriToPath
  <1>4. ASSUME NEW k \in DOMAIN f PROVE f[k] # Panic
    <2>1. f[k] \in Byte
      BY <1>1
    <2>2. QED
      BY <2>1 DEF Byte, Panic
  <1>5. ~Panics(Escaped[f])
    BY <1>2, <1>4 DEF Panics
  <1>6. QED
    BY <1>3, <1>5

-----------------------------------------------------------------------------
(* Counting.                                                               *)

UpTo(P, m) == {j \in 1 .. m : j \in P}

\* One more number makes a set of them larger by one, or not.
LEMMA OneMoreCounted ==
  ASSUME NEW k \in Nat, NEW P \in SUBSET Nat
  PROVE  /\ Cardinality(UpTo(P, k)) \in Nat
         /\ UpTo(P, k + 1) = IF k + 1 \in P THEN UpTo(P, k) \cup {k + 1} ELSE UpTo(P, k)
         /\ Cardinality(UpTo(P, k + 1)) = Cardinality(UpTo(P, k)) + (IF k + 1 \in P THEN 1 ELSE 0)
  <1>1. IsFiniteSet(UpTo(P, k))
    <2>1. IsFiniteSet(1 .. k)
      BY FS_Interval
    <2>2. QED
      BY <2>1, FS_Subset DEF UpTo
  <1>2. Cardinality(UpTo(P, k)) \in Nat
    BY <1>1, FS_CardinalityType
  <1>3. UpTo(P, k + 1) = IF k + 1 \in P THEN UpTo(P, k) \cup {k + 1} ELSE UpTo(P, k)
    BY DEF UpTo
  <1>4. Cardinality(UpTo(P, k) \cup {k + 1}) = Cardinality(UpTo(P, k)) + 1
    <2>1. k + 1 \notin UpTo(P, k)
      BY DEF UpTo
    <2>2. QED
      BY <1>1, <2>1, FS_AddElement
  <1>5. QED
    BY <1>2, <1>3, <1>4

\* Units and lines before a text, and after one more character of it.
LEMMA CountStarts ==
  ASSUME NEW text
  PROVE  IsCount(text, 0, 0, 1, 1)
  <1>1. {j \in 1 .. 0 : text[j] = "wide"} = {} /\ Newlines(text, 0) = {} /\ Cardinality({}) = 0
    BY FS_EmptySet DEF Newlines
  <1>2. UnitsOf(text, 0) = 0
    BY <1>1 DEF UnitsOf
  <1>3. QED
    BY <1>1, <1>2 DEF IsCount

LEMMA UnitsAfter ==
  ASSUME NEW text, NEW k \in Nat
  PROVE  /\ UnitsOf(text, k) \in Nat /\ UnitsOf(text, k + 1) = UnitsOf(text, k) + Units(text[k + 1])
         /\ Cardinality(Newlines(text, k)) \in Nat
         /\ Newlines(text, k + 1)
              = IF text[k + 1] = "newline" THEN Newlines(text, k) \cup {k + 1} ELSE Newlines(text, k)
         /\ Cardinality(Newlines(text, k + 1))
              = Cardinality(Newlines(text, k)) + (IF text[k + 1] = "newline" THEN 1 ELSE 0)
  <1>1. /\ Cardinality(Wides(text, k)) \in Nat
        /\ Cardinality(Wides(text, k + 1)) = Cardinality(Wides(text, k)) + (IF text[k + 1] = "wide" THEN 1 ELSE 0)
    <2> DEFINE P == {j \in Nat : text[j] = "wide"}
    <2>1. \A m \in Nat : UpTo(P, m) = Wides(text, m)
      BY DEF Wides, UpTo
    <2>2. k + 1 \in Nat /\ (k + 1 \in P <=> text[k + 1] = "wide")
      OBVIOUS
    <2>3. P \in SUBSET Nat
      OBVIOUS
    <2> HIDE DEF P
    <2>4. QED
      BY <2>1, <2>2, <2>3, OneMoreCounted
  <1>2. /\ Cardinality(Newlines(text, k)) \in Nat
        /\ Newlines(text, k + 1)
             = IF text[k + 1] = "newline" THEN Newlines(text, k) \cup {k + 1} ELSE Newlines(text, k)
        /\ Cardinality(Newlines(text, k + 1))
             = Cardinality(Newlines(text, k)) + (IF text[k + 1] = "newline" THEN 1 ELSE 0)
    <2> DEFINE P == {j \in Nat : text[j] = "newline"}
    <2>1. \A m \in Nat : UpTo(P, m) = Newlines(text, m)
      BY DEF Newlines, UpTo
    <2>2. k + 1 \in Nat /\ (k + 1 \in P <=> text[k + 1] = "newline")
      OBVIOUS
    <2>3. P \in SUBSET Nat
      OBVIOUS
    <2> HIDE DEF P
    <2>4. QED
      BY <2>1, <2>2, <2>3, OneMoreCounted
  <1>3. UnitsOf(text, k) = k + Cardinality(Wides(text, k))
        /\ UnitsOf(text, k + 1) = k + 1 + Cardinality(Wides(text, k + 1))
    BY DEF UnitsOf, Wides
  <1>4. QED
    BY <1>1, <1>2, <1>3 DEF Units

\* The count that stops at a character gives the place of the offset.
LEMMA PlaceFound ==
  ASSUME NEW text, Len(text) \in Nat, NEW offset \in Nat, NEW k \in 0 .. Len(text), IsCount(text, k, seen, line, col),
         k = Len(text) \/ seen >= offset,
         \A j \in 0 .. k : j < k => UnitsOf(text, j) < offset
  PROVE  PlaceIn(text, offset) = [line |-> line, col |-> col]
  <1> DEFINE reached == {m \in 0 .. Len(text) : m = Len(text) \/ UnitsOf(text, m) >= offset}
             before == CHOOSE m \in reached : \A j \in reached : m <= j
             newlines == {j \in 1 .. before : text[j] = "newline"}
             begin == CHOOSE m \in newlines \cup {0} : \A j \in newlines : j <= m
  <1>1. before = k
    <2>1. k \in reached
      BY DEF IsCount
    <2>2. ASSUME NEW j \in reached PROVE k <= j
      <3>1. CASE j < k
        <4>1. j \in 0 .. k /\ j \in Nat /\ j # Len(text)
          BY <3>1
        <4>2. UnitsOf(text, j) \in Nat /\ UnitsOf(text, j) < offset
          BY <3>1, <4>1, UnitsAfter
        <4>3. UnitsOf(text, j) >= offset
          BY <4>1
        <4>4. QED
          BY <4>2, <4>3
      <3>2. QED
        BY <3>1
    <2>3. \A m \in reached : (\A j \in reached : m <= j) => m = k
      BY <2>1, <2>2
    <2>4. before \in reached /\ \A j \in reached : before <= j
      BY <2>1, <2>2
    <2>5. QED
      BY <2>3, <2>4
  <1>2. newlines = Newlines(text, k)
    BY <1>1 DEF Newlines
  <1> HIDE DEF before, newlines
  <1>3. PICK b \in newlines \cup {0} :
           (\A j \in newlines : j <= b) /\ col = 1 + UnitsOf(text, k) - UnitsOf(text, b)
    BY <1>2 DEF IsCount
  <1>4. begin = b
    <2>1. newlines \subseteq Nat \ {0}
      BY <1>2 DEF Newlines
    <2>2. \A m \in newlines \cup {0} : (\A j \in newlines : j <= m) => m = b
      BY <1>3, <2>1
    <2>3. begin \in newlines \cup {0} /\ \A j \in newlines : j <= begin
      BY <1>3
    <2>4. QED
      BY <2>2, <2>3
  <1>5. PlaceIn(text, offset) = [line |-> 1 + Cardinality(newlines),
                                 col |-> 1 + UnitsOf(text, before) - UnitsOf(text, begin)]
    BY DEF PlaceIn, before, newlines
  <1>6. QED
    BY <1>1, <1>2, <1>3, <1>4, <1>5 DEF IsCount

-----------------------------------------------------------------------------
(* The steps.                                                              *)

LEMMA DiagInit == Init => DiagInv
  <1> SUFFICES ASSUME Init PROVE DiagInv
    OBVIOUS
  <1>1. TypeOK
    BY FilesAssumption, NumbersAssumption DEF Init, TypeOK
  <1>2. placed \in Seq(Placed) /\ CountIsDue /\ PlacedInKept /\ KeptIsAVersion
    BY DEF Init, CountIsDue, PlacedInKept, KeptIsAVersion
  <1>3. QED
    BY <1>1, <1>2 DEF DiagInv

\* A place is written down: the places before it stay what they were.
LEMMA PlaceWritten ==
  ASSUME DiagInv, NEW path \in Paths, NEW place \in [line : Nat, col : Nat], Place(path, place),
         n <= Len(reply), UNCHANGED <<reply, disk, versions>>,
         DOMAIN cache \subseteq DOMAIN cache', \A u \in DOMAIN cache : cache'[u] = cache[u],
         Current.uri \in Uris =>
            Current.uri \in DOMAIN cache' /\ place = PlaceOf(cache'[Current.uri], Current.offset)
  PROVE  placed' \in Seq(Placed) /\ n' \in 1 .. Len(reply') + 1 /\ Len(placed') = n' - 1 /\ PlacedInKept'
  <1> DEFINE last == [path |-> path, line |-> place.line, col |-> place.col]
  <1>1. /\ placed \in Seq(Placed) /\ Len(placed) \in Nat /\ last \in Placed /\ reply \in Seq(Diagnostic)
        /\ Len(reply) \in Nat /\ Len(placed) = n - 1 /\ n \in 1 .. Len(reply)
    BY DEF DiagInv, TypeOK, Placed
  <1>2. /\ placed' = Append(placed, last) /\ placed' \in Seq(Placed) /\ n' = n + 1
        /\ Len(placed') = n /\ placed'[n] = last
        /\ \A k \in 1 .. n - 1 : placed'[k] = placed[k]
    BY <1>1 DEF Place
  <1>3. ASSUME NEW k \in DOMAIN placed', reply[k].uri \in Uris
        PROVE  /\ reply[k].uri \in DOMAIN cache'
               /\ [line |-> placed'[k].line, col |-> placed'[k].col]
                    = PlaceOf(cache'[reply[k].uri], reply[k].offset)
    <2>1. k \in 1 .. n
      BY <1>1, <1>2
    <2>2. CASE k = n
      <3>1. place = [line |-> placed'[k].line, col |-> placed'[k].col]
        BY <1>2, <2>2
      <3>2. QED
        BY <1>3, <2>2, <3>1 DEF Current
    <2>3. CASE k # n
      <3>1. k \in DOMAIN placed /\ placed'[k] = placed[k]
        BY <1>1, <1>2, <2>1, <2>3
      <3>2. QED
        BY <1>3, <3>1 DEF DiagInv, PlacedInKept
    <2>4. QED
      BY <2>2, <2>3
  <1>4. QED
    BY <1>1, <1>2, <1>3 DEF PlacedInKept

\* No path and no place are a path and a place.
LEMMA SkipStep ==
  ASSUME DiagInv, Skip
  PROVE  DiagInv'
  <1>1. /\ pc = "placing" /\ n <= Len(reply) /\ Current.uri = NoUri /\ Place(<< >>, NoPlace)
        /\ UNCHANGED <<disk, reply, pc, cache, countVars, versions, edits>>
    BY DEF Skip
  <1>2. NoUri \notin Uris
    <2>1. \A f \in Files : Escaped[f].file
      BY DEF Escaped, PathToUri
    <2>2. ~NoUri.file /\ NoUri \notin RawUris
      BY FilesAssumption DEF NoUri
    <2>3. QED
      BY <2>1, <2>2 DEF Uris
  <1>3. NoPlace \in [line : Nat, col : Nat] /\ << >> \in Paths
    BY DEF NoPlace, Paths
  <1>4. placed' \in Seq(Placed) /\ n' \in 1 .. Len(reply') + 1 /\ Len(placed') = n' - 1 /\ PlacedInKept'
    BY <1>1, <1>2, <1>3, PlaceWritten
  <1>5. QED
    BY <1>1, <1>4 DEF DiagInv, TypeOK, CountIsDue, KeptIsAVersion, Said, countVars

\* The text of a file is read when it is looked up first, and kept.
LEMMA LookUpStep ==
  ASSUME DiagInv, LookUp
  PROVE  DiagInv'
  <1> PICK u : u = Current.uri
    OBVIOUS
  <1>1. /\ pc = "placing" /\ n <= Len(reply) /\ u # NoUri
        /\ cache' = LookedUp(u)
        /\ UNCHANGED <<disk, reply, versions, edits>>
    BY DEF LookUp
  <1>2. reply[n] \in Diagnostic /\ u \in Uris /\ Current.offset \in Offsets \cup {NoOffset}
    <2>1. reply[n] \in Diagnostic
      BY <1>1 DEF DiagInv, TypeOK
    <2>2. QED
      BY <1>1, <2>1 DEF Diagnostic, Current
  <1>3. /\ DOMAIN cache' = DOMAIN cache \cup {u} /\ \A v \in DOMAIN cache : cache'[v] = cache[v]
        /\ u \notin DOMAIN cache => cache'[u] = TextAt(UriToPath(u))
    BY <1>1 DEF LookedUp
  <1>4. /\ DOMAIN cache' \subseteq Uris /\ \A v \in DOMAIN cache' : cache'[v] \in Contents
    <2>1. TextAt(UriToPath(u)) \in Contents
      BY DEF TextAt, DiagInv, TypeOK, Contents
    <2>2. QED
      BY <1>2, <1>3, <2>1 DEF DiagInv, TypeOK
  <1>5. KeptIsAVersion'
    <2>1. ASSUME NEW v \in DOMAIN cache'
          PROVE  cache'[v] \in Said(UriToPath(v))
      <3>1. CASE v \in DOMAIN cache
        BY <1>3, <3>1 DEF DiagInv, KeptIsAVersion
      <3>2. CASE v \notin DOMAIN cache
        <4>1. v = u /\ cache'[v] = TextAt(UriToPath(v))
          BY <1>3, <3>2
        <4>2. \A f \in Files : disk[f] \in versions[f]
          BY <1>1 DEF DiagInv, KeptIsAVersion
        <4>3. QED
          BY <4>1, <4>2 DEF TextAt, Said
      <3>3. QED
        BY <3>1, <3>2
    <2>2. pc' # "calling"
      BY <1>1 DEF LookUp
    <2>3. Said(UriToPath(u))' = Said(UriToPath(u))
      BY <1>1 DEF Said
    <2>4. \A f \in Files : disk'[f] \in versions'[f]
      BY <1>1 DEF DiagInv, KeptIsAVersion
    <2>5. \A v \in DOMAIN cache' : cache'[v] \in Said(UriToPath(v))'
      BY <1>1, <2>1 DEF Said
    <2>6. QED
      BY <2>2, <2>4, <2>5 DEF KeptIsAVersion
  <1>6. CASE cache'[u] = NoText \/ Current.offset = NoOffset
    <2>1. Place(UriToPath(u), NoPlace) /\ UNCHANGED <<pc, countVars>>
      BY <1>6 DEF LookUp
    <2>2. NoPlace \in [line : Nat, col : Nat] /\ UriToPath(u) \in Paths
      BY <1>2 DEF NoPlace, Paths
    <2>3. NoPlace = PlaceOf(cache'[u], Current.offset)
      BY <1>6 DEF PlaceOf
    <2>4. placed' \in Seq(Placed) /\ n' \in 1 .. Len(reply') + 1 /\ Len(placed') = n' - 1 /\ PlacedInKept'
      BY <1>1, <1>3, <2>1, <2>2, <2>3, PlaceWritten
    <2>5. QED
      BY <1>1, <1>4, <1>5, <2>1, <2>4 DEF DiagInv, TypeOK, CountIsDue, countVars
  <1>7. CASE ~(cache'[u] = NoText \/ Current.offset = NoOffset)
    <2>1. /\ pc' = "counting" /\ i' = 1 /\ seen' = 0 /\ line' = 1 /\ col' = 1
          /\ UNCHANGED <<placed, n>>
      BY <1>7 DEF LookUp
    <2>2. Current' = Current /\ Counted' = cache'[u]
      BY <1>1, <2>1 DEF Current, Counted
    <2>3. CountIsDue'
      <3>1. IsCount(cache'[u], 0, 0, 1, 1)
        BY CountStarts
      <3>2. \A j \in 0 .. i' - 1 : ~(j < i' - 1)
        BY <2>1
      <3>3. i' - 1 = 0 /\ i' > 0
        BY <2>1
      <3>4. IsCount(Counted', i' - 1, seen', line', col')
        BY <2>1, <2>2, <3>1, <3>3
      <3>5. QED
        BY <1>7, <2>2, <3>2, <3>3, <3>4 DEF CountIsDue
    <2>4. PlacedInKept'
      BY <1>1, <1>3, <2>1 DEF DiagInv, PlacedInKept
    <2>5. TypeOK'
      <3>1. cache'[u] \in Texts
        BY <1>3, <1>4, <1>7 DEF Contents
      <3>2. Len(cache'[u]) \in Nat
        BY <3>1, FilesAssumption
      <3>3. n' <= Len(reply') /\ reply'[n'].uri = u
        BY <1>1, <2>1 DEF Current
      <3>4. i' <= Len(cache'[u]) + 1
        BY <2>1, <3>2
      <3>5. /\ n' <= Len(reply') /\ reply'[n'].uri \in DOMAIN cache' /\ cache'[reply'[n'].uri] # NoText
            /\ i' <= Len(cache'[reply'[n'].uri]) + 1
        BY <1>3, <1>7, <3>3, <3>4
      <3>6. i' \in Nat /\ seen' \in Nat /\ line' \in Nat \ {0} /\ col' \in Nat \ {0}
        BY <2>1
      <3>7. /\ disk' \in [Files -> Contents] /\ reply' \in Seq(Diagnostic) /\ n' \in 1 .. Len(reply') + 1
            /\ Len(placed') = n' - 1 /\ versions' \in [Files -> SUBSET Contents] /\ edits' \in 0 .. MaxEdits
        BY <1>1, <2>1 DEF DiagInv, TypeOK
      <3>8. QED
        BY <1>4, <2>1, <3>5, <3>6, <3>7 DEF TypeOK
    <2>6. QED
      BY <1>1, <1>5, <2>1, <2>3, <2>4, <2>5 DEF DiagInv
  <1>8. QED
    BY <1>6, <1>7

\* One more character is counted.
LEMMA CountStep ==
  ASSUME DiagInv, Count
  PROVE  DiagInv'
  <1> PICK text : text = Counted
    OBVIOUS
  <1>1. /\ pc = "counting" /\ i <= Len(text) /\ seen < Current.offset
        /\ i' = i + 1 /\ seen' = seen + Units(text[i])
        /\ line' = IF text[i] = "newline" THEN line + 1 ELSE line
        /\ col' = IF text[i] = "newline" THEN 1 ELSE col + Units(text[i])
        /\ UNCHANGED <<disk, reply, pc, n, cache, placed, versions, edits>>
    BY DEF Count, Counting
  <1>2. /\ i \in Nat /\ i > 0 /\ IsCount(text, i - 1, seen, line, col) /\ Current.offset # NoOffset
        /\ \A j \in 0 .. i - 1 : j < i - 1 => UnitsOf(text, j) < Current.offset
        /\ seen \in Nat /\ line \in Nat \ {0} /\ col \in Nat \ {0}
    BY <1>1 DEF DiagInv, TypeOK, CountIsDue
  <1>3. Len(text) \in Nat
    <2>1. text \in Texts
      BY <1>1 DEF DiagInv, TypeOK, Counted, Current, Contents
    <2>2. QED
      BY <2>1, FilesAssumption
  <1>4. /\ UnitsOf(text, i) = UnitsOf(text, i - 1) + Units(text[i])
        /\ UnitsOf(text, i - 1) \in Nat /\ UnitsOf(text, i) \in Nat
        /\ Cardinality(Newlines(text, i - 1)) \in Nat
        /\ Newlines(text, i)
             = IF text[i] = "newline" THEN Newlines(text, i - 1) \cup {i} ELSE Newlines(text, i - 1)
        /\ Cardinality(Newlines(text, i))
             = Cardinality(Newlines(text, i - 1)) + (IF text[i] = "newline" THEN 1 ELSE 0)
    <2>1. i - 1 \in Nat /\ i - 1 + 1 = i
      BY <1>2
    <2> PICK m \in Nat : m = i - 1 /\ m + 1 = i
      BY <2>1
    <2>2. UnitsOf(text, i) \in Nat
      BY <1>2, UnitsAfter
    <2>3. /\ UnitsOf(text, m + 1) = UnitsOf(text, m) + Units(text[m + 1]) /\ UnitsOf(text, m) \in Nat
          /\ Cardinality(Newlines(text, m)) \in Nat
          /\ Newlines(text, m + 1)
               = IF text[m + 1] = "newline" THEN Newlines(text, m) \cup {m + 1} ELSE Newlines(text, m)
          /\ Cardinality(Newlines(text, m + 1))
               = Cardinality(Newlines(text, m)) + (IF text[m + 1] = "newline" THEN 1 ELSE 0)
      BY UnitsAfter
    <2>4. QED
      BY <2>2, <2>3
  <1>5. IsCount(text, i, seen', line', col')
    <2>1. seen' = UnitsOf(text, i) /\ line' = 1 + Cardinality(Newlines(text, i))
      BY <1>1, <1>2, <1>4 DEF IsCount
    <2>2. \E b \in Newlines(text, i) \cup {0} :
             /\ \A j \in Newlines(text, i) : j <= b
             /\ col' = 1 + UnitsOf(text, i) - UnitsOf(text, b)
      <3>1. CASE text[i] = "newline"
        <4>1. \A j \in Newlines(text, i) : j <= i
          BY <1>2 DEF Newlines
        <4>2. i \in Newlines(text, i) /\ col' = 1 + UnitsOf(text, i) - UnitsOf(text, i)
          BY <1>1, <1>4, <3>1
        <4>3. QED
          BY <4>1, <4>2
      <3>2. CASE text[i] # "newline"
        <4>1. PICK b \in Newlines(text, i - 1) \cup {0} :
                 /\ \A j \in Newlines(text, i - 1) : j <= b
                 /\ col = 1 + UnitsOf(text, i - 1) - UnitsOf(text, b)
          BY <1>2 DEF IsCount
        <4>2. b \in Nat /\ Units(text[i]) \in Nat
          BY <4>1 DEF Newlines, Units
        <4>3. UnitsOf(text, b) \in Nat
          BY <4>2, UnitsAfter
        <4>4. col' = 1 + UnitsOf(text, i) - UnitsOf(text, b)
          <5>1. col' = col + Units(text[i]) /\ UnitsOf(text, i) = UnitsOf(text, i - 1) + Units(text[i])
            BY <1>1, <1>4, <3>2
          <5>2. UnitsOf(text, i - 1) \in Nat
            BY <1>4
          <5>3. QED
            BY <4>1, <4>2, <4>3, <5>1, <5>2
        <4>5. QED
          BY <1>4, <3>2, <4>1, <4>4
      <3>3. QED
        BY <3>1, <3>2
    <2>3. QED
      BY <2>1, <2>2 DEF IsCount
  <1>6. \A j \in 0 .. i : j < i => UnitsOf(text, j) < Current.offset
    <2> SUFFICES ASSUME NEW j \in 0 .. i, j < i PROVE UnitsOf(text, j) < Current.offset
      OBVIOUS
    <2>1. CASE j < i - 1
      BY <1>2, <2>1
    <2>2. CASE j = i - 1
      BY <1>1, <1>2, <2>2 DEF IsCount
    <2>3. QED
      BY <1>2, <2>1, <2>2
  <1>7. Current' = Current /\ Counted' = text /\ i' - 1 = i
    BY <1>1, <1>2 DEF Current, Counted
  <1>8. CountIsDue'
    <2>1. IsCount(Counted', i' - 1, seen', line', col')
      BY <1>5, <1>7
    <2>2. QED
      BY <1>1, <1>2, <1>6, <1>7, <2>1 DEF CountIsDue
  <1>9. TypeOK'
    <2>1. i' \in Nat /\ seen' \in Nat /\ line' \in Nat \ {0} /\ col' \in Nat \ {0}
      BY <1>1, <1>2 DEF Units
    <2>2. i' <= Len(cache[reply[n].uri]) + 1
      BY <1>1, <1>2, <1>3 DEF Counted, Current
    <2>3. QED
      BY <1>1, <2>1, <2>2 DEF DiagInv, TypeOK
  <1>10. QED
    BY <1>1, <1>8, <1>9 DEF DiagInv, PlacedInKept, KeptIsAVersion, Said

\* The count stops, and its line and column are those of the offset.
LEMMA PlaceCountedStep ==
  ASSUME DiagInv, PlaceCounted
  PROVE  DiagInv'
  <1> PICK text : text = Counted
    OBVIOUS
  <1>1. /\ pc = "counting" /\ pc' = "placing" /\ (i > Len(text) \/ ~(seen < Current.offset) \/ ~(i <= Len(text)))
        /\ Place(UriToPath(Current.uri), [line |-> line, col |-> col])
        /\ UNCHANGED <<disk, reply, cache, countVars, versions, edits>>
    BY DEF PlaceCounted, Counting
  <1>0. n <= Len(reply) /\ n \in 1 .. Len(reply) + 1 /\ reply \in Seq(Diagnostic)
    BY <1>1 DEF DiagInv, TypeOK
  <1>2. /\ n \in 1 .. Len(reply) /\ Current \in Diagnostic /\ Current.uri \in DOMAIN cache
        /\ DOMAIN cache \subseteq Uris
        /\ text \in Texts /\ text # NoText /\ i <= Len(text) + 1
        /\ i \in Nat /\ seen \in Nat /\ line \in Nat /\ col \in Nat
        /\ i > 0 /\ IsCount(text, i - 1, seen, line, col) /\ Current.offset # NoOffset
        /\ \A j \in 0 .. i - 1 : j < i - 1 => UnitsOf(text, j) < Current.offset
    <2>1. n \in 1 .. Len(reply) /\ Current \in Diagnostic
      BY <1>0 DEF Current
    <2>2. /\ Current.uri \in DOMAIN cache /\ DOMAIN cache \subseteq Uris
          /\ text \in Contents /\ text # NoText /\ i <= Len(text) + 1
          /\ i \in Nat /\ seen \in Nat /\ line \in Nat /\ col \in Nat
      BY <1>1 DEF DiagInv, TypeOK, Current, Counted
    <2>3. /\ i > 0 /\ IsCount(text, i - 1, seen, line, col) /\ Current.offset # NoOffset
          /\ \A j \in 0 .. i - 1 : j < i - 1 => UnitsOf(text, j) < Current.offset
      BY <1>1 DEF DiagInv, CountIsDue
    <2>4. QED
      BY <2>1, <2>2, <2>3 DEF Contents
  <1>3. Len(text) \in Nat /\ Current.offset \in Nat
    <2>1. text \in Seq(Chars)
      BY <1>2, FilesAssumption
    <2>2. Current.offset \in Offsets \cup {NoOffset}
      BY <1>2 DEF Diagnostic
    <2>3. Current.offset \in Nat
      BY <1>2, <2>2, NumbersAssumption
    <2>4. QED
      BY <2>1, <2>3
  <1>4. /\ i - 1 \in 0 .. Len(text) /\ (i - 1 = Len(text) \/ seen >= Current.offset)
    BY <1>1, <1>2, <1>3
  <1>5. PlaceIn(text, Current.offset) = [line |-> line, col |-> col]
    BY <1>2, <1>3, <1>4, PlaceFound
  <1>6. [line |-> line, col |-> col] = PlaceOf(cache[Current.uri], Current.offset)
    BY <1>2, <1>5 DEF PlaceOf, Counted
  <1>7. placed' \in Seq(Placed) /\ n' \in 1 .. Len(reply') + 1 /\ Len(placed') = n' - 1 /\ PlacedInKept'
    <2>1. UriToPath(Current.uri) \in Paths /\ [line |-> line, col |-> col] \in [line : Nat, col : Nat]
          /\ n <= Len(reply)
      BY <1>2 DEF Paths
    <2>2. QED
      BY <1>1, <1>2, <1>6, <2>1, PlaceWritten
  <1>8. QED
    BY <1>1, <1>7 DEF DiagInv, TypeOK, CountIsDue, KeptIsAVersion, Said, countVars

\* The server has read every file when it answers.
LEMMA AnswerStep ==
  ASSUME DiagInv, Answer
  PROVE  DiagInv'
  <1>1. /\ pc = "calling" /\ pc' = "placing" /\ versions' = [f \in Files |-> {disk[f]}]
        /\ UNCHANGED <<disk, n, cache, countVars, placed, edits>>
        /\ n = 1 /\ DOMAIN cache = {} /\ Len(placed) = 0 /\ placed \in Seq(Placed)
    BY DEF Answer, DiagInv, KeptIsAVersion, TypeOK
  <1>2. reply' \in Seq(Diagnostic) /\ n' \in 1 .. Len(reply') + 1
    BY <1>1 DEF Answer
  <1>3. TypeOK'
    BY <1>1, <1>2 DEF DiagInv, TypeOK, countVars
  <1>4. KeptIsAVersion' /\ PlacedInKept'
    BY <1>1 DEF KeptIsAVersion, PlacedInKept
  <1>5. QED
    BY <1>1, <1>3, <1>4 DEF DiagInv, CountIsDue

\* An edit adds a version, and the kept text stays one.
LEMMA EditStep ==
  ASSUME DiagInv, NEW f \in Files, NEW text \in Texts, Edit(f, text)
  PROVE  DiagInv'
  <1>1. /\ disk' = [disk EXCEPT ![f] = text] /\ edits' = edits + 1 /\ edits < MaxEdits
        /\ versions' = [versions EXCEPT ![f] = IF pc = "calling" THEN {} ELSE @ \cup {text}]
        /\ UNCHANGED <<reply, pc, n, cache, i, seen, line, col, placed>>
    BY DEF Edit, countVars
  <1>2. TypeOK'
    <2>1. text \in Contents /\ disk' \in [Files -> Contents] /\ versions' \in [Files -> SUBSET Contents]
      BY <1>1 DEF DiagInv, TypeOK, Contents
    <2>2. edits' \in 0 .. MaxEdits
      BY <1>1, NumbersAssumption DEF DiagInv, TypeOK
    <2>3. QED
      BY <1>1, <2>1, <2>2 DEF DiagInv, TypeOK
  <1>3. KeptIsAVersion'
    <2>1. CASE pc = "calling"
      BY <1>1, <2>1 DEF DiagInv, KeptIsAVersion
    <2>2. CASE pc # "calling"
      <3>1. \A g \in Files : versions[g] \subseteq versions'[g] /\ disk'[g] \in versions'[g]
        BY <1>1, <2>2 DEF DiagInv, TypeOK, KeptIsAVersion
      <3>2. \A path : Said(path) \subseteq Said(path)'
        BY <3>1 DEF Said
      <3>3. \A u \in DOMAIN cache : cache[u] \in Said(UriToPath(u))
        BY DEF DiagInv, KeptIsAVersion
      <3>4. \A u \in DOMAIN cache' : cache'[u] \in Said(UriToPath(u))'
        BY <1>1, <3>2, <3>3
      <3>5. QED
        BY <1>1, <2>2, <3>1, <3>4 DEF KeptIsAVersion
    <2>3. QED
      BY <2>1, <2>2
  <1>4. Current' = Current /\ Counted' = Counted
    BY <1>1 DEF Current, Counted
  <1>5. CountIsDue'
    <2>1. IsCount(Counted, i - 1, seen, line, col)' <=> IsCount(Counted, i - 1, seen, line, col)
      BY <1>1, <1>4 DEF IsCount
    <2>2. QED
      BY <1>1, <1>4, <2>1 DEF DiagInv, CountIsDue
  <1>6. PlacedInKept'
    BY <1>1 DEF DiagInv, PlacedInKept
  <1>7. QED
    BY <1>1, <1>2, <1>3, <1>5, <1>6 DEF DiagInv

LEMMA DiagNext ==
  ASSUME DiagInv, [Next]_vars
  PROVE  DiagInv'
  <1>1. CASE Die \/ Finish
    BY <1>1 DEF Die, Finish, DiagInv, TypeOK, CountIsDue, PlacedInKept, KeptIsAVersion, Said, countVars
  <1>2. CASE UNCHANGED vars
    <2>1. UNCHANGED <<disk, reply, pc, n, cache, i, seen, line, col, placed, versions, edits>>
      BY <1>2 DEF vars, countVars
    <2>2. Current' = Current /\ Counted' = Counted
      BY <2>1 DEF Current, Counted
    <2>3. IsCount(Counted, i - 1, seen, line, col)' <=> IsCount(Counted, i - 1, seen, line, col)
      BY <2>1, <2>2 DEF IsCount
    <2>4. QED
      BY <2>1, <2>2, <2>3 DEF DiagInv, TypeOK, CountIsDue, PlacedInKept, KeptIsAVersion, Said
  <1>3. QED
    BY <1>1, <1>2, SkipStep, LookUpStep, CountStep, PlaceCountedStep, AnswerStep, EditStep DEF Next

\* The inductive invariant of Diagnostics.
LEMMA DiagInvariance == Spec => []DiagInv
  BY DiagInit, DiagNext, PTL DEF Spec

\* Every variable of Diagnostics keeps its type, and the count stays within the
\* text.
THEOREM DiagnosticsTypeCorrect == Spec => []TypeOK
  <1>1. DiagInv => TypeOK
    BY DEF DiagInv
  <1>2. QED
    BY <1>1, DiagInvariance, PTL

\* All places of one URI are those of one text of its file, whatever URIs the
\* server sends, whatever the texts are and whenever they are edited.
THEOREM PlacesAreOfOneText == Spec => []PlacedInOneText
  <1>1. DiagInv => PlacedInOneText
    <2> SUFFICES ASSUME DiagInv, NEW u \in Uris, placed # << >>
                 PROVE  \E content \in Said(UriToPath(u)) : \A k \in DOMAIN placed :
                          reply[k].uri = u
                            => [line |-> placed[k].line, col |-> placed[k].col]
                                 = PlaceOf(content, reply[k].offset)
      BY DEF PlacedInOneText
    <2>1. CASE u \in DOMAIN cache
      BY <2>1 DEF DiagInv, PlacedInKept, KeptIsAVersion
    <2>2. CASE u \notin DOMAIN cache
      <3>1. pc # "calling"
        BY DEF DiagInv, TypeOK, KeptIsAVersion
      <3>2. PICK content \in Said(UriToPath(u)) : TRUE
        BY <3>1 DEF DiagInv, KeptIsAVersion, Said
      <3>3. \A k \in DOMAIN placed : reply[k].uri # u
        BY <2>2 DEF DiagInv, PlacedInKept
      <3>4. QED
        BY <3>2, <3>3
    <2>3. QED
      BY <2>1, <2>2
  <1>2. QED
    BY <1>1, DiagInvariance, PTL

-----------------------------------------------------------------------------
\* Each place has the path of its URI, and only a URI that panics kills.
PathsFollow ==
    /\ \A k \in DOMAIN placed : reply[k].uri # NoUri => placed[k].path = UriToPath(reply[k].uri)
    /\ pc = "panicked" => n <= Len(reply) /\ Panics(reply[n].uri)

\* A place that is written down with the path of its URI.
LEMMA PathWritten ==
  ASSUME DiagInv, PathsFollow, NEW path, NEW place, Place(path, place),
         Current.uri # NoUri => path = UriToPath(Current.uri),
         reply' = reply, pc' # "panicked"
  PROVE  PathsFollow'
  <1> DEFINE last == [path |-> path, line |-> place.line, col |-> place.col]
  <1>1. placed \in Seq(Placed) /\ Len(placed) = n - 1 /\ n \in Nat /\ last.path = path
    BY DEF DiagInv, TypeOK
  <1>2. placed' = Append(placed, last)
    BY DEF Place
  <1> HIDE DEF last
  <1>3. /\ Len(placed') = n /\ DOMAIN placed' = 1 .. n /\ placed'[n] = last
        /\ \A k \in 1 .. n - 1 : placed'[k] = placed[k]
    BY <1>1, <1>2
  <1>4. ASSUME NEW k \in 1 .. n, reply[k].uri # NoUri PROVE placed'[k].path = UriToPath(reply[k].uri)
    <2>1. CASE k = n
      BY <1>1, <1>3, <1>4, <2>1 DEF Current
    <2>2. CASE k # n
      <3>1. k \in 1 .. n - 1 /\ k \in DOMAIN placed
        BY <1>1, <2>2
      <3>2. QED
        BY <1>3, <1>4, <3>1 DEF PathsFollow
    <2>3. QED
      BY <2>1, <2>2
  <1>5. QED
    BY <1>3, <1>4 DEF PathsFollow

LEMMA PathsNext ==
  ASSUME DiagInv, PathsFollow, [Next]_vars
  PROVE  PathsFollow'
  <1>1. CASE Skip
    BY <1>1, PathWritten DEF Skip
  <1>2. CASE LookUp
    <2>1. CASE Place(UriToPath(Current.uri), NoPlace)
      BY <1>2, <2>1, PathWritten DEF LookUp
    <2>2. CASE ~Place(UriToPath(Current.uri), NoPlace)
      BY <1>2, <2>2 DEF LookUp, PathsFollow
    <2>3. QED
      BY <2>1, <2>2
  <1>3. CASE PlaceCounted
    BY <1>3, PathWritten DEF PlaceCounted
  <1>4. CASE Answer
    <2>1. DOMAIN placed = {}
      BY <1>4 DEF Answer, DiagInv, TypeOK, KeptIsAVersion
    <2>2. QED
      BY <1>4, <2>1 DEF Answer, PathsFollow
  <1>5. CASE Die
    BY <1>5 DEF Die, PathsFollow, Current
  <1>6. CASE Count \/ Finish \/ (\E f \in Files, text \in Texts : Edit(f, text)) \/ UNCHANGED vars
    BY <1>6 DEF Count, Finish, Edit, vars, PathsFollow
  <1>7. QED
    BY <1>1, <1>2, <1>3, <1>4, <1>5, <1>6 DEF Next

\* A URI that was escaped leads back to its file, whatever bytes the name of
\* the file has, and never to a panic.
THEOREM EscapesAreFollowed == Spec => []EscapedUrisAreFollowed
  <1>1. Init => PathsFollow
    BY DEF Init, PathsFollow
  <1>2. DiagInv /\ PathsFollow => EscapedUrisAreFollowed
    <2> SUFFICES ASSUME DiagInv, PathsFollow, NEW f \in Files, NEW k \in DOMAIN reply, reply[k].uri = Escaped[f]
                 PROVE  (k < n => placed[k].path = f) /\ ~(k = n /\ pc = "panicked")
      BY DEF EscapedUrisAreFollowed
    <2>1. Escaped[f] # NoUri /\ UriToPath(Escaped[f]) = f /\ ~Panics(Escaped[f])
      BY EscapesDoLeadBack DEF EscapesLeadBack, Escaped, PathToUri, NoUri
    <2>2. k < n => k \in DOMAIN placed
      BY DEF DiagInv, TypeOK
    <2>3. QED
      BY <2>1, <2>2 DEF PathsFollow
  <1>3. QED
    BY <1>1, <1>2, DiagInvariance, PathsNext, PTL DEF Spec
=============================================================================
