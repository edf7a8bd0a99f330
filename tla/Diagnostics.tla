---------------------------- MODULE Diagnostics ----------------------------
(***************************************************************************)
(* From the diagnostics of a build to places in files (src/src/tools.rs):  *)
(* the server names a file by a URI and a place in it by an offset, counted*)
(* in UTF-16 units, in the text that it read; the client turns the URI into*)
(* a path, reads the file itself, later, and counts lines and columns.     *)
(* Meanwhile the owner of the files may edit them.                         *)
(*                                                                         *)
(* Names are sequences of bytes.  A text is a sequence of characters, of   *)
(* which matter "newline", "wide" (outside the basic plane: two units) and *)
(* others.                                                                 *)
(***************************************************************************)
EXTENDS Naturals, Sequences, FiniteSets

CONSTANTS
    Files,                  \* absolute paths of the files in a build
    Texts,                  \* what a file may say
    InitialDisks,
    RawUris,                \* URIs of other makes than path_to_uri
    Offsets,                \* offsets the server may report
    NoOffset,               \* a diagnostic without one
    NoText,                 \* a file that is absent or not UTF-8
    MaxDiagnostics,         \* length of a reply
    MaxEdits

Chars == {"newline", "wide", "other"}
Byte == 0 .. 255
Contents == Texts \cup {NoText}

\* A URI: is it a file URI, does "localhost" follow, and what remains.
Uri == [file : BOOLEAN, localhost : BOOLEAN, rest : Seq(Byte)]
NoUri == [file |-> FALSE, localhost |-> FALSE, rest |-> << >>]

-----------------------------------------------------------------------------
(* Bytes.                                                                  *)

Percent == 37
Plus == 43
Slash == 47
Colon == 58
Backslash == 92
Panic == 256                \* in place of the byte at which the program dies

Letter == (65 .. 90) \cup (97 .. 122)
Digit == 48 .. 57
Hex == Digit \cup (65 .. 70) \cup (97 .. 102)
Continuation == 128 .. 191
LeadOfTwo == 194 .. 223

HexValue(b) == IF b \in Digit THEN b - 48 ELSE IF b \in 65 .. 70 THEN b - 55 ELSE b - 87

\* u8::from_str_radix takes two digits, or a plus sign and one.
IsHexPair(a, b) == b \in Hex /\ a \in Hex \cup {Plus}
PairValue(a, b) == (IF a = Plus THEN 0 ELSE 16 * HexValue(a)) + HexValue(b)

\* Mutant: an escape at the very end is not seen.
HasPairEarly(s, i) == s[i] = Percent /\ i + 2 < Len(s)

\* Two bytes follow this percent sign.
HasPair(s, i) == s[i] = Percent /\ i + 2 <= Len(s)

\* The two bytes are cut out of a text: a cut inside a character is a panic.
CutsCharacter(s, i) == i + 3 <= Len(s) /\ s[i + 3] \in Continuation

\* percent_decode, up to its last line.
DecodedBytes(s) ==
    LET from[i \in 1 .. Len(s) + 1] ==
          IF i > Len(s) THEN << >>
          ELSE IF HasPair(s, i) /\ CutsCharacter(s, i) THEN <<Panic>>
          ELSE IF HasPair(s, i) /\ IsHexPair(s[i + 1], s[i + 2])
          THEN <<PairValue(s[i + 1], s[i + 2])>> \o from[i + 3]
          ELSE <<s[i]>> \o from[i + 1]
    IN  from[1]

\* String::from_utf8_lossy: what is no character becomes U+FFFD.  Of longer
\* characters there are none here (TwoByteAssumption).
Lossy(s) ==
    LET from[i \in 1 .. Len(s) + 1] ==
          IF i > Len(s) THEN << >>
          ELSE IF s[i] < 128 THEN <<s[i]>> \o from[i + 1]
          ELSE IF s[i] \in LeadOfTwo /\ i < Len(s) /\ s[i + 1] \in Continuation
          THEN <<s[i], s[i + 1]>> \o from[i + 2]
          ELSE <<239, 191, 189>> \o from[i + 1]
    IN  from[1]

Panics(uri) == uri.file /\ Panic \in {DecodedBytes(uri.rest)[i] : i \in DOMAIN DecodedBytes(uri.rest)}

IsDrive(s) == Len(s) >= 3 /\ s[1] = Slash /\ s[2] \in Letter /\ s[3] = Colon

UriToPath(uri) ==
    LET decoded == Lossy(DecodedBytes(uri.rest))
    IN  IF ~uri.file THEN uri.rest
        ELSE IF IsDrive(decoded)
        THEN [i \in 1 .. Len(decoded) - 1 |->
                IF decoded[i + 1] = Slash THEN Backslash ELSE decoded[i + 1]]
        ELSE decoded

HexByte(v) == IF v < 10 THEN v + 48 ELSE v + 55

Unreserved == Letter \cup Digit \cup {45, 46, 95, 126, Slash, Colon}

PercentEncode(s) ==
    LET from[i \in 1 .. Len(s) + 1] ==
          IF i > Len(s) THEN << >>
          ELSE (IF s[i] \in Unreserved THEN <<s[i]>>
                ELSE <<Percent, HexByte(s[i] \div 16), HexByte(s[i] % 16)>>) \o from[i + 1]
    IN  from[1]

\* Of absolute paths of Unix, which is what Files are.
PathToUri(path) == [file |-> TRUE, localhost |-> FALSE, rest |-> PercentEncode(path)]

Escaped == [f \in Files |-> PathToUri(f)]
Uris == {Escaped[f] : f \in Files} \cup RawUris

ASSUME FilesAssumption ==
    /\ Files \subseteq Seq(Byte)
    /\ \A f \in Files : Len(f) > 0 /\ f[1] = Slash /\ ~IsDrive(f) /\ Lossy(f) = f
    /\ Texts \subseteq Seq(Chars)
    /\ InitialDisks \subseteq [Files -> Contents]
    /\ RawUris \subseteq Uri /\ NoUri \notin RawUris

ASSUME TwoByteAssumption ==
    \A u \in Uris : \A i \in DOMAIN u.rest :
        /\ u.rest[i] < 224
        /\ HasPair(u.rest, i) /\ IsHexPair(u.rest[i + 1], u.rest[i + 2])
             => PairValue(u.rest[i + 1], u.rest[i + 2]) < 224

ASSUME NumbersAssumption ==
    /\ Offsets \subseteq Nat /\ NoOffset \notin Nat /\ NoText \notin Texts
    /\ MaxDiagnostics \in Nat /\ MaxEdits \in Nat

-----------------------------------------------------------------------------
VARIABLES
    disk,                   \* the content of each file
    reply,                  \* the diagnostics, once the server has answered
    pc,                     \* "calling", "placing", "counting", "printed", "panicked"
    n,                      \* the diagnostic it is at
    cache,                  \* per URI, what was read
    i, seen, line, col,     \* the count: characters, units, line and column
    placed,                 \* path, line and column of the ones it has passed
    versions,               \* history: contents of each file since the server read it
    edits

countVars == <<i, seen, line, col>>
vars == <<disk, reply, pc, n, cache, countVars, placed, versions, edits>>

Diagnostic == [uri : Uris \cup {NoUri}, offset : Offsets \cup {NoOffset}]

NoPlace == [line |-> 0, col |-> 0]

TypeOK ==
    /\ disk \in [Files -> Contents]
    /\ reply \in Seq(Diagnostic)
    /\ pc \in {"calling", "placing", "counting", "printed", "panicked"}
    /\ n \in 1 .. Len(reply) + 1
    /\ DOMAIN cache \subseteq Uris /\ \A u \in DOMAIN cache : cache[u] \in Contents
    /\ i \in Nat /\ seen \in Nat /\ line \in Nat \ {0} /\ col \in Nat \ {0}
    /\ Len(placed) = n - 1
    /\ versions \in [Files -> SUBSET Contents]
    /\ edits \in 0 .. MaxEdits
    /\ pc = "counting" => /\ n <= Len(reply) /\ reply[n].uri \in DOMAIN cache
                          /\ cache[reply[n].uri] # NoText /\ i <= Len(cache[reply[n].uri]) + 1

Init ==
    /\ disk \in InitialDisks
    /\ reply = << >>
    /\ pc = "calling"
    /\ n = 1
    /\ cache = [u \in {} |-> NoText]
    /\ i = 1 /\ seen = 0 /\ line = 1 /\ col = 1
    /\ placed = << >>
    /\ versions = [f \in Files |-> {}]
    /\ edits = 0

\* The server reads the files and answers.
Answer ==
    /\ pc = "calling"
    /\ \E length \in 0 .. MaxDiagnostics : reply' \in [1 .. length -> Diagnostic]
    /\ versions' = [f \in Files |-> {disk[f]}]
    /\ pc' = "placing"
    /\ UNCHANGED <<disk, n, cache, countVars, placed, edits>>

Edit(f, text) ==
    /\ edits < MaxEdits
    /\ pc # "printed"
    /\ disk' = [disk EXCEPT ![f] = text]
    /\ versions' = [versions EXCEPT ![f] = IF pc = "calling" THEN {} ELSE @ \cup {text}]
    /\ edits' = edits + 1
    /\ UNCHANGED <<reply, pc, n, cache, countVars, placed>>

-----------------------------------------------------------------------------
(* augment_diagnostics, one diagnostic after the other.                    *)

Current == reply[n]

Place(path, place) ==
    /\ placed' = Append(placed, [path |-> path, line |-> place.line, col |-> place.col])
    /\ n' = n + 1

\* A diagnostic without a URI is left as it is.
Skip ==
    /\ pc = "placing" /\ n <= Len(reply)
    /\ Current.uri = NoUri
    /\ Place(<< >>, NoPlace)
    /\ UNCHANGED <<disk, reply, pc, cache, countVars, versions, edits>>

Die ==
    /\ pc = "placing" /\ n <= Len(reply)
    /\ Panics(Current.uri)
    /\ pc' = "panicked"
    /\ UNCHANGED <<disk, reply, n, cache, countVars, placed, versions, edits>>

\* read_to_string: an unreadable file is no text.
TextAt(path) == IF path \in Files THEN disk[path] ELSE NoText

\* Mutant: every diagnostic reads its file again.
LookedUpAgain(uri) == [u \in DOMAIN cache \cup {uri} |->
    IF u = uri THEN TextAt(UriToPath(uri)) ELSE cache[u]]

\* The cache after this URI was looked up in it.
LookedUp(uri) == [u \in DOMAIN cache \cup {uri} |->
    IF u \in DOMAIN cache THEN cache[u] ELSE TextAt(UriToPath(uri))]

\* The text is looked up; without one, or without an offset, there is only a
\* path.
LookUp ==
    /\ pc = "placing" /\ n <= Len(reply)
    /\ Current.uri # NoUri /\ ~Panics(Current.uri)
    /\ cache' = LookedUp(Current.uri)
    /\ IF cache'[Current.uri] = NoText \/ Current.offset = NoOffset
       THEN /\ Place(UriToPath(Current.uri), NoPlace)
            /\ UNCHANGED <<pc, countVars>>
       ELSE /\ pc' = "counting"
            /\ i' = 1 /\ seen' = 0 /\ line' = 1 /\ col' = 1
            /\ UNCHANGED <<placed, n>>
    /\ UNCHANGED <<disk, reply, versions, edits>>

Units(ch) == IF ch = "wide" THEN 2 ELSE 1

Counted == cache[Current.uri]
Counting == i <= Len(Counted) /\ seen < Current.offset

\* Mutant: the column is not reset at a newline.
CountUnits ==
    /\ pc = "counting" /\ Counting
    /\ i' = i + 1
    /\ seen' = seen + Units(Counted[i])
    /\ line' = IF Counted[i] = "newline" THEN line + 1 ELSE line
    /\ col' = col + Units(Counted[i])
    /\ UNCHANGED <<disk, reply, pc, n, cache, placed, versions, edits>>

\* line_col, one character of the text.
Count ==
    /\ pc = "counting" /\ Counting
    /\ i' = i + 1
    /\ seen' = seen + Units(Counted[i])
    /\ IF Counted[i] = "newline" THEN line' = line + 1 /\ col' = 1
       ELSE line' = line /\ col' = col + Units(Counted[i])
    /\ UNCHANGED <<disk, reply, pc, n, cache, placed, versions, edits>>

\* Mutant: the offset of the diagnostic stays in the way of the next.
StayCounting ==
    /\ pc = "counting" /\ ~Counting
    /\ Place(UriToPath(Current.uri), [line |-> line, col |-> col])
    /\ UNCHANGED <<disk, reply, pc, cache, countVars, versions, edits>>

PlaceCounted ==
    /\ pc = "counting" /\ ~Counting
    /\ Place(UriToPath(Current.uri), [line |-> line, col |-> col])
    /\ pc' = "placing"
    /\ UNCHANGED <<disk, reply, cache, countVars, versions, edits>>

Finish ==
    /\ pc = "placing" /\ n > Len(reply)
    /\ pc' = "printed"
    /\ UNCHANGED <<disk, reply, n, cache, countVars, placed, versions, edits>>

Next ==
    \/ Answer \/ Skip \/ Die \/ LookUp \/ Count \/ PlaceCounted \/ Finish
    \/ \E f \in Files, text \in Texts : Edit(f, text)

Spec == Init /\ [][Next]_vars

-----------------------------------------------------------------------------
\* The units of the first k characters.
UnitsOf(text, k) == k + Cardinality({j \in 1 .. k : text[j] = "wide"})

\* The place of an offset: behind the characters it has reached or passed, on
\* the line the last newline before it began.
PlaceIn(text, offset) ==
    LET reached == {k \in 0 .. Len(text) : k = Len(text) \/ UnitsOf(text, k) >= offset}
        before == CHOOSE k \in reached : \A j \in reached : k <= j
        newlines == {j \in 1 .. before : text[j] = "newline"}
        begin == CHOOSE k \in newlines \cup {0} : \A j \in newlines : j <= k
    IN  [line |-> 1 + Cardinality(newlines),
         col |-> 1 + UnitsOf(text, before) - UnitsOf(text, begin)]

PlaceOf(content, offset) ==
    IF content # NoText /\ offset # NoOffset THEN PlaceIn(content, offset) ELSE NoPlace

\* What a path has said since the server read it.
Said(path) == IF path \in Files THEN versions[path] ELSE {NoText}

(* All diagnostics of one URI are placed in one and the same text, one that*)
(* its file had when the server read it or since: line and column never mix*)
(* two texts, and without an edit they are the server's.  The cache has the*)
(* URI for its key (augment_diagnostics, tools.rs:181-184): a file named by*)
(* two URIs is read twice, and may be placed in two texts.                 *)
PlacedInOneText ==
    \A u \in Uris : placed # << >> =>
        \E content \in Said(UriToPath(u)) : \A k \in DOMAIN placed :
            reply[k].uri = u
                => [line |-> placed[k].line, col |-> placed[k].col] = PlaceOf(content, reply[k].offset)

\* What the code promises of its two conversions, for the files at hand.
EscapesLeadBack == \A f \in Files : UriToPath(Escaped[f]) = f

(* A URI that was escaped as path_to_uri does leads back to its file,      *)
(* whatever percent and plus signs or characters of two bytes its name has,*)
(* and never to a panic (uri_to_path, percent_decode).                     *)
EscapedUrisAreFollowed ==
    \A f \in Files, k \in DOMAIN reply :
        reply[k].uri = Escaped[f] =>
            /\ k < n => placed[k].path = f
            /\ ~(k = n /\ pc = "panicked")
=============================================================================
