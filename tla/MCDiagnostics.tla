--------------------------- MODULE MCDiagnostics ---------------------------
(* Diagnostics over files with awkward names and texts of up to four       *)
(* characters.                                                             *)
EXTENDS Diagnostics, TLC

Odd == <<47, 37, 50, 53, 43>>            \* "/%25+"
Accent == <<47, 97, 195, 169, 32>>       \* "/a", e with an acute accent, " "
MCFiles == {Odd, Accent}

MCTexts == {<<"other", "newline", "wide", "other">>,
            <<"wide", "newline", "newline">>,
            << >>}

MCInitialDisks ==
    [MCFiles -> {<<"other", "newline", "wide", "other">>}]
        \cup {[f \in MCFiles |-> IF f = Odd THEN NoText ELSE <<"wide", "newline", "newline">>]}

\* The file with the accent, its name not escaped; a percent sign before an
\* accent; a drive; "%+2"; a host; a module in a registry; half a character.
FileUri(rest) == [file |-> TRUE, localhost |-> FALSE, rest |-> rest]
MCRawUris == {FileUri(Accent),
              FileUri(<<47, 37, 97, 195, 169>>),
              FileUri(<<47, 67, 58, 47, 37, 43, 50>>),
              [file |-> TRUE, localhost |-> TRUE, rest |-> <<47, 37, 67, 51>>],
              [file |-> FALSE, localhost |-> FALSE, rest |-> <<98, 114, 58>>]}
=============================================================================
