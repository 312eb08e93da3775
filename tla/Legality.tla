------------------------------ MODULE Legality ------------------------------
(***************************************************************************)
(* check_legality: what a Council refuses to ratify whatever the vote.     *)
(* A text is a sequence of characters.  A change value (strings, lists and *)
(* dicts, at any depth) is the set of its ways down: each the keys passed, *)
(* outermost first, and the string at the end.                             *)
(***************************************************************************)
EXTENDS Council, SequencesExt

CONSTANTS
    Pattern,       \* _ILLEGAL_PATTERNS: how the laws beyond any vote are named
    Digit, Separator,
    LowerCase,     \* character -> character
    MinBare,       \* shortest pattern matched with its separators stripped
    Changes,       \* proposal -> its changes, each a path and a value
    Widening,      \* the paths and values that name a gym target class, and
    ChronarchTarget,   \* those values that are targets of Chronarch's own
    M5             \* proposals of major class M5

Char == DOMAIN LowerCase
Text == Seq(Char)

\* No character is the empty string, and no law has an empty name.
ASSUME LegalityAssumption ==
    /\ MinBare \in Nat \ {0} /\ M5 \subseteq Proposal
    /\ LowerCase \in [Char -> Char] /\ "" \notin Digit
    /\ \A pattern \in Pattern : pattern \in Text /\ pattern # <<>>
    /\ \A p \in Proposal : \A c \in Changes[p] :
          c.path \in Text /\ \A way \in c.value : way \in Seq(Text)

Lowered(text) == [i \in DOMAIN text |-> LowerCase[text[i]]]
Stripped(text) ==
    LET kept[n \in 0 .. Len(text)] ==
            IF n = 0 THEN <<>>
            ELSE IF text[n] \in Separator THEN kept[n - 1] ELSE Append(kept[n - 1], text[n])
    IN  kept[Len(text)]

Occurs(pattern, text, i) ==
    i + Len(pattern) - 1 <= Len(text) /\ SubSeq(text, i, i + Len(pattern) - 1) = pattern

\* The digit boundary: g1 does not match g14.
RunsOn(pattern, text, i) ==
    /\ Last(pattern) \in Digit
    /\ i + Len(pattern) <= Len(text) /\ text[i + Len(pattern)] \in Digit

\* (Slip: only the first occurrence is looked at.)
PatternIn_FirstOnly(pattern, text) ==
    LET at == {i \in DOMAIN text : Occurs(pattern, text, i)}
    IN  at # {} /\ ~RunsOn(pattern, text, CHOOSE i \in at : \A j \in at : i <= j)

\* _pattern_in: find, and look further after an occurrence that runs on.
PatternIn(pattern, text) ==
    LET seek[start \in 1 .. Len(text) + 1] ==
            LET at == {i \in start .. Len(text) : Occurs(pattern, text, i)}
                i  == CHOOSE j \in at : \A k \in at : j <= k
            IN  at # {} /\ (~RunsOn(pattern, text, i) \/ seek[i + 1])
    IN  seek[1]

IterChangeStrings(value) == UNION {ToSet(way) : way \in value}

\* A short pattern is matched verbatim only.
Matches(pattern, text) ==
    \/ PatternIn(pattern, Lowered(text))
    \/ /\ Len(Stripped(pattern)) >= MinBare
       /\ PatternIn(Stripped(pattern), Stripped(Lowered(text)))

\* M5 may widen the gym within Chronarch's own targets; a class that is not
\* named on the change's own path is not looked at.
ForeignGym(p) ==
    p \in M5 /\ \E c \in Changes[p] : c.path \in Widening /\ c.value \notin ChronarchTarget

CheckLegality(p) ==
    /\ \A c \in Changes[p], pattern \in Pattern :
          \A text \in {c.path} \cup IterChangeStrings(c.value) : ~Matches(pattern, text)
    /\ ~ForeignGym(p)
Lawful == {p \in Proposal : CheckLegality(p)}

----------------------------------------------------------------------------
\* What a text says, with no regard to how it is scanned: it names a law if
\* the law's pattern stands in it somewhere, in any case and with any
\* separators, not as the beginning of a longer number.
Reading(text, pattern) ==
    {<<Lowered(text), pattern>>}
        \cup (IF Len(Stripped(pattern)) >= MinBare
              THEN {<<Stripped(Lowered(text)), Stripped(pattern)>>} ELSE {})
Says(text, pattern) ==
    \E r \in Reading(text, pattern) : \E i \in DOMAIN r[1] :
        /\ \A k \in DOMAIN r[2] : i + k - 1 \in DOMAIN r[1] /\ r[1][i + k - 1] = r[2][k]
        /\ ~({Last(r[2]), (r[1] \o <<"">>)[i + Len(r[2])]} \subseteq Digit)
NamingLaw ==
    {p \in Proposal : \E c \in Changes[p], pattern \in Pattern :
        \E text \in {c.path} \cup UNION {ToSet(way) : way \in c.value} : Says(text, pattern)}

\* No vote adopts a proposal that names one of the laws beyond any vote, in
\* whatever depth of its changes and spelling, and none is invalid for less
\* (but a foreign gym): laws 14 to 18, whose names begin like law 1's, can be
\* amended (G16; check_legality, and _pattern_in with its digit boundary).
LawsStand ==
    \A p \in Proposal :
        /\ status[p] = "approved" => p \notin NamingLaw
        /\ status[p] = "invalid" => p \in NamingLaw \/ ForeignGym(p)
=============================================================================
