------------------------------ MODULE Sanitizer ------------------------------
(***************************************************************************)
(* The stream sanitizer between a guest's terminal and the scrollback: the *)
(* terminal filter (internal/guest/ssh/terminal_filter.go), the redaction  *)
(* that holds back what it cannot decide yet (sanitize.go), and the pump   *)
(* that feeds them (sessions/manager.go, pumpChannelOutput).               *)
(*                                                                         *)
(* A byte is named by what the code tells apart.  "lead" starts a two-byte *)
(* rune and "cont" ends one; "st", "csi8", "osc8" and "dcs8" are the C1    *)
(* bytes 0x9c, 0x9b, 0x9d and 0x90, which end a rune as well when they     *)
(* follow a lead; "P" stands for the four letters that begin a control     *)
(* string after an escape (DCS, SOS, PM, APC), "dcs8" for their C1 bytes.  *)
(* "t" "n" spell the word of an assignment, Secret is the one exact secret.*)
(* Private keys, bearer tokens and configured patterns are not modelled.   *)
(***************************************************************************)
EXTENDS Naturals, Sequences, SequencesExt, FiniteSetsExt

CONSTANTS Alphabets,     \* the sets of bytes a stream is drawn from
          Secret,
          MaxPending,    \* maxSanitizerPendingBytes
          MaxInput,      \* bound: the length of a stream, per alphabet
          MaxChunk

VARIABLES alphabet,
          fed,         \* the bytes the channel has delivered
          state, tail, \* the filter: its parser state, its incomplete rune
          pending,     \* undecided text
          dropping,    \* after an overflow: the rest of the line is dropped
          overflowed,  \* history
          out,         \* what has reached the scrollback
          flushed

svars == <<alphabet, fed, state, tail, pending, dropping, overflowed, out, flushed>>

SanitizerInit ==
    /\ alphabet \in Alphabets
    /\ fed = <<>> /\ state = "ground" /\ tail = <<>> /\ pending = <<>>
    /\ dropping = FALSE /\ overflowed = FALSE /\ out = <<>> /\ flushed = FALSE

-----------------------------------------------------------------------------
(* The terminal filter.                                                    *)

C1 == {"st", "csi8", "osc8", "dcs8"}
Conts == C1 \cup {"cont"}

\* nextTerminalRune: the rune at the start of data and its width; width 0 is an
\* incomplete rune.  A lead followed by no continuation is an error rune, a
\* continuation byte in the C1 range a control, another one an error rune.
NextRune(data) ==
    CASE data[1] = "lead" /\ Len(data) = 1 -> [rune |-> "none", size |-> 0]
      [] data[1] = "lead" /\ Len(data) > 1 /\ data[2] \in Conts ->
            [rune |-> IF data[2] \in C1 THEN data[2] ELSE "wide", size |-> 2]
      [] data[1] = "cont" \/ (data[1] = "lead" /\ Len(data) > 1 /\ data[2] \notin Conts) ->
            [rune |-> "error", size |-> 1]
      [] OTHER -> [rune |-> data[1], size |-> 1]

\* The bytes 0x40 to 0x7e, 0x30 to 0x3f and 0x20 to 0x2f of the alphabet.
Final == {"[", "]", "P", "\\", "t", "n", "s", "x"}
Parameter == {"="}
Intermediate == {"sp"}

StartC1(r) ==
    CASE r = "csi8" -> "csi" [] r = "osc8" -> "osc" [] r = "dcs8" -> "string" [] r = "st" -> "ground"

\* consumeGround: the state, and whether the rune is text.
GroundState(r) == IF r = "esc" THEN "escape" ELSE IF r \in C1 THEN StartC1(r) ELSE "ground"
IsText(r) == r \notin {"esc", "bel"} \cup C1

ConsumeEscape(r) ==
    CASE r = "[" -> "csi"
      [] r = "]" -> "osc"
      [] r = "P" -> "string"
      [] r = "esc" \/ r \in Intermediate -> "escape"
      [] r \in (Final \ {"[", "]", "P"}) \cup Parameter -> "ground"
      [] OTHER -> "discard"
ConsumeCSI(r) ==
    CASE r = "esc" -> "escape"
      [] r \in Final -> "ground"
      [] r \in Parameter \cup Intermediate -> "csi"
      [] OTHER -> "discard"
ConsumeOSC(r) == CASE r = "bel" -> "ground" [] r = "esc" -> "oscEscape" [] OTHER -> "osc"
ConsumeString(r) == IF r = "esc" THEN "stringEscape" ELSE "string"
\* consumeStringEscape, for the escape state of an OSC or of another string.
EscapeOf(str) == IF str = "osc" THEN "oscEscape" ELSE "stringEscape"
ConsumeStringEscape(r, str) ==
    CASE r = "\\" -> "ground" [] r = "esc" -> EscapeOf(str) [] OTHER -> str
ConsumeC1(st, r) ==
    CASE st \in {"osc", "oscEscape", "string", "stringEscape"} -> IF r = "st" THEN "ground" ELSE st
      [] OTHER -> "discard"
ControlState(st, r) ==
    CASE st = "discard" -> st
      [] st # "discard" /\ r \in C1 -> ConsumeC1(st, r)
      [] st = "escape" /\ r \notin C1 -> ConsumeEscape(r)
      [] st = "csi" /\ r \notin C1 -> ConsumeCSI(r)
      [] st = "osc" /\ r \notin C1 -> ConsumeOSC(r)
      [] st = "oscEscape" /\ r \notin C1 -> ConsumeStringEscape(r, "osc")
      [] st = "string" /\ r \notin C1 -> ConsumeString(r)
      [] st = "stringEscape" /\ r \notin C1 -> ConsumeStringEscape(r, "string")

\* terminalFilter.Push over data: at most one rune per byte.
Filtered(st, data) ==
    LET Step(acc, i) ==
          IF acc.rest = <<>> \/ acc.tail # <<>> THEN acc
          ELSE LET n == NextRune(acc.rest) IN
               IF n.size = 0 THEN [acc EXCEPT !.tail = acc.rest]
               ELSE [state |-> IF acc.state = "ground" THEN GroundState(n.rune)
                               ELSE ControlState(acc.state, n.rune),
                     text |-> IF acc.state = "ground" /\ IsText(n.rune)
                              THEN Append(acc.text, n.rune) ELSE acc.text,
                     rest |-> SubSeq(acc.rest, n.size + 1, Len(acc.rest)), tail |-> <<>>]
    IN FoldLeft(Step, [state |-> st, text |-> <<>>, rest |-> data, tail |-> <<>>],
                [i \in 1 .. Len(data) |-> i])

FilterFlush(st, tl) == IF st = "ground" /\ tl # <<>> THEN <<"error">> ELSE <<>>

-----------------------------------------------------------------------------
(* Redaction.  A match is a half-open interval of positions.               *)

Blank == {"sp", "nl"}
Run(text, p, S) == \* the end of the longest run of S from p
    Min({q \in p .. Len(text) + 1 : q > Len(text) \/ text[q] \notin S})
RedactionMark == <<"[REDACTED]">>

\* tokenPattern: the word, blanks, "=", blanks, a value up to a blank.
ValueAt(text, p) ==
    LET sign == Run(text, p + 2, Blank) IN
    IF p + 1 <= Len(text) /\ text[p] = "t" /\ text[p + 1] = "n"
         /\ sign <= Len(text) /\ text[sign] = "="
    THEN Run(text, sign + 1, Blank) ELSE Len(text) + 1
AssignmentEnd(text, p) ==
    LET v == ValueAt(text, p) IN
    IF v > Len(text) THEN p ELSE Run(text, v, {text[i] : i \in DOMAIN text} \ Blank)
SecretEnd(text, p) ==
    IF p + Len(Secret) - 1 <= Len(text) /\ SubSeq(text, p, p + Len(Secret) - 1) = Secret
    THEN p + Len(Secret) ELSE p

\* The successive leftmost matches of a pattern, as the starts it is found at;
\* end[p] is where a match from p ends, p if there is none.
Matches(end) ==
    FoldLeft(LAMBDA acc, p : IF p >= acc.next /\ end[p] > p
                             THEN [next |-> end[p], found |-> acc.found \cup {p}] ELSE acc,
             [next |-> 1, found |-> {}], [p \in DOMAIN end |-> p]).found
\* Each match is replaced from its position from[p] on.
Replace(text, end, from) ==
    LET M == Matches(end)
        Piece(p) == IF \E s \in M : from[s] <= p /\ p < end[s]
                    THEN IF \E s \in M : p = from[s] THEN RedactionMark ELSE <<>>
                    ELSE <<text[p]>>
    IN FlattenSeq([p \in 1 .. Len(text) |-> Piece(p)])
AssignmentSpans(text) == [p \in 1 .. Len(text) |-> AssignmentEnd(text, p)]
SecretSpans(text) == [p \in 1 .. Len(text) |-> SecretEnd(text, p)]
RedactSensitiveText(text) ==
    Replace(text, AssignmentSpans(text), [p \in 1 .. Len(text) |-> ValueAt(text, p)])
RedactComplete(text) ==
    LET clear == RedactSensitiveText(text)
    IN Replace(clear, SecretSpans(clear), [p \in 1 .. Len(clear) |-> p])

-----------------------------------------------------------------------------
(* safeCut: the position from which on the text is held back.              *)

Least(S, cut) == Min(S \cup {cut})

\* cutForLiteralPrefixes and cutForSecretPrefixes
PrefixCuts(text, word) ==
    {Len(text) - n + 1 : n \in {k \in 1 .. Len(word) - 1 : IsSuffix(SubSeq(word, 1, k), text)}}

\* incompleteStructureStart: the last word, if its assignment may go on.
SensitiveAssignmentPrefix(rest) ==
    LET sign == Run(rest, 1, {"sp"}) value == Run(rest, sign + 1, {"sp"}) IN
    \/ sign > Len(rest)
    \/ /\ rest[sign] = "="
       /\ \A i \in value .. Len(rest) : rest[i] # "sp"
IncompleteStart(text) ==
    LET words == {p \in 1 .. Len(text) - 1 : text[p] = "t" /\ text[p + 1] = "n"}
        p == Max(words) rest == SubSeq(text, p + 2, Len(text)) IN
    IF words # {} /\ (\A i \in DOMAIN rest : rest[i] # "nl") /\ SensitiveAssignmentPrefix(rest)
    THEN {p} ELSE {}

\* cutForExactSecretMatches and cutForPatternMatches: no match is cut in two.
OutOfMatch(end, cut) == Least({p \in Matches(end) : p < cut /\ end[p] > cut}, cut)

Held(text) ==
    Least(IncompleteStart(text) \cup PrefixCuts(text, <<"t", "n", "=">>)
            \cup PrefixCuts(text, Secret), Len(text) + 1)
SafeCutAnywhere(text) == Held(text)
SafeCut(text) ==
    OutOfMatch(AssignmentSpans(text), OutOfMatch(SecretSpans(text), Held(text)))

-----------------------------------------------------------------------------
(* StreamSanitizer.Push, Flush, and the pump that calls them.              *)

\* consumeDropped: what follows the first line break.
KeptAll(raw) == raw
Kept(raw) ==
    IF ~dropping THEN raw
    ELSE IF \E i \in DOMAIN raw : raw[i] = "nl"
         THEN SubSeq(raw, Min({i \in DOMAIN raw : raw[i] = "nl"}) + 1, Len(raw))
         ELSE <<>>
Dropping(raw) == dropping /\ \A i \in DOMAIN raw : raw[i] # "nl"

Push(raw) ==
    LET f == Filtered(state, tail \o Kept(raw))
        text == pending \o f.text
        cut == SafeCut(text)
        rest == SubSeq(text, cut, Len(text))
        clean == RedactComplete(SubSeq(text, 1, cut - 1)) IN
    /\ ~flushed /\ Len(fed) + Len(raw) <= MaxInput[alphabet]
    /\ fed' = fed \o raw
    /\ \/ /\ Kept(raw) = <<>> /\ dropping' = Dropping(raw)
          /\ UNCHANGED <<state, tail, pending, overflowed, out>>
       \/ /\ Kept(raw) # <<>>
          /\ state' = f.state /\ tail' = f.tail
          /\ \/ f.text = <<>> /\ dropping' = Dropping(raw) /\ UNCHANGED <<pending, overflowed, out>>
             \/ /\ f.text # <<>> /\ Len(rest) <= MaxPending
                /\ pending' = rest /\ out' = out \o clean /\ dropping' = Dropping(raw)
                /\ UNCHANGED overflowed
             \/ /\ f.text # <<>> /\ Len(rest) > MaxPending
                /\ pending' = <<>> /\ out' = out \o clean \o <<"[TRUNCATED]">>
                /\ dropping' = TRUE /\ overflowed' = TRUE
    /\ UNCHANGED <<alphabet, flushed>>

\* The channel ends.
Flush ==
    /\ ~flushed /\ flushed' = TRUE
    /\ out' = out \o RedactComplete(pending \o FilterFlush(state, tail))
    /\ pending' = <<>> /\ tail' = <<>> /\ state' = "ground" /\ dropping' = FALSE
    /\ UNCHANGED <<alphabet, fed, overflowed>>

\* pumpChannelOutput: a read delivers a chunk of any size.
SanitizerNext ==
    \/ Flush
    \/ \E n \in 1 .. MaxChunk : \E raw \in [1 .. n -> alphabet] : Push(raw)
SanitizerSpec == SanitizerInit /\ [][SanitizerNext]_svars

-----------------------------------------------------------------------------

(* The reference: the whole stream is filtered and redacted at once.       *)
Whole == LET f == Filtered("ground", fed) IN f.text \o FilterFlush(f.state, f.tail)

\* Where an assignment may come apart: incompleteStructureStart looks at the
\* last word only, so a word in the value hides the assignment from it, and it
\* gives up at a line break, which the pattern passes over.
LooseEnds(text) ==
    {i \in 1 .. Len(text) - 1 : \E p, k \in 1 .. i :
        /\ p < k /\ i < AssignmentEnd(text, p)
        /\ text[k] = "nl" \/ (k < i /\ text[k] = "t" /\ text[k + 1] = "n")}

\* The text redacted in the pieces it has when cut after the positions B.
Reading(text, B) ==
    LET ends == SetToSortSeq(B \cup {Len(text)}, <)
        Piece(k) == SubSeq(text, IF k = 1 THEN 1 ELSE ends[k - 1] + 1, ends[k])
    IN FlattenSeq([k \in DOMAIN ends |-> RedactComplete(Piece(k))])

\* shown is text, but for one stretch at each overflow mark.
AgreesWith(shown, text) ==
    LET Step(at, x) == IF x = "[TRUNCATED]" THEN {j \in 0 .. Len(text) : \E i \in at : i <= j}
                       ELSE {i + 1 : i \in {j \in at : j < Len(text) /\ text[j + 1] = x}}
    IN Len(text) \in FoldLeft(Step, {0}, shown)

(* "StreamSanitizer preserves redaction state across arbitrary transport   *)
(* chunks": however the transport cuts the stream, the scrollback holds    *)
(* what the whole stream would have given.  Two exceptions, and no more: a *)
(* held text that overflows is replaced by a mark together with the rest   *)
(* of its line, and an assignment with its word again in the value, or     *)
(* over a line break, is redacted only as far as it arrives together.      *)
ChunkingIsInvisible ==
    flushed => \E B \in SUBSET LooseEnds(Whole) : AgreesWith(out, Reading(Whole, B))
=============================================================================
