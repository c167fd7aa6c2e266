------------------------------ MODULE JsonScan ------------------------------
(***************************************************************************)
(* Text on its way through a control message: json.dumps in messages.py    *)
(* writes it in ASCII, and the scanner of json.c reads it back as UTF-8.   *)
(* A character is its code point, save that a capital letter stands for a  *)
(* whole word of the protocol, and a negative number for the four hex      *)
(* digits of a \u escape.                                                  *)
(***************************************************************************)
EXTENDS Integers, SequencesExt

Quote == 34
Backslash == 92
Colon == 58
Comma == 44
LetterU == 117

Type == 84            \* the word "type"
Text == 88            \* the word "text"
AiResponse == 65      \* the word "ai_response"

Hex(unit) == -1 - unit
Unit(hex) == -1 - hex

\* b, f, n, r, t and the three characters that stand for themselves.
ShortEscapes ==
  [e \in {98, 102, 110, 114, 116, Quote, Backslash, 47} |->
     CASE e = 98 -> 8 [] e = 102 -> 12 [] e = 110 -> 10 [] e = 114 -> 13 [] e = 116 -> 9
       [] OTHER -> e]

HighSurrogates == 55296 .. 56319
LowSurrogates == 56320 .. 57343

\* Text: no NUL, and no half of a surrogate pair.
IsLetter(c) == c \in Nat \ {0} /\ c < 1114112 /\ c \notin HighSurrogates \cup LowSurrogates
IsText(s) == s \in Seq(Int) /\ \A i \in DOMAIN s : IsLetter(s[i])

-----------------------------------------------------------------------------
(* encode_control *)

Utf16(c) ==
  IF c < 65536 THEN <<c>>
  ELSE <<55296 + (c - 65536) \div 1024, 56320 + ((c - 65536) % 1024)>>

\* Mutant: quotes and backslashes are not escaped.
Unquoted(c) ==
  IF c \in 10 .. 126 THEN <<c>>
  ELSE FlattenSeq([k \in DOMAIN Utf16(c) |-> <<Backslash, LetterU, Hex(Utf16(c)[k])>>])

\* json.dumps with its default ensure_ascii.
Escaped(c) ==
  CASE c \in {Quote, Backslash} -> <<Backslash, c>>
    [] c \in {8, 9, 10, 12, 13} ->
         <<Backslash, CHOOSE e \in DOMAIN ShortEscapes : ShortEscapes[e] = c>>
    [] c \in 32 .. 126 \ {Quote, Backslash} -> <<c>>
    [] OTHER ->
         FlattenSeq([k \in DOMAIN Utf16(c) |-> <<Backslash, LetterU, Hex(Utf16(c)[k])>>])

Quoted(s) == <<Quote>> \o FlattenSeq([i \in DOMAIN s |-> Escaped(s[i])]) \o <<Quote>>

\* {"text":"...","type":"ai_response"}: the keys are sorted, the blanks left out.
AnswerMessage(text) ==
  Quoted(<<Text>>) \o <<Colon>> \o Quoted(text) \o <<Comma>>
    \o Quoted(<<Type>>) \o <<Colon>> \o Quoted(<<AiResponse>>)

-----------------------------------------------------------------------------
(* sd_json_get_string *)

\* The string ends with a NUL.
CharAt(json, i) == IF i \in DOMAIN json THEN json[i] ELSE 0

PastBlanks(json, i) == Min({k \in i .. Len(json) + 1 : CharAt(json, k) \notin {9, 32}})

\* Where strstr finds the key in its quotes.
Matches(json, key) ==
  {i \in 1 .. Len(json) - 2 : SubSeq(json, i, i + 2) = <<Quote, key, Quote>>}

AfterKey(json, key) == PastBlanks(json, Min(Matches(json, key)) + 3)

\* The first match counts, and it has to be a key.
HasKey(json, key) ==
  Matches(json, key) # {} /\ CharAt(json, AfterKey(json, key)) = Colon

ValueAt(json, key) == PastBlanks(json, AfterKey(json, key) + 1)

\* A \u escape stands here; what follows it may be the other half of a pair.
UnicodeAt(json, i) ==
  CharAt(json, i) = Backslash /\ CharAt(json, i + 1) = LetterU /\ CharAt(json, i + 2) < 0

\* Mutant: each \u escape is a character of its own.
NoPairs(json, i) == FALSE

PairAt(json, i) ==
  /\ UnicodeAt(json, i) /\ UnicodeAt(json, i + 3)
  /\ Unit(json[i + 2]) \in HighSurrogates
  /\ Unit(json[i + 5]) \in LowSurrogates

Combined(hi, lo) == 65536 + (hi - 55296) * 1024 + (lo - 56320)

Malformed == -70000

\* The character at i, and the rest of the string behind it.
Reads(json, rest, i) ==
  IF CharAt(json, i) \in {0, Quote} THEN << >>
  ELSE IF CharAt(json, i) # Backslash THEN <<json[i]>> \o rest[i + 1]
  ELSE IF PairAt(json, i) THEN
    <<Combined(Unit(json[i + 2]), Unit(json[i + 5]))>> \o rest[i + 6]
  ELSE IF UnicodeAt(json, i) THEN <<Unit(json[i + 2])>> \o rest[i + 3]
  ELSE IF CharAt(json, i + 1) \in DOMAIN ShortEscapes THEN
    <<ShortEscapes[json[i + 1]]>> \o rest[i + 2]
  ELSE <<Malformed>>

Characters(json, start) ==
  LET from[i \in Nat] == Reads(json, from, i)
  IN  from[start]

Utf8Length(c) ==
  IF c < 128 THEN 1 ELSE IF c < 2048 THEN 2 ELSE IF c < 65536 THEN 3 ELSE 4

LeadBits == <<0, 192, 224, 240>>
Shifts == <<1, 64, 4096, 262144>>

Utf8(c) ==
  LET n == Utf8Length(c) IN
    [k \in 1 .. n |-> IF k = 1 THEN LeadBits[n] + c \div Shifts[n]
                      ELSE 128 + ((c \div Shifts[n - k + 1]) % 64)]

\* Mutant: no byte is kept for the NUL.
AppendedFull(out, c, cap) ==
  IF Len(out) + Utf8Length(c) <= cap THEN out \o Utf8(c) ELSE out

\* append_utf8: a character that does not fit is left out, the next may fit again.
Appended(out, c, cap) ==
  IF Len(out) + Utf8Length(c) < cap THEN out \o Utf8(c) ELSE out

Copied(s, cap) ==
  LET out[i \in 0 .. Len(s)] == IF i = 0 THEN << >> ELSE Appended(out[i - 1], s[i], cap)
  IN  out[Len(s)]

\* SD_OK, and not SD_ERR_INVALID.
HasString(json, key) ==
  /\ HasKey(json, key)
  /\ CharAt(json, ValueAt(json, key)) = Quote
  /\ ~Contains(Characters(json, ValueAt(json, key) + 1), Malformed)

GetString(json, key, cap) == Copied(Characters(json, ValueAt(json, key) + 1), cap)
=============================================================================
