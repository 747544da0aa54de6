----------------------------- MODULE CJsonString -----------------------------
(***************************************************************************)
(* What cJSON.c does with the single bytes of a text: print_string_ptr,    *)
(* parse_string with utf16_literal_to_utf8, and cJSON_Minify.  All three   *)
(* count or copy in one loop what another one reserved room for, the last  *)
(* one in place.  Pointers are indices from 1 on.                          *)
(***************************************************************************)
EXTENDS Integers, Sequences, FiniteSetsExt

\* What is to be done: "trip" prints the string text, minifies what was
\* printed and parses that; "parse" and "minify" are given a text.
CONSTANT Jobs

Byte == 1 .. 255

Nul == 0
Quote == 34
Backslash == 92
Slash == 47
Star == 42
Newline == 10
LetterU == 117
Junk == -1

Terminated(s) == Append(s, Nul)

\* A comment of one sort or the other is all of s from i to in front of j.
IsLine(s, i, j) ==
  /\ i < j /\ s[i + 1] = Slash
  /\ s[j] \in {Nul, Newline} /\ \A k \in i .. j - 1 : s[k] \notin {Nul, Newline}
IsComment(s, i, j) ==
  /\ i + 4 <= j /\ s[i + 1] = Star
  /\ s[j - 2] = Star /\ s[j - 1] = Slash
  /\ \A k \in i + 2 .. j - 3 : s[k] # Nul /\ ~(s[k] = Star /\ s[k + 1] = Slash)

\* All strings and comments of s are closed: what is outside of strings begins
\* at the positions tokens, and the characters of the strings at inside.
IsClosed(s, tokens, inside) ==
  /\ tokens \cup inside \subseteq DOMAIN s
  /\ \A i \in tokens :
       \/ s[i] = Nul
       \/ s[i] = Quote /\ i + 1 \in inside
       \/ s[i] = Slash /\ \E j \in tokens : IsLine(s, i, j) \/ IsComment(s, i, j)
       \/ /\ s[i] \notin {Nul, Quote} /\ ~(s[i] = Slash /\ s[i + 1] \in {Slash, Star})
          /\ i + 1 \in tokens
  /\ \A i \in inside :
       \/ s[i] = Quote /\ i + 1 \in tokens
       \/ s[i] = Backslash /\ i + 2 \in inside
       \/ s[i] \notin {Nul, Quote, Backslash} /\ i + 1 \in inside

\* A text to be minified says whether it is closed, and where its parts begin.
ASSUME JobAssumption ==
  \A j \in Jobs :
    /\ j.kind \in {"trip", "parse", "minify"}
    /\ j.text \in Seq(Byte)
    /\ j.kind = "minify" /\ j.closed =>
         1 \in j.tokens /\ IsClosed(Terminated(j.text), j.tokens, j.inside)

\* The text of j is closed, and no comment of it begins with /*/, of which
\* cJSON_Minify takes the star for that of the end.
Readable(j) ==
  /\ j.closed
  /\ LET s == Terminated(j.text)
     IN  \A i \in j.tokens : ~(s[i] = Slash /\ s[i + 1] = Star /\ s[i + 2] = Slash)

VARIABLES
  job,
  pc,        \* the loop that is running
  buf,       \* the text that is read, with its NUL
  from,      \* input_pointer, json
  end,       \* input_end
  skipped,   \* skipped_bytes
  room,      \* how much is reserved for the output
  out,       \* the output
  to,        \* output_pointer, into
  ep,        \* *error_pointer
  outside,   \* history: memory outside of buf or out has been used
  starved    \* history: an allocation has failed

vars == <<job, pc, buf, from, end, skipped, room, out, to, ep, outside, starved>>
sizes == <<end, skipped, room>>

NoError == 0

Init ==
  /\ job \in Jobs
  /\ pc = CASE job.kind = "trip" -> "measure" [] job.kind = "parse" -> "size"
            [] job.kind = "minify" -> "minify"
  /\ buf = Terminated(job.text)
  /\ from = 1 /\ end = 2 /\ skipped = 0 /\ room = 0
  /\ out = <<>> /\ to = 1
  /\ ep = NoError
  /\ outside = FALSE /\ starved = FALSE

\* The bytes b, written to s at i.
Put(s, i, b) == [k \in DOMAIN s |-> IF k - i + 1 \in DOMAIN b THEN b[k - i + 1] ELSE s[k]]
PastTheEnd(s, i, b) == i + Len(b) - 1 > Len(s)

\* b is written to the output, of which the pointer moves on by n.
Write(b, n) ==
  /\ out' = Put(out, to, b)
  /\ to' = to + n
  /\ outside' = PastTheEnd(out, to, b)

\* An allocation of n bytes and what is written there first, or its failure.
Allocate(n, first, next) ==
  \/ /\ room' = n
     /\ out' = Put([i \in 1 .. n |-> Junk], 1, first)
     /\ to' = Len(first) + 1
     /\ pc' = next
     /\ UNCHANGED starved
  \/ pc' = "failed" /\ starved' = TRUE /\ UNCHANGED <<room, out, to>>

-----------------------------------------------------------------------------
(* print_string_ptr                                                        *)

\* The letter of an escape sequence: b, f, n, r, t, and the character itself.
Letter == [c \in {8, 12, 10, 13, 9, Quote, Backslash} |->
             CASE c = 8 -> 98 [] c = 12 -> 102 [] c = 10 -> 110 [] c = 13 -> 114
               [] c = 9 -> 116 [] OTHER -> c]

HexDigit(d) == IF d < 10 THEN 48 + d ELSE 87 + d
Escaped(c) ==
  IF c > 31 /\ c \notin {Quote, Backslash} THEN <<c>>
  ELSE IF c \in DOMAIN Letter THEN <<Backslash, Letter[c]>>
  ELSE <<Backslash, LetterU, 48, 48, HexDigit(c \div 16), HexDigit(c % 16)>>

Content == 1 .. Len(buf) - 1

\* A variant that takes all escape sequences for those of one letter.
EscapeCharactersShort == Cardinality({i \in Content : buf[i] < 32 \/ buf[i] \in DOMAIN Letter})
EscapeCharacters ==
  Cardinality({i \in Content : buf[i] \in DOMAIN Letter})
    + 5 * Cardinality({i \in Content : buf[i] < 32 /\ buf[i] \notin DOMAIN Letter})

Measure ==
  /\ pc = "measure"
  /\ Allocate(Len(buf) - 1 + EscapeCharacters + 3, <<Quote>>,
              IF EscapeCharacters = 0 THEN "plain" ELSE "escape")
  /\ UNCHANGED <<job, buf, from, end, skipped, ep, outside>>

\* Both ways end with the quote and the NUL at the end of the reserved room.
Closed(s) == Put(s, room - 1, <<Quote, Nul>>)

CopyPlain ==
  /\ pc = "plain"
  /\ out' = Closed(Put(out, to, SubSeq(buf, 1, Len(buf) - 1)))
  /\ outside' = PastTheEnd(out, to, buf)
  /\ pc' = "printed"
  /\ UNCHANGED <<job, buf, from, sizes, to, ep, starved>>

\* sprintf adds a NUL to the escape sequence.
EscapeChar ==
  /\ pc = "escape" /\ buf[from] # Nul
  /\ LET b == Escaped(buf[from]) IN Write(IF Len(b) = 6 THEN Terminated(b) ELSE b, Len(b))
  /\ from' = from + 1
  /\ UNCHANGED <<job, pc, buf, sizes, ep, starved>>

CloseEscaped ==
  /\ pc = "escape" /\ buf[from] = Nul
  /\ out' = Closed(out)
  /\ pc' = "printed"
  /\ UNCHANGED <<job, buf, from, sizes, to, ep, outside, starved>>

\* The text that was printed becomes the one to be minified.
HandOver ==
  /\ pc = "printed"
  /\ buf' = SubSeq(out, 1, Min({i \in DOMAIN out : out[i] = Nul}))
  /\ from' = 1 /\ to' = 1 /\ out' = <<>> /\ room' = 0
  /\ pc' = "minify"
  /\ UNCHANGED <<job, end, skipped, ep, outside, starved>>

-----------------------------------------------------------------------------
(* cJSON_Minify                                                            *)

Space == {32, 9, 13, 10}
At(i) == IF i \in DOMAIN buf THEN buf[i] ELSE Junk
Opens(second) == buf[from] = Slash /\ At(from + 1) = second

\* json moves to i; the loop goes on unless it reads what is no longer text.
GoTo(i) == from' = i /\ outside' = (i > Len(buf))

\* n bytes are copied from json to into.
Keep(n) ==
  /\ buf' = Put(buf, to, SubSeq(buf, from, from + n - 1))
  /\ to' = to + n
  /\ GoTo(from + n)

SkipSpace ==
  /\ pc = "minify" /\ buf[from] \in Space
  /\ GoTo(from + 1)
  /\ UNCHANGED <<job, pc, buf, sizes, out, to, ep, starved>>

SkipLine ==
  /\ pc = "minify" /\ Opens(Slash)
  /\ GoTo(Min({i \in from .. Len(buf) : buf[i] \in {Nul, Newline}}))
  /\ UNCHANGED <<job, pc, buf, sizes, out, to, ep, starved>>

\* A variant of SkipComment that leaves the slash at the end.
SkipCommentShort ==
  /\ pc = "minify" /\ Opens(Star)
  /\ GoTo(1 + Min({i \in from .. Len(buf) : \/ buf[i] = Nul
                                            \/ buf[i] = Star /\ At(i + 1) = Slash}))
  /\ UNCHANGED <<job, pc, buf, sizes, out, to, ep, starved>>

\* A comment that is not closed ends two bytes behind the NUL.
SkipComment ==
  /\ pc = "minify" /\ Opens(Star)
  /\ GoTo(2 + Min({i \in from .. Len(buf) : \/ buf[i] = Nul
                                            \/ buf[i] = Star /\ At(i + 1) = Slash}))
  /\ UNCHANGED <<job, pc, buf, sizes, out, to, ep, starved>>

KeepOther ==
  /\ pc = "minify"
  /\ buf[from] \notin Space \cup {Nul} /\ ~Opens(Slash) /\ ~Opens(Star)
  /\ Keep(1)
  /\ pc' = IF buf[from] = Quote THEN "literal" ELSE "minify"
  /\ UNCHANGED <<job, sizes, out, ep, starved>>

\* A variant of KeepLiteral that does not know of escape sequences.
KeepLiteralPlain ==
  /\ pc = "literal"
  /\ Keep(1)
  /\ pc' = IF buf[from] \in {Quote, Nul} THEN "minify" ELSE "literal"
  /\ UNCHANGED <<job, sizes, out, ep, starved>>

\* Within a string; what ends it is copied too, also if that is the NUL.
KeepLiteral ==
  /\ pc = "literal"
  /\ Keep(IF buf[from] = Backslash THEN 2 ELSE 1)
  /\ pc' = IF buf[from] \in {Quote, Nul} THEN "minify" ELSE "literal"
  /\ UNCHANGED <<job, sizes, out, ep, starved>>

EndMinify ==
  /\ pc = "minify" /\ buf[from] = Nul
  /\ buf' = SubSeq(Put(buf, to, <<Nul>>), 1, to)
  /\ from' = 1 /\ to' = 1
  /\ pc' = IF job.kind = "trip" THEN "size" ELSE "done"
  /\ UNCHANGED <<job, sizes, out, ep, outside, starved>>

-----------------------------------------------------------------------------
(* parse_string                                                            *)

Fails(e) == pc' = "failed" /\ ep' = e

NoString ==
  /\ pc = "size" /\ buf[1] # Quote
  /\ Fails(1)
  /\ UNCHANGED <<job, buf, from, sizes, out, to, outside, starved>>

\* The first loop: it looks for the end of the string and counts the escapes.
Size ==
  /\ pc = "size" /\ buf[1] = Quote /\ buf[end] \notin {Quote, Nul}
  /\ IF buf[end] # Backslash
       THEN end' = end + 1 /\ UNCHANGED <<pc, skipped>>
       ELSE IF buf[end + 1] = Nul
         THEN pc' = "failed" /\ UNCHANGED <<end, skipped>>
         ELSE end' = end + 2 /\ skipped' = skipped + 1 /\ UNCHANGED pc
  /\ UNCHANGED <<job, buf, from, room, out, to, ep, outside, starved>>

SizeOpen ==
  /\ pc = "size" /\ buf[1] = Quote /\ buf[end] = Nul
  /\ pc' = "failed"
  /\ UNCHANGED <<job, buf, from, sizes, out, to, ep, outside, starved>>

Room == end - 1 - skipped + 1

Reserve ==
  /\ pc = "size" /\ buf[1] = Quote /\ buf[end] = Quote
  /\ Allocate(Room, <<>>, "decode")
  /\ from' = 2
  /\ UNCHANGED <<job, buf, end, skipped, ep, outside>>

Decoding == pc = "decode" /\ from < end

CopyByte ==
  /\ Decoding /\ buf[from] # Backslash
  /\ Write(<<buf[from]>>, 1)
  /\ from' = from + 1
  /\ UNCHANGED <<job, pc, buf, sizes, ep, starved>>

\* What the letter of an escape sequence stands for.
Stands(l) == IF l = Slash THEN Slash ELSE CHOOSE c \in DOMAIN Letter : Letter[c] = l
Letters == {Letter[c] : c \in DOMAIN Letter} \cup {Slash}

Unescape ==
  /\ Decoding /\ buf[from] = Backslash /\ buf[from + 1] \in Letters
  /\ Write(<<Stands(buf[from + 1])>>, 1)
  /\ from' = from + 2
  /\ UNCHANGED <<job, pc, buf, sizes, ep, starved>>

HexValue(c) ==
  CASE c \in 48 .. 57 -> c - 48 [] c \in 65 .. 70 -> c - 55 [] c \in 97 .. 102 -> c - 87
    [] OTHER -> -1

ParseHex4(i) ==
  LET d == [k \in 0 .. 3 |-> HexValue(buf[i + k])]
  IN  IF \E k \in 0 .. 3 : d[k] = -1 THEN 0
      ELSE 4096 * d[0] + 256 * d[1] + 16 * d[2] + d[3]

\* A variant that takes 0x800 for the last code point of two bytes.
Utf8LengthOff(cp) ==
  IF cp < 128 THEN 1 ELSE IF cp <= 2048 THEN 2 ELSE IF cp < 65536 THEN 3 ELSE 4

Utf8Length(cp) ==
  IF cp < 128 THEN 1 ELSE IF cp < 2048 THEN 2 ELSE IF cp < 65536 THEN 3 ELSE 4

\* The first byte has a mark of its length, the others have six bits each.
Mark == <<0, 192, 224, 240>>
Place == <<1, 64, 4096, 262144>>
Utf8(cp) ==
  LET n == Utf8Length(cp)
  IN  [k \in 1 .. n |-> LET rest == cp \div Place[n - k + 1]
                        IN  IF k = 1 THEN (Mark[n] + rest) % 256 ELSE 128 + (rest % 64)]

IsHigh(c) == 55296 <= c /\ c <= 56319
IsLow(c) == 56320 <= c /\ c <= 57343

\* The bytes of the text that a UTF-16 literal takes; 0 if it is none.
SequenceLength ==
  IF end - from < 6 THEN 0
  ELSE LET first == ParseHex4(from + 2)
       IN  IF first = 0 \/ IsLow(first) THEN 0
           ELSE IF ~IsHigh(first) THEN 6
           ELSE IF /\ end - (from + 6) >= 6
                   /\ buf[from + 6] = Backslash /\ buf[from + 7] = LetterU
                   /\ IsLow(ParseHex4(from + 8))
                THEN 12 ELSE 0

Codepoint ==
  IF SequenceLength = 6 THEN ParseHex4(from + 2)
  ELSE 65536 + 1024 * (ParseHex4(from + 2) % 1024) + (ParseHex4(from + 8) % 1024)

Utf16Literal ==
  /\ Decoding /\ buf[from] = Backslash /\ buf[from + 1] = LetterU /\ SequenceLength # 0
  /\ Write(Utf8(Codepoint), Utf8Length(Codepoint))
  /\ from' = from + SequenceLength
  /\ UNCHANGED <<job, pc, buf, sizes, ep, starved>>

BadEscape ==
  /\ Decoding /\ buf[from] = Backslash
  /\ \/ buf[from + 1] = LetterU /\ SequenceLength = 0
     \/ buf[from + 1] \notin Letters \cup {LetterU}
  /\ Fails(from)
  /\ UNCHANGED <<job, buf, from, sizes, out, to, outside, starved>>

FinishString ==
  /\ pc = "decode" /\ from >= end
  /\ out' = Put(out, to, <<Nul>>)
  /\ outside' = PastTheEnd(out, to, <<Nul>>)
  /\ pc' = "done"
  /\ UNCHANGED <<job, buf, from, sizes, to, ep, starved>>

Next ==
  /\ ~outside
  /\ \/ Measure \/ CopyPlain \/ EscapeChar \/ CloseEscaped \/ HandOver
     \/ SkipSpace \/ SkipLine \/ SkipComment \/ KeepOther \/ KeepLiteral \/ EndMinify
     \/ NoString \/ Size \/ SizeOpen \/ Reserve
     \/ CopyByte \/ Unescape \/ Utf16Literal \/ BadEscape \/ FinishString

Spec == Init /\ [][Next]_vars

-----------------------------------------------------------------------------
(* Properties                                                              *)

TypeOK ==
  /\ pc \in {"measure", "plain", "escape", "printed", "minify", "literal", "size", "decode",
             "done", "failed"}
  /\ buf \in Seq(Byte \cup {Nul}) /\ out \in Seq(Byte \cup {Nul, Junk})
  /\ from \in 1 .. Len(buf) + 2 /\ end \in 2 .. Max({2, Len(buf)}) /\ to \in 1 .. Max({Len(buf), room}) + 1
  /\ {skipped, ep} \subseteq 0 .. Len(buf)
  /\ Len(out) = room
  /\ {outside, starved} \subseteq BOOLEAN

\* What the first loop of print_string_ptr and of parse_string counts is
\* enough for what the second one writes, and no byte is read behind the end
\* of a text, but by cJSON_Minify if a string or a comment is left open or a
\* comment begins with /*/.
StaysInside == TypeOK /\ (outside => job.kind = "minify" /\ ~Readable(job))

\* The string that a parser or a printer has written.
Result == SubSeq(out, 1, Min({i \in DOMAIN out : out[i] = Nul}) - 1)

\* What was printed is not changed by minifying it, and is parsed to the
\* string that was printed, byte for byte.
RoundTrip ==
  job.kind = "trip" /\ ~starved
    => pc # "failed" /\ (pc = "done" => Result = job.text)
=============================================================================
