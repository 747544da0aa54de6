--------------------------- MODULE MCCJsonString ---------------------------
(***************************************************************************)
(* CJsonString on short strings, and on texts that are put together from   *)
(* pieces of which a table says what becomes of them.                      *)
(***************************************************************************)
EXTENDS CJsonString, SequencesExt

UpTo(n, S) == UNION {[1 .. k -> S] : k \in 0 .. n}

\* Control characters with and without a letter, what is special to one of
\* the three functions, the bounds of ASCII, and a byte of UTF-8.
Samples == {1, 8, 10, 31, 32, Quote, Star, Slash, Backslash, LetterU, 127, 195}
Trips == {[kind |-> "trip", text |-> s] : s \in UpTo(3, Samples)}

-----------------------------------------------------------------------------
(* Literals: means is the string, or None for what is to be rejected.       *)

None == <<Junk>>
Piece(t, means) == [text |-> t, means |-> means]
U(d1, d2, d3, d4) == <<Backslash, LetterU, d1, d2, d3, d4>>

Escapes ==
  {Piece(<<Backslash, e[1]>>, <<e[2]>>) :
      e \in {<<98, 8>>, <<102, 12>>, <<110, 10>>, <<114, 13>>, <<116, 9>>,
             <<Quote, Quote>>, <<Backslash, Backslash>>, <<Slash, Slash>>}}

\* The first and the last code point of each length, with digits of each case.
Utf16 ==
  {Piece(U(48, 48, 48, 49), <<1>>), Piece(U(48, 48, 55, 70), <<127>>),
   Piece(U(48, 48, 56, 48), <<194, 128>>), Piece(U(48, 55, 102, 102), <<223, 191>>),
   Piece(U(48, 56, 48, 48), <<224, 160, 128>>), Piece(U(70, 102, 70, 102), <<239, 191, 191>>),
   Piece(U(68, 56, 48, 48) \o U(68, 67, 48, 48), <<240, 144, 128, 128>>),
   Piece(U(100, 66, 70, 70) \o U(100, 102, 102, 102), <<244, 143, 191, 191>>)}

\* No letter, no digit, too short, zero, and halves of pairs.
Broken ==
  {Piece(t, None) :
      t \in {<<Backslash, 97>>, U(48, 71, 48, 48), <<Backslash, LetterU, 48>>, U(48, 48, 48, 48),
             U(100, 56, 51, 100) \o <<97>>, U(100, 56, 51, 100) \o U(48, 48, 54, 49),
             U(68, 70, 70, 70)}}

Literals == Escapes \cup Utf16 \cup Broken \cup {Piece(<<c>>, <<c>>) : c \in {97, Slash, 195}}

\* Behind the pieces comes the closing quote, or what leaves the string open.
Parses ==
  {[kind |-> "parse", pieces |-> s, closed |-> last = <<Quote>>,
    text |-> <<Quote>> \o FlattenSeq([i \in DOMAIN s |-> s[i].text]) \o last] :
      s \in UpTo(2, Literals), last \in {<<Quote>>, <<>>, <<Backslash>>}}
    \cup {[kind |-> "parse", pieces |-> <<>>, closed |-> FALSE, text |-> <<97, Quote>>]}

-----------------------------------------------------------------------------
(* Texts to be minified                                                    *)

Part(t, means, tokens, inside) ==
  [text |-> t, means |-> means, tokens |-> tokens, inside |-> inside]

\* a, a lone slash, a string with an escaped quote and comments in it, white
\* space, and comments with each other's signs and quotes in them; the last
\* two begin with /*/, so that the code ends them there.
Parts ==
  {Part(<<97>>, <<97>>, {1}, {}), Part(<<Slash, 97>>, <<Slash, 97>>, {1, 2}, {})}
    \cup {Part(t, t, {1}, inside) :
             <<t, inside>> \in {<<<<Quote, Backslash, Quote, Slash, Slash, Quote>>, {2, 4, 5, 6}>>,
                               <<<<Quote, Slash, Star, 32, Backslash, Backslash, Quote>>,
                                 {2, 3, 4, 5, 7}>>}}
    \cup {Part(t, <<>>, tokens, {}) :
             <<t, tokens>> \in {<<<<32>>, {1}>>, <<<<9, 13>>, {1, 2}>>,
                               <<<<Slash, Slash, Quote, Slash, Star, Newline>>, {1, 6}>>,
                               <<<<Slash, Star, Quote, Slash, Slash, Newline, Star, Slash>>, {1}>>,
                               <<<<Slash, Star, Slash, 97, Star, Slash>>, {1}>>,
                               <<<<Slash, Star, Slash, Quote, Star, Slash>>, {1}>>}}

\* What comes last: the NUL, behind a comment or not, or what leaves a string
\* or a comment open.
Endings == {Part(<<>>, <<>>, {1}, {}), Part(<<Slash, Slash, 97>>, <<>>, {1, 4}, {})}
Openings ==
  {Part(t, <<>>, {}, {}) : t \in {<<Quote>>, <<Quote, Backslash>>, <<Slash, Star>>,
                                 <<Slash, Star, Star>>}}

Joined(s) == FlattenSeq([i \in DOMAIN s |-> s[i].text])
Moved(s, i, positions) == {Len(Joined(SubSeq(s, 1, i - 1))) + n : n \in positions}

Minifies ==
  {LET all == Append(s, last)
   IN  [kind |-> "minify", pieces |-> s, closed |-> last \in Endings, text |-> Joined(all),
        tokens |-> UNION {Moved(all, i, all[i].tokens) : i \in DOMAIN all},
        inside |-> UNION {Moved(all, i, all[i].inside) : i \in DOMAIN all}] :
      s \in UpTo(3, Parts), last \in Endings \cup Openings}

MCJobs == Trips \cup Parses \cup Minifies

-----------------------------------------------------------------------------
(* Properties                                                              *)

Text(s) == FlattenSeq([i \in DOMAIN s |-> s[i].means])
Bad(s) == {i \in DOMAIN s : s[i].means = None}

\* Where the first part of the literal that means nothing begins.
FirstBad(s) == 2 + Len(FlattenSeq([i \in 1 .. Min(Bad(s)) - 1 |-> s[i].text]))

\* A literal that is accepted is closed and becomes the string that it means.
\* One that is rejected is not closed, or a part of it means nothing, or it is
\* no string; in a closed one the error pointer leads to that part, and to
\* what is no string.  Of the pointer for an open literal this says nothing:
\* it stays NULL, see ErrorPointerIsSet of MCCJsonText.
MeansWhatIsWritten ==
  job.kind = "parse" /\ ~starved =>
    /\ pc = "done" => job.closed /\ Bad(job.pieces) = {} /\ Result = Text(job.pieces)
    /\ pc = "failed" => IF job.text[1] # Quote THEN ep = 1
                        ELSE job.closed => Bad(job.pieces) # {} /\ ep = FirstBad(job.pieces)

\* Nothing but white space and comments is taken out of a text, and all of
\* these are; what looks like a comment in a string is not, nor the reverse.
\* It takes that no comment begins with /*/, as /*/ a */ does, of which
\* cJSON_Minify leaves a*/.
MinifyKeepsTheRest ==
  job.kind = "minify" /\ Readable(job) /\ pc = "done"
    => buf = Terminated(Text(job.pieces))
=============================================================================
