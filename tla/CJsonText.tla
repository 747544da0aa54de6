------------------------------ MODULE CJsonText ------------------------------
(***************************************************************************)
(* Printer and parser on the same text: what is printed is handed to the   *)
(* parser, and other texts reach it from outside.                          *)
(***************************************************************************)
EXTENDS CJsonParse

\* The constants and the variables of CJsonPrint.
CONSTANTS NUL, JUNK, INT_MAX, Initial, Sizes, Symbols, Trees
VARIABLES tree, mode, format, size, hooks, p, calls, at, out, blocks, crash, short

Printer == INSTANCE CJsonPrint

ASSUME TextAssumption ==
  Printer!TreeAssumption /\ Printer!PrintAssumption /\ ParseAssumption

printing == <<tree, mode, format, size, hooks, p, calls, at, out, blocks, crash, short>>
textVars == <<printing, vars>>

\* A printer and a parser that waits for it with require_null_terminated, or
\* a parser alone, to which at says that there is a text.
TextInit ==
  \/ Printer!Init /\ InitWith(NULL) /\ require
  \/ /\ Init
     /\ tree = NULL /\ mode = "print" /\ format = FALSE /\ size = 0 /\ hooks = TRUE
     /\ p = [buffer |-> NULL, length |-> 0, offset |-> 0, freed |-> FALSE]
     /\ calls = <<>> /\ at = "handed" /\ out = NULL /\ blocks = 0
     /\ crash = FALSE /\ short = FALSE

\* The string that out begins with.
Printed == SubSeq(out, 1, Min({i \in DOMAIN out : out[i] = NUL}) - 1)

\* The tokens of s: the first symbol of what the parser takes for a token,
\* without white space.
TokensOf(s) ==
  LET tokens[n \in 0 .. Len(s)] ==
        IF n = 0 THEN <<>>
        ELSE IF s[n] \in Tokens THEN Append(tokens[n - 1], s[n]) ELSE tokens[n - 1]
  IN  tokens[Len(s)]

\* The printer's variables go out of scope, the tree is kept to compare.
Handover ==
  /\ at = "done" /\ ~crash
  /\ at' = "handed"
  /\ text' = IF out = NULL THEN NULL ELSE Append(TokensOf(Printed), "end")
  /\ mode' = "print" /\ format' = FALSE /\ size' = 0 /\ hooks' = TRUE
  /\ p' = [buffer |-> NULL, length |-> 0, offset |-> 0, freed |-> FALSE]
  /\ out' = NULL /\ blocks' = 0 /\ short' = FALSE
  /\ UNCHANGED <<tree, calls, crash, pos, require, items, strings, stack, pc, ep,
                 result, fault, starved>>

TextNext ==
  \/ Printer!Next /\ UNCHANGED vars
  \/ Handover
  \/ at = "handed" /\ Next /\ UNCHANGED printing

TextSpec == TextInit /\ [][TextNext]_textVars /\ WF_textVars(TextNext)

-----------------------------------------------------------------------------
(* Properties of the printer here                                          *)

\* What a printer writes stays where room was reserved for it.
WritesStayInside == Printer!TypeOK /\ Printer!WritesStayInside

\* What a printer allocates is given to the caller or freed.
OnlyTheTextIsLeft == Printer!OnlyTheTextIsLeft
=============================================================================
