---------------------------- MODULE MCCJsonText ----------------------------
(***************************************************************************)
(* CJsonText against the grammar of JSON and a recursive printer.          *)
(***************************************************************************)
EXTENDS CJsonText

-----------------------------------------------------------------------------
(* The instance.  A symbol that is a token of the parser starts that token, *)
(* ~ continues it.                                                          *)

Element(type, t, name, child, next) ==
  [type |-> type, text |-> t, name |-> name, child |-> child, next |-> next]

Long == <<"s">> \o [i \in 1 .. 20 |-> "~"]
Key == <<"s", "~">>

Leaves ==
  {<<Element(type, t, <<>>, NULL, NULL)>> :
      type \in {"Text", "Raw"}, t \in {<<"s", "~", "~">>, Long}}
    \cup {<<Element("Number", <<"v", "~">>, <<>>, NULL, NULL)>>,
          <<Element("Raw", NULL, <<>>, NULL, NULL)>>}
    \cup {<<Element(type, NULL, <<>>, NULL, NULL)>> : type \in {"Array", "Object"}}

\* An array and an object of two, the second being no text in some.
Pair(type, name, last) ==
  <<Element(type, NULL, <<>>, 2, NULL), Element("Number", <<"v">>, name, NULL, 3),
    Element(last, IF last = "Text" THEN <<"v">> ELSE NULL, name, NULL, NULL)>>

\* Containers within containers: [{"":1},[]] and {"":{"":1}}.
Nested ==
  {<<Element("Array", NULL, <<>>, 2, NULL), Element("Object", NULL, <<>>, 3, 4),
     Element("Number", <<"v">>, Key, NULL, NULL), Element("Array", NULL, <<>>, NULL, NULL)>>,
   <<Element("Object", NULL, <<>>, 2, NULL), Element("Object", NULL, Key, 3, NULL),
     Element("Number", <<"v">>, Key, NULL, NULL)>>}

MCTrees ==
  Leaves \cup Nested
    \cup {Pair("Array", <<>>, last) : last \in {"Text", "Raw", "Object"}}
    \cup {Pair("Object", Key, last) : last \in {"Text", "Invalid", "Array"}}

MCSizes == -1 .. 24
MCSymbols == {"v", "s", "~", "[", "]", "{", "}", ",", ":", "\t", "\n", " "}

-----------------------------------------------------------------------------
(* The grammar                                                             *)

RECURSIVE IsValue(_), IsList(_, _)
IsMember(t, named) ==
  IF named THEN Len(t) > 2 /\ t[1] = "s" /\ t[2] = ":" /\ IsValue(SubSeq(t, 3, Len(t)))
           ELSE IsValue(t)

IsList(t, named) ==
  \/ IsMember(t, named)
  \/ \E k \in 2 .. Len(t) - 1 :
       t[k] = "," /\ IsMember(SubSeq(t, 1, k - 1), named) /\ IsList(SubSeq(t, k + 1, Len(t)), named)

IsValue(t) ==
  \/ t = <<"v">> \/ t = <<"s">>
  \/ /\ Len(t) > 1
     /\ <<t[1], t[Len(t)]>> \in {<<"[", "]">>, <<"{", "}">>}
     /\ Len(t) = 2 \/ IsList(SubSeq(t, 2, Len(t) - 1), t[1] = "{")

\* The brackets that close what t leaves open, innermost first.
RECURSIVE Closers(_)
Closers(t) ==
  IF t = <<>> THEN <<>>
  ELSE LET before == Closers(SubSeq(t, 1, Len(t) - 1))
       IN  CASE t[Len(t)] = "[" -> <<"]">> \o before
             [] t[Len(t)] = "{" -> <<"}">> \o before
             [] t[Len(t)] \in {"]", "}"} /\ before # <<>> -> Tail(before)
             [] OTHER -> before

\* t can be continued to a value.
Viable(t) ==
  \E some \in {<<>>, <<"v">>, <<":", "v">>, <<"s", ":", "v">>} : IsValue(t \o some \o Closers(t))

-----------------------------------------------------------------------------
(* Trees as text                                                           *)

\* The tree that the parser has built.
RECURSIVE Show(_), ShowList(_)
Show(i) ==
  LET n == items[i]
  IN  CASE n.type = "Literal" -> <<"v">>
        [] n.type = "String" -> <<"s">>
        [] n.type = "Array" -> <<"[">> \o ShowList(n.child) \o <<"]">>
        [] n.type = "Object" -> <<"{">> \o ShowList(n.child) \o <<"}">>

ShowList(i) ==
  IF i = NULL THEN <<>>
  ELSE (IF items[i].string = NULL THEN <<>> ELSE <<"s", ":">>)
       \o Show(i)
       \o IF items[i].next = NULL THEN <<>> ELSE <<",">> \o ShowList(items[i].next)

\* The text of item i of the tree that is printed, depth containers deep, if
\* it is formatted or not; members are those from i on.
RECURSIVE Render(_, _, _), Members(_, _, _)
Render(i, depth, pretty) ==
  LET n == tree[i]
      Broken(s) == IF pretty THEN s ELSE <<>>
  IN  CASE n.type = "Array" -> <<"[">> \o Members(n.child, depth, pretty) \o <<"]">>
        [] n.type = "Object" ->
             <<"{">> \o Broken(<<"\n">>) \o Members(n.child, depth + 1, pretty)
             \o Broken([k \in 1 .. depth |-> "\t"]) \o <<"}">>
        [] OTHER -> n.text

Members(i, depth, pretty) ==
  IF i = NULL THEN <<>>
  ELSE LET n == tree[i]
           comma == IF n.next = NULL THEN <<>> ELSE <<",">>
       IN  IF n.name = <<>>
             THEN Render(i, depth + 1, pretty)
                  \o comma \o (IF pretty /\ n.next # NULL THEN <<" ">> ELSE <<>>)
                  \o Members(n.next, depth, pretty)
             ELSE (IF pretty THEN [k \in 1 .. depth |-> "\t"] ELSE <<>>)
                  \o n.name \o <<":">> \o (IF pretty THEN <<"\t">> ELSE <<>>)
                  \o Render(i, depth, pretty) \o comma
                  \o (IF pretty THEN <<"\n">> ELSE <<>>)
                  \o Members(n.next, depth, pretty)

-----------------------------------------------------------------------------
(* Properties of the printer                                               *)

Printable == tree # NULL /\ ~Printer!Textless /\ ~Printer!Untyped

\* What is returned, or left in the buffer of the caller, is the text of the
\* tree, whatever buffer it was printed into and how often that was moved.
TextIsTheTree ==
  out # NULL /\ ~crash => Printable /\ Printed = Render(1, 0, format)

\* Printing into the caller's buffer succeeds if that has two bytes more than
\* the text, and not if the text and its NUL do not fit; cJSON.h asks for five
\* more.  The others fail only without memory or for a text near INT_MAX.
FailsOnlyForRoom ==
  at = "done" /\ ~crash /\ Printable /\ ~short /\ size >= 0 =>
    LET length == Len(Render(1, 0, format))
    IN  /\ mode = "preallocated" => /\ size >= length + 2 => out # NULL
                                    /\ size < length + 1 => out = NULL
        /\ mode # "preallocated" /\ length + 2 <= INT_MAX => out # NULL

\* A tree is printed as it is, and it is printed if there is room.
PrintsTheTree == TextIsTheTree /\ FailsOnlyForRoom

-----------------------------------------------------------------------------
(* Properties of the parser                                                *)

Before(k) == SubSeq(text, 1, k - 1)

\* A tree that is returned is the one that the consumed text describes, and
\* nothing is behind that text if the caller asked for that.
ReturnsWhatIsWritten ==
  result # NULL => Show(result) = Before(pos) /\ (require => Token = "end")

\* Unless memory runs out, a text is rejected only if no beginning of it is a
\* value, or if something follows and the caller does not want that.
RejectsOnlyNonsense ==
  pc = "done" /\ result = NULL /\ ~starved /\ text # NULL
    => \A k \in DOMAIN text : IsValue(SubSeq(text, 1, k)) => require /\ text[k + 1] # "end"

\* A text that can be no value, whether for a token that must not follow what
\* is in front of it, for an unknown escape, or for what is behind the value,
\* is answered with a pointer to the first such token, unless memory ran out;
\* and a pointer that is set leads nowhere else.  Of a string that is not
\* closed and a sign without digits this says nothing: see ErrorPointerIsSet.
ErrorIsLocated ==
  pc = "done" /\ result = NULL /\ text # NULL =>
    /\ ~starved /\ Token \notin {"open", "-"} => ep # NULL
    /\ ep # NULL => IF IsValue(Before(ep)) THEN require /\ text[ep] # "end"
                    ELSE Viable(Before(ep)) /\ ~Viable(Before(ep + 1))

\* What cJSON_ParseWithOpts has of a failed parse, "parse failure. ep is set.",
\* and cJSON.h of cJSON_GetErrorPtr: "Defined when cJSON_Parse() returns 0.  0
\* when cJSON_Parse() succeeds."  It does not hold of a string that is not
\* closed and of a number without digits: parse_string and parse_number return
\* NULL without setting ep, as if the parse had succeeded.
ErrorPointerIsSet ==
  pc = "done" /\ result = NULL /\ text # NULL /\ ~starved => ep # NULL

-----------------------------------------------------------------------------
(* Properties of both                                                      *)

\* A printed tree is parsed to the same tree, unless memory runs out.
RoundTrip ==
  pc = "done" /\ tree # NULL /\ text # NULL /\ ~starved
    => result # NULL /\ Show(result) = TokensOf(Render(1, 0, FALSE))

\* A text is answered with its tree or with its mistake.
AnswerIsRight == ReturnsWhatIsWritten /\ RejectsOnlyNonsense /\ ErrorIsLocated /\ RoundTrip

\* Every tree that can be printed without leaving the buffer and every text
\* is answered: each turn of the loops takes an item or a token, each failure
\* leaves a call.
EveryTextIsAnswered == <>(pc = "done" \/ crash)
=============================================================================
