--------------------------- MODULE MCNssBindings ---------------------------
(***************************************************************************)
(* A small instance of NssBindings: strings of no and of one character.    *)
(***************************************************************************)
EXTENDS NssBindings

Lengths == {NIL, 0, 1}

UpTo(n) == UNION {[1 .. k -> Lengths] : k \in 0 .. n}

Conversion(kind, strings, members, isArray) ==
  [kind |-> kind, strings |-> strings, members |-> members, isArray |-> isArray]

MCConversions ==
  {Conversion("passwd", s, <<>>, FALSE) :
     s \in [1 .. 5 -> {NIL, 1}] \cup {<<0, 1, 0, 1, 0>>}}
    \cup {Conversion("shadow", s, <<>>, FALSE) : s \in [1 .. 2 -> Lengths]}
    \cup {Conversion("group", s, <<>>, FALSE) : s \in [1 .. 2 -> Lengths]}
    \cup {Conversion("group", s, m, TRUE) : s \in [1 .. 2 -> {NIL, 1}], m \in UpTo(2)}

\* Up to the room that the largest group needs, and one more.
MCSizes == 0 .. 37
=============================================================================
