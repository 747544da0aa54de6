------------------------------ MODULE CJsonPrint ------------------------------
(***************************************************************************)
(* The printer of cJSON.c: print_value and what it calls, writing to a     *)
(* printbuffer that is grown as needed, under the three functions that     *)
(* provide the buffer.  The recursion is a stack with a frame for each     *)
(* call of print_array or print_object, so that depth is its length.       *)
(*                                                                         *)
(* The buffer is what each of its bytes holds: a symbol of the text, NUL,  *)
(* or JUNK where nothing has been written.                                 *)
(***************************************************************************)
EXTENDS Integers, Sequences, FiniteSetsExt

CONSTANTS
  NULL,      \* the null pointer
  NUL,       \* the byte that ends a string
  JUNK,      \* a byte that has not been written
  INT_MAX,   \* the largest int
  Initial,   \* the size of the buffer that print starts with
  Sizes,     \* the sizes a caller may ask for, or provide a buffer of
  Symbols,   \* what texts and names are made of
  Trees      \* what may be printed, see TreeAssumption

\* A tree is a sequence of items, of which the first is the root; text is
\* what the item's value looks like (NULL if valuestring is), name is its
\* name with the quotes.  Text stands for everything but numbers that is not
\* a container.
Types == {"Text", "Number", "Raw", "Array", "Object", "Invalid"}
Nodes ==
  [type : Types, text : Seq(Symbols) \cup {NULL}, name : Seq(Symbols),
   child : Nat \cup {NULL}, next : Nat \cup {NULL}]

TreeAssumption ==
  /\ Trees \subseteq Seq(Nodes) \ {<<>>}
  /\ \A t \in Trees : \A i \in DOMAIN t :
       /\ {t[i].child, t[i].next} \subseteq i + 1 .. Len(t) \cup {NULL}
       /\ t[i].type = "Number" => t[i].text # NULL

\* What a byte of the buffer may hold.
Byte == Symbols \cup {NUL, JUNK}

PrintAssumption ==
  /\ NULL \notin Nat \cup Seq(Byte)
  /\ {"[", "]", "{", "}", ",", ":", "\t", "\n", " "} \subseteq Symbols
  /\ NUL \notin Symbols /\ JUNK \notin Symbols /\ NUL # JUNK
  /\ INT_MAX \in Nat /\ Initial \in 1 .. INT_MAX
  /\ Sizes \subseteq Int /\ \A s \in Sizes : s <= INT_MAX

VARIABLES
  tree,     \* what is printed, or NULL
  mode,     \* cJSON_Print, cJSON_PrintBuffered or cJSON_PrintPreallocated
  format,   \* whether the text is formatted
  size,     \* prebuffer, or the length of the caller's buffer
  hooks,    \* whether there is a reallocate
  p,        \* the printbuffer
  calls,    \* the calls of print_array and print_object
  at,       \* where the innermost call is
  out,      \* the text that is returned, or that is left in the caller's buffer
  blocks,   \* how many blocks of memory are allocated
  crash,    \* other memory has been used, or a block freed twice
  short     \* history: an allocation has failed

vars == <<tree, mode, format, size, hooks, p, calls, at, out, blocks, crash, short>>
args == <<tree, mode, format, size, hooks>>

Init ==
  /\ tree \in Trees \cup {NULL}
  /\ mode \in {"print", "buffered", "preallocated"}
  /\ format \in BOOLEAN
  /\ size \in IF mode = "print" THEN {0} ELSE Sizes
  /\ hooks \in BOOLEAN
  /\ p = [buffer |-> NULL, length |-> 0, offset |-> 0, freed |-> FALSE]
  /\ calls = <<>>
  /\ at = "begin"
  /\ out = NULL
  /\ blocks = 0
  /\ crash = FALSE
  /\ short = FALSE

-----------------------------------------------------------------------------
(* The printbuffer                                                         *)

Bytes(n) == [i \in 1 .. n |-> JUNK]

\* Where the string at the offset ends; update_offset moves the offset there.
Ends == {i \in p.offset + 1 .. Len(p.buffer) : p.buffer[i] = NUL}
IsString == Ends # {} /\ \A i \in p.offset + 1 .. Min(Ends) : p.buffer[i] # JUNK

\* A variant of Needed that does not count the NUL.
NeededTight(n) == n + p.offset
Needed(n) == n + p.offset + 1

NewSize(n) == IF Needed(n) > INT_MAX \div 2 THEN INT_MAX ELSE 2 * Needed(n)

\* The bytes that a reallocation keeps: all, or, without a reallocate, those
\* in front of the offset and one more.
Kept == IF hooks THEN Len(p.buffer) ELSE p.offset + 1

\* A variant of Grown that copies nothing when it reallocates by hand.
GrownEmpty(n) ==
  [p EXCEPT !.length = NewSize(n),
            !.buffer = [i \in 1 .. NewSize(n) |->
                          IF hooks /\ i <= Len(p.buffer) THEN p.buffer[i] ELSE JUNK]]

Grown(n) ==
  [p EXCEPT !.length = NewSize(n),
            !.buffer = [i \in 1 .. NewSize(n) |->
                          IF i <= Kept /\ i <= Len(p.buffer) THEN p.buffer[i] ELSE JUNK]]

Refuses(n) ==
  \/ p.buffer = NULL
  \/ p.length > 0 /\ p.offset >= p.length
  \/ n > INT_MAX
  \/ Needed(n) > p.length /\ (mode = "preallocated" \/ Needed(n) > INT_MAX)

\* What ensure may do: the printbuffer, whether its answer is not NULL, the
\* blocks it frees, whether memory ran out, and whether it leaves its memory.
\* When reallocate fails the old buffer is lost, and the answer is the offset.
Ensure(n) ==
  LET Does(q, answers, frees, fails, bad) ==
        [p |-> q, answers |-> answers, frees |-> frees, fails |-> fails, bad |-> bad]
  IN  IF Refuses(n) THEN {Does(p, FALSE, 0, FALSE, FALSE)}
      ELSE IF Needed(n) <= p.length THEN {Does(p, TRUE, 0, FALSE, FALSE)}
      ELSE {Does(Grown(n), TRUE, 0, FALSE, ~hooks /\ Kept > Len(p.buffer)),
            IF hooks THEN Does([p EXCEPT !.buffer = NULL, !.length = NewSize(n)],
                               p.offset > 0, 0, TRUE, FALSE)
                     ELSE Does([p EXCEPT !.buffer = NULL, !.length = 0], FALSE, 1, TRUE, FALSE)}

\* A call of ensure, and its caller, which returns false when the answer is
\* NULL, and otherwise writes symbols at the offset and moves that.
Emit(n, symbols, advance, frames, step) ==
  \E e \in Ensure(n) :
    /\ blocks' = blocks - e.frees
    /\ short' = (short \/ e.fails)
    /\ IF e.answers
         THEN /\ p' = [e.p EXCEPT !.offset = @ + advance,
                        !.buffer = IF @ = NULL THEN NULL
                                   ELSE [i \in DOMAIN @ |->
                                           IF i - p.offset \in DOMAIN symbols
                                           THEN symbols[i - p.offset] ELSE @[i]]]
              /\ crash' = (e.bad \/ e.p.buffer = NULL
                                 \/ p.offset + Len(symbols) > Len(e.p.buffer))
              /\ calls' = frames /\ at' = step
         ELSE /\ p' = e.p /\ crash' = e.bad
              /\ at' = "false" /\ UNCHANGED calls
    /\ UNCHANGED <<args, out>>

-----------------------------------------------------------------------------
(* print_value and what it calls                                           *)

Top == calls[Len(calls)]
Pop == SubSeq(calls, 1, Len(calls) - 1)
Item == tree[IF calls = <<>> THEN 1 ELSE Top.current]

\* No item is printed like one that is of no type.
Type == IF tree = NULL THEN "Invalid" ELSE Item.type

\* The frames when the loop of a container is at the item c, and the first
\* step of that turn.
Turn(frames, type, c) == Append(frames, [type |-> type, current |-> c])
Step(type, c) ==
  IF c = NULL THEN "close"
  ELSE IF type = "Array" THEN "value" ELSE IF format THEN "indent" ELSE "key"

Pretty(symbols) == IF format THEN symbols ELSE <<>>
Tabs(n) == [i \in 1 .. n |-> "\t"]
Terminated(symbols) == Append(symbols, NUL)

\* null, false, true and raw text; strings, with print_string_ptr.
PrintText ==
  /\ at = "value" /\ Type \in {"Text", "Raw"} /\ Item.text # NULL
  /\ Emit(Len(Item.text) + 1, Terminated(Item.text), 0, calls, "printed")

PrintNumber ==
  /\ at = "value" /\ Type = "Number"
  /\ Emit(Len(Item.text), Terminated(Item.text), Len(Item.text), calls, "printed")

\* Raw without text frees the buffer; what is no item, or of no type, does not.
PrintNothing ==
  /\ at = "value"
  /\ at' = "false"
  /\ \/ /\ Type = "Raw" /\ Item.text = NULL
        /\ IF mode = "preallocated" THEN UNCHANGED <<p, blocks>>
           ELSE p' = [p EXCEPT !.freed = TRUE] /\ blocks' = blocks - 1
     \/ Type = "Invalid" /\ UNCHANGED <<p, blocks>>
  /\ UNCHANGED <<args, calls, out, crash, short>>

OpenArray ==
  /\ at = "value" /\ Type = "Array"
  /\ Emit(1, <<"[">>, 1, Turn(calls, "Array", Item.child), Step("Array", Item.child))

OpenObject ==
  /\ at = "value" /\ Type = "Object"
  /\ LET symbols == <<"{">> \o Pretty(<<"\n">>)
     IN  Emit(Len(symbols) + 1, symbols, Len(symbols),
              Turn(calls, "Object", Item.child), Step("Object", Item.child))

\* depth + 1 is the number of frames.
Indent ==
  /\ at = "indent"
  /\ Emit(Len(calls), Tabs(Len(calls)), Len(calls), calls, "key")

PrintKey ==
  /\ at = "key"
  /\ Emit(Len(Item.name) + 1, Terminated(Item.name), 0, calls, "named")

PrintColon ==
  /\ at = "colon"
  /\ LET symbols == <<":">> \o Pretty(<<"\t">>)
     IN  Emit(Len(symbols), symbols, Len(symbols), calls, "value")

\* update_offset, behind each name and each value but the root of a buffer
\* that the caller chose.
UpdateOffset ==
  /\ \/ at = "named" /\ at' = "colon"
     \/ at = "printed" /\ (calls # <<>> \/ mode = "print") /\ at' = "more"
  /\ IF IsString THEN p' = [p EXCEPT !.offset = Min(Ends) - 1] /\ UNCHANGED crash
                 ELSE crash' = TRUE /\ UNCHANGED p
  /\ UNCHANGED <<args, calls, out, blocks, short>>

\* The end of a turn of the loops.
More ==
  /\ at = "more" /\ calls # <<>>
  /\ LET type == Top.type
         comma == IF Item.next = NULL THEN <<>> ELSE <<",">>
         symbols == comma \o Pretty(<<IF type = "Array" THEN " " ELSE "\n">>)
         frames == Turn(Pop, type, Item.next)
     IN  IF type = "Array" /\ Item.next = NULL
           THEN calls' = frames /\ at' = "close" /\ UNCHANGED <<args, p, out, blocks, crash, short>>
           ELSE Emit(Len(symbols) + 1, Terminated(symbols), Len(symbols),
                     frames, Step(type, Item.next))

Close ==
  /\ at = "close"
  /\ LET symbols == IF Top.type = "Array" THEN <<"]">>
                    ELSE Pretty(Tabs(Len(calls) - 1)) \o <<"}">>
     IN  Emit(Len(symbols) + 1, Terminated(symbols), 0, Pop, "printed")

-----------------------------------------------------------------------------
(* cJSON_Print, cJSON_PrintUnformatted, cJSON_PrintBuffered and             *)
(* cJSON_PrintPreallocated                                                 *)

Begin ==
  /\ at = "begin"
  /\ \/ /\ size >= 0
        /\ p' = [p EXCEPT !.buffer = Bytes(IF mode = "print" THEN Initial ELSE size),
                          !.length = IF mode = "print" THEN 0 ELSE size]
        /\ blocks' = IF mode = "preallocated" THEN 0 ELSE 1
        /\ at' = "value"
        /\ UNCHANGED short
     \/ /\ size < 0 \/ mode # "preallocated"
        /\ short' = (size >= 0)
        /\ at' = "done"
        /\ UNCHANGED <<p, blocks>>
  /\ UNCHANGED <<args, calls, out, crash>>

\* The text is copied to a block of its own size.
Copy ==
  /\ at = "more" /\ calls = <<>>
  /\ \/ /\ out' = Terminated(SubSeq(p.buffer, 1, Min({p.length, p.offset})))
        /\ UNCHANGED <<blocks, short>>
     \/ short' = TRUE /\ blocks' = blocks - 1 /\ UNCHANGED out
  /\ at' = "done"
  /\ UNCHANGED <<args, p, calls, crash>>

GiveBuffer ==
  /\ at = "printed" /\ calls = <<>> /\ mode # "print"
  /\ out' = p.buffer
  /\ at' = "done"
  /\ UNCHANGED <<args, p, calls, blocks, crash, short>>

\* A variant of Fail that frees nothing.
FailKeeping ==
  /\ at = "false"
  /\ at' = "done" /\ calls' = <<>>
  /\ UNCHANGED <<args, p, out, blocks, crash, short>>

\* print frees its buffer; PrintBuffered does not.
Fail ==
  /\ at = "false"
  /\ at' = "done" /\ calls' = <<>>
  /\ IF mode = "print" /\ p.buffer # NULL
       THEN blocks' = blocks - 1 /\ crash' = p.freed
       ELSE UNCHANGED <<blocks, crash>>
  /\ UNCHANGED <<args, p, out, short>>

Next ==
  /\ ~crash
  /\ \/ Begin \/ PrintText \/ PrintNumber \/ PrintNothing \/ OpenArray \/ OpenObject
     \/ Indent \/ PrintKey \/ PrintColon \/ UpdateOffset \/ More \/ Close
     \/ Copy \/ GiveBuffer \/ Fail

Spec == Init /\ [][Next]_vars /\ WF_vars(Next)

-----------------------------------------------------------------------------
(* Properties                                                              *)

TypeOK ==
  /\ tree \in Trees \cup {NULL}
  /\ mode \in {"print", "buffered", "preallocated"}
  /\ p \in [buffer : Seq(Byte) \cup {NULL}, length : 0 .. INT_MAX, offset : 0 .. INT_MAX,
            freed : BOOLEAN]
  /\ p.buffer # NULL => Len(p.buffer) <= INT_MAX
  /\ calls \in Seq([type : {"Array", "Object"}, current : Nat \cup {NULL}])
  /\ out \in Seq(Byte) \cup {NULL}
  /\ blocks \in -1 .. 1
  /\ {format, hooks, crash, short} \subseteq BOOLEAN

\* An item that cannot be printed: cJSON_Raw without text, or of no type.
Textless == tree # NULL /\ \E i \in DOMAIN tree : tree[i].type = "Raw" /\ tree[i].text = NULL
Untyped == tree # NULL /\ \E i \in DOMAIN tree : tree[i].type = "Invalid"

\* Whatever the tree and whatever the sizes, each piece of text is written
\* into the buffer that was reserved for it, and update_offset finds the end
\* of what was written.  It takes a failing reallocate (whose answer is NULL
\* plus the offset), raw without text (of which the buffer is freed twice), or
\* an empty buffer that is grown by hand to leave the buffer.
WritesStayInside ==
  crash => \/ short /\ hooks
           \/ Textless /\ mode = "print"
           \/ ~hooks /\ mode = "buffered" /\ size = 0

\* In the end only the text that is returned is allocated.  What is lost is
\* the buffer of PrintBuffered when it fails, and the one that reallocate
\* could not grow.
OnlyTheTextIsLeft ==
  at = "done" /\ ~crash
    => \/ blocks = IF out = NULL \/ mode = "preallocated" THEN 0 ELSE 1
       \/ out = NULL /\ mode = "buffered"
       \/ short /\ hooks
=============================================================================
