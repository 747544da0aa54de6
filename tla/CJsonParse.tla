------------------------------ MODULE CJsonParse ------------------------------
(***************************************************************************)
(* The parser of cJSON.c and the memory it holds.  The recursion of        *)
(* parse_value, parse_array and parse_object is a stack with a frame for   *)
(* each call of the latter two.                                            *)
(*                                                                         *)
(* A text is a sequence of tokens; the white space that every one of these *)
(* functions skips in front of a token is left out.  The input is decided  *)
(* when the parser first looks at it (Supply), so that all texts with a    *)
(* given beginning share what is done up to there.  parse_string counts    *)
(* as one step here; CJsonString is about its characters.                  *)
(***************************************************************************)
EXTENDS Integers, Sequences, FiniteSetsExt

CONSTANTS
  NULL,        \* the null pointer
  MaxTokens,   \* bound on the tokens in front of the end of a text
  MaxItems,    \* the memory: how many items can be allocated,
  MaxStrings   \* and how many strings

ParseAssumption ==
  /\ {MaxTokens, MaxItems, MaxStrings} \subseteq Nat
  /\ NULL \notin Nat

\* v is null, true, false or a number, s a string, - a sign without a number.
\* A string may lack its closing quote (open) or hold an unknown escape
\* sequence (escape).  other is any other character, end the final NUL.
Tokens == {"v", "s", "[", "]", "{", "}", ",", ":", "-", "open", "escape", "other", "end"}

VARIABLES
  text,      \* the input, as far as it has been looked at; NULL for none
  pos,       \* input: the next token
  require,   \* require_null_terminated
  items,     \* what is at each address of an item
  strings,   \* whether the string at each address is fresh, live or freed
  stack,     \* the calls of parse_array and parse_object
  pc,        \* where the innermost call is
  ep,        \* the global error pointer; return_parse_end is NULL here
  result,    \* what cJSON_ParseWithOpts returns
  fault,     \* memory was freed that was not allocated
  starved    \* history: an allocation has failed

vars == <<text, pos, require, items, strings, stack, pc, ep, result, fault, starved>>

Item == 1 .. MaxItems
String == 1 .. MaxStrings
Root == 1

Node(status) ==
  [status |-> status, type |-> "Invalid", next |-> NULL, prev |-> NULL, child |-> NULL,
   valuestring |-> NULL, string |-> NULL]

InitWith(input) ==
  /\ text = input
  /\ pos = 1
  /\ require \in BOOLEAN
  /\ items = [i \in Item |-> Node("fresh")]
  /\ strings = [s \in String |-> "fresh"]
  /\ stack = <<>>
  /\ pc = "begin"
  /\ ep = NULL
  /\ result = NULL
  /\ fault = FALSE
  /\ starved = FALSE

Init == \E input \in {<<>>, NULL} : InitWith(input)

-----------------------------------------------------------------------------
(* Memory.  An address is handed out once, so that each use of freed        *)
(* memory is noticed.                                                       *)

Live == {i \in Item : items[i].status = "live"}
FreshItems == {i \in Item : items[i].status = "fresh"}
FreshStrings == {s \in String : strings[s] = "fresh"}

Leads(i, j) == j \in {items[i].next, items[i].child}

\* The items that cJSON_Delete visits: the least set that holds c and what
\* its members lead to.
Subtree(c) ==
  {i \in Item : \A S \in SUBSET Item :
     c \in S /\ (\A j \in S, k \in Item : Leads(j, k) => k \in S) => i \in S}

Texts(i) == {items[i].valuestring, items[i].string} \ {NULL}

Delete(c) ==
  LET gone == Subtree(c)
      texts == UNION {Texts(i) : i \in gone}
  IN  /\ items' = [i \in Item |-> IF i \in gone THEN [items[i] EXCEPT !.status = "freed"]
                                               ELSE items[i]]
      /\ strings' = [s \in String |-> IF s \in texts THEN "freed" ELSE strings[s]]
      /\ fault' = (fault \/ (\E i \in gone : items[i].status # "live")
                         \/ (\E s \in texts : strings[s] # "live"))

\* cJSON_Delete(NULL), and the tests for NULL in front of it.
DeleteIfAny(c) == IF c = NULL THEN UNCHANGED <<items, strings, fault>> ELSE Delete(c)

-----------------------------------------------------------------------------
(* Control                                                                 *)

Top == stack[Len(stack)]
Pop == SubSeq(stack, 1, Len(stack) - 1)

\* The item that parse_value fills.
Target == IF stack = <<>> THEN Root ELSE Top.current

Known == text # NULL /\ pos <= Len(text)
Token == text[pos]

Closing(type) == IF type = "Array" THEN "]" ELSE "}"

memory == <<items, strings, fault, starved>>
call == <<require, result>>

\* The environment decides the next token.
Supply ==
  /\ pc \notin {"begin", "fail", "done"} /\ text # NULL /\ pos > Len(text)
  /\ \E t \in IF pos > MaxTokens THEN {"end"} ELSE Tokens : text' = Append(text, t)
  /\ UNCHANGED <<pos, memory, call, stack, pc, ep>>

\* Control goes on behind the current token.
Advance(next) == pos' = pos + 1 /\ pc' = next /\ UNCHANGED ep

\* The functions return NULL; the error pointer is set to e.
FailAt(e) == pc' = "fail" /\ ep' = e /\ UNCHANGED pos

\* cJSON_ParseWithOpts up to its call of parse_value.
Begin ==
  /\ pc = "begin"
  /\ \/ /\ FreshItems # {}
        /\ items' = [items EXCEPT ![Root] = Node("live")]
        /\ pc' = IF text = NULL THEN "fail" ELSE "value"
        /\ UNCHANGED starved
     \/ starved' = TRUE /\ pc' = "done" /\ UNCHANGED items
  /\ ep' = NULL
  /\ UNCHANGED <<text, pos, call, strings, stack, fault>>

ParseLiteral ==
  /\ pc = "value" /\ Known /\ Token = "v"
  /\ items' = [items EXCEPT ![Target].type = "Literal"]
  /\ Advance("after")
  /\ UNCHANGED <<text, call, strings, stack, fault, starved>>

\* parse_string when it succeeds, with the field that the string ends up in;
\* without memory it leaves the error pointer.
TakeString(field, next) ==
  /\ Known /\ Token = "s"
  /\ \/ /\ FreshStrings # {}
        /\ strings' = [strings EXCEPT ![Min(FreshStrings)] = "live"]
        /\ items' = [items EXCEPT ![Target].type = "String",
                                     ![Target][field] = Min(FreshStrings)]
        /\ Advance(next)
        /\ UNCHANGED starved
     \/ starved' = TRUE /\ FailAt(ep) /\ UNCHANGED <<items, strings>>
  /\ UNCHANGED <<text, call, stack, fault>>

ParseString ==
  /\ pc = "value"
  /\ TakeString("valuestring", "after")

\* A variant of ParseName that does not move the string to the name.
ParseNameInPlace ==
  /\ pc = "name"
  /\ TakeString("valuestring", "colon")

\* The name of a member, moved from valuestring to string.
ParseName ==
  /\ pc = "name"
  /\ TakeString("string", "colon")

\* Where a string must begin: an unknown escape is found when the output has
\* been allocated, which is then freed.
BadString ==
  \/ Token = "open" /\ FailAt(ep) /\ UNCHANGED starved
  \/ Token = "escape" /\ FailAt(pos) /\ UNCHANGED starved
  \/ Token = "escape" /\ FailAt(ep) /\ starved' = TRUE

RejectName ==
  /\ pc = "name" /\ Known
  /\ \/ BadString
     \/ Token \notin {"s", "open", "escape"} /\ FailAt(pos) /\ UNCHANGED starved
  /\ UNCHANGED <<text, call, items, strings, stack, fault>>

RejectValue ==
  /\ pc = "value" /\ Known
  /\ \/ BadString
     \/ Token = "-" /\ FailAt(ep) /\ UNCHANGED starved
     \/ Token \in {"]", "}", ",", ":", "other", "end"} /\ FailAt(pos) /\ UNCHANGED starved
  /\ UNCHANGED <<text, call, items, strings, stack, fault>>

\* The entry of parse_array or parse_object.
Open(token, type) ==
  /\ pc = "value" /\ Known /\ Token = token
  /\ stack' = Append(stack, [type |-> type, item |-> Target, head |-> NULL, current |-> NULL])
  /\ Advance("first")
  /\ UNCHANGED <<text, call, memory>>

\* Not the closing bracket: the first element begins here.
First ==
  /\ pc = "first" /\ Known /\ Token # Closing(Top.type)
  /\ pc' = "element"
  /\ UNCHANGED <<text, pos, call, memory, stack, ep>>

\* The list of the frame with one item more.
Linked(new) ==
  IF Top.head = NULL THEN [items EXCEPT ![new] = Node("live")]
  ELSE [items EXCEPT ![new] = [Node("live") EXCEPT !.prev = Top.current],
                     ![Top.current].next = new]

NewElement ==
  /\ pc = "element"
  /\ \/ /\ FreshItems # {}
        /\ LET new == Min(FreshItems)
           IN  /\ items' = Linked(new)
               /\ stack' = Append(Pop, [Top EXCEPT !.current = new,
                                          !.head = IF @ = NULL THEN new ELSE @])
        /\ pc' = IF Top.type = "Array" THEN "value" ELSE "name"
        /\ UNCHANGED starved
     \/ starved' = TRUE /\ pc' = "fail" /\ UNCHANGED <<items, stack>>
  /\ UNCHANGED <<text, pos, call, strings, ep, fault>>

ParseColon ==
  /\ pc = "colon" /\ Known
  /\ IF Token = ":" THEN Advance("value") ELSE FailAt(pos)
  /\ UNCHANGED <<text, call, memory, stack>>

\* Behind an element: another one, or an error; Close is the third case.
AfterElement ==
  /\ pc = "after" /\ stack # <<>> /\ Known /\ Token # Closing(Top.type)
  /\ IF Token = "," THEN Advance("element") ELSE FailAt(pos)
  /\ UNCHANGED <<text, call, memory, stack>>

\* The label success: only now does the container own its list.
Close ==
  /\ pc \in {"first", "after"} /\ stack # <<>> /\ Known /\ Token = Closing(Top.type)
  /\ items' = [items EXCEPT ![Top.item].type = Top.type, ![Top.item].child = Top.head]
  /\ stack' = Pop
  /\ Advance("after")
  /\ UNCHANGED <<text, call, strings, fault, starved>>

\* A variant of FailFrame that leaves the list to whoever owns the container.
FailFrameKeeping ==
  /\ pc = "fail" /\ stack # <<>>
  /\ stack' = Pop
  /\ UNCHANGED <<text, pos, call, memory, pc, ep>>

\* A variant of FailFrame that does not return.
FailFrameAgain ==
  /\ pc = "fail" /\ stack # <<>>
  /\ UNCHANGED <<text, pos, call, memory, stack, pc, ep>>

\* The label fail.
FailFrame ==
  /\ pc = "fail" /\ stack # <<>>
  /\ DeleteIfAny(Top.head)
  /\ stack' = Pop
  /\ UNCHANGED <<text, pos, call, pc, ep, starved>>

\* cJSON_ParseWithOpts behind parse_value.
FailRoot ==
  /\ pc = "fail" /\ stack = <<>>
  /\ Delete(Root)
  /\ pc' = "done"
  /\ UNCHANGED <<text, pos, call, stack, ep, starved>>

Finish ==
  /\ pc = "after" /\ stack = <<>> /\ Known
  /\ pc' = "done"
  /\ IF require /\ Token # "end"
       THEN Delete(Root) /\ ep' = pos /\ UNCHANGED result
       ELSE result' = Root /\ UNCHANGED <<items, strings, fault, ep>>
  /\ UNCHANGED <<text, pos, require, stack, starved>>

Next ==
  \/ Supply
  \/ Begin \/ ParseLiteral \/ ParseString \/ ParseName \/ RejectName \/ RejectValue
  \/ Open("[", "Array") \/ Open("{", "Object") \/ First \/ NewElement
  \/ ParseColon \/ AfterElement \/ Close \/ FailFrame \/ FailRoot \/ Finish

Spec == Init /\ [][Next]_vars /\ WF_vars(Next)

-----------------------------------------------------------------------------
(* Properties                                                              *)

Address(S) == S \cup {NULL}

TypeOK ==
  /\ text = NULL \/ text \in Seq(Tokens)
  /\ pos \in Nat \ {0}
  /\ items \in [Item -> [status : {"fresh", "live", "freed"},
                         type : {"Invalid", "Literal", "String", "Array", "Object"},
                         next : Address(Item), prev : Address(Item), child : Address(Item),
                         valuestring : Address(String), string : Address(String)]]
  /\ strings \in [String -> {"fresh", "live", "freed"}]
  /\ stack \in Seq([type : {"Array", "Object"}, item : Item,
                    head : Address(Item), current : Address(Item)])
  /\ pc \in {"begin", "value", "first", "element", "name", "colon", "after", "fail", "done"}
  /\ ep \in Address(Nat)
  /\ result \in {NULL, Root}
  /\ {require, fault, starved} \subseteq BOOLEAN

\* The pointers by which the running calls, and in the end the caller, hold
\* trees: the root, and the unfinished list of each frame.
Held ==
  IF pc \in {"begin", "done"} THEN {result} \ {NULL}
  ELSE {Root} \cup ({stack[k].head : k \in DOMAIN stack} \ {NULL})

\* Fields that hold an address, as pairs of an item and the field's name.
Fields(names) == {r \in Live \X names : items[r[1]][r[2]] # NULL}
Pointee(r) == items[r[1]][r[2]]
Distinct(refs) == \A r, s \in refs : Pointee(r) = Pointee(s) => r = s

\* At each moment, an item or a string that is allocated is held by exactly
\* one local variable or field.
EachIsHeldOnce ==
  LET links == Fields({"next", "child"})
      texts == Fields({"valuestring", "string"})
      linked == {Pointee(r) : r \in links}
  IN  /\ Distinct(links) /\ Distinct(texts)
      /\ Held \cap linked = {} /\ Held \cup linked = Live
      /\ {Pointee(r) : r \in texts} = {s \in String : strings[s] = "live"}

\* A parser that has returned has left the tree that it returned and its
\* texts, and nothing if that is NULL.
OnlyTheTreeIsLeft ==
  pc = "done" =>
    LET kept == IF result = NULL THEN {} ELSE Subtree(result)
    IN  Live = kept /\ {s \in String : strings[s] = "live"} = UNION {Texts(i) : i \in kept}

\* cJSON_Delete never meets an item or a string that is not allocated.
NoFault == ~fault

\* The lists, finished or not, can be walked both ways.
ListsAreLinked ==
  \A i \in Live :
    /\ items[i].next # NULL => items[items[i].next].prev = i
    /\ items[i].prev # NULL => items[items[i].prev].next = i

\* Wherever the text is wrong and whichever allocation fails, what is
\* allocated is held by one owner at a time, in lists that can be walked both
\* ways, until it is returned as part of the tree or freed, once.
EverythingIsHeldOnce ==
  TypeOK /\ EachIsHeldOnce /\ OnlyTheTreeIsLeft /\ NoFault /\ ListsAreLinked
=============================================================================
