# A verification of libnss-json

libnss-json is a glibc name service module: it answers `getpwnam`, `getpwent`
and their likes from a JSON document that a backend supplies. This directory
holds TLA+ modules translated from its C sources, the TLC configurations that
check them on small instances, and theorems about all of its
components that TLAPS has proved for every value of the constants.

Paths below are relative to `libnss-json/src/` unless they say otherwise.

## 1. The system

```
 program ── glibc ──> nss-json.c            statics: openResponse, openMatches, cursor
                        │   │  └─> nss-json-bindings.c   fills the caller's struct and buffer
                        │   └────> cJSON-utils.c         picks records out of the document
                        v
              _nss_json_handle_request      statics: firstRun, before, jsonCache, retvalCache
                        │                   (nss-json-impl.c)
                        v
                     delegate ──> config.c  statics: _options, _confisopen; /etc/nss-json.conf
                        └──> performRequest ──> libcurl ──> the backend
 cJSON.c is underneath all of them: parser, printer, trees, copies.
```

All interaction is by calls within one process. Nothing is locked, nothing is
persistent, and no callback leads back into the library (libcurl's `writefunc`
only appends to a buffer). The state that survives a call is the three sets of
statics above, and glibc allows any thread to enter at any time.

| Component | State | Operations | What makes it hard | What makes it correct |
|---|---|---|---|---|
| Enumeration calls, `nss-json.c` 74-118, 187-230 | `openResponse`, `openMatches`, `cursor` | `setXXent`, `getXXent_r`, `endXXent` for users and for groups | six calls in any order on the same three statics; references into a tree that another call frees; records that do not fit | every record of the database once and in order; nothing freed is read; nothing is lost; the walk ends |
| Keyed lookups, `nss-json.c` 121-184, 234-294 | none of their own | `getpwnam_r`, `getpwuid_r`, `getgrnam_r`, `getgrgid_r` | conversions between `uid_t`, `int` and JSON numbers; different keys are required by different searches | lookups and enumeration agree; a user found by name is found again by the id that was reported |
| Searches, `cJSON-utils.c`, and requests, `requestJson` | the heap, for one call | `_cJSON_Get{String,Int}Matches`, `_cJSON_ExtractSingleResult`, the request objects | a document that is an object, an array, something else, or missing; references that cannot be allocated | part of the two above; the trees built on the way are given back |
| Request handler, `nss-json-impl.c` 262-289 | `firstRun`, `before`, `jsonCache`, `retvalCache` | `_nss_json_handle_request` | threads between any two accesses; failed fetches; a clock that is CPU time | copies are private; each call sees the outcome of the last fetch; the backend is asked at most once per interval |
| Default backend, `nss-json-impl.c` 73-114, 200-231 | one buffer per transfer | `delegate`, `performRequest`, `writefunc` | documents in pieces; transfers that break off | a document is whole or there is none; only a failed transfer loses memory |
| Configuration, `config.c` | `_options`, `_confisopen`, the handlers of `atexit` | `readconfig`, `getcfg`, `cleanupconfig` | threads on one table; freed pointers that stay in it; clean-up again at exit; a file that is edited; keys that collide | values are freed once; a request follows the file as it is |
| Struct conversion, `nss-json-bindings.c` | the caller's buffer | `json2pwd`, `json2grp`, `json2shadow` | room, terminators, alignment, `size_t` that wraps | writes stay in the buffer and apart; success exactly when the record fits |
| Reverse conversion, `nss-json-bindings.c` 87-179 | none | `pwd2json`, `grp2json`, `shadow2json` | allocations that fail; called by the test driver alone | nothing is lost; every field and member is there |
| Trees, `cJSON.c` 80-179, 1530-2187 | the heap | create, add, refer, detach, insert, replace, copy, delete | who owns an item or a string after a sequence of calls; an allocation that fails halfway | one owner for everything; lists linked both ways; copies complete or without a trace |
| Parser, `cJSON.c` (`parse_*`, `utf16_literal_to_utf8`) | the heap, the error pointer | `cJSON_ParseWithOpts` and what it calls | half-built lists, names that are moved, escapes | rejected exactly if malformed; nothing lost on an error; ends |
| Printer and minifier, `cJSON.c` (`print_*`, `ensure`, `update_offset`) | a `printbuffer` | `cJSON_Print`, `cJSON_PrintBuffered`, `cJSON_PrintPreallocated`, `cJSON_Minify` | growth by doubling up to `INT_MAX`, lengths that are counted before they are written, work in place | writes stay in the buffer; the text is that of the tree |
| Superseded backends, `nss-json-impl.c` 122-196, 234-259 | one buffer | `delegate_old`, `read_json_old`, `read_data` | buffer growth; not called by the library | the document is whole; the NUL has room |
| Test driver, `main-test-nss-json.c` | none | `test_getpwent` and others | | a caller of the library |

`PROJECT.json` lists the hazards behind the fourth column, each at its line
and with the properties that watch it.

## 2. The modules

| Module | Models | Used by |
|---|---|---|
| `NssMatch` | what a document and its records are, the searches, the integer conversions | `NssEnum`, `NssLookup`, `Enumeration` |
| `Enumeration` | abstract: what walking a database promises, without cursor, references or memory | implemented by `NssEnum` |
| `NssEnum` | the enumeration calls and the memory they own | `MCNssEnum`, `NssCalls_proofs` |
| `NssLookup` | the keyed calls on one document | `MCNssLookup`, `NssCalls_proofs` |
| `NssCache` | request handler and backend, one shared access at a time, any number of threads | `MCNssCache`, `NssCache_proofs` |
| `NssConfig` | the configuration table under `delegate` in any number of threads, `exit` and an editor of the file | `MCNssConfig`, `MCNssDelegate`, `NssConfig_proofs` |
| `NssTransfer` | the buffers in which a document arrives, from libcurl and from a script | `MCNssDelegate`, `NssTransfer_proofs` |
| `NssBindings` | filling the caller's buffer | `MCNssBindings`, `MCNssLookup`, `NssBindings_proofs` |
| `CJsonMemory` | the functions of cJSON that create, link, copy and delete, as operators on memory | `CJsonTree`, `NssTrees` |
| `CJsonTree` | a client of those functions | `MCCJsonTree`, `CJsonTree_proofs` |
| `NssTrees` | the trees that the library builds: references, requests, records | `MCNssTrees`, `CJsonTree_proofs` |
| `CJsonParse` | the parser on tokens, and its memory | `CJsonText` |
| `CJsonPrint` | the printer and its buffer | `CJsonText` |
| `CJsonText` | printer and parser on the same text | `MCCJsonText`, `CJsonText_proofs` |
| `CJsonString` | strings and comments byte by byte: printing, parsing, minifying | `MCCJsonString`, `CJsonString_proofs` |

A module whose name begins with `MC` gives the constants the values of its run.
Two of them put halves side by side that share no memory, so that one half
moves and the other rests: `MCNssLookup` a keyed call (`NssLookup`) and the
conversion (`NssBindings`), `MCNssDelegate` the configuration (`NssConfig`) and
the transfer (`NssTransfer`).

`PROJECT.json` maps every definition that models code to its lines. In short:

**NssMatch.** A document is a type and a sequence of items; an item maps each
of the keys the library asks for to the attribute found under it. A reference
array is the set of the positions it refers to, because references are appended
in document order. `ValueInt` saturates as `parse_number` does; `AsInt` and
`AsUid` keep the bits between `uid_t` and `int`. `IsRecordOf` is the README's
definition of a record; the searches are not written in terms of it.

**NssEnum.** `heap` says what each address holds, so that freeing is visible:
`openResponse`, `openMatches` and `cursor` are addresses, and an address to
which one of them still points is not handed out again, so that any read
through a dangling pointer is noticed and sets `fault`. `SetEnt(db)` is one
whole call: free the old response, request, search, overwrite `openMatches`,
set the cursor. `GetEnt(db)` is split by what the cursor holds: nothing
(`GetEntAtEnd`), an item (`GetEntEntry`), or freed memory (`GetEntDangling`).
`EndEnt(db)` frees both trees and leaves the cursor. The database is a
parameter because the two sets of calls differ only in the keys they search.
`Next` is any caller; `PairedNext` is a caller who opens, reads and closes
before opening again, as `main-test-nss-json.c` does. Every call is one step, and
what two threads would do to the three statics inside of their calls is not
modelled.

A `getXXent_r` without a `setXXent` is answered with NOTFOUND here, as in the
code: whether glibc opens the database first is glibc's affair.

**NssLookup.** One action per keyed call: request, search, extract the only
match, convert. The conversion may stop at any string that does not fit, and then
leaves the struct with the name set, or with nothing (`Fillings`); the call
reports SUCCESS all the same. The request document is not part of the state, because the
default handler does not read it. `last` and `previous` hold the last two
answers from the same document; `Refresh` replaces the document.

**NssCache.** The statics are read and written one at a time. `Enter` reads the
clock; `TestFirstRun` takes the branch, with `firstRun` and `before` read at once
(once `firstRun` is false it stays so, and then `before` alone decides);
`ClearFirstRun`, `DeleteCache`,
`NullCache`, `Fetch`, `SetStatus` and `Stamp` are the refill; `ReadCache` and
`CopyTree` are the duplication, whose argument is read before the tree is
walked, and which may run out of memory, deletes what it has copied, and leaves
the call with SUCCESS and no document (`CopyFailed`, recorded in `starved`);
`Return` and `Release` end the call and the caller's use of the copy. A
tree is identified by the moment at which the backend was asked for it, which is
all that the properties tell apart. Time is that of `clock()`, which is the
CPU time of the process. Fetches in progress are `Fetch` alone: the outcome
is a document or nothing.

**NssConfig.** A value is an address; a key is the sum of its (signed)
characters, of which `TextHash` takes the remainder as C does. The table is
shared, and each thread has its place in `delegate` and its own locals.
`Free`, `Forget`, `Open`, `ReadLine` and `EndOfFile` are `readconfig`;
`GetUrl`, `GetFlags`, `UseUrl` and `Clean` are the rest of `delegate`; `Exit`
begins to run the registered handlers, also in the middle of a request, and
`RunHandler` is one of them; `Edit` changes the file between any two steps.
`malloc` may fail.

**NssTransfer.** `Render` to `Cleanup` are `performRequest`: `WriteFunc` is
one piece of the document, of any size, after any of which `Transferred` may
report a failure. `Popen` to `Answer` are `delegate_old` with `read_data`: a
`ReadData` is one `fgets` and the growth of the buffer behind it. A buffer is
the sequence of its bytes, those not yet written included, and `blocks` counts
the allocations that nobody has given back. The code takes any NULL from `fgets`
for the end of the output, read errors included, and so does `EndOfData`.

**NssBindings.** A string is its length, and a write is the range of addresses
it covers. `buffer` and `buflen` move as in the code, `buflen` modulo the
`size_t`. Each string, the reservation of the pointers, and each member is a
step.

**CJsonMemory, CJsonTree.** Memory is a record: the item at each address, the
allocated strings, and a budget of allocations that will still succeed. Each
function of the library is an operator from memory to memory. What
`cJSON_Delete` walks through is `Behind`, the least set that holds its argument
and is closed under `NextOwned`: what follows an item, and its child unless
it is a reference. The walk frees each of them (`FreeAll`), if it comes upon each
only once and finds it in use, and is a fault otherwise (`FreedOnce`). `Children`
is the least set closed under `next`.

In `CJsonTree` an action is one call by a client that owns what it created
(`roots`), passes on what it adds, does not build cycles, and reads a reference
only while what it shows has not changed. The calls that allocate in a loop take
a step for each item: `CreateArray`, `CreateElement` and `ArrayDone` are
`cJSON_CreateStringArray` and its likes; `Copy`, `CopyChild` and `CopyReturns`
are `cJSON_Duplicate`, whose activations are `frames`, each with the item it
has made, the last child it has linked, and the child it is to copy next;
`Unwind` is its label `fail`, and `Return` ends the call. `before` and `origin`
are histories: the memory before the call, and of what each item is the copy.
Every step that allocates chooses its budget, so that each allocation of each
call fails. Types, numbers and texts make no difference to memory and are left
out.

**NssTrees.** The same operators, called as the library calls them. `ParseArray`,
`ParseObject` and `Parsed` supply the document. A search (`Begin`, `AddMatch`)
refers to the items that match, one at a time, and either extracts the only one
(`ExtractSingleResult`) or hands over the array (`Walk`); `Cleanup` is what the
call, or `endXXent`, deletes. A request and a record are an object to which field
after field and member after member is added without a look at what was created
(`AddField`, `AddMembers`, `AddMember`). Each step has a budget of its own.

**CJsonParse.** A text is a sequence of tokens. The recursion is a stack with a
frame for each `parse_array` or `parse_object` that is under way; the frame
holds the locals, among them the half-built list. `Supply` decides a token when
the parser first looks at it, so that texts with a common beginning share their
states. `ep` is the error pointer, including the step back in front of the
first element. `return_parse_end` is NULL, as in every call of `cJSON_Parse`; no
caller in the library passes another.

**CJsonPrint.** The buffer is what each byte holds. `Ensure` is the function of
that name with its three ways to fail or grow; each printer reserves, writes,
and leaves `UpdateOffset` to find the end. The recursion is again a stack. The
three functions that provide a buffer, with and without `realloc`, are the
modes. Numbers and strings are printed as a few symbols; the digits are those of
`sprintf`.

**CJsonText.** Extends the parser and instantiates the printer, on variables of
their own. `Handover` gives the tokens of a printed text (`TokensOf`) to the
parser, which then must build the tree that was printed; other texts come
from outside. A parser that waits for a text has none (`NULL`).

**CJsonString.** Bytes with their values. A job prints a string and parses it
again, with `cJSON_Minify` in between (`trip`), parses a literal with escapes,
surrogates and mistakes (`parse`), or minifies a text with strings and comments
(`minify`). Every byte is a step, and every index is compared with the buffer.
A text for `minify` comes with what is known of it: whether its strings and
comments are closed and, if so, at which positions its parts begin (`IsClosed`). A
comment ends at the first `*/` behind its `/*`, which is not what `cJSON_Minify`
looks for: it takes the star of `/*/` for both ends. `Readable` leaves out the
texts with such a comment.

## 3. The runs

| Run | Question | Outcome |
|---|---|---|
| `NssEnum_paired` | one database at a time, with requests that fail | memory is neither misused nor lost (`NoFault`, `NoLeak`), `Enumeration` is implemented (`KeepsPromise`), the walk ends (`RunsDry`) |
| `NssEnum_any` | any calls on both databases | only reference arrays are lost (`LeaksOnlyReferences`), an open array leads into the open response (`OpenMatchesAreReadable`), freed memory is read only after closing (`FaultOnlyAfterEnd`) |
| `NssLookup` | do keyed lookups and enumeration agree? And every small record in every small buffer | yes, by name and by id (`FoundIffListedOnce`), of groups by name where each of that name has a gid; what was reported of a user leads back to it (`RoundTrip`). The conversion is safe unless only the alignment of the pointers is short (`SafeUnlessTight`), and succeeds exactly when the record fits (`SucceedsIffItFits`) |
| `NssCache_two` | two threads at every interleaving | safe, tidy, current and spaced out unless a call is under way during another's refill (`NoFaultUnlessRaced`, `NoLeakUnlessRaced`, `LatestFetchUnlessRaced`, `FetchSpacing`); copies are private in any case (`PrivateCopies`) |
| `NssDelegate` | requests of two threads, edits and exit; documents in pieces and lines | values are freed once (`OnlyTheTableIsUsed`), none stays (`NothingIsLeft`), and each request follows the file of the moment (`FollowsTheFile`), unless requests overlap. Documents are whole or absent (`DocumentIsWhole`), inside of the buffers (`StaysInside`), and only a failed transfer loses memory (`OnlyFailuresLoseTheBuffer`) |
| `NssConfig_url` | does `url` get the value of `url`? (`UrlIsTheUrl`) | violated: a key with the same remainder, in front of it or alone, is taken for it |
| `NssBindings_PointersFit` | | violated: the alignment is not part of the check for room |
| `CJsonTree` | trees, references, lists and copies with failing allocations | every item in one list, linked both ways (`ListsAreSound`), one owner for every item and string (`EveryItemIsOwned`, `EveryTextIsOwned`), copies identical or without a trace (`CopyIsIdentical`) |
| `NssTrees` | searches, requests and records with failing allocations | nothing is lost (`NothingIsLost`); results are incomplete only if an allocation failed (`ResultIsRight`) |
| `CJsonText` | every small tree in buffers of every size, every short text | writes stay inside (`WritesStayInside`), only the text is left (`OnlyTheTextIsLeft`) and it is that of the tree (`PrintsTheTree`); the parser holds everything once (`EverythingIsHeldOnce`), accepts exactly the grammar and points at what is wrong where it points at all (`AnswerIsRight`), and both end (`EveryTextIsAnswered`) |
| `CJsonText_ErrorPointer` | is the error pointer set when parsing fails? (`ErrorPointerIsSet`) | violated: an open string or a number without digits leaves it NULL |
| `CJsonString` | short strings, literals and commented texts | inside of the buffers (`StaysInside`), what is printed is read back (`RoundTrip`), escapes mean what they say (`MeansWhatIsWritten`), minifying keeps all but space and comments (`MinifyKeepsTheRest`), where the text is closed and no comment begins with `/*/` |

Type invariants without a name of their own here are a conjunct of the first
property of their run.

The three violated runs are the entries of `findings` in `PROJECT.json`, each of
which quotes the comment that the code does not meet. The others have from about
5,000 to 2.3 million distinct states; `NssDelegate` (2.3 million) and
`NssCache_two` (458,000) are the largest.

### Other disagreements

These were met while the modules were written; no run is about them alone:

- `delegate` compares the address of its result with NULL instead of the result
  (`nss-json-impl.c` 225), so that a failed request is answered with SUCCESS and
  no document (`DelegateStatus`).
- The same happens when `cJSON_Duplicate` runs out of memory in the request
  handler (`nss-json-impl.c` 286): the cache holds a document, the call is
  answered with SUCCESS and none (`CopyFailed`). `LatestFetchUnlessRaced` says that
  this befalls the call that ran out of memory and no other.
- `performRequest` frees its buffer only when the transfer succeeds
  (`nss-json-impl.c` 100); `OnlyFailuresLoseTheBuffer` counts those.
- The two enumerations share their statics (`nss-json.c` 60), so that
  `getgrent_r` goes on in the array of a `setpwent`, whatever `README.md` 90
  says of what makes a group: "group records are identified by having both
  `gid` and `members` keys".
- A record that does not fit is skipped and reported as SUCCESS with `errno` set
  (`nss-json.c` 113), where `nss-json-bindings.c` 128 says "Return
  NSS_STATUS_TRYAGAIN if not enough room". `Enumeration` promises no more: its
  `Deliver` allows a record that is not filled in.
- The interval of the cache is CPU time, where `README.md` 73 says "cached for
  10 seconds": a process that sleeps keeps its document for longer, one with
  several busy threads for less.
- With `includeRequestArg` the request is rendered and then never sent, unlike
  `README.md` 51.
- `getgrnam_r` requires `members` and not `gid` (`nss-json.c` 250), unlike the
  README's rule; `FoundIffListedOnce` leaves out the names of groups of which one
  has no gid.
- JSON numbers saturate to an int (`ValueInt`), so that all ids beyond it are one.
- `cJSON_Minify` takes the star of `/*/` for the end of the comment as well
  (`cJSON.c` 2222-2226), so that `/*/ a */` becomes `a*/`.
- A member that is not a string leaves NULL in the array of members
  (`nss-json-bindings.c` 236), which ends the list that a caller reads.
- `cJSON_ReplaceItemInObject` gives an allocated name to an item whose name
  counts as constant (`cJSON.c` 1833), against the warning of `cJSON.h` 196, so
  that it is never freed (`renamed`).

### Conditions in the properties

Some of the properties hold under a condition that is a history variable. They
say where the code is sound and what it takes to leave that ground.

- `raced` (`NssCache`): a call was under way while another thread refilled the
  cache. Two threads that enter together on an expired cache suffice. Without
  that the cache is right; with it, memory may be freed twice, and two fetches may
  fall into one interval.
- `raced` (`NssConfig`): a thread entered `delegate`, or exited, while another
  one was in it. With it the table may be emptied under a reader.
- `tight` (`NssBindings`): the room that is left for a group's members covers
  the pointers but not their alignment as well.
- `starved`: an allocation failed: in the call that used NULL, or, in `NssCache`, in
  the copy of the call that is answered without a document.
- `Hidden` (`NssConfig`, `FollowsTheFile`): a line for another key with the
  remainder of `url` comes before any line for `url`. The rest of the colliding
  files, and all others, are watched; `UrlIsTheUrl` is without the condition.
- `GroupsHaveIds` (`NssLookup`, `FoundIffListedOnce`): each group of the name that
  was asked for has a gid.
- `strange` (`NssConfig`): a key had a negative sum, so that its remainder is
  an index in front of the table.
- `renamed` (`CJsonTree`): `cJSON_ReplaceItemInObject` was given an item with a
  constant name.
- `tree # NULL` (`NssTrees`, `NothingIsLost`): without an object or an array, what
  was created to be added to it has no owner.
- In `WritesStayInside`: `short` with hooks, a `realloc` that failed, which
  `ensure` answers with NULL plus the offset; `Textless`, a raw item without
  text, of which `print` frees the buffer twice; and an empty buffer that is
  grown by hand, from which one byte is copied.
- `Readable` (`CJsonString`): a text that leaves a string or a comment open, or has
  a comment that begins with `/*/`, may be minified on behind its NUL
  (`StaysInside`), and means what it likes (`MinifyKeepsTheRest`).
- In `ErrorIsLocated`, a part of `AnswerIsRight`: an open string and a sign
  without digits need not set the error pointer; `ErrorPointerIsSet` is without
  the condition.

Where a condition names the very case of a hazard, the hazard's entry in
`PROJECT.json` says what of it is watched all the same and what is not.

### Bounds

- *Documents* (`MCNssEnum`): arrays of up to two of five sorts of items, one for
  each combination that the searches tell apart; single objects; another JSON
  value; none. Two items give a list that is empty, one that ends and one that
  goes on, and the cursor's code sees no more than that.
- *Addresses* (`Ptr`): the enumeration uses two at a time; four let a paired
  caller leak two before it would be stuck, five let any caller leak three
  arrays. A caller who has leaked all of them cannot open again, which is why
  `NssEnum_any` does not check deadlock; after a fault the process stops too.
- *Integers*: `INT_MAX` is 1 in `NssLookup` (ints of two bits), so that ids
  beyond an int on both sides and all ids a caller may ask for are covered.
- *Time* (`NssCache`): an interval of 2 and CPU time up to 4 give three refills
  at most, and a call that spans an interval. Two threads suffice for `raced`,
  and the proof covers any number.
- *Configuration*: the real size 73 of the table and the real sums of the keys;
  eight files with duplicate, colliding and negative keys; two threads, two
  reads and three addresses, so that one request may follow or overlap another
  and leave values behind. The proof covers any number of each.
- *Transfers*: buffers of `read_data` in steps of three and documents of up to
  six bytes, so that the buffer grows twice and is full or not at the end;
  documents over a character, a newline and the byte 0; two requests, so that
  one may fail and the next succeed.
- *Bindings*: strings of length 0 and 1 or missing; every buffer up to one more
  than the largest group needs, at each of the four alignments; a `size_t` of
  six bits, wide enough for all sizes and narrow enough to wrap.
- *Trees*: four items and two strings. `MaxLive` bounds the allocations in use
  after a call, `MaxRoots` the trees a client holds, `MaxCount` the arrays that
  are created at once. Three items make a tree of depth three and a list with a
  first, a middle and a last; four are a container with a child and another one
  that refers to it. A copy of two items succeeds, and one of more fails in each
  place. No call allocates more than three times in a step. The proof covers any
  number of each.
- *Records and searches* (`NssTrees`): documents of up to three items, which is
  one more than the two that make a result ambiguous; each step may make 0, 1, 2
  or enough allocations, which is where each of them fails. The proof of
  `NothingIsLost` covers documents and structs of any size.
- *Texts* (`CJsonText`): `INT_MAX` is 24 and the first buffer of `print` 6, so
  that a small tree makes the buffer double, be clipped and be refused; sizes
  from -1 (refused) to 24. Up to six tokens, enough for a member whose value is
  a list, and for each way to break it off; five items and four strings are all
  that they can need.
- *Bytes* (`CJsonString`): strings of up to three bytes, one from each class that
  the printer tells apart; literals of up to two pieces, so that surrogates meet
  what they should and should not meet; texts of up to three parts for the minifier.
- *Symmetry* is used for addresses and threads, which are never compared but
  for equality; it is not used where liveness is checked. In `CJsonMemory` `malloc`
  takes some address that nothing holds or points to, and those are alike.

Deadlock is not checked where a process may really stop: after a use of freed
memory, when addresses or time are used up, or when a conversion is done.

### Fairness

`RunsDry` assumes `WF_vars(ReadOn)`: a caller with an open database goes on
reading. The loops of the test driver do that (`main-test-nss-json.c` 26 and
55), each call is a terminating function, and nothing in the library can disable
it. Nothing is assumed of opening, of closing or of the backend.

`EveryTextIsAnswered` assumes `WF_textVars(TextNext)`: printer and parser
are sequential functions, which go on running once they are called. No other
property needs fairness.

## 4. The proofs

The `_proofs` modules prove, for every value of the constants:

| Theorem | Statement |
|---|---|
| `NssCalls_proofs!TypeCorrect` | `Spec => []TypeOK` |
| `NssCalls_proofs!OnlyReferencesLeak` | `Spec => []LeaksOnlyReferences` |
| `NssCalls_proofs!OpenStaysReadable` | if no request fails, `Spec => []OpenMatchesAreReadable` |
| `NssCalls_proofs!OnlyLateReadersFault` | if no request fails, `Spec => []FaultOnlyAfterEnd` |
| `NssCalls_proofs!PairedIsSafe` | `PairedSpec => []NoFault` |
| `NssCalls_proofs!PairedIsTidy` | `PairedSpec => []NoLeak` |
| `NssCalls_proofs!PairedKeepsPromise` | `PairedSpec => KeepsPromise`: the enumeration implements `Enumeration` |
| `NssCache_proofs!TypeCorrect` | `Spec => []TypeOK` |
| `NssCache_proofs!CopiesArePrivate` | `Spec => []PrivateCopies` |
| `NssCache_proofs!SafeUnlessRaced` | `Spec => []NoFaultUnlessRaced` |
| `NssCache_proofs!TidyUnlessRaced` | `Spec => []NoLeakUnlessRaced` |
| `NssCache_proofs!CurrentUnlessRaced` | `Spec => []LatestFetchUnlessRaced` |
| `NssCache_proofs!FetchesAreSpaced` | `Spec => FetchSpacing` |
| `NssTransfer_proofs!DocumentsAreWhole` | `TransferSpec => []DocumentIsWhole` |
| `NssTransfer_proofs!BuffersAreNotOverrun` | `TransferSpec => []StaysInside` |
| `NssTransfer_proofs!LossesAreCounted` | `TransferSpec => []OnlyFailuresLoseTheBuffer` |
| `NssConfig_proofs!TableIsSafe` | `Spec => []OnlyTheTableIsUsed` |
| `NssConfig_proofs!TableIsEmptied` | `Spec => []NothingIsLeft` |
| `NssConfig_proofs!RequestsFollowTheFile` | `Spec => []FollowsTheFile` |
| `NssCalls_proofs!CallsAgreeWithListing` | `LookupSpec => []FoundIffListedOnce` |
| `NssCalls_proofs!UsersAreNotConfused` | `LookupSpec => []RoundTrip` |
| `NssBindings_proofs!BufferIsRespected` | `ConversionSpec => []SafeUnlessTight` |
| `NssBindings_proofs!SucceedsWithRoom` | `ConversionSpec => []SucceedsIffItFits` |
| `CJsonText_proofs!Typed` | `Spec => []TypeOK`, the parser's |
| `CJsonText_proofs!OneOwner` | `Spec => []EverythingIsHeldOnce`: a parser on its own |
| `CJsonText_proofs!NothingIsLost` | `Spec => []OnlyTheTreeIsLeft` |
| `CJsonText_proofs!ParserHoldsOnce` | `TextSpec => []EverythingIsHeldOnce`: a parser behind a printer |
| `CJsonText_proofs!PrinterTyped` | `TextSpec => []Printer!TypeOK` |
| `CJsonText_proofs!PrinterStaysInside` | `TextSpec => []WritesStayInside` |
| `CJsonText_proofs!PrinterKeepsNothing` | `TextSpec => []OnlyTheTextIsLeft` |
| `CJsonString_proofs!BytesStayInside` | `Spec => []StaysInside` |
| `CJsonString_proofs!StringsAreReadBack` | `Spec => []RoundTrip` |
| `CJsonTree_proofs!TreesAreInductive` | `Spec => []IInv` |
| `CJsonTree_proofs!SpecListsAreSound` | `Spec => []ListsAreSound` |
| `CJsonTree_proofs!SpecEveryItemIsOwned` | `Spec => []EveryItemIsOwned` |
| `CJsonTree_proofs!SpecEveryTextIsOwned` | `Spec => []EveryTextIsOwned` |
| `CJsonTree_proofs!SpecCopyIsIdentical` | `Spec => []CopyIsIdentical` |
| `CJsonTree_proofs!TasksAreInductive` | `TaskSpec => []TaskInv` |
| `CJsonTree_proofs!SpecNothingIsLost` | `TaskSpec => []NothingIsLost` |

They rest on the ASSUMEs of the modules, which TLC evaluates on each run: that
the null pointer is neither an address nor a value, what documents, files and
records look like, that the interval is positive, that the sums of the three
option names are not negative (their characters are ASCII), that `BUFSIZE` is
at least 2, that a `size_t` has at least two bits, that a tree that is printed
is a tree, whose links lead forward, and that a number has digits
(`TreeAssumption`), and that sizes fit an `int`, the first buffer of `print` is
not empty, and the byte that ends a text is no part of it (`PrintAssumption`), and
that a text that is said to be closed is, with its parts where they are said to
begin, and that no string contains a NUL (`JobAssumption`), that there are finitely many
addresses (`AddressAssumption`), and that a search has a document and a struct
its fields (`TasksAssumption`). `NeverFails` is a
hypothesis of two theorems: without it a request that fails frees the response
under an open array, and the claim is false.

*Enumeration.* `TypeOK` is not inductive, because what `getXXent_r` hands out is
an item only if the references point into a document. `MemoryInv` adds that
references are positions of the document of the tree they point to, that every
tree is owned by `openResponse`, and that the two statics hold different kinds of
blocks. `OpenInv` adds, if requests never fail, that an open array leads into
the open response. `PairedInv` is for a caller who closes first: while nothing is
open both statics are NULL or hold a response left by a failed request, the whole
heap is theirs, and while a database is open the cursor is in its array. The
refinement maps the session to what is open, the document of `openResponse` to
the document, and the references from the cursor on to what is still to come;
`MinIsLeast` and `FirstOfList` say that following the cursor removes exactly the
first of them.

*Cache.* `PrivateCopies` has an invariant of its own (`Private`) that holds under
any schedule: each caller's copy is at an address that no other pointer shares.
A call is without a document only if the last fetch failed or its own copy did
(`CopyIsLatest`, with `OnlyCopiesStarve`: `starved` holds of no thread but one that
has copied and not yet released). The rest needs `IInv`: types, `Private`, `before` and `asked` not in the future,
and, unless `raced`, `Orderly` (where each thread is fixes what `jsonCache`,
`source` and `response` hold, and every live tree is one of them),
`StatusIsKnown` (from the first fetch on `retvalCache` is that of a fetch) and `Punctual`
(after a fetch `before` is no earlier than `asked`, and a thread that is about
to fetch entered an interval after `before`). `Alone` is the key lemma: a thread
that refills without `raced` is the only one in a call, so that the steps of the
others need no case of their own. `FetchSpacing` follows from `Punctual`.

*Transfers.* `CurlHoldsAll` says that while libcurl delivers, the buffer is what
has arrived and a NUL; `ReadHoldsAll` that `read_data` has copied `len`
characters, which are all that has arrived unless a NUL was among them, and
that there is room for one byte more; `MissingBuffer` that only a failed
allocation leaves it without a buffer; and `Accounts` is the balance of the
allocations at each place. The lemmas are about sequences: what `fgets` and the
growth of the buffer leave of the ones before.

*Configuration.* Only while no two requests have overlapped, and nothing was
touched that should not be, is there an order to state (`Orderly`): one thread
is inside (`Alone`); the values that are live are those in the table, and all
of those are live while it is in use (`ValuesAreHeld`); the slot of `url` holds
the value of the first line read so far that hashes to it, and is carried from
the table to the local and to the request (`FileIsFollowed`). What the table
holds after `cleanupconfig` is freed but not forgotten; that is why liveness is
tied to `confisopen` and the place of the thread, and why the next request
must forget before it opens.

*Lookups.* `ConversionsAreInverse` is the arithmetic: from `uid_t` to `int` and
back nothing is lost. With it `NamesAgree` and `IdsAgree` show that the keyed
searches find what the enumeration lists under the key. The invariant is that
the last two replies are right about the present document; `RoundTrip` then
joins the two, because what was reported of the first is a key of the second.

*Conversion.* `Layout` keeps what is written in order: strings, array, members,
free room. `Counted`, the balance of pointer and count, holds until the
padding makes the count wrap, which is what `tight` records; from there on
nothing is claimed. For `SucceedsIffItFits` the loop is compared with a sum:
`Taken` says that, as long as it has not failed, the buffer has moved on by the
room of exactly the strings that have been copied so far, a prefix of `Rooms`.
That the recursive function `Rooms` has its values at all is `SumsExist`, by the
least length for which it would not (`WFMin`); `RoomsGrow` then says that no
prefix needs more than the whole, so that a string that does not fit leaves a
record that does not.

*Parser.* `EverythingIsHeldOnce` is about the heap at one moment, and says
nothing of the half-built lists that the frames hold. `IInv` adds: no field of a
live item leads to anything freed, nor two fields to the same item
(`LinksAreOwned`, `TextsAreOwned`); what the calls hold is live, and everything
live is reachable from there (`HeldIsAll`); a frame's `current` is the last item
of the list that begins at its `head`, the lists of different frames are
different, and the container has no list yet (`FramesAreSound`); and the item
that is about to be filled is blank (`TargetIsBlank`). `Reach` is the least set
closed under the links. A step that adds one link adds what is behind it
(`NewElementStep`, `CloseStep`); `SubtreeIsReach` and `DeleteKeeps` say that
`cJSON_Delete` frees what is reachable from its argument and nothing that
another frame holds.

*Printer.* `BufferIsSound`, while there is a buffer, ties `length` to its size
and keeps `offset` in front of its end; `CallsAreSound` that each loop is at an
item of the tree; `BlocksAreCounted` is the balance of `malloc`, `realloc` and
`free`. `EnsureIsOne` lists what `ensure` may answer, and `EmitEffect` says that
what is written behind its answer has room there, or that one of the exceptions of
`WritesStayInside` has come about. `StringIsThere` is why `update_offset` finds a
NUL behind what a printer has written.

*Both.* The printer keeps its invariant until the handover (`HandoverInv`), and
what is handed over is terminated (`OutIsTerminated`). `TokensAreTokens` proves,
again by a least counterexample, that only tokens are picked out of it, so that
the parser begins with a text (`HandedText`); from there on either invariant is
left alone by the other's steps.

*Bytes.* Each of the three functions is two loops that must agree. In
`print_string_ptr`, `Column` is where the byte at a position is printed: one more
than what the bytes in front of it take, counted as the first loop counts. The
second loop is always in the column of the byte it reads (`ColumnStep`), and
columns grow, so that `sprintf`'s NUL never reaches the place of the last one. In
`parse_string`, `Scans` is the set of positions at which the first loop has been;
the second one only visits those (`LiteralIsOneEscape`: hexadecimal digits are no
backslashes), `to` stays behind `from` by the escape sequences read so far, and
what is left to read holds no more of those than bytes (`EscapesLeft`). In
`cJSON_Minify`, `to` never passes `from`, and the text is closed from `from` on,
whatever was written in front of it (`ClosedLater`). What the function takes for
a closed text (`SeemsClosed`) is one in which comments may also end one byte
too early; a readable text is closed in that sense as well
(`ReadableSeemsClosed`). That what was printed is such
a text (`Prints`, `PrintedIsClosed`) joins the first with the last.

`RoundTrip` speaks of the last state; `TripIsSound` says what is true of all
before it. `Shows` is what the columns hold of the characters printed so far, and
`Image` the whole text. `cJSON_Minify` and the first loop of `parse_string` do not
know where a character begins: they pass a backslash together with what follows
it and may stop between the digits of a literal (`Stops`), but they never take a
quote or a backslash out of an escape sequence (`StopsStep`), so that the first
one leaves the text as it is and the other finds the last quote. The second loop
of `parse_string` takes one printed character at a time (`ReadsBack`):
`EscapedMeans` and `HexIsReadBack` are why that is the byte it was printed for.

*Trees.* What the four properties of `CJsonTree` say of a state is not enough
for the next one: an operation on one list must leave every other tree alone,
and which tree an item is in depends on all of the links. `Links` states it
without a walk: `next` and `prev` agree, `child` leads to the first of a list and
no two items share it, the holders are in no list, and the only set that holds
them and is closed under ownership is that of all items in use. `Forest` adds that
each string has one owner, with the exception of those that a call has
allocated and not yet given to an item (`Loose`). All that the proof needs of
`Behind` and `Children` is that they are least closed sets (`BehindIsLeast`,
`ChildrenAreLeast`), which takes the place of an induction over the heap. A
change of a list is one of two: an item is taken in between two neighbours
(`SpliceIn`) or out (`SpliceOut`), and `InsertKeepsLinks` and `RemoveKeepsLinks`
show that `Links` survives, for the holders that there are then. Each function of
the library is a sequence of assignments that amounts to those two. For
`cJSON_Delete` the same lemmas show that the trees of two holders have nothing in
common, so that the walk meets each item once and the rest remains a forest
(`DeletePrunes`).

The calls that take several steps begin with a forest (`before`), and `CallOK` says
that they only add to it: what was there is as it was (`Grown`), and each activation
has an item of its own with a complete list, of which it knows the last
(`Appending`). So every activation's item is a holder, and `Unwind` deletes what
it holds and nothing else; when the last activation is gone, what is left is
what there was. `Copied` is why a copy is like its original: every item that has
been made is a copy of an item of `before` that is still there; its `child` and
`next` lead to the copy of what those of the original lead to, but for the last
child of each activation, which is still to be linked; and the original of an
activation is the child that the one below is about to pass. That the original
can be read at all follows from `Readable`, which is closed under what items lead to
(`ReachesIsLeast`).

Of a memory in which something has been misused nothing is claimed, but that an
allocation had failed (`Ruined`). `renamed` takes away `AllOwned` and leaves the
rest.

*Searches, conversions, requests.* `TaskInv` is the same forest with the trees of
the call as its holders: which those are depends on how far the call has come
(`CallHolds`). What is lost when there was nothing to begin with is a holder that
nobody knows (`Standing`). `Phase` ties the locals to the place, and `Growing` says
that what is added to is in use and no reference. At the end there is no holder, so
that the forest, whose items and strings all have one, is empty.

Model-checked only:

- `RunsDry` and `EveryTextIsAnswered`, which are liveness;
- `PrintsTheTree` and `AnswerIsRight`, which compare the text with a recursive
  definition over trees or with a grammar;
- `ResultIsRight` of `NssTrees`, which compares the order of two lists: that is a walk
  along their links;
- `MeansWhatIsWritten` and `MinifyKeepsTheRest` of `CJsonString`, which compare with
  what the pieces of a text mean, put together by a fold over the pieces.

## 5. Not modelled

- libcurl: a transfer is the pieces it delivers and its outcome. The option
  `verbose` changes no state of the library.
- `strtod` and `sprintf`: which number a text stands for. What the searches need
  of it, the saturation to an int, is in `NssMatch`.
- `cJSON_InitHooks` as a call: the library never makes it. Whether `realloc`
  is there is a parameter of the printer (`hooks`).
- The predicates `cJSON_IsString` and its likes, which only read a type.
- The output of the test driver, and the programs under `examples` and `tests`.

One hazard has no property: the list of `atexit` handlers grows with each
refill (a property would restate the assignment; that they are harmless when
they run is `OnlyTheTableIsUsed`). Other hazards are watched in part; those of
`PROJECT.json` that have a `note` say which part is not.

## 6. The plan

Done: every component of section 1 as far as section 5 does not except it, and
proofs for all modules that the prover can follow.

What is left is composition: `NssService`, that is `NssLookup` and `NssEnum` on
top of one cache that expires between calls, to show which answers of different
calls agree when the document changes in between; and `NssConfig` under
`NssCache`, where `raced` of the one implies `raced` of the other.

What is left to prove needs other statements than those that TLC checks:
`MinifyKeepsTheRest` over the positions of a closed text (`IsClosed`) in place of
its pieces, and `ResultIsRight` over positions in a list in place of a walk.

## 7. Running the checks

```
tlc -config NssEnum_paired.cfg MCNssEnum     # any run of section 3
for m in *_proofs.tla; do tlapm $m; done     # section 4
```
