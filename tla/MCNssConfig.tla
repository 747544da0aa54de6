----------------------------- MODULE MCNssConfig -----------------------------
(***************************************************************************)
(* A small instance of NssConfig, with the size of the real table and the  *)
(* real sums: lur is an anagram of url, and the letter u with two dots has *)
(* a negative sum in UTF-8.                                                *)
(***************************************************************************)
EXTENDS NssConfig, TLC

MCKeys == {"url", "verbose", "includeRequestArg", "lur", "u-umlaut"}

MCCharSum ==
  [k \in MCKeys |-> CASE k = "url" -> 339 [] k = "verbose" -> 758
                      [] k = "includeRequestArg" -> 1767
                      [] k = "lur" -> 339 [] k = "u-umlaut" -> -129]

MCValues == {"a", "b"}

Line(key, val) == [key |-> key, val |-> val]

MCFiles ==
  {NULL, <<>>, <<NULL, Line("url", "a")>>, <<Line("verbose", "b"), Line("url", "b")>>,
   <<Line("url", "a"), Line("verbose", "a"), Line("url", "b")>>,
   <<Line("lur", "b"), NULL, Line("url", "a")>>, <<Line("url", "b"), Line("lur", "a")>>,
   <<Line("url", "a"), Line("u-umlaut", "b")>>}

Symmetry == Permutations(Ptr) \cup Permutations(Thread)
=============================================================================
