------------------------- MODULE CJsonString_proofs -------------------------
(***************************************************************************)
(* Printing, minifying and parsing a string stay inside of their buffers,  *)
(* for all strings and texts: what the first loop of print_string_ptr and  *)
(* of parse_string counts is enough for what the second one writes.  And   *)
(* each string that is printed is read back as it was.                     *)
(***************************************************************************)
EXTENDS CJsonString, FiniteSetTheorems, WellFoundedInduction, TLAPS

-----------------------------------------------------------------------------
(* Sets of numbers, and bytes that are written to a sequence               *)

Chars == Byte \cup {Nul}
Cells == Byte \cup {Nul, Junk}

\* Every non-empty set of positions has a first one.
LEMMA MinIsLeast ==
  ASSUME NEW S \in SUBSET Nat, S # {}
  PROVE  Min(S) \in S /\ \A y \in S : Min(S) <= y
<1>1. PICK x \in S : \A y \in S : ~ (<<y, x>> \in OpToRel(<, Nat))
  BY NatLessThanWellFounded, WFMin
<1>2. \A y \in S : ~ (y < x)
  BY <1>1 DEF OpToRel
<1>3. \A y \in S : x <= y
  BY <1>2
<1> QED BY <1>3 DEF Min

\* The larger one of two numbers.
LEMMA MaxIsGreatest ==
  ASSUME NEW a \in Int, NEW b \in Int
  PROVE  Max({a, b}) = IF a >= b THEN a ELSE b
<1>1. CASE a >= b
  <2>1. \A x \in {a, b} : (\A y \in {a, b} : x >= y) => x = a
    BY <1>1
  <2>2. a \in {a, b} /\ \A y \in {a, b} : a >= y
    BY <1>1
  <2> QED BY <1>1, <2>1, <2>2 DEF Max
<1>2. CASE ~(a >= b)
  <2>1. \A x \in {a, b} : (\A y \in {a, b} : x >= y) => x = b
    BY <1>2
  <2>2. b \in {a, b} /\ \A y \in {a, b} : b >= y
    BY <1>2
  <2> QED BY <1>2, <2>1, <2>2 DEF Max
<1> QED BY <1>1, <1>2

\* Put writes b at i and leaves the rest, and the length, alone.
LEMMA PutWrites ==
  ASSUME NEW V, NEW s \in Seq(V), NEW b \in Seq(V), NEW i \in Nat
  PROVE  /\ Put(s, i, b) \in Seq(V) /\ Len(Put(s, i, b)) = Len(s)
         /\ \A k \in 1 .. Len(s) :
              /\ k < i \/ k >= i + Len(b) => Put(s, i, b)[k] = s[k]
              /\ i <= k /\ k < i + Len(b) => Put(s, i, b)[k] = b[k - i + 1]
<1>1. Len(s) \in Nat /\ Len(b) \in Nat /\ DOMAIN s = 1 .. Len(s) /\ DOMAIN b = 1 .. Len(b)
  OBVIOUS
<1>2. Put(s, i, b) = [k \in 1 .. Len(s) |-> IF k - i + 1 \in DOMAIN b THEN b[k - i + 1] ELSE s[k]]
  BY <1>1 DEF Put
<1>3. \A k \in 1 .. Len(s) : (IF k - i + 1 \in DOMAIN b THEN b[k - i + 1] ELSE s[k]) \in V
  BY <1>1
<1>4. Put(s, i, b) \in Seq(V) /\ Len(Put(s, i, b)) = Len(s)
  BY <1>1, <1>2, <1>3
<1>5. ASSUME NEW k \in 1 .. Len(s)
      PROVE  /\ k < i \/ k >= i + Len(b) => Put(s, i, b)[k] = s[k]
             /\ i <= k /\ k < i + Len(b) => Put(s, i, b)[k] = b[k - i + 1]
  <2>1. Put(s, i, b)[k] = IF k - i + 1 \in DOMAIN b THEN b[k - i + 1] ELSE s[k]
    BY <1>2
  <2>2. k - i + 1 \in DOMAIN b <=> (i <= k /\ k < i + Len(b))
    BY <1>1
  <2> QED BY <2>1, <2>2, <1>1
<1> QED BY <1>4, <1>5

-----------------------------------------------------------------------------
(* What print_string_ptr counts                                            *)

\* The bytes in front of i that become two, and those that become six.
WithLetter(s, i) == {k \in 1 .. i - 1 : s[k] \in DOMAIN Letter}
WithNumber(s, i) == {k \in 1 .. i - 1 : s[k] < 32 /\ s[k] \notin DOMAIN Letter}

\* Where the byte at i is printed.
Column(s, i) == 1 + i + Cardinality(WithLetter(s, i)) + 5 * Cardinality(WithNumber(s, i))

\* Both are finite.
LEMMA CountsAreNumbers ==
  ASSUME NEW s, NEW i \in Nat
  PROVE  /\ IsFiniteSet(WithLetter(s, i)) /\ Cardinality(WithLetter(s, i)) \in Nat
         /\ IsFiniteSet(WithNumber(s, i)) /\ Cardinality(WithNumber(s, i)) \in Nat
<1>1. IsFiniteSet(1 .. i - 1)
  BY FS_Interval
<1>2. IsFiniteSet(WithLetter(s, i)) /\ IsFiniteSet(WithNumber(s, i))
  BY <1>1, FS_Subset DEF WithLetter, WithNumber
<1> QED BY <1>2, FS_CardinalityType

\* What a byte is printed as.
LEMMA EscapedBytes ==
  ASSUME NEW c \in Byte
  PROVE  LET e == Escaped(c)
         IN  /\ e \in Seq(Byte) /\ e \in Seq(Cells)
             /\ Len(e) = IF c \in DOMAIN Letter THEN 2 ELSE IF c < 32 THEN 6 ELSE 1
             /\ Len(e) = 1 => e[1] \notin {Quote, Backslash}
             /\ Len(e) # 1 => e[1] = Backslash
             /\ Len(e) = 6 => \A k \in 3 .. 6 : e[k] \notin {Quote, Backslash}
<1> DEFINE e == Escaped(c)
<1>1. DOMAIN Letter = {8, 12, 10, 13, 9, 34, 92}
  BY DEF Letter, Quote, Backslash
<1>2. CASE c > 31 /\ c \notin {34, 92}
  <2>1. e = <<c>>
    BY <1>2 DEF Escaped, Quote, Backslash
  <2>2. c \notin DOMAIN Letter
    BY <1>1, <1>2
  <2> QED BY <1>2, <2>1, <2>2 DEF Byte, Cells, Quote, Backslash
<1>3. CASE c \in DOMAIN Letter
  <2>1. Letter[c] \in Byte
    <3>1. Letter[c] = CASE c = 8 -> 98 [] c = 12 -> 102 [] c = 10 -> 110 [] c = 13 -> 114
                        [] c = 9 -> 116 [] OTHER -> c
      BY <1>3, Zenon DEF Letter
    <3>2. Letter[c] \in {98, 102, 110, 114, 116, c}
      BY <1>1, <1>3, <3>1
    <3> QED BY <3>2 DEF Byte
  <2>2. e = <<92, Letter[c]>>
    BY <1>1, <1>3 DEF Escaped, Quote, Backslash
  <2> QED BY <1>3, <2>1, <2>2 DEF Byte, Cells, Backslash
<1>4. CASE c < 32 /\ c \notin DOMAIN Letter
  <2>1. c \div 16 \in {0, 1} /\ c % 16 \in 0 .. 15
    BY <1>4 DEF Byte
  <2>2. HexDigit(c \div 16) \in {48, 49}
    BY <2>1 DEF HexDigit
  <2>3. HexDigit(c % 16) \in 48 .. 57 \cup 97 .. 102
    BY <2>1 DEF HexDigit
  <2>4. e = <<92, 117, 48, 48, HexDigit(c \div 16), HexDigit(c % 16)>>
    BY <1>4 DEF Escaped, Quote, Backslash, LetterU, Byte
  <2> DEFINE x == HexDigit(c \div 16)
             y == HexDigit(c % 16)
  <2> HIDE DEF x, y
  <2>5. x \in {48, 49} /\ y \in 48 .. 57 \cup 97 .. 102 /\ e = <<92, 117, 48, 48, x, y>>
    BY <2>2, <2>3, <2>4 DEF x, y
  <2> HIDE DEF e
  <2>6. x \in Byte /\ y \in Byte /\ x \notin {34, 92} /\ y \notin {34, 92}
    BY <2>5 DEF Byte
  <2>7. /\ e \in Seq(Byte) /\ e \in Seq(Cells) /\ Len(e) = 6
        /\ e[1] = 92 /\ e[3] = 48 /\ e[4] = 48 /\ e[5] = x /\ e[6] = y
    BY <2>5, <2>6 DEF Byte, Cells
  <2>8. \A k \in 3 .. 6 : e[k] \notin {34, 92}
    BY <2>6, <2>7
  <2> QED BY <1>4, <2>7, <2>8 DEF Quote, Backslash, e
<1>5. c \in DOMAIN Letter \/ (c < 32 /\ c \notin DOMAIN Letter) \/ (c > 31 /\ c \notin {34, 92})
  BY <1>1 DEF Byte
<1> QED BY <1>2, <1>3, <1>4, <1>5

\* The columns are as far apart as what is printed there is long.
LEMMA ColumnStep ==
  ASSUME NEW s, NEW i \in Nat \ {0}, s[i] \in Byte
  PROVE  Column(s, i + 1) = Column(s, i) + Len(Escaped(s[i]))
<1> DEFINE a == WithLetter(s, i)
           b == WithNumber(s, i)
<1>1. /\ IsFiniteSet(a) /\ Cardinality(a) \in Nat
      /\ IsFiniteSet(b) /\ Cardinality(b) \in Nat
  BY CountsAreNumbers
<1>2. i \notin a /\ i \notin b /\ 1 .. (i + 1) - 1 = 1 .. i - 1 \cup {i}
  BY DEF WithLetter, WithNumber
<1>3. CASE s[i] \in DOMAIN Letter
  <2>1. WithLetter(s, i + 1) = a \cup {i} /\ WithNumber(s, i + 1) = b
    BY <1>2, <1>3 DEF WithLetter, WithNumber
  <2>2. Cardinality(WithLetter(s, i + 1)) = Cardinality(a) + 1
    BY <1>1, <1>2, <2>1, FS_AddElement
  <2>3. Len(Escaped(s[i])) = 2
    BY <1>3, EscapedBytes
  <2> HIDE DEF a, b
  <2> QED BY <1>1, <2>1, <2>2, <2>3 DEF Column, a, b
<1>4. CASE s[i] \notin DOMAIN Letter /\ s[i] < 32
  <2>1. WithLetter(s, i + 1) = a /\ WithNumber(s, i + 1) = b \cup {i}
    BY <1>2, <1>4 DEF WithLetter, WithNumber
  <2>2. Cardinality(WithNumber(s, i + 1)) = Cardinality(b) + 1
    BY <1>1, <1>2, <2>1, FS_AddElement
  <2>3. Len(Escaped(s[i])) = 6
    BY <1>4, EscapedBytes
  <2> QED BY <1>1, <2>1, <2>2, <2>3 DEF Column
<1>5. CASE s[i] \notin DOMAIN Letter /\ ~(s[i] < 32)
  <2>1. WithLetter(s, i + 1) = a /\ WithNumber(s, i + 1) = b
    BY <1>2, <1>5 DEF WithLetter, WithNumber
  <2>2. Len(Escaped(s[i])) = 1
    BY <1>5, EscapedBytes
  <2> QED BY <1>1, <2>1, <2>2 DEF Column
<1> QED BY <1>3, <1>4, <1>5

\* Columns grow from left to right.
LEMMA ColumnsGrow ==
  ASSUME NEW s, NEW i \in Nat, NEW j \in Nat, i <= j
  PROVE  Column(s, i) <= Column(s, j) /\ Column(s, i) \in Nat /\ Column(s, j) \in Nat
<1>1. WithLetter(s, i) \subseteq WithLetter(s, j) /\ WithNumber(s, i) \subseteq WithNumber(s, j)
  BY DEF WithLetter, WithNumber
<1>2. /\ Cardinality(WithLetter(s, i)) <= Cardinality(WithLetter(s, j))
      /\ Cardinality(WithNumber(s, i)) <= Cardinality(WithNumber(s, j))
  BY <1>1, CountsAreNumbers, FS_Subset
<1> DEFINE a == Cardinality(WithLetter(s, i))
           b == Cardinality(WithNumber(s, i))
           c == Cardinality(WithLetter(s, j))
           d == Cardinality(WithNumber(s, j))
<1>3. a \in Nat /\ b \in Nat /\ c \in Nat /\ d \in Nat
  BY CountsAreNumbers
<1>4. Column(s, i) = 1 + i + a + 5 * b /\ Column(s, j) = 1 + j + c + 5 * d
  BY DEF Column
<1> HIDE DEF a, b, c, d
<1> QED BY <1>2, <1>3, <1>4 DEF a, b, c, d

-----------------------------------------------------------------------------
(* What parse_string counts                                                *)

\* Where the first loop has been on its way from 2 to e.
Scans(s, e, G) ==
  /\ G \subseteq 2 .. e /\ 2 \in G /\ e \in G
  /\ \A i \in G : i < e => IF s[i] = Backslash THEN i + 1 \notin G /\ i + 2 \in G
                                               ELSE i + 1 \in G

\* The escape sequences that begin in front of i.
EscapesBefore(s, G, i) == {k \in G : k < i /\ s[k] = Backslash}

\* There are finitely many.
LEMMA EscapesAreFinite ==
  ASSUME NEW s, NEW e \in Nat, NEW G, Scans(s, e, G), NEW i
  PROVE  /\ IsFiniteSet(EscapesBefore(s, G, i))
         /\ Cardinality(EscapesBefore(s, G, i)) \in Nat
<1>1. EscapesBefore(s, G, i) \in SUBSET (2 .. e)
  BY DEF EscapesBefore, Scans
<1>2. IsFiniteSet(2 .. e)
  BY FS_Interval
<1>3. IsFiniteSet(EscapesBefore(s, G, i))
  BY <1>1, <1>2, FS_Subset
<1> QED BY <1>3, FS_CardinalityType

\* An escape sequence counts once, any other byte does not.
LEMMA EscapesStep ==
  ASSUME NEW s, NEW e \in Nat, NEW G, Scans(s, e, G), NEW i \in G, i < e
  PROVE  /\ s[i] = Backslash =>
              /\ i + 2 \in G
              /\ Cardinality(EscapesBefore(s, G, i + 2)) = Cardinality(EscapesBefore(s, G, i)) + 1
         /\ s[i] # Backslash =>
              /\ i + 1 \in G
              /\ Cardinality(EscapesBefore(s, G, i + 1)) = Cardinality(EscapesBefore(s, G, i))
<1>1. G \subseteq Nat /\ i \in Nat
  BY DEF Scans
<1>2. ASSUME s[i] = Backslash
      PROVE  /\ i + 2 \in G
             /\ Cardinality(EscapesBefore(s, G, i + 2)) = Cardinality(EscapesBefore(s, G, i)) + 1
  <2>1. i + 1 \notin G /\ i + 2 \in G
    BY <1>2 DEF Scans
  <2>2. \A k \in G : k < i + 2 <=> (k < i \/ k = i)
    BY <1>1, <2>1
  <2>3. EscapesBefore(s, G, i + 2) = EscapesBefore(s, G, i) \cup {i}
    BY <1>2, <2>2 DEF EscapesBefore
  <2>4. i \notin EscapesBefore(s, G, i)
    BY <1>1 DEF EscapesBefore
  <2> QED BY <2>1, <2>3, <2>4, EscapesAreFinite, FS_AddElement
<1>3. ASSUME s[i] # Backslash
      PROVE  /\ i + 1 \in G
             /\ Cardinality(EscapesBefore(s, G, i + 1)) = Cardinality(EscapesBefore(s, G, i))
  <2>1. i + 1 \in G
    BY <1>3 DEF Scans
  <2>2. \A k \in G : k < i + 1 <=> (k < i \/ k = i)
    BY <1>1
  <2>3. EscapesBefore(s, G, i + 1) = EscapesBefore(s, G, i)
    BY <1>3, <2>2 DEF EscapesBefore
  <2> QED BY <2>1, <2>3
<1> QED BY <1>2, <1>3

\* What is left to be read holds no more escape sequences than bytes.
LEMMA EscapesLeft ==
  ASSUME NEW s, NEW e \in Nat, NEW G, Scans(s, e, G), NEW i \in 2 .. e
  PROVE  i - Cardinality(EscapesBefore(s, G, i)) <= e - Cardinality(EscapesBefore(s, G, e))
<1> DEFINE a == EscapesBefore(s, G, i)
           b == EscapesBefore(s, G, e)
           rest == i .. e - 1
<1>1. G \subseteq Nat
  BY DEF Scans
<1>2. b \subseteq a \cup rest
  <2>1. \A k \in Nat : k < e => k < i \/ k \in i .. e - 1
    OBVIOUS
  <2> QED BY <1>1, <2>1 DEF EscapesBefore
<1>3. IsFiniteSet(rest) /\ Cardinality(rest) = e - i
  BY FS_Interval
<1>4. IsFiniteSet(a) /\ Cardinality(a) \in Nat /\ Cardinality(b) \in Nat
  BY EscapesAreFinite
<1>5. /\ IsFiniteSet(a \cup rest)
      /\ Cardinality(a \cup rest) = Cardinality(a) + Cardinality(rest) - Cardinality(a \cap rest)
  BY <1>3, <1>4, FS_Union
<1>6. Cardinality(a \cap rest) \in Nat
  BY <1>3, <1>4, FS_Subset, FS_CardinalityType
<1>7. Cardinality(b) <= Cardinality(a \cup rest)
  BY <1>2, <1>5, FS_Subset
<1> HIDE DEF a, b, rest
<1>8. i - Cardinality(a) <= e - Cardinality(b)
  BY <1>3, <1>4, <1>5, <1>6, <1>7
<1> QED BY <1>8 DEF a, b

\* The first loop reads a hexadecimal literal as one escape sequence and four
\* more bytes.
LEMMA LiteralIsOneEscape ==
  ASSUME NEW s, NEW e \in Nat, NEW G, Scans(s, e, G), NEW i \in G, i + 6 <= e,
         s[i] = Backslash, \A k \in 2 .. 5 : s[i + k] # Backslash
  PROVE  /\ i + 6 \in G
         /\ Cardinality(EscapesBefore(s, G, i + 6)) = Cardinality(EscapesBefore(s, G, i)) + 1
<1>0. i \in Nat
  BY DEF Scans
<1>1. /\ i + 2 \in G
      /\ Cardinality(EscapesBefore(s, G, i + 2)) = Cardinality(EscapesBefore(s, G, i)) + 1
  BY <1>0, EscapesStep
<1> DEFINE same(k) == Cardinality(EscapesBefore(s, G, k)) = Cardinality(EscapesBefore(s, G, i)) + 1
<1>2. ASSUME NEW k \in 2 .. 5, i + k \in G, same(i + k)
      PROVE  i + (k + 1) \in G /\ same(i + (k + 1))
  <2>1. i + k < e /\ s[i + k] # Backslash /\ (i + k) + 1 = i + (k + 1)
    BY <1>0, <1>2
  <2> QED BY <1>2, <2>1, EscapesStep
<1> HIDE DEF same
<1>3. same(i + 2)
  BY <1>1 DEF same
<1>4. i + 3 \in G /\ same(i + 3)
  BY <1>1, <1>2, <1>3
<1>5. i + 4 \in G /\ same(i + 4)
  BY <1>2, <1>4
<1>6. i + 5 \in G /\ same(i + 5)
  BY <1>2, <1>5
<1>7. i + 6 \in G /\ same(i + 6)
  BY <1>2, <1>6
<1> QED BY <1>7 DEF same

\* Where a literal with a value is, there are four digits.
LEMMA DigitsAreDigits ==
  ASSUME NEW i \in Nat, buf \in Seq(Chars), ParseHex4(i) # 0
  PROVE  ParseHex4(i) \in Nat /\ ParseHex4(i) < 65536 /\ \A k \in 0 .. 3 : buf[i + k] # Backslash
<1> DEFINE d == [k \in 0 .. 3 |-> HexValue(buf[i + k])]
<1>1. ~ \E k \in 0 .. 3 : d[k] = -1
  BY DEF ParseHex4
<1>2. ParseHex4(i) = 4096 * d[0] + 256 * d[1] + 16 * d[2] + d[3]
  BY <1>1 DEF ParseHex4
<1>3. ASSUME NEW c, HexValue(c) # -1
      PROVE  HexValue(c) \in 0 .. 15 /\ c # Backslash
  <2>1. c \in 48 .. 57 \/ c \in 65 .. 70 \/ c \in 97 .. 102
    BY <1>3 DEF HexValue
  <2>2. CASE c \in 48 .. 57
    <3>1. c \notin 65 .. 70 /\ c \notin 97 .. 102
      BY <2>2
    <3>2. HexValue(c) = c - 48
      BY <2>2, <3>1, Zenon DEF HexValue
    <3> QED BY <2>2, <3>2 DEF Backslash
  <2>3. CASE c \in 65 .. 70
    <3>1. c \notin 48 .. 57 /\ c \notin 97 .. 102
      BY <2>3
    <3>2. HexValue(c) = c - 55
      BY <2>3, <3>1, Zenon DEF HexValue
    <3> QED BY <2>3, <3>2 DEF Backslash
  <2>4. CASE c \in 97 .. 102
    <3>1. c \notin 48 .. 57 /\ c \notin 65 .. 70
      BY <2>4
    <3>2. HexValue(c) = c - 87
      BY <2>4, <3>1, Zenon DEF HexValue
    <3> QED BY <2>4, <3>2 DEF Backslash
  <2> QED BY <2>1, <2>2, <2>3, <2>4
<1>4. \A k \in 0 .. 3 : d[k] \in 0 .. 15 /\ buf[i + k] # Backslash
  BY <1>1, <1>3
<1>5. ASSUME NEW w \in 0 .. 15, NEW x \in 0 .. 15, NEW y \in 0 .. 15, NEW z \in 0 .. 15
      PROVE  4096 * w + 256 * x + 16 * y + z \in Nat /\ 4096 * w + 256 * x + 16 * y + z < 65536
  OBVIOUS
<1>6. ParseHex4(i) \in Nat /\ ParseHex4(i) < 65536
  <2>1. d[0] \in 0 .. 15 /\ d[1] \in 0 .. 15 /\ d[2] \in 0 .. 15 /\ d[3] \in 0 .. 15
    BY <1>4
  <2> DEFINE w == d[0]  x == d[1]  y == d[2]  z == d[3]
  <2>2. ParseHex4(i) = 4096 * w + 256 * x + 16 * y + z
    BY <1>2
  <2> HIDE DEF w, x, y, z
  <2>3. w \in 0 .. 15 /\ x \in 0 .. 15 /\ y \in 0 .. 15 /\ z \in 0 .. 15
    BY <2>1 DEF w, x, y, z
  <2> HIDE DEF d
  <2> QED BY <1>5, <2>2, <2>3
<1> QED BY <1>4, <1>6

\* A code point takes one to four bytes, less than 65536 at most three.
LEMMA Utf8Bytes ==
  ASSUME NEW cp \in Nat
  PROVE  /\ Utf8(cp) \in Seq(Cells) /\ Len(Utf8(cp)) = Utf8Length(cp)
         /\ Utf8Length(cp) \in 1 .. 4 /\ (cp < 65536 => Utf8Length(cp) <= 3)
<1> DEFINE n == Utf8Length(cp)
<1>1. n \in 1 .. 4 /\ (cp < 65536 => n <= 3)
  BY DEF Utf8Length
<1>2. Mark[n] \in Nat /\ \A k \in 1 .. n : Place[n - k + 1] \in Nat \ {0}
  BY <1>1 DEF Mark, Place
<1> HIDE DEF n
<1> DEFINE rest(k) == cp \div Place[n - k + 1]
           byte(k) == IF k = 1 THEN (Mark[n] + rest(k)) % 256 ELSE 128 + (rest(k) % 64)
<1>3. ASSUME NEW k \in 1 .. n
      PROVE  byte(k) \in Cells
  <2>1. rest(k) \in Nat
    BY <1>2
  <2> HIDE DEF rest
  <2>2. \A x \in Nat : x % 256 \in 0 .. 255 /\ x % 64 \in 0 .. 63
    OBVIOUS
  <2>3. Mark[n] + rest(k) \in Nat
    BY <1>2, <2>1
  <2>4. (Mark[n] + rest(k)) % 256 \in 0 .. 255 /\ rest(k) % 64 \in 0 .. 63
    BY <2>1, <2>2, <2>3
  <2> QED BY <2>4 DEF Cells, Byte, Nul
<1>4. Utf8(cp) = [k \in 1 .. n |-> byte(k)]
  BY DEF Utf8, n
<1> HIDE DEF byte
<1>5. Utf8(cp) \in Seq(Cells) /\ Len(Utf8(cp)) = n
  BY <1>1, <1>3, <1>4
<1> QED BY <1>1, <1>5 DEF n

-----------------------------------------------------------------------------
(* Texts whose strings and comments are closed                             *)

\* What cJSON_Minify takes for a comment, and for a text whose strings and
\* comments are closed: /*/ is a whole comment to it.
SeemsComment(s, i, j) ==
  /\ i + 2 <= j /\ s[i + 1] = Star
  /\ s[j - 2] = Star /\ s[j - 1] = Slash
  /\ \A k \in i .. j - 3 : s[k] # Nul /\ ~(s[k] = Star /\ s[k + 1] = Slash)

SeemsClosed(s, tokens, inside) ==
  /\ tokens \cup inside \subseteq DOMAIN s
  /\ \A i \in tokens :
       \/ s[i] = Nul
       \/ s[i] = Quote /\ i + 1 \in inside
       \/ s[i] = Slash /\ \E j \in tokens : IsLine(s, i, j) \/ SeemsComment(s, i, j)
       \/ /\ s[i] \notin {Nul, Quote} /\ ~(s[i] = Slash /\ s[i + 1] \in {Slash, Star})
          /\ i + 1 \in tokens
  /\ \A i \in inside :
       \/ s[i] = Quote /\ i + 1 \in tokens
       \/ s[i] = Backslash /\ i + 2 \in inside
       \/ s[i] \notin {Nul, Quote, Backslash} /\ i + 1 \in inside

\* A closed text of which no comment begins with /*/ is one of these.
LEMMA ReadableSeemsClosed ==
  ASSUME NEW s \in Seq(Chars), NEW tokens, NEW inside, IsClosed(s, tokens, inside),
         \A i \in tokens : ~(s[i] = Slash /\ s[i + 1] = Star /\ s[i + 2] = Slash)
  PROVE  SeemsClosed(s, tokens, inside)
<1>1. tokens \subseteq Nat
  BY DEF IsClosed
<1>2. ASSUME NEW i \in tokens, NEW j \in tokens, s[i] = Slash, IsComment(s, i, j)
      PROVE  SeemsComment(s, i, j)
  <2>1. /\ i \in Nat /\ j \in Nat /\ i + 4 <= j /\ s[i + 1] = Star
        /\ s[j - 2] = Star /\ s[j - 1] = Slash
        /\ \A k \in i + 2 .. j - 3 : s[k] # Nul /\ ~(s[k] = Star /\ s[k + 1] = Slash)
    BY <1>1, <1>2 DEF IsComment
  <2>2. s[i + 2] # Slash
    BY <1>2, <2>1
  <2>3. ASSUME NEW k \in i .. j - 3
        PROVE  s[k] # Nul /\ ~(s[k] = Star /\ s[k + 1] = Slash)
    <3>1. CASE k = i
      BY <1>2, <3>1 DEF Slash, Star, Nul
    <3>2. CASE k = i + 1
      <4>1. k + 1 = i + 2
        BY <2>1, <3>2
      <4> QED BY <2>1, <2>2, <3>2, <4>1 DEF Star, Nul
    <3>3. CASE k # i /\ k # i + 1
      <4>1. k \in i + 2 .. j - 3
        BY <2>1, <3>3
      <4> QED BY <2>1, <4>1
    <3> QED BY <3>1, <3>2, <3>3
  <2>4. i + 2 <= j
    BY <2>1
  <2> QED BY <2>1, <2>3, <2>4 DEF SeemsComment
<1>3. ASSUME NEW i \in tokens, s[i] = Slash, NEW j \in tokens, IsLine(s, i, j) \/ IsComment(s, i, j)
      PROVE  IsLine(s, i, j) \/ SeemsComment(s, i, j)
  BY <1>2, <1>3
<1> QED BY <1>3 DEF IsClosed, SeemsClosed

\* A text stays closed from i on, whatever is written in front of i.
LEMMA ClosedLater ==
  ASSUME NEW s \in Seq(Chars), NEW t \in Seq(Chars), Len(t) = Len(s), NEW i \in Nat,
         \A k \in i .. Len(s) : t[k] = s[k],
         NEW tokens, NEW inside, SeemsClosed(s, tokens, inside)
  PROVE  SeemsClosed(t, {k \in tokens : k >= i}, {k \in inside : k >= i})
<1> DEFINE T == {k \in tokens : k >= i}
           I == {k \in inside : k >= i}
<1>1. /\ Len(s) \in Nat /\ DOMAIN s = 1 .. Len(s) /\ DOMAIN t = 1 .. Len(s)
      /\ tokens \subseteq 1 .. Len(s) /\ inside \subseteq 1 .. Len(s)
  BY DEF SeemsClosed
<1>2. T \cup I \subseteq DOMAIN t
  BY <1>1
<1>3. ASSUME NEW k \in T
      PROVE  \/ t[k] = Nul
             \/ t[k] = Quote /\ k + 1 \in I
             \/ t[k] = Slash /\ \E j \in T : IsLine(t, k, j) \/ SeemsComment(t, k, j)
             \/ /\ t[k] \notin {Nul, Quote} /\ ~(t[k] = Slash /\ t[k + 1] \in {Slash, Star})
                /\ k + 1 \in T
  <2>1. k \in Nat /\ k >= i /\ k <= Len(s) /\ k \in tokens /\ t[k] = s[k]
    BY <1>1
  <2>2. CASE s[k] = Nul
    BY <2>1, <2>2
  <2>3. CASE s[k] = Quote /\ k + 1 \in inside
    BY <2>1, <2>3
  <2>4. ASSUME s[k] = Slash, NEW j \in tokens, IsLine(s, k, j)
        PROVE  j \in T /\ IsLine(t, k, j)
    <3>1. j \in Nat /\ k < j /\ j <= Len(s)
      BY <1>1, <2>4 DEF IsLine
    <3>2. \A m \in k .. j : t[m] = s[m]
      BY <1>1, <2>1, <3>1
    <3>3. k + 1 \in k .. j /\ j \in k .. j /\ \A m \in k .. j - 1 : m \in k .. j
      BY <2>1, <3>1
    <3> QED BY <2>1, <2>4, <3>1, <3>2, <3>3 DEF IsLine
  <2>5. ASSUME s[k] = Slash, NEW j \in tokens, SeemsComment(s, k, j)
        PROVE  j \in T /\ SeemsComment(t, k, j)
    <3>1. j \in Nat /\ k + 2 <= j /\ j <= Len(s)
      BY <1>1, <2>5 DEF SeemsComment
    <3>2. \A m \in k .. j - 1 : t[m] = s[m]
      BY <1>1, <2>1, <3>1
    <3>3. /\ k + 1 \in k .. j - 1 /\ j - 2 \in k .. j - 1 /\ j - 1 \in k .. j - 1
          /\ \A m \in k .. j - 3 : m \in k .. j - 1 /\ m + 1 \in k .. j - 1
      BY <2>1, <3>1
    <3> QED BY <2>1, <2>5, <3>1, <3>2, <3>3 DEF SeemsComment
  <2>6. CASE /\ s[k] \notin {Nul, Quote} /\ ~(s[k] = Slash /\ s[k + 1] \in {Slash, Star})
             /\ k + 1 \in tokens
    <3>1. k + 1 \in T /\ t[k + 1] = s[k + 1]
      BY <1>1, <2>1, <2>6
    <3> QED BY <2>1, <2>6, <3>1
  <2> QED BY <2>1, <2>2, <2>3, <2>4, <2>5, <2>6 DEF SeemsClosed
<1>4. ASSUME NEW k \in I
      PROVE  \/ t[k] = Quote /\ k + 1 \in T
             \/ t[k] = Backslash /\ k + 2 \in I
             \/ t[k] \notin {Nul, Quote, Backslash} /\ k + 1 \in I
  <2>1. k \in Nat /\ k >= i /\ k <= Len(s) /\ k \in inside /\ t[k] = s[k]
    BY <1>1
  <2> QED BY <2>1 DEF SeemsClosed
<1> HIDE DEF T, I
<1>5. SeemsClosed(t, T, I)
  BY <1>2, <1>3, <1>4 DEF SeemsClosed
<1> QED BY <1>5 DEF T, I

\* What is printed of a string so far: the characters begin at inside, the
\* next one is printed at e.
Prints(s, e, inside) ==
  /\ inside \subseteq 2 .. e /\ 2 \in inside /\ e \in inside
  /\ s[1] = Quote /\ \A k \in 1 .. e - 1 : s[k] \in Byte
  /\ \A k \in inside : k < e => /\ s[k] # Quote
                                /\ IF s[k] = Backslash THEN k + 2 \in inside ELSE k + 1 \in inside

\* One more character leaves what has been printed as it should be.
LEMMA PrintsMore ==
  ASSUME NEW s \in Seq(Cells), NEW e \in Nat, NEW inside, Prints(s, e, inside),
         NEW c \in Byte, NEW b \in Seq(Cells), NEW t \in Seq(Cells), t = Put(s, e, b),
         Len(b) >= Len(Escaped(c)), \A k \in 1 .. Len(Escaped(c)) : b[k] = Escaped(c)[k],
         e + Len(Escaped(c)) <= Len(s)
  PROVE  \E more : Prints(t, e + Len(Escaped(c)), more)
<1> DEFINE x == Escaped(c)
           n == Len(x)
           next == IF n = 1 THEN {e + 1} ELSE IF n = 2 THEN {e + 2} ELSE e + 2 .. e + 6
           more == inside \cup next
<1>1. /\ x \in Seq(Byte) /\ n \in {1, 2, 6}
      /\ n = 1 => x[1] \notin {Quote, Backslash}
      /\ n # 1 => x[1] = Backslash
      /\ n = 6 => \A k \in 3 .. 6 : x[k] \notin {Quote, Backslash}
  BY EscapedBytes
<1>2. /\ inside \subseteq 2 .. e /\ 2 \in inside /\ e \in inside /\ e >= 2
      /\ s[1] = Quote /\ \A k \in 1 .. e - 1 : s[k] \in Byte
  BY DEF Prints
<1>3. Len(s) \in Nat /\ Len(b) \in Nat
  OBVIOUS
<1> HIDE DEF x
<1>4. \A k \in 1 .. e - 1 : t[k] = s[k]
  BY <1>1, <1>2, <1>3, PutWrites DEF x
<1>5. \A k \in 1 .. n : t[e + (k - 1)] = x[k]
  <2> TAKE k \in 1 .. n
  <2>1. e + (k - 1) \in 1 .. Len(s) /\ (e + (k - 1)) - e + 1 = k
        /\ e <= e + (k - 1) /\ e + (k - 1) < e + Len(b)
    BY <1>1, <1>2, <1>3 DEF x
  <2>2. t[e + (k - 1)] = b[k]
    <3>1. s \in Seq(Cells) /\ b \in Seq(Cells) /\ e \in Nat
      OBVIOUS
    <3>2. /\ Put(s, e, b) \in Seq(Cells) /\ Len(Put(s, e, b)) = Len(s)
          /\ \A m \in 1 .. Len(s) :
               /\ m < e \/ m >= e + Len(b) => Put(s, e, b)[m] = s[m]
               /\ e <= m /\ m < e + Len(b) => Put(s, e, b)[m] = b[m - e + 1]
      BY ONLY <3>1, PutWrites
    <3>3. Put(s, e, b)[e + (k - 1)] = b[(e + (k - 1)) - e + 1]
      BY ONLY <2>1, <3>2
    <3> QED BY <2>1, <3>3
  <2> QED BY <2>2 DEF x
<1>6. \A k \in e .. (e + n) - 1 : t[k] \in Byte
  <2> TAKE k \in e .. (e + n) - 1
  <2>1. k - e + 1 \in 1 .. n /\ e + ((k - e + 1) - 1) = k
    BY <1>1
  <2>2. x[k - e + 1] \in Byte
    BY <1>1, <2>1
  <2> QED BY <1>5, <2>1, <2>2
<1>7. t[1] = Quote /\ \A k \in 1 .. (e + n) - 1 : t[k] \in Byte
  <2>1. \A k \in 1 .. (e + n) - 1 : k \in 1 .. e - 1 \/ k \in e .. (e + n) - 1
    BY <1>1
  <2>2. 1 \in 1 .. e - 1
    BY <1>2
  <2> QED BY <1>2, <1>4, <1>6, <2>1, <2>2
<1>8. more \subseteq 2 .. e + n /\ 2 \in more /\ e + n \in more
  <2>1. CASE n = 1
    BY <1>2, <2>1
  <2>2. CASE n = 2
    BY <1>2, <2>2
  <2>3. CASE n = 6
    <3>1. next = e + 2 .. e + 6
      BY <2>3
    <3> QED BY <1>2, <2>3, <3>1
  <2> QED BY <1>1, <2>1, <2>2, <2>3
<1>9. ASSUME NEW k \in more, k < e + n
      PROVE  /\ t[k] # Quote
             /\ IF t[k] = Backslash THEN k + 2 \in more ELSE k + 1 \in more
  <2>1. CASE k < e
    <3>1. k \in inside /\ k \in 1 .. e - 1
      BY <1>1, <1>2, <2>1
    <3> QED BY <1>4, <2>1, <3>1 DEF Prints
  <2>2. CASE k = e
    <3>1. t[e] = x[1]
      <4>1. 1 \in 1 .. n /\ e + (1 - 1) = e
        BY <1>1
      <4> QED BY <1>5, <4>1
    <3>2. x[1] # Quote /\ (x[1] = Backslash => n # 1) /\ (x[1] # Backslash => n = 1)
      BY <1>1 DEF Quote, Backslash
    <3>3. (n = 1 => e + 1 \in next) /\ (n # 1 => e + 2 \in next)
      BY <1>2
    <3> HIDE DEF next
    <3> QED BY <2>2, <3>1, <3>2, <3>3
  <2>3. CASE k > e
    <3>0. k \in next
      <4>1. k \notin inside
        BY <1>2, <2>3
      <4> QED BY <4>1
    <3>1. n = 6 /\ k \in e + 2 .. e + 5
      <4>0. n # 1
        <5> SUFFICES ASSUME n = 1 PROVE FALSE
          OBVIOUS
        <5>1. k = e + 1 /\ k < e + 1
          BY <1>9, <3>0
        <5> QED BY <5>1, <1>2
      <4>1. n # 2
        <5> SUFFICES ASSUME n = 2 PROVE FALSE
          OBVIOUS
        <5>1. k = e + 2 /\ k < e + 2
          BY <1>9, <3>0
        <5> QED BY <5>1, <1>2
      <4>2. n = 6
        BY <1>1, <4>0, <4>1
      <4>3. k \in e + 2 .. e + 6 /\ k < e + 6
        BY <1>9, <3>0, <4>2
      <4> QED BY <1>2, <4>2, <4>3
    <3>2. k - e + 1 \in 3 .. 6 /\ k - e + 1 \in 1 .. n /\ e + ((k - e + 1) - 1) = k
      BY <3>1
    <3>3. t[k] \notin {Quote, Backslash}
      <4>1. x[k - e + 1] \notin {Quote, Backslash}
        BY <1>1, <3>1, <3>2
      <4>2. t[e + ((k - e + 1) - 1)] = x[k - e + 1]
        BY <1>5, <3>2
      <4> QED BY <3>2, <4>1, <4>2
    <3> QED BY <3>1, <3>3
  <2> QED BY <1>1, <1>2, <2>1, <2>2, <2>3
<1> HIDE DEF more, next
<1>10. Prints(t, e + n, more)
  BY <1>7, <1>8, <1>9 DEF Prints
<1> QED BY <1>10 DEF x

\* With the quote and the NUL behind it, it is a text that is closed.
LEMMA PrintedIsClosed ==
  ASSUME NEW s \in Seq(Cells), NEW e \in Nat, NEW inside, Prints(s, e, inside),
         NEW t \in Seq(Cells), Len(t) = e + 1, Len(s) = e + 1,
         \A k \in 1 .. e - 1 : t[k] = s[k], t[e] = Quote, t[e + 1] = Nul
  PROVE  /\ SeemsClosed(t, {1, e + 1}, inside)
         /\ \A k \in 1 .. e : t[k] \in Byte
<1>1. /\ inside \subseteq 2 .. e /\ 2 \in inside /\ e \in inside /\ e >= 2
      /\ s[1] = Quote /\ \A k \in 1 .. e - 1 : s[k] \in Byte
  BY DEF Prints
<1>2. DOMAIN t = 1 .. e + 1
  OBVIOUS
<1>3. t[1] = Quote
  <2>1. 1 \in 1 .. e - 1
    BY <1>1
  <2> QED BY <1>1, <2>1
<1>4. ASSUME NEW k \in inside
      PROVE  \/ t[k] = Quote /\ k + 1 \in {1, e + 1}
             \/ t[k] = Backslash /\ k + 2 \in inside
             \/ t[k] \notin {Nul, Quote, Backslash} /\ k + 1 \in inside
  <2>1. CASE k = e
    BY <2>1
  <2>2. CASE k # e
    <3>1. k \in 1 .. e - 1 /\ k < e
      BY <1>1, <2>2
    <3>2. t[k] = s[k] /\ s[k] \in Byte
      BY <1>1, <3>1
    <3>3. \A x \in Byte : x # Nul
      BY DEF Byte, Nul
    <3> QED BY <3>1, <3>2, <3>3 DEF Prints
  <2> QED BY <2>1, <2>2
<1>5. \A k \in 1 .. e : t[k] \in Byte
  <2>1. \A k \in 1 .. e : k \in 1 .. e - 1 \/ k = e
    BY <1>1
  <2>2. \A k \in 1 .. e - 1 : t[k] \in Byte
    BY <1>1
  <2>3. Quote \in Byte
    BY DEF Byte, Quote
  <2> QED BY <2>1, <2>2, <2>3
<1>6. {1, e + 1} \cup inside \subseteq DOMAIN t
  <2>1. 1 \in 1 .. e + 1 /\ e + 1 \in 1 .. e + 1 /\ 2 .. e \subseteq 1 .. e + 1
    BY <1>1
  <2> QED BY <1>1, <1>2, <2>1
<1>7. ASSUME NEW k \in {1, e + 1}
      PROVE  \/ t[k] = Nul
             \/ t[k] = Quote /\ k + 1 \in inside
  <2>1. 1 + 1 = 2
    OBVIOUS
  <2> QED BY <1>1, <1>3, <2>1
<1>8. SeemsClosed(t, {1, e + 1}, inside)
  BY <1>4, <1>6, <1>7 DEF SeemsClosed
<1> QED BY <1>5, <1>8

-----------------------------------------------------------------------------
(* The inductive invariant                                                 *)

Printing == {"measure", "plain", "escape", "printed"}
Reading == Printing \cup {"minify", "literal"}

\* The text is none whose strings and comments are known to be closed, in the
\* eyes of cJSON_Minify.
Open == job.kind = "minify" /\ ~Readable(job)

\* What is reserved is what will have been printed at the end.
PrintIsSound ==
  /\ pc \in Printing => job.kind = "trip" /\ buf = Terminated(job.text)
  /\ pc = "measure" => from = 1
  /\ pc = "plain" =>
       EscapeCharacters = 0 /\ to = 2 /\ room = Len(buf) + 2 /\ out[1] = Quote
  /\ pc = "escape" =>
       /\ from <= Len(buf) /\ to = Column(buf, from) /\ room = Column(buf, Len(buf)) + 1
       /\ \E I : Prints(out, to, I)
  /\ pc = "printed" =>
       /\ room >= 1 /\ out[room] = Nul /\ \A k \in 1 .. room - 1 : out[k] \in Byte
       /\ \E I : SeemsClosed(out, {1, room}, I)

\* cJSON_Minify writes behind where it reads, and what it is still to read is
\* closed.
MinifyIsSound ==
  pc \in {"minify", "literal"} =>
    /\ job.kind # "parse" /\ to <= from /\ from <= Len(buf)
    /\ \/ Open
       \/ \E T, I : SeemsClosed(buf, T, I) /\ from \in IF pc = "literal" THEN I ELSE T

\* The second loop of parse_string follows the first one, and an escape
\* sequence that was counted is written in less room than it takes.
ParseIsSound ==
  /\ pc \in {"size", "decode"} => job.kind # "minify"
  /\ pc = "size" /\ buf[1] = Quote =>
       /\ end <= Len(buf)
       /\ \E G : Scans(buf, end, G) /\ skipped = Cardinality(EscapesBefore(buf, G, end))
  /\ pc = "decode" =>
       /\ end <= Len(buf) /\ room = end - skipped
       /\ \E G : /\ Scans(buf, end, G) /\ skipped = Cardinality(EscapesBefore(buf, G, end))
                 /\ from \in G /\ to <= from - 1 - Cardinality(EscapesBefore(buf, G, from))

Sound ==
  /\ buf[Len(buf)] = Nul
  /\ pc \in Reading => end = 2 /\ skipped = 0 /\ ep = NoError
  /\ PrintIsSound /\ MinifyIsSound /\ ParseIsSound

IInv ==
  /\ TypeOK /\ job \in Jobs /\ buf # <<>>
  /\ outside => Open
  /\ ~outside => Sound

Loops == {"measure", "plain", "escape", "printed", "minify", "literal", "size", "decode",
          "done", "failed"}

\* The ranges of TypeOK, without the operator that SMT does not know.
LEMMA TypesGive ==
  ASSUME TypeOK
  PROVE  /\ pc \in Loops /\ buf \in Seq(Chars) /\ out \in Seq(Cells)
         /\ from \in Nat /\ 1 <= from /\ from <= Len(buf) + 2
         /\ end \in Nat /\ 2 <= end /\ (end <= 2 \/ end <= Len(buf))
         /\ to \in Nat /\ 1 <= to /\ (to <= Len(buf) + 1 \/ to <= room + 1)
         /\ skipped \in 0 .. Len(buf) /\ ep \in 0 .. Len(buf)
         /\ Len(out) = room /\ room \in Nat /\ Len(buf) \in Nat
         /\ outside \in BOOLEAN /\ starved \in BOOLEAN
<1>1. pc \in Loops /\ buf \in Seq(Chars) /\ out \in Seq(Cells)
  BY DEF TypeOK, Loops, Chars, Cells
<1>2. /\ from \in 1 .. Len(buf) + 2 /\ skipped \in 0 .. Len(buf) /\ ep \in 0 .. Len(buf)
      /\ Len(out) = room /\ outside \in BOOLEAN /\ starved \in BOOLEAN
  BY DEF TypeOK
<1>3. Len(buf) \in Nat /\ Len(out) \in Nat
  BY <1>1
<1>4. end \in 2 .. Max({2, Len(buf)}) /\ to \in 1 .. Max({Len(buf), room}) + 1
  BY DEF TypeOK
<1>5. Max({2, Len(buf)}) = IF 2 >= Len(buf) THEN 2 ELSE Len(buf)
  BY <1>3, MaxIsGreatest
<1>6. Max({Len(buf), room}) = IF Len(buf) >= room THEN Len(buf) ELSE room
  BY <1>2, <1>3, MaxIsGreatest
<1> QED BY <1>1, <1>2, <1>3, <1>4, <1>5, <1>6

\* The same for the state after a step.
LEMMA TypesHold ==
  ASSUME pc' \in Loops, buf' \in Seq(Chars), out' \in Seq(Cells),
         from' \in Nat, 1 <= from', from' <= Len(buf') + 2,
         end' \in Nat, 2 <= end', end' <= 2 \/ end' <= Len(buf'),
         to' \in Nat, 1 <= to', to' <= Len(buf') + 1 \/ to' <= room' + 1,
         skipped' \in 0 .. Len(buf'), ep' \in 0 .. Len(buf'), Len(out') = room',
         outside' \in BOOLEAN, starved' \in BOOLEAN
  PROVE  TypeOK'
<1>1. Len(buf') \in Nat /\ Len(out') \in Nat
  OBVIOUS
<1> DEFINE a == Len(buf')
           b == room'
           m == Max({2, a})
           n == Max({a, b})
<1>0. a \in Int /\ b \in Int /\ 2 \in Int
  BY <1>1
<1>2. m = (IF 2 >= a THEN 2 ELSE a) /\ n = (IF a >= b THEN a ELSE b)
  <2> HIDE DEF a, b
  <2> QED BY ONLY <1>0, MaxIsGreatest
<1>3. /\ end' \in Nat /\ 2 <= end' /\ (end' <= 2 \/ end' <= a)
      /\ to' \in Nat /\ 1 <= to' /\ (to' <= a + 1 \/ to' <= b + 1)
  OBVIOUS
<1>4. end' \in 2 .. m /\ to' \in 1 .. n + 1
  <2> HIDE DEF a, b, m, n
  <2> QED BY ONLY <1>0, <1>2, <1>3
<1>5. from' \in 1 .. Len(buf') + 2
  BY <1>1
<1>6. /\ pc' \in Loops /\ buf' \in Seq(Chars) /\ out' \in Seq(Cells)
      /\ skipped' \in 0 .. Len(buf') /\ ep' \in 0 .. Len(buf') /\ Len(out') = room'
      /\ outside' \in BOOLEAN /\ starved' \in BOOLEAN
  OBVIOUS
<1> QED BY <1>4, <1>5, <1>6 DEF TypeOK, Loops, Chars, Cells

\* What an allocation leaves, if it succeeds.
LEMMA AllocateGives ==
  ASSUME NEW n \in Nat, NEW first \in Seq(Cells), NEW next, Allocate(n, first, next), Len(first) <= n
  PROVE  \/ pc' = "failed" /\ starved' = TRUE /\ UNCHANGED <<room, out, to>>
         \/ /\ pc' = next /\ UNCHANGED starved /\ room' = n /\ to' = Len(first) + 1
            /\ out' \in Seq(Cells) /\ Len(out') = n
            /\ \A k \in 1 .. Len(first) : out'[k] = first[k]
<1> DEFINE blank == [i \in 1 .. n |-> Junk]
<1>1. blank \in Seq(Cells) /\ Len(blank) = n
  BY DEF Cells
<1>2. /\ Put(blank, 1, first) \in Seq(Cells) /\ Len(Put(blank, 1, first)) = n
      /\ \A k \in 1 .. n : 1 <= k /\ k < 1 + Len(first) => Put(blank, 1, first)[k] = first[k - 1 + 1]
  BY <1>1, PutWrites
<1>3. \A k \in 1 .. Len(first) : Put(blank, 1, first)[k] = first[k]
  <2> TAKE k \in 1 .. Len(first)
  <2>1. k \in 1 .. n /\ 1 <= k /\ k < 1 + Len(first) /\ k - 1 + 1 = k
    OBVIOUS
  <2> HIDE DEF blank
  <2> QED BY <1>2, <2>1
<1> HIDE DEF blank
<1> QED BY <1>2, <1>3 DEF Allocate, blank

\* The text of a string, with the NUL behind it.
LEMMA TextEnds ==
  ASSUME NEW s \in Seq(Byte), buf = Terminated(s)
  PROVE  /\ buf \in Seq(Chars) /\ buf # <<>> /\ Len(buf) = Len(s) + 1 /\ buf[Len(buf)] = Nul
         /\ \A k \in 1 .. Len(buf) : k # Len(buf) => buf[k] \in Byte
<1>1. Byte \subseteq Chars /\ Nul \in Chars
  BY DEF Chars
<1>2. s \in Seq(Chars)
  BY <1>1
<1>3. buf \in Seq(Chars) /\ Len(buf) = Len(s) + 1 /\ buf[Len(buf)] = Nul
      /\ \A k \in 1 .. Len(s) : buf[k] = s[k]
  BY <1>1, <1>2 DEF Terminated
<1>4. \A k \in 1 .. Len(buf) : k # Len(buf) => k \in 1 .. Len(s)
  BY <1>3
<1> QED BY <1>3, <1>4

\* At first, nothing has been counted.
LEMMA InitIsSound == Init => IInv
<1> SUFFICES ASSUME Init
             PROVE  IInv
  OBVIOUS
<1> USE JobAssumption
<1>1. job \in Jobs /\ job.kind \in {"trip", "parse", "minify"} /\ job.text \in Seq(Byte)
  BY DEF Init
<1>2. buf = Terminated(job.text)
  BY DEF Init
<1>3. /\ buf \in Seq(Chars) /\ buf # <<>> /\ Len(buf) = Len(job.text) + 1 /\ buf[Len(buf)] = Nul
      /\ Len(buf) \in Nat /\ Len(buf) >= 1
  BY <1>1, <1>2, TextEnds
<1>4. /\ from = 1 /\ end = 2 /\ skipped = 0 /\ room = 0 /\ out = <<>> /\ to = 1 /\ ep = NoError
      /\ outside = FALSE /\ starved = FALSE
  BY DEF Init
<1>5. /\ job.kind = "trip" => pc = "measure"
      /\ job.kind = "parse" => pc = "size"
      /\ job.kind = "minify" => pc = "minify"
  BY Zenon DEF Init
<1>6. TypeOK
  <2>1. Max({2, Len(buf)}) = IF 2 >= Len(buf) THEN 2 ELSE Len(buf)
    BY <1>3, MaxIsGreatest
  <2>2. Max({Len(buf), room}) = IF Len(buf) >= room THEN Len(buf) ELSE room
    BY <1>3, <1>4, MaxIsGreatest
  <2>3. end \in 2 .. Max({2, Len(buf)}) /\ to \in 1 .. Max({Len(buf), room}) + 1
    BY <1>3, <1>4, <2>1, <2>2
  <2>4. out \in Seq(Byte \cup {Nul, Junk}) /\ Len(out) = room /\ buf \in Seq(Byte \cup {Nul})
    BY <1>3, <1>4 DEF Chars
  <2>5. from \in 1 .. Len(buf) + 2 /\ skipped \in 0 .. Len(buf) /\ ep \in 0 .. Len(buf)
    BY <1>3, <1>4 DEF NoError
  <2>6. pc \in {"measure", "size", "minify"}
    BY <1>1, <1>5
  <2> QED BY <1>4, <2>3, <2>4, <2>5, <2>6 DEF TypeOK
<1>7. PrintIsSound
  BY <1>1, <1>2, <1>4, <1>5 DEF PrintIsSound, Printing
<1>8. MinifyIsSound
  <2> SUFFICES ASSUME pc \in {"minify", "literal"}
               PROVE  /\ job.kind # "parse" /\ to <= from /\ from <= Len(buf)
                      /\ \/ Open
                         \/ \E T, I : SeemsClosed(buf, T, I) /\ from \in IF pc = "literal" THEN I ELSE T
    BY DEF MinifyIsSound
  <2>1. job.kind = "minify" /\ pc = "minify"
    BY <1>1, <1>5
  <2>2. Readable(job) => 1 \in job.tokens /\ SeemsClosed(buf, job.tokens, job.inside)
    <3> SUFFICES ASSUME Readable(job)
                 PROVE  1 \in job.tokens /\ SeemsClosed(buf, job.tokens, job.inside)
      OBVIOUS
    <3>1. job.closed /\ \A i \in job.tokens : ~(buf[i] = Slash /\ buf[i + 1] = Star /\ buf[i + 2] = Slash)
      BY <1>2 DEF Readable
    <3>2. 1 \in job.tokens /\ IsClosed(buf, job.tokens, job.inside)
      BY <1>1, <1>2, <2>1, <3>1
    <3> QED BY <1>3, <3>1, <3>2, ReadableSeemsClosed
  <2> QED BY <1>3, <1>4, <2>1, <2>2 DEF Open
<1>9. ParseIsSound
  <2>1. CASE pc = "size" /\ buf[1] = Quote
    <3>1. Len(buf) # 1
      BY <1>3, <2>1 DEF Quote, Nul
    <3>2. Scans(buf, 2, {2})
      BY DEF Scans
    <3>3. EscapesBefore(buf, {2}, 2) = {}
      BY DEF EscapesBefore
    <3>4. Cardinality(EscapesBefore(buf, {2}, 2)) = 0
      BY <3>3, FS_EmptySet
    <3> QED BY <1>1, <1>3, <1>4, <1>5, <2>1, <3>1, <3>2, <3>4 DEF ParseIsSound
  <2>2. CASE ~(pc = "size" /\ buf[1] = Quote)
    BY <1>1, <1>5, <2>2 DEF ParseIsSound
  <2> QED BY <2>1, <2>2
<1> QED BY <1>1, <1>3, <1>4, <1>6, <1>7, <1>8, <1>9 DEF IInv, Sound

-----------------------------------------------------------------------------
(* print_string_ptr                                                        *)

\* What a state of the printer has in common.
LEMMA PrinterGives ==
  ASSUME IInv, ~outside, pc \in Printing
  PROVE  /\ job \in Jobs /\ job.kind = "trip" /\ job.text \in Seq(Byte)
         /\ buf = Terminated(job.text) /\ buf \in Seq(Chars) /\ buf # <<>>
         /\ Len(buf) \in Nat /\ Len(buf) >= 1 /\ buf[Len(buf)] = Nul
         /\ \A k \in 1 .. Len(buf) : k # Len(buf) => buf[k] \in Byte
         /\ end = 2 /\ skipped = 0 /\ ep = 0
<1>1. job \in Jobs /\ job.kind = "trip" /\ buf = Terminated(job.text)
  BY DEF IInv, Sound, PrintIsSound
<1>2. job.text \in Seq(Byte)
  BY <1>1, JobAssumption
<1>3. end = 2 /\ skipped = 0 /\ ep = 0
  BY DEF IInv, Sound, Reading, NoError
<1>4. Len(job.text) \in Nat
  BY <1>2
<1> QED BY <1>1, <1>2, <1>3, <1>4, TextEnds

\* A failed step keeps the ranges, and nothing else is asked of it.
LEMMA FailureIsSound ==
  ASSUME IInv, pc' = "failed", TypeOK', ~outside', UNCHANGED job, buf' # <<>>,
         buf'[Len(buf')] = Nul
  PROVE  IInv'
BY DEF IInv, Sound, PrintIsSound, MinifyIsSound, ParseIsSound, Printing, Reading

\* The first loop of print_string_ptr.
LEMMA MeasureIsSound == IInv /\ ~outside /\ Measure => IInv'
<1> SUFFICES ASSUME IInv, ~outside, Measure
             PROVE  IInv'
  OBVIOUS
<1> DEFINE L == Len(buf)
<1>1. pc = "measure" /\ from = 1 /\ TypeOK
  BY DEF Measure, IInv, Sound, PrintIsSound
<1>2. /\ job \in Jobs /\ job.kind = "trip" /\ job.text \in Seq(Byte)
      /\ buf = Terminated(job.text) /\ buf \in Seq(Chars) /\ buf # <<>>
      /\ L \in Nat /\ L >= 1 /\ buf[L] = Nul
      /\ end = 2 /\ skipped = 0 /\ ep = 0
  BY <1>1, PrinterGives DEF Printing
<1>3. UNCHANGED <<job, buf, from, end, skipped, ep, outside>>
  BY DEF Measure
<1>4. EscapeCharacters = Cardinality(WithLetter(buf, L)) + 5 * Cardinality(WithNumber(buf, L))
  <2>1. /\ {i \in Content : buf[i] \in DOMAIN Letter} = WithLetter(buf, L)
        /\ {i \in Content : buf[i] < 32 /\ buf[i] \notin DOMAIN Letter} = WithNumber(buf, L)
    BY DEF Content, WithLetter, WithNumber
  <2> QED BY <2>1 DEF EscapeCharacters
<1>5. EscapeCharacters \in Nat /\ Column(buf, L) = 1 + L + EscapeCharacters
  <2> DEFINE a == Cardinality(WithLetter(buf, L))
             b == Cardinality(WithNumber(buf, L))
  <2>1. a \in Nat /\ b \in Nat
    BY <1>2, CountsAreNumbers
  <2>2. EscapeCharacters = a + 5 * b /\ Column(buf, L) = 1 + L + a + 5 * b
    BY <1>4 DEF Column
  <2> HIDE DEF a, b, L
  <2> QED BY <1>2, <2>1, <2>2
<1> DEFINE n == L - 1 + EscapeCharacters + 3
           next == IF EscapeCharacters = 0 THEN "plain" ELSE "escape"
<1>6. n \in Nat /\ n >= 3 /\ n = Column(buf, L) + 1
  BY <1>2, <1>5
<1> DEFINE q == <<Quote>>
<1>7. Allocate(n, q, next)
  BY DEF Measure
<1>8. q \in Seq(Cells) /\ Len(q) = 1 /\ q[1] = Quote
  BY DEF Cells, Byte, Quote
<1> HIDE DEF n, next, q
<1>9. \/ pc' = "failed" /\ starved' = TRUE /\ UNCHANGED <<room, out, to>>
      \/ /\ pc' = next /\ UNCHANGED starved /\ room' = n /\ to' = 2
         /\ out' \in Seq(Cells) /\ Len(out') = n /\ out'[1] = Quote
  <2>1. \/ pc' = "failed" /\ starved' = TRUE /\ UNCHANGED <<room, out, to>>
        \/ /\ pc' = next /\ UNCHANGED starved /\ room' = n /\ to' = Len(q) + 1
           /\ out' \in Seq(Cells) /\ Len(out') = n
           /\ \A k \in 1 .. Len(q) : out'[k] = q[k]
    <3>1. n \in Nat /\ Len(q) <= n /\ q \in Seq(Cells) /\ Allocate(n, q, next)
      BY <1>6, <1>7, <1>8
    <3> QED BY ONLY <3>1, AllocateGives
  <2>2. 1 \in 1 .. Len(q)
    BY <1>8
  <2> QED BY <1>8, <2>1, <2>2
<1>10. outside' = FALSE /\ outside' \in BOOLEAN
  BY <1>1, <1>3, TypesGive
<1>11. CASE pc' = "failed" /\ starved' = TRUE /\ UNCHANGED <<room, out, to>>
  <2>1. TypeOK'
    BY <1>1, <1>3, <1>11, TypesGive, TypesHold DEF Loops
  <2> QED BY <1>2, <1>3, <1>10, <1>11, <2>1, FailureIsSound
<1>12. CASE /\ pc' = next /\ UNCHANGED starved /\ room' = n /\ to' = 2
            /\ out' \in Seq(Cells) /\ Len(out') = n /\ out'[1] = Quote
  <2>1. next \in {"plain", "escape"} /\ (next = "plain" <=> EscapeCharacters = 0)
    BY DEF next
  <2>2. TypeOK'
    BY <1>1, <1>2, <1>3, <1>6, <1>10, <1>12, <2>1, TypesGive, TypesHold DEF Loops
  <2>3. EscapeCharacters' = EscapeCharacters
    BY <1>3 DEF EscapeCharacters, Content
  <2>4. Column(buf', 1) = 2
    <3>1. WithLetter(buf, 1) = {} /\ WithNumber(buf, 1) = {}
      BY DEF WithLetter, WithNumber
    <3>2. Cardinality(WithLetter(buf, 1)) = 0 /\ Cardinality(WithNumber(buf, 1)) = 0
      BY <3>1, FS_EmptySet
    <3> QED BY <1>3, <3>2 DEF Column
  <2>5. Prints(out', 2, {2})
    BY <1>12 DEF Prints, Byte, Quote
  <2>6. PrintIsSound'
    <3>1. pc' = "plain" => EscapeCharacters' = 0 /\ to' = 2 /\ room' = Len(buf') + 2 /\ out'[1] = Quote
      BY <1>2, <1>3, <1>5, <1>6, <1>12, <2>1, <2>3
    <3>2. /\ from' <= Len(buf') /\ to' = Column(buf', from') /\ room' = Column(buf', Len(buf')) + 1
          /\ \E I : Prints(out', to', I)
      BY <1>1, <1>2, <1>3, <1>6, <1>12, <2>4, <2>5
    <3>3. pc' \in {"plain", "escape"} /\ job'.kind = "trip" /\ buf' = Terminated(job'.text)
      BY <1>2, <1>3, <1>12, <2>1
    <3> QED BY <3>1, <3>2, <3>3 DEF PrintIsSound
  <2>7. MinifyIsSound' /\ ParseIsSound'
    BY <1>12, <2>1 DEF MinifyIsSound, ParseIsSound
  <2> QED BY <1>2, <1>3, <1>10, <2>2, <2>6, <2>7 DEF IInv, Sound, NoError
<1> QED BY <1>9, <1>11, <1>12

\* A part of a sequence.
LEMMA PartOf ==
  ASSUME NEW V, NEW s \in Seq(V), NEW n \in Nat, NEW m \in Nat \ {0}, n <= Len(s), m <= n + 1
  PROVE  /\ SubSeq(s, m, n) \in Seq(V) /\ Len(SubSeq(s, m, n)) = n - m + 1
         /\ \A k \in 1 .. n - m + 1 : SubSeq(s, m, n)[k] = s[m + k - 1]
OBVIOUS

\* Nothing is written past the end.
LEMMA StaysIn ==
  ASSUME NEW s, NEW i, NEW b, outside' = PastTheEnd(s, i, b), ~PastTheEnd(s, i, b)
  PROVE  outside' = FALSE
<1>1. PastTheEnd(s, i, b) = FALSE
  <2>1. PastTheEnd(s, i, b) \in BOOLEAN
    BY DEF PastTheEnd
  <2> QED BY <2>1
<1> QED BY <1>1, Zenon

\* A printed string keeps the ranges, and can be minified.
LEMMA PrintedIsSound ==
  ASSUME IInv, ~outside, pc \in Printing, pc' = "printed", outside' = FALSE,
         UNCHANGED <<job, buf, from, sizes, to, ep, starved>>,
         NEW s \in Seq(Cells), NEW e \in Nat, NEW inside, Prints(s, e, inside), Len(s) = e + 1,
         out' \in Seq(Cells), Len(out') = e + 1, room = e + 1,
         \A k \in 1 .. e - 1 : out'[k] = s[k], out'[e] = Quote, out'[e + 1] = Nul
  PROVE  IInv'
<1>1. /\ job \in Jobs /\ job.kind = "trip" /\ buf = Terminated(job.text) /\ buf # <<>>
      /\ buf[Len(buf)] = Nul /\ end = 2 /\ skipped = 0 /\ ep = 0
  BY PrinterGives
<1>2. /\ job' = job /\ buf' = buf /\ from' = from /\ to' = to /\ ep' = ep /\ starved' = starved
      /\ end' = end /\ skipped' = skipped /\ room' = room
  BY DEF sizes
<1>3. TypeOK
  BY DEF IInv
<1>4. outside' \in BOOLEAN
  OBVIOUS
<1>5. TypeOK'
  BY <1>2, <1>3, <1>4, TypesGive, TypesHold DEF Loops
<1>6. SeemsClosed(out', {1, e + 1}, inside) /\ \A k \in 1 .. e : out'[k] \in Byte
  BY PrintedIsClosed
<1>7. PrintIsSound'
  <2>1. room' >= 1 /\ out'[room'] = Nul /\ \A k \in 1 .. room' - 1 : out'[k] \in Byte
    BY <1>2, <1>6
  <2>2. \E I : SeemsClosed(out', {1, room'}, I)
    BY <1>2, <1>6
  <2>3. job'.kind = "trip" /\ buf' = Terminated(job'.text)
    BY <1>1, <1>2
  <2> QED BY <2>1, <2>2, <2>3 DEF PrintIsSound
<1>8. MinifyIsSound' /\ ParseIsSound'
  BY DEF MinifyIsSound, ParseIsSound
<1> QED BY <1>1, <1>2, <1>5, <1>7, <1>8 DEF IInv, Sound, NoError

\* What Closed writes.
LEMMA ClosedWrites ==
  ASSUME NEW s \in Seq(Cells), room = Len(s), room >= 2
  PROVE  /\ Closed(s) \in Seq(Cells) /\ Len(Closed(s)) = Len(s)
         /\ \A k \in 1 .. room - 2 : Closed(s)[k] = s[k]
         /\ Closed(s)[room - 1] = Quote /\ Closed(s)[room] = Nul
<1> DEFINE b == <<Quote, Nul>>
<1>1. b \in Seq(Cells) /\ Len(b) = 2 /\ b[1] = Quote /\ b[2] = Nul
  BY DEF Cells, Byte, Quote
<1>2. Closed(s) = Put(s, room - 1, b)
  BY DEF Closed
<1> DEFINE i == room - 1
<1>3. Len(s) \in Nat /\ i \in Nat /\ room = i + 1
  OBVIOUS
<1> HIDE DEF b, i
<1>4. /\ Put(s, i, b) \in Seq(Cells) /\ Len(Put(s, i, b)) = Len(s)
      /\ \A k \in 1 .. Len(s) :
           /\ k < i \/ k >= i + Len(b) => Put(s, i, b)[k] = s[k]
           /\ i <= k /\ k < i + Len(b) => Put(s, i, b)[k] = b[k - i + 1]
  <2>1. s \in Seq(Cells) /\ b \in Seq(Cells) /\ i \in Nat
    BY <1>1, <1>3
  <2> QED BY ONLY <2>1, PutWrites
<1>5. \A k \in 1 .. room - 2 : k \in 1 .. Len(s) /\ k < i
  BY <1>3
<1>6. /\ i \in 1 .. Len(s) /\ i < i + Len(b) /\ i - i + 1 = 1 /\ i <= i
      /\ room \in 1 .. Len(s) /\ room < i + Len(b) /\ room - i + 1 = 2 /\ i <= room
  BY <1>1, <1>3
<1>7. Put(s, i, b)[i] = Quote
  BY <1>1, <1>4, <1>6
<1>8. Put(s, i, b)[room] = Nul
  BY <1>1, <1>4, <1>6
<1> QED BY <1>2, <1>4, <1>5, <1>7, <1>8 DEF i

\* A text without escape sequences is copied at once.
LEMMA CopyPlainGives ==
  ASSUME IInv, ~outside, CopyPlain
  PROVE  /\ pc' = "printed" /\ UNCHANGED <<job, buf, from, sizes, to, ep, starved>>
         /\ outside' = FALSE /\ room = Len(buf) + 2
         /\ out' \in Seq(Cells) /\ Len(out') = room
         /\ out'[1] = Quote /\ out'[Len(buf) + 1] = Quote /\ out'[Len(buf) + 2] = Nul
         /\ \A k \in 2 .. Len(buf) : out'[k] = buf[k - 1] /\ k - 1 \in 1 .. Len(buf) - 1
         /\ \A k \in 1 .. Len(buf) - 1 : buf[k] \notin DOMAIN Letter /\ ~(buf[k] < 32)
<1> DEFINE L == Len(buf)
           b == SubSeq(buf, 1, L - 1)
           s == Put(out, 2, b)
<1>1. pc = "plain" /\ pc \in Printing /\ TypeOK
  BY DEF CopyPlain, IInv, Printing
<1>2. /\ buf \in Seq(Chars) /\ L \in Nat /\ L >= 1
      /\ \A k \in 1 .. L : k # L => buf[k] \in Byte
  BY <1>1, PrinterGives
<1>3. EscapeCharacters = 0 /\ to = 2 /\ room = L + 2 /\ out[1] = Quote
  BY <1>1 DEF IInv, Sound, PrintIsSound
<1>4. out \in Seq(Cells) /\ Len(out) = room
  BY <1>1, TypesGive
<1>5. b \in Seq(Cells) /\ Len(b) = L - 1 /\ \A k \in 1 .. L - 1 : b[k] = buf[k] /\ b[k] \in Byte
  <2>1. buf \in Seq(Cells)
    BY <1>2 DEF Chars, Cells
  <2>2. b \in Seq(Cells) /\ Len(b) = L - 1 /\ \A k \in 1 .. L - 1 : b[k] = buf[k]
    <3>1. L - 1 \in Nat /\ L - 1 <= Len(buf) /\ \A k \in Int : 1 + k - 1 = k
      BY <1>2
    <3> HIDE DEF L
    <3> DEFINE l == L - 1
    <3>2. l \in Nat /\ l <= Len(buf) /\ b = SubSeq(buf, 1, l)
      BY <3>1
    <3> HIDE DEF b, l
    <3>3. b \in Seq(Cells) /\ Len(b) = l /\ \A k \in 1 .. l : b[k] = buf[k]
      BY <2>1, <3>2, PartOf
    <3> QED BY <3>3 DEF l
  <2>3. \A k \in 1 .. L - 1 : k \in 1 .. L /\ k # L
    BY <1>2
  <2> QED BY <1>2, <2>2, <2>3
<1> HIDE DEF b
<1>6. /\ s \in Seq(Cells) /\ Len(s) = room
      /\ \A k \in 1 .. room : /\ k < 2 => s[k] = out[k]
                              /\ 2 <= k /\ k < 2 + Len(b) => s[k] = b[k - 2 + 1]
  <2>1. 2 \in Nat /\ Len(out) = room
    BY <1>4
  <2> QED BY <1>4, <1>5, <2>1, PutWrites
<1>7. s[1] = Quote /\ \A k \in 2 .. L : s[k] = buf[k - 1] /\ k - 1 \in 1 .. L - 1
  <2> HIDE DEF s, b
  <2>1. 1 \in 1 .. room
    BY <1>2, <1>3
  <2>2. \A k \in 2 .. L : /\ k \in 1 .. room /\ 2 <= k /\ k < 2 + Len(b) /\ k - 2 + 1 = k - 1
                          /\ k - 1 \in 1 .. L - 1
    BY <1>2, <1>3, <1>5
  <2>3. s[1] = Quote
    BY <1>3, <1>6, <2>1
  <2> HIDE DEF L
  <2>4. ASSUME NEW k \in 2 .. L
        PROVE  s[k] = buf[k - 1] /\ k - 1 \in 1 .. L - 1
    <3>1. s[k] = b[k - 1] /\ k - 1 \in 1 .. L - 1
      BY <1>6, <2>2
    <3> QED BY <1>5, <3>1
  <2> QED BY <2>3, <2>4
<1>8. \A k \in 1 .. L - 1 : buf[k] \notin DOMAIN Letter /\ ~(buf[k] < 32)
  <2> DEFINE S == {i \in Content : buf[i] \in DOMAIN Letter}
             N == {i \in Content : buf[i] < 32 /\ buf[i] \notin DOMAIN Letter}
  <2>1. IsFiniteSet(Content)
    BY <1>2, FS_Interval DEF Content
  <2>2. IsFiniteSet(S) /\ IsFiniteSet(N)
    BY <2>1, FS_Subset
  <2>3. Cardinality(S) \in Nat /\ Cardinality(N) \in Nat /\ Cardinality(S) + 5 * Cardinality(N) = 0
    BY <1>3, <2>2, FS_CardinalityType DEF EscapeCharacters
  <2> DEFINE x == Cardinality(S)
             y == Cardinality(N)
  <2>4. x = 0 /\ y = 0
    <3> HIDE DEF x, y
    <3>1. x \in Nat /\ y \in Nat /\ x + 5 * y = 0
      BY <2>3 DEF x, y
    <3> QED BY <3>1
  <2>5. S = {} /\ N = {}
    BY <2>2, <2>4, FS_EmptySet
  <2> QED BY <2>5 DEF Content
<1>9. out' = Closed(s) /\ outside' = PastTheEnd(out, to, buf) /\ pc' = "printed"
      /\ UNCHANGED <<job, buf, from, sizes, to, ep, starved>>
  BY <1>3 DEF CopyPlain, b
<1>10. outside' = FALSE
  <2>1. ~PastTheEnd(out, to, buf)
    BY <1>2, <1>3, <1>4 DEF PastTheEnd
  <2> QED BY <1>9, <2>1, StaysIn
<1> HIDE DEF s
<1>11. /\ out' \in Seq(Cells) /\ Len(out') = room
       /\ \A k \in 1 .. room - 2 : out'[k] = s[k]
       /\ out'[room - 1] = Quote /\ out'[room] = Nul
  BY <1>2, <1>3, <1>6, <1>9, ClosedWrites
<1>12. room - 2 = L /\ room - 1 = L + 1 /\ 1 \in 1 .. L /\ 2 .. L \subseteq 1 .. L
  BY <1>2, <1>3
<1>13. out'[1] = Quote /\ \A k \in 2 .. L : out'[k] = s[k]
  BY <1>7, <1>11, <1>12
<1> QED BY <1>3, <1>7, <1>8, <1>9, <1>10, <1>11, <1>12, <1>13

\* It has the quotes at its ends only.
LEMMA CopyPlainIsSound == IInv /\ ~outside /\ CopyPlain => IInv'
<1> SUFFICES ASSUME IInv, ~outside, CopyPlain
             PROVE  IInv'
  OBVIOUS
<1> DEFINE L == Len(buf)
<1>1. pc = "plain" /\ pc \in Printing
  BY DEF CopyPlain, Printing
<1>2. L \in Nat /\ L >= 1 /\ \A k \in 1 .. L : k # L => buf[k] \in Byte
  BY <1>1, PrinterGives
<1>3. /\ pc' = "printed" /\ UNCHANGED <<job, buf, from, sizes, to, ep, starved>>
      /\ outside' = FALSE /\ room = L + 2
      /\ out' \in Seq(Cells) /\ Len(out') = room
      /\ out'[1] = Quote /\ out'[L + 1] = Quote /\ out'[L + 2] = Nul
      /\ \A k \in 2 .. L : out'[k] = buf[k - 1] /\ k - 1 \in 1 .. L - 1
      /\ \A k \in 1 .. L - 1 : buf[k] \notin DOMAIN Letter /\ ~(buf[k] < 32)
  BY CopyPlainGives
<1>4. Prints(out', L + 1, 2 .. L + 1)
  <2>1. Quote \in DOMAIN Letter /\ Backslash \in DOMAIN Letter /\ Quote \in Byte
    BY DEF Letter, Byte, Quote
  <2>2. \A k \in 1 .. L : out'[k] \in Byte
    <3>1. \A k \in 1 .. L : k = 1 \/ (k \in 2 .. L /\ k - 1 \in 1 .. L /\ k - 1 # L)
      BY <1>2
    <3> QED BY <1>2, <1>3, <2>1, <3>1
  <2>3. ASSUME NEW k \in 2 .. L + 1, k < L + 1
        PROVE  out'[k] # Quote /\ out'[k] # Backslash /\ k + 1 \in 2 .. L + 1
    <3>1. k \in 2 .. L /\ k + 1 \in 2 .. L + 1
      BY <1>2, <2>3
    <3>2. out'[k] \notin DOMAIN Letter
      BY <1>3, <3>1
    <3> QED BY <2>1, <3>1, <3>2
  <2>4. 2 \in 2 .. L + 1 /\ L + 1 \in 2 .. L + 1
    BY <1>2
  <2> QED BY <1>2, <1>3, <2>2, <2>3, <2>4 DEF Prints
<1> DEFINE e == L + 1
<1>5. e \in Nat /\ room = e + 1 /\ out'[e] = Quote /\ out'[e + 1] = Nul /\ Prints(out', e, 2 .. L + 1)
  BY <1>2, <1>3, <1>4
<1> HIDE DEF e
<1>6. Len(out') = e + 1
  BY <1>3, <1>5
<1> QED BY <1>1, <1>3, <1>5, <1>6, PrintedIsSound

\* The second loop writes a character in the columns that the first one
\* counted, and perhaps a NUL behind it.
LEMMA EscapeCharGives ==
  ASSUME IInv, ~outside, EscapeChar
  PROVE  LET e == Escaped(buf[from])
         IN  /\ pc = "escape" /\ pc' = "escape" /\ from' = from + 1 /\ outside' = FALSE
             /\ UNCHANGED <<job, buf, sizes, ep, starved>>
             /\ from \in Nat /\ from >= 1 /\ from < Len(buf) /\ buf[from] \in Byte
             /\ e \in Seq(Byte) /\ Len(e) \in {1, 2, 6}
             /\ to \in Nat /\ to >= 1 /\ to = Column(buf, from) /\ to' = to + Len(e)
             /\ room \in Nat /\ room = Column(buf, Len(buf)) + 1 /\ to + Len(e) <= room - 1
             /\ out \in Seq(Cells) /\ Len(out) = room
             /\ \E b \in Seq(Cells) :
                  /\ out' = Put(out, to, b) /\ Len(b) >= Len(e)
                  /\ \A k \in 1 .. Len(e) : b[k] = e[k]
<1> DEFINE L == Len(buf)
           c == buf[from]
           e == Escaped(c)
           b == IF Len(e) = 6 THEN Terminated(e) ELSE e
<1>1. pc = "escape" /\ pc \in Printing /\ TypeOK /\ c # Nul
  BY DEF EscapeChar, IInv, Printing
<1>2. L \in Nat /\ buf[L] = Nul /\ \A k \in 1 .. L : k # L => buf[k] \in Byte
  BY <1>1, PrinterGives
<1>3. from <= L /\ to = Column(buf, from) /\ room = Column(buf, L) + 1
  BY <1>1 DEF IInv, Sound, PrintIsSound
<1>4. /\ out \in Seq(Cells) /\ Len(out) = room /\ from \in Nat /\ from >= 1 /\ to \in Nat /\ to >= 1
      /\ room \in Nat
  BY <1>1, TypesGive
<1>5. from # L /\ from < L /\ c \in Byte
  BY <1>1, <1>2, <1>3, <1>4
<1>6. /\ e \in Seq(Byte) /\ e \in Seq(Cells) /\ Len(e) \in {1, 2, 6}
  BY <1>5, EscapedBytes
<1>7. Column(buf, from + 1) = to + Len(e)
  BY <1>3, <1>4, <1>5, ColumnStep
<1>8. to + Len(e) <= room - 1
  <2>1. Column(buf, from + 1) <= Column(buf, L)
    BY <1>2, <1>4, <1>5, ColumnsGrow
  <2>2. Column(buf, L) = room - 1 /\ Column(buf, L) \in Int
    BY <1>2, <1>3, <1>4, ColumnsGrow
  <2> QED BY <1>7, <2>1, <2>2
<1> HIDE DEF e
<1>9. /\ b \in Seq(Cells) /\ Len(b) >= Len(e) /\ Len(b) <= Len(e) + 1
      /\ \A k \in 1 .. Len(e) : b[k] = e[k]
  <2>1. Nul \in Cells
    BY DEF Cells
  <2> QED BY <1>6, <2>1 DEF Terminated
<1>10. /\ out' = Put(out, to, b) /\ to' = to + Len(e) /\ outside' = PastTheEnd(out, to, b)
       /\ from' = from + 1 /\ pc' = pc /\ UNCHANGED <<job, buf, sizes, ep, starved>>
  BY DEF EscapeChar, Write, e
<1> HIDE DEF b
<1>11. outside' = FALSE
  <2>1. Len(b) \in Nat /\ Len(e) \in Nat
    BY <1>6, <1>9
  <2>2. ~PastTheEnd(out, to, b)
    BY <1>4, <1>8, <1>9, <2>1 DEF PastTheEnd
  <2> QED BY <1>10, <2>2, StaysIn
<1>12. \E x \in Seq(Cells) :
         /\ out' = Put(out, to, x) /\ Len(x) >= Len(e) /\ \A k \in 1 .. Len(e) : x[k] = e[k]
  BY <1>9, <1>10
<1> QED BY <1>1, <1>3, <1>4, <1>5, <1>6, <1>8, <1>10, <1>11, <1>12 DEF e

\* What has been written can be continued.
LEMMA EscapeCharIsSound == IInv /\ ~outside /\ EscapeChar => IInv'
<1> SUFFICES ASSUME IInv, ~outside, EscapeChar
             PROVE  IInv'
  OBVIOUS
<1> DEFINE L == Len(buf)
           e == Escaped(buf[from])
<1>1. /\ pc = "escape" /\ pc' = "escape" /\ from' = from + 1 /\ outside' = FALSE
      /\ UNCHANGED <<job, buf, sizes, ep, starved>>
      /\ from \in Nat /\ from >= 1 /\ from < L /\ buf[from] \in Byte
      /\ e \in Seq(Byte) /\ Len(e) \in {1, 2, 6}
      /\ to \in Nat /\ to >= 1 /\ to = Column(buf, from) /\ to' = to + Len(e)
      /\ room \in Nat /\ room = Column(buf, L) + 1 /\ to + Len(e) <= room - 1
      /\ out \in Seq(Cells) /\ Len(out) = room
      /\ \E b \in Seq(Cells) :
           /\ out' = Put(out, to, b) /\ Len(b) >= Len(e)
           /\ \A k \in 1 .. Len(e) : b[k] = e[k]
  BY EscapeCharGives
<1>2. /\ job \in Jobs /\ job.kind = "trip" /\ buf = Terminated(job.text) /\ buf # <<>>
      /\ buf \in Seq(Chars) /\ L \in Nat /\ L >= 1 /\ buf[L] = Nul
      /\ end = 2 /\ skipped = 0 /\ ep = 0 /\ pc \in Printing
  BY <1>1, PrinterGives DEF Printing
<1>3. PICK b \in Seq(Cells) : /\ out' = Put(out, to, b) /\ Len(b) >= Len(e)
                              /\ \A k \in 1 .. Len(e) : b[k] = e[k]
  BY <1>1
<1>4. end' = end /\ skipped' = skipped /\ room' = room
  BY <1>1 DEF sizes
<1> HIDE DEF e
<1>5. out' \in Seq(Cells) /\ Len(out') = room
  BY <1>1, <1>3, PutWrites
<1>6. TypeOK'
  <2>1. starved \in BOOLEAN
    BY TypesGive DEF IInv
  <2>2. outside' \in BOOLEAN /\ starved' \in BOOLEAN
    BY <1>1, <2>1
  <2>3. from' \in Nat /\ 1 <= from' /\ from' <= Len(buf') + 2
    BY <1>1, <1>2
  <2>4. to' \in Nat /\ 1 <= to' /\ to' <= room' + 1
    <3>1. /\ Len(e) \in {1, 2, 6} /\ to \in Nat /\ to >= 1 /\ to' = to + Len(e)
          /\ room' \in Nat /\ to + Len(e) <= room' - 1
      BY <1>1, <1>4
    <3> QED BY ONLY <3>1
  <2> QED BY <1>1, <1>2, <1>4, <1>5, <2>2, <2>3, <2>4, TypesHold DEF Loops
<1>7. \E I : Prints(out', to', I)
  <2>1. PICK I : Prints(out, to, I)
    BY <1>1 DEF IInv, Sound, PrintIsSound
  <2>2. to + Len(e) <= Len(out)
    BY <1>1
  <2> QED BY <1>1, <1>3, <1>5, <2>1, <2>2, PrintsMore DEF e
<1>8. PrintIsSound'
  <2>1. Column(buf, from + 1) = to + Len(e)
    BY <1>1, ColumnStep DEF e
  <2>2. from' <= Len(buf') /\ to' = Column(buf', from') /\ room' = Column(buf', Len(buf')) + 1
    BY <1>1, <1>2, <1>4, <2>1
  <2> QED BY <1>1, <1>2, <1>7, <2>2 DEF PrintIsSound
<1>9. MinifyIsSound' /\ ParseIsSound'
  BY <1>1 DEF MinifyIsSound, ParseIsSound
<1> QED BY <1>1, <1>2, <1>4, <1>6, <1>8, <1>9 DEF IInv, Sound, NoError

\* At the end of the text, room is left for the quote and the NUL.
LEMMA CloseEscapedIsSound == IInv /\ ~outside /\ CloseEscaped => IInv'
<1> SUFFICES ASSUME IInv, ~outside, CloseEscaped
             PROVE  IInv'
  OBVIOUS
<1> DEFINE L == Len(buf)
<1>1. pc = "escape" /\ pc \in Printing /\ TypeOK /\ buf[from] = Nul
  BY DEF CloseEscaped, IInv, Printing
<1>2. L \in Nat /\ \A k \in 1 .. L : k # L => buf[k] \in Byte
  BY <1>1, PrinterGives
<1>3. /\ from <= L /\ to = Column(buf, from) /\ room = Column(buf, L) + 1
      /\ \E I : Prints(out, to, I)
  BY <1>1 DEF IInv, Sound, PrintIsSound
<1>4. out \in Seq(Cells) /\ Len(out) = room /\ from \in Nat /\ from >= 1 /\ to \in Nat /\ to >= 1
  BY <1>1, TypesGive
<1>5. from = L
  <2>1. Nul \notin Byte
    BY DEF Byte, Nul
  <2> QED BY <1>1, <1>2, <1>3, <1>4, <2>1
<1>6. room = to + 1
  BY <1>3, <1>5
<1>7. /\ out' = Closed(out) /\ pc' = "printed"
      /\ UNCHANGED <<job, buf, from, sizes, to, ep, outside, starved>>
  BY DEF CloseEscaped
<1>8. outside' = FALSE
  BY <1>1, <1>7, TypesGive
<1>9. /\ out' \in Seq(Cells) /\ Len(out') = room
      /\ \A k \in 1 .. room - 2 : out'[k] = out[k]
      /\ out'[room - 1] = Quote /\ out'[room] = Nul
  BY <1>4, <1>6, <1>7, ClosedWrites
<1>10. room - 2 = to - 1 /\ room - 1 = to
  BY <1>4, <1>6
<1>11. PICK I : Prints(out, to, I)
  BY <1>3
<1> QED BY <1>1, <1>4, <1>6, <1>7, <1>8, <1>9, <1>10, <1>11, PrintedIsSound

\* The NUL at its end is the only one in what was printed.
LEMMA HandOverGives ==
  ASSUME IInv, ~outside, HandOver
  PROVE  /\ buf' = out /\ from' = 1 /\ to' = 1 /\ out' = <<>> /\ room' = 0
         /\ pc' = "minify" /\ UNCHANGED <<job, end, skipped, ep, outside, starved>>
<1>1. pc = "printed" /\ pc \in Printing /\ TypeOK
  BY DEF HandOver, IInv, Printing
<1>2. job \in Jobs /\ job.kind = "trip" /\ end = 2 /\ skipped = 0 /\ ep = 0
  BY <1>1, PrinterGives
<1>3. /\ room >= 1 /\ out[room] = Nul /\ \A k \in 1 .. room - 1 : out[k] \in Byte
      /\ \E I : SeemsClosed(out, {1, room}, I)
  BY <1>1 DEF IInv, Sound, PrintIsSound
<1>4. out \in Seq(Cells) /\ Len(out) = room /\ room \in Nat /\ outside = FALSE /\ starved \in BOOLEAN
  BY <1>1, TypesGive
<1> DEFINE nuls == {i \in DOMAIN out : out[i] = Nul}
<1>5. nuls = {room}
  <2>1. Nul \notin Byte
    BY DEF Byte, Nul
  <2>2. \A k \in 1 .. room : k = room \/ k \in 1 .. room - 1
    BY <1>4
  <2>3. DOMAIN out = 1 .. room /\ room \in 1 .. room
    BY <1>3, <1>4
  <2> QED BY <1>3, <2>1, <2>2, <2>3
<1>6. Min(nuls) = room
  <2>1. {room} \in SUBSET Nat /\ {room} # {}
    BY <1>4
  <2> QED BY <1>5, <2>1, MinIsLeast
<1>7. /\ buf' = SubSeq(out, 1, room) /\ from' = 1 /\ to' = 1 /\ out' = <<>> /\ room' = 0
      /\ pc' = "minify" /\ UNCHANGED <<job, end, skipped, ep, outside, starved>>
  BY <1>6 DEF HandOver
<1>8. buf' = out
  BY <1>4, <1>7
<1> QED BY <1>7, <1>8

\* What was printed is a text that is closed.
LEMMA HandOverIsSound == IInv /\ ~outside /\ HandOver => IInv'
<1> SUFFICES ASSUME IInv, ~outside, HandOver
             PROVE  IInv'
  OBVIOUS
<1>1. pc = "printed" /\ pc \in Printing /\ TypeOK
  BY DEF HandOver, IInv, Printing
<1>2. job \in Jobs /\ job.kind = "trip" /\ end = 2 /\ skipped = 0 /\ ep = 0
  BY <1>1, PrinterGives
<1>3. /\ room >= 1 /\ out[room] = Nul /\ \A k \in 1 .. room - 1 : out[k] \in Byte
      /\ \E I : SeemsClosed(out, {1, room}, I)
  BY <1>1 DEF IInv, Sound, PrintIsSound
<1>4. out \in Seq(Cells) /\ Len(out) = room /\ room \in Nat /\ outside = FALSE /\ starved \in BOOLEAN
  BY <1>1, TypesGive
<1>7. /\ from' = 1 /\ to' = 1 /\ out' = <<>> /\ room' = 0
      /\ pc' = "minify" /\ UNCHANGED <<job, end, skipped, ep, outside, starved>>
  BY HandOverGives
<1>8. buf' = out
  BY HandOverGives
<1>9. buf' \in Seq(Chars) /\ Len(buf') = room /\ buf' # <<>> /\ buf'[Len(buf')] = Nul
  <2>1. \A k \in 1 .. room : out[k] \in Chars
    <3>1. \A k \in 1 .. room : k = room \/ k \in 1 .. room - 1
      BY <1>4
    <3> QED BY <1>3, <3>1 DEF Chars
  <2> QED BY <1>3, <1>4, <1>8, <2>1
<1>10. TypeOK'
  <2>1. out' \in Seq(Cells) /\ Len(out') = 0
    BY <1>7
  <2>2. outside' \in BOOLEAN /\ starved' \in BOOLEAN /\ pc' \in Loops /\ out' \in Seq(Cells)
    BY <1>4, <1>7, <2>1 DEF Loops
  <2>3. /\ skipped' = 0 /\ ep' = 0 /\ end' = 2 /\ from' = 1 /\ to' = 1
        /\ Len(out') = room' /\ Len(buf') = room
    BY <1>2, <1>7, <1>9, <2>1
  <2> QED BY <1>3, <1>4, <1>9, <2>2, <2>3, TypesHold
<1>11. MinifyIsSound'
  <2>1. job'.kind # "parse" /\ to' <= from' /\ from' <= Len(buf')
    BY <1>2, <1>3, <1>7, <1>9
  <2>2. PICK I : SeemsClosed(buf', {1, room}, I)
    BY <1>3, <1>8
  <2>3. pc' # "literal" /\ from' \in {1, room}
    BY <1>7
  <2>4. \E T, J : SeemsClosed(buf', T, J) /\ from' \in IF pc' = "literal" THEN J ELSE T
    BY <2>2, <2>3
  <2> QED BY <2>1, <2>4 DEF MinifyIsSound
<1>12. PrintIsSound' /\ ParseIsSound'
  BY <1>7 DEF PrintIsSound, ParseIsSound, Printing
<1> QED BY <1>2, <1>4, <1>7, <1>9, <1>10, <1>11, <1>12 DEF IInv, Sound, NoError

-----------------------------------------------------------------------------
(* cJSON_Minify                                                            *)

\* Where a string, or what is outside of strings, goes on.
Parts(T, I, loop) == IF loop = "literal" THEN I ELSE T

\* What a state of the minifier has in common.
LEMMA MinifierGives ==
  ASSUME IInv, ~outside, pc \in {"minify", "literal"}
  PROVE  /\ job \in Jobs /\ job.kind # "parse" /\ buf \in Seq(Chars) /\ buf # <<>>
         /\ Len(buf) \in Nat /\ Len(buf) >= 1 /\ buf[Len(buf)] = Nul
         /\ end = 2 /\ skipped = 0 /\ ep = 0 /\ out \in Seq(Cells) /\ Len(out) = room
         /\ from \in Nat /\ 1 <= from /\ from <= Len(buf)
         /\ to \in Nat /\ 1 <= to /\ to <= from
         /\ starved \in BOOLEAN
         /\ Open \/ \E T, I : SeemsClosed(buf, T, I) /\ from \in Parts(T, I, pc)
<1>1. TypeOK /\ job \in Jobs /\ buf # <<>>
  BY DEF IInv
<1>2. buf[Len(buf)] = Nul /\ MinifyIsSound /\ end = 2 /\ skipped = 0 /\ ep = 0
  BY DEF IInv, Sound, Reading, NoError
<1>3. /\ job.kind # "parse" /\ to <= from /\ from <= Len(buf)
      /\ Open \/ \E T, I : SeemsClosed(buf, T, I) /\ from \in Parts(T, I, pc)
  BY <1>2 DEF MinifyIsSound, Parts
<1>4. Len(buf) # 0
  BY <1>1, TypesGive
<1> QED BY <1>1, <1>2, <1>3, <1>4, TypesGive

\* The loop goes on at n, with a text that is the same from there on.
LEMMA MoveIsSound ==
  ASSUME IInv, ~outside, pc \in {"minify", "literal"}, pc' \in {"minify", "literal"},
         UNCHANGED <<job, sizes, out, ep, starved>>,
         NEW n \in Nat, GoTo(n), 1 <= n, n <= Len(buf) + 2,
         buf' \in Seq(Chars), Len(buf') = Len(buf), \A k \in n .. Len(buf) : buf'[k] = buf[k],
         to' \in Nat, 1 <= to', to' <= n, to' <= Len(buf) + 1,
         Open \/ \E T, I : SeemsClosed(buf, T, I) /\ n \in Parts(T, I, pc')
  PROVE  IInv'
<1>1. /\ job \in Jobs /\ job.kind # "parse" /\ buf \in Seq(Chars) /\ buf # <<>>
      /\ Len(buf) \in Nat /\ Len(buf) >= 1 /\ buf[Len(buf)] = Nul
      /\ end = 2 /\ skipped = 0 /\ ep = 0 /\ out \in Seq(Cells) /\ Len(out) = room
      /\ starved \in BOOLEAN
  BY MinifierGives
<1>2. /\ job' = job /\ out' = out /\ ep' = ep /\ starved' = starved
      /\ end' = end /\ skipped' = skipped /\ room' = room
  BY DEF sizes
<1>3. from' = n /\ outside' = (n > Len(buf))
  BY DEF GoTo
<1>4. outside' \in BOOLEAN /\ (n > Len(buf) => outside') /\ (~(n > Len(buf)) => ~outside')
  <2>1. (n > Len(buf)) \in BOOLEAN
    OBVIOUS
  <2> QED BY <1>3, <2>1, Zenon
<1>5. TypeOK'
  <2>1. pc' \in Loops
    BY DEF Loops
  <2> QED BY <1>1, <1>2, <1>3, <1>4, <2>1, TypesHold
<1>6. buf' # <<>>
  BY <1>1
<1>7. CASE n > Len(buf)
  <2>1. Open
    <3>1. \A T, I : SeemsClosed(buf, T, I) => T \subseteq 1 .. Len(buf) /\ I \subseteq 1 .. Len(buf)
      BY <1>1 DEF SeemsClosed
    <3>2. \A T, I : SeemsClosed(buf, T, I) => n \notin Parts(T, I, pc')
      BY <1>1, <1>7, <3>1 DEF Parts
    <3> QED BY <3>2
  <2>2. Open'
    BY <1>2, <2>1 DEF Open
  <2> QED BY <1>1, <1>2, <1>4, <1>5, <1>6, <1>7, <2>2 DEF IInv
<1>8. CASE ~(n > Len(buf))
  <2>1. buf'[Len(buf')] = Nul
    <3>1. Len(buf) \in n .. Len(buf)
      BY <1>1, <1>8
    <3> QED BY <1>1, <3>1
  <2>2. MinifyIsSound'
    <3>1. ASSUME NEW T, NEW I, SeemsClosed(buf, T, I), n \in Parts(T, I, pc')
          PROVE  \E U, J : SeemsClosed(buf', U, J) /\ from' \in IF pc' = "literal" THEN J ELSE U
      <4> DEFINE U == {k \in T : k >= n}
                 J == {k \in I : k >= n}
      <4>1. SeemsClosed(buf', U, J)
        BY <1>1, <3>1, ClosedLater
      <4>2. n \in Parts(U, J, pc')
        BY <3>1 DEF Parts
      <4> QED BY <1>3, <4>1, <4>2 DEF Parts
    <3>2. Open => Open'
      BY <1>2 DEF Open
    <3>3. job'.kind # "parse" /\ to' <= from' /\ from' <= Len(buf')
      BY <1>1, <1>2, <1>3, <1>8
    <3>4. Open' \/ \E U, J : SeemsClosed(buf', U, J) /\ from' \in IF pc' = "literal" THEN J ELSE U
      BY <3>1, <3>2
    <3> QED BY <3>3, <3>4 DEF MinifyIsSound
  <2>3. PrintIsSound' /\ ParseIsSound'
    BY DEF PrintIsSound, ParseIsSound, Printing
  <2> QED BY <1>1, <1>2, <1>4, <1>5, <1>6, <1>8, <2>1, <2>2, <2>3 DEF IInv, Sound, NoError
<1> QED BY <1>7, <1>8

\* What a closed text looks like outside of strings.
LEMMA TokenGives ==
  ASSUME NEW T, NEW I, SeemsClosed(buf, T, I), from \in T
  PROVE  \/ buf[from] = Nul
         \/ buf[from] = Quote /\ from + 1 \in I
         \/ buf[from] = Slash /\ \E j \in T : IsLine(buf, from, j) \/ SeemsComment(buf, from, j)
         \/ /\ buf[from] \notin {Nul, Quote}
            /\ ~(buf[from] = Slash /\ buf[from + 1] \in {Slash, Star})
            /\ from + 1 \in T
BY DEF SeemsClosed

\* White space.
LEMMA SkipSpaceIsSound == IInv /\ ~outside /\ SkipSpace => IInv'
<1> SUFFICES ASSUME IInv, ~outside, SkipSpace
             PROVE  IInv'
  OBVIOUS
<1>1. /\ pc = "minify" /\ buf[from] \in Space /\ GoTo(from + 1)
      /\ UNCHANGED <<job, pc, buf, sizes, out, to, ep, starved>>
  BY DEF SkipSpace
<1>2. /\ buf \in Seq(Chars) /\ Len(buf) \in Nat
      /\ from \in Nat /\ 1 <= from /\ from <= Len(buf) /\ to \in Nat /\ 1 <= to /\ to <= from
      /\ Open \/ \E T, I : SeemsClosed(buf, T, I) /\ from \in Parts(T, I, pc)
  BY <1>1, MinifierGives
<1>3. ASSUME NEW T, NEW I, SeemsClosed(buf, T, I), from \in T
      PROVE  from + 1 \in T
  BY <1>1, <1>3, TokenGives DEF Space, Nul, Quote, Slash
<1>4. Open \/ \E T, I : SeemsClosed(buf, T, I) /\ from + 1 \in Parts(T, I, pc')
  BY <1>1, <1>2, <1>3 DEF Parts
<1>5. from + 1 \in Nat /\ 1 <= from + 1 /\ from + 1 <= Len(buf) + 2
  BY <1>2
<1>6. to' \in Nat /\ 1 <= to' /\ to' <= from + 1 /\ to' <= Len(buf) + 1
  BY <1>1, <1>2
<1>7. /\ buf' \in Seq(Chars) /\ Len(buf') = Len(buf)
      /\ \A k \in from + 1 .. Len(buf) : buf'[k] = buf[k]
  BY <1>1, <1>2
<1> QED BY <1>1, <1>4, <1>5, <1>6, <1>7, MoveIsSound

\* A comment to the end of the line.
LEMMA SkipLineIsSound == IInv /\ ~outside /\ SkipLine => IInv'
<1> SUFFICES ASSUME IInv, ~outside, SkipLine
             PROVE  IInv'
  OBVIOUS
<1> DEFINE S == {i \in from .. Len(buf) : buf[i] \in {Nul, Newline}}
           n == Min(S)
<1>1. /\ pc = "minify" /\ Opens(Slash) /\ GoTo(n)
      /\ UNCHANGED <<job, pc, buf, sizes, out, to, ep, starved>>
  BY DEF SkipLine
<1>2. /\ buf \in Seq(Chars) /\ Len(buf) \in Nat /\ buf[Len(buf)] = Nul
      /\ from \in Nat /\ 1 <= from /\ from <= Len(buf) /\ to \in Nat /\ 1 <= to /\ to <= from
      /\ Open \/ \E T, I : SeemsClosed(buf, T, I) /\ from \in Parts(T, I, pc)
  BY <1>1, MinifierGives
<1>3. S \in SUBSET Nat /\ Len(buf) \in S
  BY <1>2
<1>4. n \in S /\ \A y \in S : n <= y
  <2> HIDE DEF S
  <2>1. S # {}
    BY <1>3
  <2> QED BY <1>3, <2>1, MinIsLeast
<1> HIDE DEF n
<1>5. n \in Nat /\ from <= n /\ n <= Len(buf) /\ buf[n] \in {Nul, Newline}
  BY <1>2, <1>4
<1>6. ASSUME NEW T, NEW I, SeemsClosed(buf, T, I), from \in T
      PROVE  n \in T
  <2>1. T \subseteq 1 .. Len(buf)
    BY <1>2, <1>6 DEF SeemsClosed
  <2>2. from + 1 \in DOMAIN buf /\ buf[from] = Slash /\ buf[from + 1] = Slash
    BY <1>1 DEF Opens, At, Slash, Junk
  <2>3. PICK j \in T : IsLine(buf, from, j) \/ SeemsComment(buf, from, j)
    BY <1>6, <2>2, TokenGives DEF Nul, Quote, Slash
  <2>4. /\ from < j /\ buf[j] \in {Nul, Newline}
        /\ \A k \in from .. j - 1 : buf[k] \notin {Nul, Newline}
    BY <2>2, <2>3 DEF IsLine, SeemsComment, Slash, Star
  <2>5. j \in Nat /\ j <= Len(buf) /\ j \in S
    BY <1>2, <2>1, <2>4
  <2>6. n <= j
    BY <1>4, <2>5
  <2>7. n \notin from .. j - 1
    BY <1>5, <2>4
  <2>8. n = j
    BY <1>2, <1>5, <2>5, <2>6, <2>7
  <2> QED BY <2>8
<1>7. Open \/ \E T, I : SeemsClosed(buf, T, I) /\ n \in Parts(T, I, pc')
  BY <1>1, <1>2, <1>6 DEF Parts
<1>8. 1 <= n /\ n <= Len(buf) + 2 /\ to' \in Nat /\ 1 <= to' /\ to' <= n /\ to' <= Len(buf) + 1
  BY <1>1, <1>2, <1>5
<1>9. /\ buf' \in Seq(Chars) /\ Len(buf') = Len(buf)
      /\ \A k \in n .. Len(buf) : buf'[k] = buf[k]
  BY <1>1, <1>2
<1> QED BY <1>1, <1>5, <1>7, <1>8, <1>9, MoveIsSound

\* A comment of the other sort.
LEMMA SkipCommentIsSound == IInv /\ ~outside /\ SkipComment => IInv'
<1> SUFFICES ASSUME IInv, ~outside, SkipComment
             PROVE  IInv'
  OBVIOUS
<1> DEFINE S == {i \in from .. Len(buf) : \/ buf[i] = Nul
                                          \/ buf[i] = Star /\ At(i + 1) = Slash}
           m == Min(S)
           n == 2 + m
<1>1. /\ pc = "minify" /\ Opens(Star) /\ GoTo(n)
      /\ UNCHANGED <<job, pc, buf, sizes, out, to, ep, starved>>
  BY DEF SkipComment
<1>2. /\ buf \in Seq(Chars) /\ Len(buf) \in Nat /\ buf[Len(buf)] = Nul
      /\ from \in Nat /\ 1 <= from /\ from <= Len(buf) /\ to \in Nat /\ 1 <= to /\ to <= from
      /\ Open \/ \E T, I : SeemsClosed(buf, T, I) /\ from \in Parts(T, I, pc)
  BY <1>1, MinifierGives
<1>3. S \in SUBSET Nat /\ Len(buf) \in S
  BY <1>2
<1>4. m \in S /\ \A y \in S : m <= y
  <2> HIDE DEF S
  <2>1. S # {}
    BY <1>3
  <2> QED BY <1>3, <2>1, MinIsLeast
<1> HIDE DEF m
<1>5. /\ m \in Nat /\ from <= m /\ m <= Len(buf)
      /\ buf[m] = Nul \/ (buf[m] = Star /\ At(m + 1) = Slash)
  BY <1>2, <1>4
<1>6. ASSUME NEW T, NEW I, SeemsClosed(buf, T, I), from \in T
      PROVE  n \in T
  <2>1. T \subseteq 1 .. Len(buf) /\ DOMAIN buf = 1 .. Len(buf)
    BY <1>2, <1>6 DEF SeemsClosed
  <2>2. from + 1 \in DOMAIN buf /\ buf[from] = Slash /\ buf[from + 1] = Star
    BY <1>1 DEF Opens, At, Star, Junk
  <2>3. PICK j \in T : IsLine(buf, from, j) \/ SeemsComment(buf, from, j)
    BY <1>6, <2>2, TokenGives DEF Nul, Quote, Slash
  <2>4. /\ from + 2 <= j /\ buf[j - 2] = Star /\ buf[j - 1] = Slash
        /\ \A k \in from .. j - 3 : buf[k] # Nul /\ ~(buf[k] = Star /\ buf[k + 1] = Slash)
    BY <2>2, <2>3 DEF IsLine, SeemsComment, Slash, Star
  <2>5. j \in Nat /\ j <= Len(buf) /\ (j - 2) + 1 = j - 1 /\ j - 1 \in DOMAIN buf
    BY <1>2, <2>1, <2>4
  <2>6. j - 2 \in S
    BY <1>2, <2>4, <2>5 DEF At
  <2>7. m <= j - 2
    BY <1>4, <2>6
  <2>8. m \notin from .. j - 3
    <3> SUFFICES ASSUME m \in from .. j - 3
                 PROVE  FALSE
      OBVIOUS
    <3>1. m + 1 \in DOMAIN buf
      BY <1>2, <1>5, <2>1, <2>5
    <3>2. At(m + 1) = buf[m + 1]
      BY <3>1 DEF At
    <3> QED BY <1>5, <2>4, <3>2
  <2>9. m = j - 2
    BY <1>2, <1>5, <2>5, <2>7, <2>8
  <2> QED BY <2>5, <2>9
<1>7. Open \/ \E T, I : SeemsClosed(buf, T, I) /\ n \in Parts(T, I, pc')
  BY <1>1, <1>2, <1>6 DEF Parts
<1>8. /\ n \in Nat /\ 1 <= n /\ n <= Len(buf) + 2
      /\ to' \in Nat /\ 1 <= to' /\ to' <= n /\ to' <= Len(buf) + 1
  BY <1>1, <1>2, <1>5
<1>9. /\ buf' \in Seq(Chars) /\ Len(buf') = Len(buf)
      /\ \A k \in n .. Len(buf) : buf'[k] = buf[k]
  BY <1>1, <1>2
<1> HIDE DEF n
<1> QED BY <1>1, <1>7, <1>8, <1>9, MoveIsSound

\* Bytes that are copied in place leave what is behind them alone.
LEMMA KeepWrites ==
  ASSUME buf \in Seq(Chars), from \in Nat, 1 <= from, to \in Nat, 1 <= to, to <= from,
         NEW n \in {1, 2}, from + n - 1 <= Len(buf), Keep(n)
  PROVE  /\ buf' \in Seq(Chars) /\ Len(buf') = Len(buf) /\ GoTo(from + n)
         /\ \A k \in from + n .. Len(buf) : buf'[k] = buf[k]
         /\ to' \in Nat /\ 1 <= to' /\ to' <= from + n /\ to' <= Len(buf) + 1
<1> DEFINE b == SubSeq(buf, from, from + n - 1)
<1>1. buf' = Put(buf, to, b) /\ to' = to + n /\ GoTo(from + n)
  BY DEF Keep
<1>2. b \in Seq(Chars) /\ Len(b) = n
  <2> DEFINE l == from + n - 1
  <2>1. l \in Nat /\ l <= Len(buf) /\ from \in Nat \ {0} /\ from <= l + 1 /\ l - from + 1 = n
    OBVIOUS
  <2> HIDE DEF l
  <2>2. /\ SubSeq(buf, from, l) \in Seq(Chars)
        /\ Len(SubSeq(buf, from, l)) = l - from + 1
    BY <2>1, PartOf
  <2> QED BY <2>1, <2>2 DEF l
<1> HIDE DEF b
<1>3. /\ Put(buf, to, b) \in Seq(Chars) /\ Len(Put(buf, to, b)) = Len(buf)
      /\ \A k \in 1 .. Len(buf) : k < to \/ k >= to + Len(b) => Put(buf, to, b)[k] = buf[k]
  BY <1>2, PutWrites
<1>4. \A k \in from + n .. Len(buf) : k \in 1 .. Len(buf) /\ k >= to + Len(b)
  BY <1>2
<1>5. Len(buf) \in Nat
  OBVIOUS
<1> QED BY <1>1, <1>3, <1>4, <1>5

\* Anything else that is outside of strings.
LEMMA KeepOtherIsSound == IInv /\ ~outside /\ KeepOther => IInv'
<1> SUFFICES ASSUME IInv, ~outside, KeepOther
             PROVE  IInv'
  OBVIOUS
<1>1. /\ pc = "minify" /\ buf[from] # Nul /\ ~Opens(Slash) /\ ~Opens(Star) /\ Keep(1)
      /\ pc' = (IF buf[from] = Quote THEN "literal" ELSE "minify")
      /\ UNCHANGED <<job, sizes, out, ep, starved>>
  BY DEF KeepOther
<1>2. /\ buf \in Seq(Chars) /\ Len(buf) \in Nat
      /\ from \in Nat /\ 1 <= from /\ from <= Len(buf) /\ to \in Nat /\ 1 <= to /\ to <= from
      /\ Open \/ \E T, I : SeemsClosed(buf, T, I) /\ from \in Parts(T, I, pc)
  BY <1>1, MinifierGives
<1>3. from + 1 - 1 <= Len(buf) /\ 1 \in {1, 2}
  BY <1>2
<1>4. /\ buf' \in Seq(Chars) /\ Len(buf') = Len(buf) /\ GoTo(from + 1)
      /\ \A k \in from + 1 .. Len(buf) : buf'[k] = buf[k]
      /\ to' \in Nat /\ 1 <= to' /\ to' <= from + 1 /\ to' <= Len(buf) + 1
  BY <1>1, <1>2, <1>3, KeepWrites
<1>5. ASSUME NEW T, NEW I, SeemsClosed(buf, T, I), from \in T
      PROVE  from + 1 \in Parts(T, I, pc')
  <2>1. CASE buf[from] = Quote
    <3>1. from + 1 \in I
      BY <1>5, <2>1, TokenGives DEF Nul, Quote, Slash
    <3> QED BY <1>1, <2>1, <3>1 DEF Parts
  <2>2. CASE buf[from] # Quote
    <3>1. ASSUME buf[from] = Slash, NEW j \in T, IsLine(buf, from, j) \/ SeemsComment(buf, from, j)
          PROVE  FALSE
      <4>1. T \subseteq 1 .. Len(buf) /\ DOMAIN buf = 1 .. Len(buf)
        BY <1>2, <1>5 DEF SeemsClosed
      <4>2. from < j /\ buf[from + 1] \in {Slash, Star}
        BY <1>2, <3>1, <4>1 DEF IsLine, SeemsComment
      <4>3. from + 1 \in DOMAIN buf
        BY <1>2, <4>1, <4>2
      <4> QED BY <1>1, <3>1, <4>2, <4>3 DEF Opens, At
    <3>2. from + 1 \in T
      BY <1>1, <1>5, <2>2, <3>1, TokenGives
    <3> QED BY <1>1, <2>2, <3>2 DEF Parts
  <2> QED BY <2>1, <2>2
<1>6. Open \/ \E T, I : SeemsClosed(buf, T, I) /\ from + 1 \in Parts(T, I, pc')
  BY <1>1, <1>2, <1>5 DEF Parts
<1>7. from + 1 \in Nat /\ 1 <= from + 1 /\ from + 1 <= Len(buf) + 2 /\ pc' \in {"minify", "literal"}
  BY <1>1, <1>2
<1> QED BY <1>1, <1>4, <1>6, <1>7, MoveIsSound

\* Within a string.
LEMMA KeepLiteralIsSound == IInv /\ ~outside /\ KeepLiteral => IInv'
<1> SUFFICES ASSUME IInv, ~outside, KeepLiteral
             PROVE  IInv'
  OBVIOUS
<1> DEFINE n == IF buf[from] = Backslash THEN 2 ELSE 1
<1>1. /\ pc = "literal" /\ Keep(n)
      /\ pc' = (IF buf[from] \in {Quote, Nul} THEN "minify" ELSE "literal")
      /\ UNCHANGED <<job, sizes, out, ep, starved>>
  BY DEF KeepLiteral
<1>2. /\ buf \in Seq(Chars) /\ Len(buf) \in Nat /\ buf[Len(buf)] = Nul
      /\ from \in Nat /\ 1 <= from /\ from <= Len(buf) /\ to \in Nat /\ 1 <= to /\ to <= from
      /\ Open \/ \E T, I : SeemsClosed(buf, T, I) /\ from \in Parts(T, I, pc)
  BY <1>1, MinifierGives
<1>3. n \in {1, 2} /\ (n = 2 <=> buf[from] = Backslash)
  OBVIOUS
<1> HIDE DEF n
<1>4. from + n - 1 <= Len(buf)
  <2>1. n = 2 => from # Len(buf)
    BY <1>2, <1>3 DEF Backslash, Nul
  <2> QED BY <1>2, <1>3, <2>1
<1>5. /\ buf' \in Seq(Chars) /\ Len(buf') = Len(buf) /\ GoTo(from + n)
      /\ \A k \in from + n .. Len(buf) : buf'[k] = buf[k]
      /\ to' \in Nat /\ 1 <= to' /\ to' <= from + n /\ to' <= Len(buf) + 1
  BY <1>1, <1>2, <1>3, <1>4, KeepWrites
<1>6. ASSUME NEW T, NEW I, SeemsClosed(buf, T, I), from \in I
      PROVE  from + n \in Parts(T, I, pc')
  <2>1. \/ buf[from] = Quote /\ from + 1 \in T
        \/ buf[from] = Backslash /\ from + 2 \in I
        \/ buf[from] \notin {Nul, Quote, Backslash} /\ from + 1 \in I
    BY <1>6 DEF SeemsClosed
  <2>2. CASE buf[from] = Quote /\ from + 1 \in T
    <3>1. n = 1
      BY <1>3, <2>2 DEF Quote, Backslash
    <3> QED BY <1>1, <2>2, <3>1 DEF Parts
  <2>3. CASE buf[from] = Backslash /\ from + 2 \in I
    <3>1. n = 2 /\ buf[from] \notin {Quote, Nul}
      BY <1>3, <2>3 DEF Quote, Backslash, Nul
    <3> QED BY <1>1, <2>3, <3>1 DEF Parts
  <2>4. CASE buf[from] \notin {Nul, Quote, Backslash} /\ from + 1 \in I
    <3>1. n = 1 /\ buf[from] \notin {Quote, Nul}
      BY <1>3, <2>4
    <3> QED BY <1>1, <2>4, <3>1 DEF Parts
  <2> QED BY <2>1, <2>2, <2>3, <2>4
<1>7. Open \/ \E T, I : SeemsClosed(buf, T, I) /\ from + n \in Parts(T, I, pc')
  BY <1>1, <1>2, <1>6 DEF Parts
<1>8. from + n \in Nat /\ 1 <= from + n /\ from + n <= Len(buf) + 2 /\ pc' \in {"minify", "literal"}
  BY <1>1, <1>2, <1>3
<1> QED BY <1>1, <1>5, <1>7, <1>8, MoveIsSound

\* What is left of the text ends where the last byte was written.
LEMMA EndMinifyIsSound == IInv /\ ~outside /\ EndMinify => IInv'
<1> SUFFICES ASSUME IInv, ~outside, EndMinify
             PROVE  IInv'
  OBVIOUS
<1> DEFINE b == <<Nul>>
           s == Put(buf, to, b)
<1>1. /\ pc = "minify" /\ buf' = SubSeq(s, 1, to) /\ from' = 1 /\ to' = 1
      /\ pc' = (IF job.kind = "trip" THEN "size" ELSE "done")
      /\ UNCHANGED <<job, sizes, out, ep, outside, starved>>
  BY DEF EndMinify
<1>2. /\ job \in Jobs /\ job.kind # "parse" /\ buf \in Seq(Chars) /\ buf # <<>>
      /\ Len(buf) \in Nat /\ end = 2 /\ skipped = 0 /\ ep = 0 /\ out \in Seq(Cells) /\ Len(out) = room
      /\ from \in Nat /\ 1 <= from /\ from <= Len(buf)
      /\ to \in Nat /\ 1 <= to /\ to <= from /\ starved \in BOOLEAN
  BY <1>1, MinifierGives
<1>3. outside = FALSE
  <2>1. TypeOK
    BY DEF IInv
  <2> QED BY <2>1, TypesGive
<1>4. b \in Seq(Chars) /\ Len(b) = 1 /\ b[1] = Nul
  BY DEF Chars
<1> HIDE DEF b
<1>5. s \in Seq(Chars) /\ Len(s) = Len(buf) /\ s[to] = Nul
  <2>1. to \in 1 .. Len(buf) /\ to <= to /\ to < to + Len(b) /\ to - to + 1 = 1
    BY <1>2, <1>4
  <2>2. /\ Put(buf, to, b) \in Seq(Chars) /\ Len(Put(buf, to, b)) = Len(buf)
        /\ \A k \in 1 .. Len(buf) :
             to <= k /\ k < to + Len(b) => Put(buf, to, b)[k] = b[k - to + 1]
    <3>1. buf \in Seq(Chars) /\ b \in Seq(Chars) /\ to \in Nat
      BY <1>2, <1>4
    <3> QED BY ONLY <3>1, PutWrites
  <2> QED BY <1>4, <2>1, <2>2
<1> HIDE DEF s
<1>6. /\ buf' \in Seq(Chars) /\ Len(buf') = to /\ buf'[to] = Nul
  <2>1. to <= Len(s) /\ 1 <= to + 1 /\ to - 1 + 1 = to
    BY <1>2, <1>5
  <2>2. /\ SubSeq(s, 1, to) \in Seq(Chars) /\ Len(SubSeq(s, 1, to)) = to - 1 + 1
        /\ \A k \in 1 .. to - 1 + 1 : SubSeq(s, 1, to)[k] = s[1 + k - 1]
    BY <1>2, <1>5, <2>1, PartOf
  <2>3. to \in 1 .. to - 1 + 1 /\ 1 + to - 1 = to
    BY <1>2
  <2>4. SubSeq(s, 1, to)[to] = s[to]
    BY <2>2, <2>3
  <2> QED BY <1>1, <1>5, <2>1, <2>2, <2>4
<1>7. /\ job' = job /\ out' = out /\ ep' = ep /\ starved' = starved /\ outside' = outside
      /\ end' = end /\ skipped' = skipped /\ room' = room
  BY <1>1 DEF sizes
<1>8. TypeOK'
  <2>1. pc' \in Loops
    BY <1>1 DEF Loops
  <2>2. outside' \in BOOLEAN /\ starved' \in BOOLEAN /\ out' \in Seq(Cells) /\ Len(out') = room'
    BY <1>2, <1>3, <1>7
  <2>3. /\ skipped' = 0 /\ ep' = 0 /\ end' = 2 /\ from' = 1 /\ to' = 1
        /\ buf' \in Seq(Chars) /\ Len(buf') = to
    BY <1>1, <1>2, <1>6, <1>7
  <2> QED BY <1>2, <2>1, <2>2, <2>3, TypesHold
<1>9. ParseIsSound'
  <2>1. CASE pc' = "size" /\ buf'[1] = Quote
    <3>1. to # 1
      BY <1>6, <2>1 DEF Quote, Nul
    <3>2. Scans(buf', 2, {2})
      BY DEF Scans
    <3>3. EscapesBefore(buf', {2}, 2) = {}
      BY DEF EscapesBefore
    <3>4. Cardinality(EscapesBefore(buf', {2}, 2)) = 0
      BY <3>3, FS_EmptySet
    <3>5. end' <= Len(buf')
      BY <1>2, <1>6, <1>7, <3>1
    <3>6. \E G : Scans(buf', end', G) /\ skipped' = Cardinality(EscapesBefore(buf', G, end'))
      BY <1>2, <1>7, <3>2, <3>4
    <3>7. job'.kind # "minify"
      BY <1>1, <1>7, <2>1
    <3> QED BY <2>1, <3>5, <3>6, <3>7 DEF ParseIsSound
  <2>2. CASE ~(pc' = "size" /\ buf'[1] = Quote)
    <3>1. pc' \in {"size", "decode"} => job'.kind # "minify"
      BY <1>1, <1>7
    <3>2. pc' # "decode"
      BY <1>1
    <3> QED BY <2>2, <3>1, <3>2 DEF ParseIsSound
  <2> QED BY <2>1, <2>2
<1>10. PrintIsSound' /\ MinifyIsSound'
  BY <1>1 DEF PrintIsSound, MinifyIsSound, Printing
<1>11. buf' # <<>>
  BY <1>2, <1>6
<1> QED BY <1>1, <1>2, <1>3, <1>6, <1>7, <1>8, <1>9, <1>10, <1>11
       DEF IInv, Sound, Reading, Printing, NoError

-----------------------------------------------------------------------------
(* parse_string                                                            *)

\* Where there is no quote, there is no string.
LEMMA NoStringIsSound == IInv /\ ~outside /\ NoString => IInv'
<1> SUFFICES ASSUME IInv, ~outside, NoString
             PROVE  IInv'
  OBVIOUS
<1>1. /\ pc' = "failed" /\ ep' = 1 /\ UNCHANGED <<job, buf, from, out, to, outside, starved>>
      /\ end' = end /\ skipped' = skipped /\ room' = room
  BY DEF NoString, Fails, sizes
<1>2. TypeOK /\ buf # <<>> /\ buf[Len(buf)] = Nul
  BY DEF IInv, Sound
<1>3. Len(buf) # 0
  BY <1>2, TypesGive
<1>4. TypeOK'
  BY <1>1, <1>2, <1>3, TypesGive, TypesHold DEF Loops
<1> QED BY <1>1, <1>2, <1>4, FailureIsSound

\* What a state of the first loop has in common.
LEMMA SizeGives ==
  ASSUME IInv, ~outside, pc = "size", buf[1] = Quote
  PROVE  /\ TypeOK /\ job \in Jobs /\ job.kind # "minify" /\ buf # <<>> /\ buf[Len(buf)] = Nul
         /\ end <= Len(buf)
         /\ \E G : Scans(buf, end, G) /\ skipped = Cardinality(EscapesBefore(buf, G, end))
BY DEF IInv, Sound, ParseIsSound

\* A string without an end.
LEMMA SizeOpenIsSound == IInv /\ ~outside /\ SizeOpen => IInv'
<1> SUFFICES ASSUME IInv, ~outside, SizeOpen
             PROVE  IInv'
  OBVIOUS
<1>1. /\ pc' = "failed" /\ UNCHANGED <<job, buf, from, out, to, ep, outside, starved>>
      /\ end' = end /\ skipped' = skipped /\ room' = room
  BY DEF SizeOpen, sizes
<1>2. TypeOK /\ buf # <<>> /\ buf[Len(buf)] = Nul
  BY DEF IInv, Sound
<1>3. TypeOK'
  BY <1>1, <1>2, TypesGive, TypesHold DEF Loops
<1> QED BY <1>1, <1>2, <1>3, FailureIsSound

\* No more escape sequences than bytes have been read.
LEMMA SkippedIsSmall ==
  ASSUME NEW s, NEW e \in Nat, e >= 2, NEW G, Scans(s, e, G)
  PROVE  Cardinality(EscapesBefore(s, G, e)) \in 0 .. e - 2
<1> DEFINE a == Cardinality(EscapesBefore(s, G, 2))
           b == Cardinality(EscapesBefore(s, G, e))
<1>1. EscapesBefore(s, G, 2) = {}
  <2>1. \A k \in G : ~(k < 2)
    BY DEF Scans
  <2> QED BY <2>1 DEF EscapesBefore
<1>2. a = 0
  BY <1>1, FS_EmptySet
<1>3. b \in Nat
  BY EscapesAreFinite
<1>4. 2 - a <= e - b
  BY EscapesLeft
<1> HIDE DEF a, b
<1>5. b \in 0 .. e - 2
  BY <1>2, <1>3, <1>4
<1> QED BY <1>5 DEF b

\* One byte, or an escape sequence and the byte behind it, is counted.
LEMMA ScansMore ==
  ASSUME NEW s, NEW e \in Nat, e >= 2, NEW G, Scans(s, e, G),
         NEW n, n = IF s[e] = Backslash THEN 2 ELSE 1
  PROVE  /\ Scans(s, e + n, G \cup {e + n})
         /\ Cardinality(EscapesBefore(s, G \cup {e + n}, e + n))
              = Cardinality(EscapesBefore(s, G, e)) + (n - 1)
<1> DEFINE H == G \cup {e + n}
<1>1. n \in {1, 2} /\ G \subseteq 2 .. e /\ 2 \in G /\ e \in G
  BY DEF Scans
<1>2. Scans(s, e + n, H)
  <2>1. H \subseteq 2 .. e + n /\ 2 \in H /\ e + n \in H
    BY <1>1
  <2>2. ASSUME NEW i \in H, i < e + n
        PROVE  IF s[i] = Backslash THEN i + 1 \notin H /\ i + 2 \in H ELSE i + 1 \in H
    <3>1. i \in G /\ i \in Nat /\ i <= e
      BY <1>1, <2>2
    <3>2. CASE i < e
      <4>1. IF s[i] = Backslash THEN i + 1 \notin G /\ i + 2 \in G ELSE i + 1 \in G
        BY <3>1, <3>2 DEF Scans
      <4>2. i + 1 # e + n
        BY <1>1, <3>1, <3>2
      <4> QED BY <4>1, <4>2
    <3>3. CASE i = e
      <4>1. s[e] = Backslash => n = 2 /\ e + 1 \notin H
        BY <1>1
      <4> QED BY <1>1, <3>3, <4>1
    <3> QED BY <3>1, <3>2, <3>3
  <2> HIDE DEF H
  <2> QED BY <2>1, <2>2 DEF Scans
<1>3. EscapesBefore(s, H, e) = EscapesBefore(s, G, e)
  BY <1>1 DEF EscapesBefore
<1>4. e \in H /\ e < e + n /\ e + n \in Nat
  BY <1>1
<1> HIDE DEF H
<1>5. /\ s[e] = Backslash =>
           Cardinality(EscapesBefore(s, H, e + 2)) = Cardinality(EscapesBefore(s, H, e)) + 1
      /\ s[e] # Backslash =>
           Cardinality(EscapesBefore(s, H, e + 1)) = Cardinality(EscapesBefore(s, H, e))
  BY <1>2, <1>4, EscapesStep
<1>6. Cardinality(EscapesBefore(s, G, e)) \in Nat
  BY EscapesAreFinite
<1>7. Cardinality(EscapesBefore(s, H, e + n)) = Cardinality(EscapesBefore(s, G, e)) + (n - 1)
  <2>1. CASE s[e] = Backslash
    <3>1. n = 2
      BY <2>1
    <3> QED BY <1>3, <1>5, <2>1, <3>1
  <2>2. CASE s[e] # Backslash
    <3>1. n = 1
      BY <2>2
    <3> QED BY <1>3, <1>5, <1>6, <2>2, <3>1
  <2> QED BY <2>1, <2>2
<1> QED BY <1>2, <1>7 DEF H

\* The first loop.
LEMMA SizeIsSound == IInv /\ ~outside /\ Size => IInv'
<1> SUFFICES ASSUME IInv, ~outside, Size
             PROVE  IInv'
  OBVIOUS
<1>1. /\ pc = "size" /\ buf[1] = Quote /\ buf[end] # Nul
      /\ UNCHANGED <<job, buf, from, room, out, to, ep, outside, starved>>
  BY DEF Size
<1>2. /\ TypeOK /\ job \in Jobs /\ job.kind # "minify" /\ buf # <<>> /\ buf[Len(buf)] = Nul
      /\ end <= Len(buf)
      /\ \E G : Scans(buf, end, G) /\ skipped = Cardinality(EscapesBefore(buf, G, end))
  BY <1>1, SizeGives
<1>3. PICK G : Scans(buf, end, G) /\ skipped = Cardinality(EscapesBefore(buf, G, end))
  BY <1>2
<1>4. Len(buf) \in Nat /\ end \in Nat /\ end >= 2 /\ skipped \in Nat /\ outside = FALSE
  BY <1>2, TypesGive
<1>5. CASE buf[end] = Backslash /\ buf[end + 1] = Nul
  <2>1. pc' = "failed" /\ UNCHANGED <<end, skipped>>
    BY <1>5 DEF Size
  <2>2. TypeOK'
    BY <1>1, <1>2, <2>1, TypesGive, TypesHold DEF Loops
  <2> QED BY <1>1, <1>2, <2>1, <2>2, FailureIsSound
<1>6. CASE ~(buf[end] = Backslash /\ buf[end + 1] = Nul)
  <2> DEFINE n == IF buf[end] = Backslash THEN 2 ELSE 1
             H == G \cup {end + n}
  <2>1. n \in {1, 2} /\ (n = 2 <=> buf[end] = Backslash)
    OBVIOUS
  <2>0. n = IF buf[end] = Backslash THEN 2 ELSE 1
    OBVIOUS
  <2> HIDE DEF n
  <2>2. /\ Scans(buf, end + n, H)
        /\ Cardinality(EscapesBefore(buf, H, end + n)) = skipped + (n - 1)
    <3>1. Scans(buf, end, G) /\ end \in Nat /\ end >= 2
      BY <1>3, <1>4
    <3>2. /\ Scans(buf, end + n, H)
          /\ Cardinality(EscapesBefore(buf, H, end + n))
               = Cardinality(EscapesBefore(buf, G, end)) + (n - 1)
      BY ONLY <2>0, <3>1, ScansMore
    <3> QED BY <1>3, <3>2
  <2>3. end' = end + n /\ skipped' = skipped + (n - 1) /\ pc' = "size"
    <3>1. CASE buf[end] # Backslash
      BY <1>1, <1>4, <2>0, <3>1 DEF Size
    <3>2. CASE buf[end] = Backslash
      BY <1>1, <1>4, <1>6, <2>0, <3>2 DEF Size
    <3> QED BY <3>1, <3>2
  <2> HIDE DEF H
  <2>4. end + n <= Len(buf)
    <3>1. end # Len(buf)
      BY <1>1, <1>2
    <3>2. n = 2 => end + 1 # Len(buf)
      BY <1>2, <1>6, <2>1
    <3> QED BY <1>2, <1>4, <2>1, <3>1, <3>2
  <2>5. end + n \in Nat /\ end + n >= 2
    BY <1>4, <2>1
  <2>6. skipped' \in 0 .. Len(buf)
    <3>1. skipped' \in 0 .. (end + n) - 2
      BY <2>2, <2>3, <2>5, SkippedIsSmall
    <3> QED BY <1>4, <2>4, <2>5, <3>1
  <2>7. TypeOK'
    <3>1. end' \in Nat /\ 2 <= end' /\ end' <= Len(buf')
      BY <1>1, <2>3, <2>4, <2>5
    <3> QED BY <1>1, <1>2, <2>3, <2>6, <3>1, TypesGive, TypesHold DEF Loops
  <2>8. ParseIsSound'
    <3>1. Scans(buf', end', H) /\ skipped' = Cardinality(EscapesBefore(buf', H, end'))
      BY <1>1, <2>2, <2>3
    <3>2. end' <= Len(buf') /\ job'.kind # "minify"
      BY <1>1, <1>2, <2>3, <2>4
    <3> QED BY <2>3, <3>1, <3>2 DEF ParseIsSound
  <2>9. PrintIsSound' /\ MinifyIsSound'
    BY <2>3 DEF PrintIsSound, MinifyIsSound, Printing
  <2> QED BY <1>1, <1>2, <1>4, <2>3, <2>7, <2>8, <2>9 DEF IInv, Sound, Reading, Printing
<1> QED BY <1>5, <1>6

\* What is reserved is what the first loop has found.
LEMMA ReserveGives ==
  ASSUME IInv, ~outside, Reserve
  PROVE  \/ pc' = "failed" /\ starved' = TRUE /\ UNCHANGED <<room, out, to>>
         \/ /\ pc' = "decode" /\ UNCHANGED starved /\ room' = end - skipped /\ to' = 1
            /\ out' \in Seq(Cells) /\ Len(out') = room'
<1>1. /\ pc = "size" /\ buf[1] = Quote /\ Allocate(Room, <<>>, "decode") /\ from' = 2
      /\ UNCHANGED <<job, buf, end, skipped, ep, outside>>
  BY DEF Reserve
<1>2. /\ TypeOK /\ job \in Jobs /\ job.kind # "minify" /\ buf # <<>> /\ buf[Len(buf)] = Nul
      /\ end <= Len(buf)
      /\ \E G : Scans(buf, end, G) /\ skipped = Cardinality(EscapesBefore(buf, G, end))
  BY <1>1, SizeGives
<1>3. PICK G : Scans(buf, end, G) /\ skipped = Cardinality(EscapesBefore(buf, G, end))
  BY <1>2
<1>4. /\ Len(buf) \in Nat /\ end \in Nat /\ end >= 2 /\ skipped \in 0 .. Len(buf) /\ outside = FALSE
      /\ ep \in 0 .. Len(buf) /\ starved \in BOOLEAN /\ out \in Seq(Cells) /\ Len(out) = room
  BY <1>2, TypesGive
<1>5. skipped \in 0 .. end - 2
  BY <1>3, <1>4, SkippedIsSmall
<1>6. Room = end - skipped /\ Room \in Nat /\ Room >= 2
  BY <1>4, <1>5 DEF Room
<1> DEFINE none == <<>>
<1>7. none \in Seq(Cells) /\ Len(none) = 0 /\ Allocate(Room, none, "decode")
  BY <1>1
<1> HIDE DEF none
<1>8. \/ pc' = "failed" /\ starved' = TRUE /\ UNCHANGED <<room, out, to>>
      \/ /\ pc' = "decode" /\ UNCHANGED starved /\ room' = Room /\ to' = 1
         /\ out' \in Seq(Cells) /\ Len(out') = Room
  <2>1. Len(none) <= Room /\ Len(none) + 1 = 1
    BY <1>6, <1>7
  <2>2. \/ pc' = "failed" /\ starved' = TRUE /\ UNCHANGED <<room, out, to>>
        \/ /\ pc' = "decode" /\ UNCHANGED starved /\ room' = Room /\ to' = Len(none) + 1
           /\ out' \in Seq(Cells) /\ Len(out') = Room
    BY ONLY <1>6, <1>7, <2>1, AllocateGives
  <2> QED BY <2>1, <2>2
<1> QED BY <1>6, <1>8

\* The second loop begins where the first one did.
LEMMA ReserveIsSound == IInv /\ ~outside /\ Reserve => IInv'
<1> SUFFICES ASSUME IInv, ~outside, Reserve
             PROVE  IInv'
  OBVIOUS
<1>1. /\ pc = "size" /\ buf[1] = Quote /\ from' = 2
      /\ UNCHANGED <<job, buf, end, skipped, ep, outside>>
  BY DEF Reserve
<1>2. /\ TypeOK /\ job \in Jobs /\ job.kind # "minify" /\ buf # <<>> /\ buf[Len(buf)] = Nul
      /\ end <= Len(buf)
      /\ \E G : Scans(buf, end, G) /\ skipped = Cardinality(EscapesBefore(buf, G, end))
  BY <1>1, SizeGives
<1>3. PICK G : Scans(buf, end, G) /\ skipped = Cardinality(EscapesBefore(buf, G, end))
  BY <1>2
<1>4. /\ Len(buf) \in Nat /\ end \in Nat /\ end >= 2 /\ skipped \in 0 .. Len(buf) /\ outside = FALSE
      /\ ep \in 0 .. Len(buf) /\ starved \in BOOLEAN /\ out \in Seq(Cells) /\ Len(out) = room
  BY <1>2, TypesGive
<1>9. CASE pc' = "failed" /\ starved' = TRUE /\ UNCHANGED <<room, out, to>>
  <2>1. TypeOK'
    BY <1>1, <1>2, <1>4, <1>9, TypesGive, TypesHold DEF Loops
  <2> QED BY <1>1, <1>2, <1>4, <1>9, <2>1, FailureIsSound
<1>10. CASE /\ pc' = "decode" /\ UNCHANGED starved /\ room' = end - skipped /\ to' = 1
            /\ out' \in Seq(Cells) /\ Len(out') = room'
  <2>1. TypeOK'
    <3>1. /\ pc' \in Loops /\ outside' \in BOOLEAN /\ starved' \in BOOLEAN /\ Len(out') = room'
          /\ to' = 1 /\ from' = 2 /\ skipped' \in 0 .. Len(buf') /\ ep' \in 0 .. Len(buf')
          /\ end' \in Nat /\ 2 <= end' /\ end' <= Len(buf')
      BY <1>1, <1>2, <1>4, <1>10 DEF Loops
    <3>2. buf' \in Seq(Chars) /\ Len(buf') \in Nat
      BY <1>1, <1>2, TypesGive
    <3> QED BY <1>10, <3>1, <3>2, TypesHold
  <2>2. EscapesBefore(buf, G, 2) = {}
    <3>1. \A k \in G : ~(k < 2)
      BY <1>3 DEF Scans
    <3> QED BY <3>1 DEF EscapesBefore
  <2>3. Cardinality(EscapesBefore(buf, G, 2)) = 0
    BY <2>2, FS_EmptySet
  <2>4. ParseIsSound'
    <3>1. end' <= Len(buf') /\ room' = end' - skipped' /\ job'.kind # "minify"
      BY <1>1, <1>2, <1>10
    <3>2. /\ Scans(buf', end', G) /\ skipped' = Cardinality(EscapesBefore(buf', G, end'))
          /\ from' \in G /\ to' <= from' - 1 - Cardinality(EscapesBefore(buf', G, from'))
      <4>1. 2 \in G
        BY <1>3 DEF Scans
      <4> QED BY <1>1, <1>3, <1>10, <2>3, <4>1
    <3> QED BY <1>10, <3>1, <3>2 DEF ParseIsSound
  <2>5. PrintIsSound' /\ MinifyIsSound'
    BY <1>10 DEF PrintIsSound, MinifyIsSound, Printing
  <2> QED BY <1>1, <1>2, <1>4, <1>10, <2>1, <2>4, <2>5 DEF IInv, Sound, Reading, Printing
<1> QED BY <1>9, <1>10, ReserveGives

\* What a state of the second loop has in common.
LEMMA DecodeGives ==
  ASSUME IInv, ~outside, pc = "decode"
  PROVE  /\ TypeOK /\ job \in Jobs /\ job.kind # "minify" /\ buf \in Seq(Chars) /\ buf # <<>>
         /\ buf[Len(buf)] = Nul /\ Len(buf) \in Nat
         /\ end \in Nat /\ end >= 2 /\ end <= Len(buf) /\ skipped \in 0 .. Len(buf)
         /\ room = end - skipped /\ room \in Nat /\ out \in Seq(Cells) /\ Len(out) = room
         /\ from \in Nat /\ to \in Nat /\ to >= 1 /\ ep \in 0 .. Len(buf)
         /\ outside = FALSE /\ starved \in BOOLEAN
         /\ \E G : /\ Scans(buf, end, G) /\ skipped = Cardinality(EscapesBefore(buf, G, end))
                   /\ from \in G /\ to <= from - 1 - Cardinality(EscapesBefore(buf, G, from))
<1>1. TypeOK /\ job \in Jobs /\ buf # <<>> /\ buf[Len(buf)] = Nul /\ ParseIsSound
  BY DEF IInv, Sound
<1>2. /\ job.kind # "minify" /\ end <= Len(buf) /\ room = end - skipped
      /\ \E G : /\ Scans(buf, end, G) /\ skipped = Cardinality(EscapesBefore(buf, G, end))
                /\ from \in G /\ to <= from - 1 - Cardinality(EscapesBefore(buf, G, from))
  BY <1>1 DEF ParseIsSound
<1>3. /\ buf \in Seq(Chars) /\ Len(buf) \in Nat /\ end \in Nat /\ end >= 2 /\ skipped \in 0 .. Len(buf)
      /\ room \in Nat /\ out \in Seq(Cells) /\ Len(out) = room
      /\ from \in Nat /\ to \in Nat /\ to >= 1 /\ ep \in 0 .. Len(buf)
      /\ outside = FALSE /\ starved \in BOOLEAN
  BY <1>1, TypesGive
<1> QED BY <1>1, <1>2, <1>3

\* As far as n has been read, no more has been written than there is room for.
LEMMA DecodeMoves ==
  ASSUME IInv, ~outside, pc = "decode", UNCHANGED <<job, pc, buf, sizes, ep, starved>>,
         NEW b \in Seq(Cells), out' = Put(out, to, b), to' = to + Len(b),
         outside' = PastTheEnd(out, to, b),
         NEW G, Scans(buf, end, G), skipped = Cardinality(EscapesBefore(buf, G, end)),
         NEW n \in G, from' = n, to + Len(b) <= n - 1 - Cardinality(EscapesBefore(buf, G, n))
  PROVE  IInv'
<1>1. /\ job \in Jobs /\ job.kind # "minify" /\ buf \in Seq(Chars) /\ buf # <<>>
      /\ buf[Len(buf)] = Nul /\ Len(buf) \in Nat
      /\ end \in Nat /\ end >= 2 /\ end <= Len(buf) /\ skipped \in 0 .. Len(buf)
      /\ room = end - skipped /\ room \in Nat /\ out \in Seq(Cells) /\ Len(out) = room
      /\ to \in Nat /\ to >= 1 /\ ep \in 0 .. Len(buf) /\ starved \in BOOLEAN
  BY DecodeGives
<1>2. /\ job' = job /\ pc' = "decode" /\ buf' = buf /\ ep' = ep /\ starved' = starved
      /\ end' = end /\ skipped' = skipped /\ room' = room
  BY DEF sizes
<1>3. n \in 2 .. end
  BY DEF Scans
<1>4. to + Len(b) <= room - 1
  <2> DEFINE c == Cardinality(EscapesBefore(buf, G, n))
             d == Cardinality(EscapesBefore(buf, G, end))
  <2>1. n - c <= end - d
    BY <1>1, <1>3, EscapesLeft
  <2>2. c \in Nat /\ d \in Nat
    BY <1>1, EscapesAreFinite
  <2>3. to + Len(b) <= n - 1 - c /\ skipped = d
    OBVIOUS
  <2> HIDE DEF c, d
  <2> QED BY <1>1, <1>3, <2>1, <2>2, <2>3
<1>5. outside' = FALSE
  <2>1. ~PastTheEnd(out, to, b)
    BY <1>1, <1>4 DEF PastTheEnd
  <2> QED BY <2>1, StaysIn
<1>6. out' \in Seq(Cells) /\ Len(out') = room
  BY <1>1, PutWrites
<1>7. TypeOK'
  <2>1. from' \in Nat /\ 1 <= from' /\ from' <= Len(buf') + 2
    BY <1>1, <1>2, <1>3
  <2>2. to' \in Nat /\ 1 <= to' /\ to' <= room' + 1
    <3>1. Len(b) \in Nat /\ to' = to + Len(b) /\ to \in Nat /\ to >= 1 /\ room \in Nat /\ room' = room
      BY <1>1, <1>2
    <3> QED BY ONLY <1>4, <3>1
  <2>3. /\ pc' \in Loops /\ outside' \in BOOLEAN /\ starved' \in BOOLEAN
        /\ end' \in Nat /\ 2 <= end' /\ end' <= Len(buf')
        /\ skipped' \in 0 .. Len(buf') /\ ep' \in 0 .. Len(buf') /\ buf' \in Seq(Chars)
    BY <1>1, <1>2, <1>5 DEF Loops
  <2> QED BY <1>2, <1>6, <2>1, <2>2, <2>3, TypesHold
<1>8. ParseIsSound'
  <2>1. end' <= Len(buf') /\ room' = end' - skipped' /\ job'.kind # "minify"
    BY <1>1, <1>2
  <2>2. /\ Scans(buf', end', G) /\ skipped' = Cardinality(EscapesBefore(buf', G, end'))
        /\ from' \in G /\ to' <= from' - 1 - Cardinality(EscapesBefore(buf', G, from'))
    BY <1>2
  <2> QED BY <1>2, <2>1, <2>2 DEF ParseIsSound
<1>9. PrintIsSound' /\ MinifyIsSound'
  BY <1>2 DEF PrintIsSound, MinifyIsSound, Printing
<1> QED BY <1>1, <1>2, <1>5, <1>7, <1>8, <1>9 DEF IInv, Sound, Reading, Printing

\* A byte as it is.
LEMMA CopyByteIsSound == IInv /\ ~outside /\ CopyByte => IInv'
<1> SUFFICES ASSUME IInv, ~outside, CopyByte
             PROVE  IInv'
  OBVIOUS
<1> DEFINE b == <<buf[from]>>
<1>1. /\ pc = "decode" /\ from < end /\ buf[from] # Backslash
      /\ out' = Put(out, to, b) /\ to' = to + 1 /\ outside' = PastTheEnd(out, to, b)
      /\ from' = from + 1 /\ UNCHANGED <<job, pc, buf, sizes, ep, starved>>
  BY DEF CopyByte, Decoding, Write
<1>2. /\ buf \in Seq(Chars) /\ end \in Nat /\ end <= Len(buf) /\ to \in Nat /\ Len(buf) \in Nat
      /\ \E G : /\ Scans(buf, end, G) /\ skipped = Cardinality(EscapesBefore(buf, G, end))
                /\ from \in G /\ to <= from - 1 - Cardinality(EscapesBefore(buf, G, from))
  BY <1>1, DecodeGives
<1>3. PICK G : /\ Scans(buf, end, G) /\ skipped = Cardinality(EscapesBefore(buf, G, end))
               /\ from \in G /\ to <= from - 1 - Cardinality(EscapesBefore(buf, G, from))
  BY <1>2
<1>4. /\ from + 1 \in G
      /\ Cardinality(EscapesBefore(buf, G, from + 1)) = Cardinality(EscapesBefore(buf, G, from))
  BY <1>1, <1>2, <1>3, EscapesStep
<1>5. b \in Seq(Cells) /\ Len(b) = 1
  <2>1. from \in 1 .. Len(buf)
    BY <1>2, <1>3 DEF Scans
  <2>2. buf[from] \in Cells
    BY <1>2, <2>1 DEF Chars, Cells
  <2> QED BY <2>2
<1> HIDE DEF b
<1>6. to + Len(b) <= (from + 1) - 1 - Cardinality(EscapesBefore(buf, G, from + 1))
  <2> DEFINE c == Cardinality(EscapesBefore(buf, G, from))
  <2>1. c \in Nat /\ from \in Nat /\ to <= from - 1 - c
    <3>1. c \in Nat
      BY <1>2, <1>3, EscapesAreFinite
    <3>2. from \in Nat
      BY <1>2, <1>3 DEF Scans
    <3> QED BY <1>3, <3>1, <3>2
  <2> HIDE DEF c
  <2>2. to + 1 <= (from + 1) - 1 - c
    BY <1>2, <2>1
  <2> QED BY <1>4, <1>5, <2>2 DEF c
<1>7. to' = to + Len(b)
  BY <1>1, <1>5
<1> QED BY <1>1, <1>3, <1>4, <1>5, <1>6, <1>7, DecodeMoves

\* A letter stands for a byte.
LEMMA StandsForByte ==
  ASSUME NEW l \in Letters
  PROVE  Stands(l) \in Byte
<1>1. DOMAIN Letter = {8, 12, 10, 13, 9, Quote, Backslash}
  BY DEF Letter
<1>2. CASE l = Slash
  BY <1>2 DEF Stands, Slash, Byte
<1>3. CASE l # Slash
  <2>1. \E c \in DOMAIN Letter : Letter[c] = l
    BY <1>3 DEF Letters
  <2>2. (CHOOSE c \in DOMAIN Letter : Letter[c] = l) \in DOMAIN Letter
    BY <2>1
  <2>3. Stands(l) \in DOMAIN Letter
    BY <1>3, <2>2 DEF Stands
  <2> QED BY <1>1, <2>3 DEF Byte, Quote, Backslash
<1> QED BY <1>2, <1>3

\* An escape sequence of one letter.
LEMMA UnescapeIsSound == IInv /\ ~outside /\ Unescape => IInv'
<1> SUFFICES ASSUME IInv, ~outside, Unescape
             PROVE  IInv'
  OBVIOUS
<1> DEFINE b == <<Stands(buf[from + 1])>>
<1>1. /\ pc = "decode" /\ from < end /\ buf[from] = Backslash /\ buf[from + 1] \in Letters
      /\ out' = Put(out, to, b) /\ to' = to + 1 /\ outside' = PastTheEnd(out, to, b)
      /\ from' = from + 2 /\ UNCHANGED <<job, pc, buf, sizes, ep, starved>>
  BY DEF Unescape, Decoding, Write
<1>2. /\ end \in Nat /\ to \in Nat
      /\ \E G : /\ Scans(buf, end, G) /\ skipped = Cardinality(EscapesBefore(buf, G, end))
                /\ from \in G /\ to <= from - 1 - Cardinality(EscapesBefore(buf, G, from))
  BY <1>1, DecodeGives
<1>3. PICK G : /\ Scans(buf, end, G) /\ skipped = Cardinality(EscapesBefore(buf, G, end))
               /\ from \in G /\ to <= from - 1 - Cardinality(EscapesBefore(buf, G, from))
  BY <1>2
<1>4. /\ from + 2 \in G
      /\ Cardinality(EscapesBefore(buf, G, from + 2)) = Cardinality(EscapesBefore(buf, G, from)) + 1
  BY <1>1, <1>2, <1>3, EscapesStep
<1>5. b \in Seq(Cells) /\ Len(b) = 1
  <2>1. Stands(buf[from + 1]) \in Cells
    BY <1>1, StandsForByte DEF Cells
  <2> QED BY <2>1
<1> HIDE DEF b
<1>6. to + Len(b) <= (from + 2) - 1 - Cardinality(EscapesBefore(buf, G, from + 2))
  <2> DEFINE c == Cardinality(EscapesBefore(buf, G, from))
  <2>1. c \in Nat /\ from \in Nat /\ to <= from - 1 - c
    <3>1. c \in Nat
      BY <1>2, <1>3, EscapesAreFinite
    <3>2. from \in Nat
      BY <1>2, <1>3 DEF Scans
    <3> QED BY <1>3, <3>1, <3>2
  <2> HIDE DEF c
  <2>2. to + 1 <= (from + 2) - 1 - (c + 1)
    BY <1>2, <2>1
  <2> QED BY <1>4, <1>5, <2>2 DEF c
<1>7. to' = to + Len(b)
  BY <1>1, <1>5
<1> QED BY <1>1, <1>3, <1>4, <1>5, <1>6, <1>7, DecodeMoves

\* A literal of one or two groups of digits.
LEMMA Utf16LiteralIsSound == IInv /\ ~outside /\ Utf16Literal => IInv'
<1> SUFFICES ASSUME IInv, ~outside, Utf16Literal
             PROVE  IInv'
  OBVIOUS
<1> DEFINE n == SequenceLength
           cp == Codepoint
           b == Utf8(cp)
           first == ParseHex4(from + 2)
           second == ParseHex4(from + 8)
<1>1. /\ pc = "decode" /\ from < end /\ buf[from] = Backslash /\ buf[from + 1] = LetterU /\ n # 0
      /\ out' = Put(out, to, b) /\ to' = to + Utf8Length(cp) /\ outside' = PastTheEnd(out, to, b)
      /\ from' = from + n /\ UNCHANGED <<job, pc, buf, sizes, ep, starved>>
  BY DEF Utf16Literal, Decoding, Write
<1>2. /\ buf \in Seq(Chars) /\ end \in Nat /\ to \in Nat /\ from \in Nat
      /\ \E G : /\ Scans(buf, end, G) /\ skipped = Cardinality(EscapesBefore(buf, G, end))
                /\ from \in G /\ to <= from - 1 - Cardinality(EscapesBefore(buf, G, from))
  BY <1>1, DecodeGives
<1>3. PICK G : /\ Scans(buf, end, G) /\ skipped = Cardinality(EscapesBefore(buf, G, end))
               /\ from \in G /\ to <= from - 1 - Cardinality(EscapesBefore(buf, G, from))
  BY <1>2
<1> DEFINE c == Cardinality(EscapesBefore(buf, G, from))
<1>4. c \in Nat
  BY <1>2, <1>3, EscapesAreFinite
<1>5. /\ first # 0 /\ end - from >= 6
      /\ \/ n = 6
         \/ /\ n = 12 /\ end - (from + 6) >= 6
            /\ buf[from + 6] = Backslash /\ buf[from + 7] = LetterU /\ IsLow(second)
  <2>1. ~(end - from < 6)
    BY <1>1 DEF SequenceLength
  <2>2. ~(first = 0 \/ IsLow(first))
    BY <1>1, <2>1 DEF SequenceLength
  <2>3. n = IF ~IsHigh(first) THEN 6
            ELSE IF /\ end - (from + 6) >= 6
                    /\ buf[from + 6] = Backslash /\ buf[from + 7] = LetterU
                    /\ IsLow(second)
                 THEN 12 ELSE 0
    BY <2>1, <2>2, Zenon DEF SequenceLength
  <2>4. end - from >= 6
    BY <1>2, <2>1
  <2> HIDE DEF n, first, second
  <2> QED BY <1>1, <2>2, <2>3, <2>4
<1>6. first \in Nat /\ first < 65536 /\ \A k \in 0 .. 3 : buf[(from + 2) + k] # Backslash
  <2>1. from + 2 \in Nat
    BY <1>2
  <2> QED BY <1>2, <1>5, <2>1, DigitsAreDigits
<1>7. \A k \in 2 .. 5 : buf[from + k] # Backslash
  <2> TAKE k \in 2 .. 5
  <2>1. k - 2 \in 0 .. 3 /\ (from + 2) + (k - 2) = from + k
    BY <1>2
  <2> QED BY <1>6, <2>1
<1>8. /\ from + 6 \in G
      /\ Cardinality(EscapesBefore(buf, G, from + 6)) = c + 1
  <2>1. from + 6 <= end
    BY <1>2, <1>5
  <2>2. /\ end \in Nat /\ Scans(buf, end, G) /\ from \in G /\ buf[from] = Backslash
        /\ \A k \in 2 .. 5 : buf[from + k] # Backslash
    BY <1>1, <1>2, <1>3, <1>7
  <2> QED BY ONLY <2>1, <2>2, LiteralIsOneEscape
<1> HIDE DEF first, second, n, cp
<1>9. CASE n = 6
  <2>1. cp = first
    BY <1>9 DEF Codepoint, n, cp, first
  <2>2. b \in Seq(Cells) /\ Len(b) = Utf8Length(cp) /\ Len(b) <= 3 /\ Len(b) \in Nat
    <3>1. cp \in Nat /\ cp < 65536
      BY <1>6, <2>1
    <3>2. /\ Utf8(cp) \in Seq(Cells) /\ Len(Utf8(cp)) = Utf8Length(cp)
          /\ Utf8Length(cp) \in 1 .. 4 /\ (cp < 65536 => Utf8Length(cp) <= 3)
      BY ONLY <3>1, Utf8Bytes
    <3> QED BY ONLY <3>1, <3>2
  <2> HIDE DEF b
  <2>3. to + Len(b) <= (from + n) - 1 - Cardinality(EscapesBefore(buf, G, from + n))
    <3>1. to <= from - 1 - c
      BY <1>3
    <3> HIDE DEF c
    <3>2. to + Len(b) <= (from + 6) - 1 - (c + 1)
      BY <1>2, <1>4, <2>2, <3>1
    <3> QED BY <1>8, <1>9, <3>2
  <2>4. from + n \in G
    BY <1>8, <1>9
  <2>5. to' = to + Len(b)
    BY <1>1, <2>2
  <2> QED BY <1>1, <1>3, <2>2, <2>3, <2>4, <2>5, DecodeMoves
<1>10. CASE /\ n = 12 /\ end - (from + 6) >= 6
            /\ buf[from + 6] = Backslash /\ buf[from + 7] = LetterU /\ IsLow(second)
  <2>1. second # 0
    BY <1>10 DEF IsLow
  <2>2. second \in Nat /\ \A k \in 0 .. 3 : buf[(from + 8) + k] # Backslash
    <3>1. from + 8 \in Nat
      BY <1>2
    <3> QED BY <1>2, <2>1, <3>1, DigitsAreDigits DEF second
  <2>3. \A k \in 2 .. 5 : buf[(from + 6) + k] # Backslash
    <3> TAKE k \in 2 .. 5
    <3>1. k - 2 \in 0 .. 3 /\ (from + 8) + (k - 2) = (from + 6) + k
      BY <1>2
    <3> QED BY <2>2, <3>1
  <2>4. /\ (from + 6) + 6 \in G
        /\ Cardinality(EscapesBefore(buf, G, (from + 6) + 6))
             = Cardinality(EscapesBefore(buf, G, from + 6)) + 1
    <3>1. (from + 6) + 6 <= end
      BY <1>2, <1>10
    <3> QED BY <1>2, <1>3, <1>8, <1>10, <2>3, <3>1, LiteralIsOneEscape
  <2>5. (from + 6) + 6 = from + n
    BY <1>2, <1>10
  <2>6. cp \in Nat
    <3>1. cp = 65536 + 1024 * (first % 1024) + (second % 1024)
      BY <1>10 DEF Codepoint, n, cp, first, second
    <3>2. first % 1024 \in Nat /\ second % 1024 \in Nat
      BY <1>6, <2>2
    <3> QED BY <3>1, <3>2
  <2>7. b \in Seq(Cells) /\ Len(b) = Utf8Length(cp) /\ Len(b) <= 4 /\ Len(b) \in Nat
    <3>1. /\ Utf8(cp) \in Seq(Cells) /\ Len(Utf8(cp)) = Utf8Length(cp)
          /\ Utf8Length(cp) \in 1 .. 4
      BY ONLY <2>6, Utf8Bytes
    <3> QED BY ONLY <3>1
  <2> HIDE DEF b
  <2>8. to + Len(b) <= (from + n) - 1 - Cardinality(EscapesBefore(buf, G, from + n))
    <3>1. to <= from - 1 - c
      BY <1>3
    <3>2. Cardinality(EscapesBefore(buf, G, from + n)) = (c + 1) + 1
      BY <1>8, <2>4, <2>5
    <3> HIDE DEF c
    <3>3. to + Len(b) <= (from + 12) - 1 - ((c + 1) + 1)
      BY <1>2, <1>4, <2>7, <3>1
    <3> QED BY <1>10, <3>2, <3>3
  <2>9. from + n \in G
    BY <2>4, <2>5
  <2>10. to' = to + Len(b)
    BY <1>1, <2>7
  <2> QED BY <1>1, <1>3, <2>7, <2>8, <2>9, <2>10, DecodeMoves
<1> QED BY <1>5, <1>9, <1>10

\* An escape sequence that stands for nothing.
LEMMA BadEscapeIsSound == IInv /\ ~outside /\ BadEscape => IInv'
<1> SUFFICES ASSUME IInv, ~outside, BadEscape
             PROVE  IInv'
  OBVIOUS
<1>1. /\ pc = "decode" /\ from < end /\ pc' = "failed" /\ ep' = from
      /\ UNCHANGED <<job, buf, from, out, to, outside, starved>>
      /\ end' = end /\ skipped' = skipped /\ room' = room
  BY DEF BadEscape, Fails, Decoding, sizes
<1>2. /\ TypeOK /\ buf # <<>> /\ buf[Len(buf)] = Nul /\ end <= Len(buf) /\ end \in Nat
      /\ from \in Nat /\ Len(buf) \in Nat /\ outside = FALSE
  BY <1>1, DecodeGives
<1>3. ep' \in 0 .. Len(buf')
  BY <1>1, <1>2
<1>4. TypeOK'
  BY <1>1, <1>2, <1>3, TypesGive, TypesHold DEF Loops
<1> QED BY <1>1, <1>2, <1>4, FailureIsSound

\* There is room for the NUL.
LEMMA FinishStringIsSound == IInv /\ ~outside /\ FinishString => IInv'
<1> SUFFICES ASSUME IInv, ~outside, FinishString
             PROVE  IInv'
  OBVIOUS
<1> DEFINE b == <<Nul>>
<1>1. /\ pc = "decode" /\ from >= end /\ out' = Put(out, to, b)
      /\ outside' = PastTheEnd(out, to, b) /\ pc' = "done"
      /\ UNCHANGED <<job, buf, from, to, ep, starved>>
      /\ end' = end /\ skipped' = skipped /\ room' = room
  BY DEF FinishString, sizes
<1>2. /\ TypeOK /\ job \in Jobs /\ buf \in Seq(Chars) /\ buf # <<>> /\ buf[Len(buf)] = Nul
      /\ end \in Nat /\ room = end - skipped /\ room \in Nat /\ out \in Seq(Cells) /\ Len(out) = room
      /\ from \in Nat /\ to \in Nat /\ to >= 1
      /\ \E G : /\ Scans(buf, end, G) /\ skipped = Cardinality(EscapesBefore(buf, G, end))
                /\ from \in G /\ to <= from - 1 - Cardinality(EscapesBefore(buf, G, from))
  BY <1>1, DecodeGives
<1>3. PICK G : /\ Scans(buf, end, G) /\ skipped = Cardinality(EscapesBefore(buf, G, end))
               /\ from \in G /\ to <= from - 1 - Cardinality(EscapesBefore(buf, G, from))
  BY <1>2
<1>4. from = end
  BY <1>1, <1>2, <1>3 DEF Scans
<1>5. to <= end - 1 - skipped
  BY <1>3, <1>4
<1>6. Cardinality(EscapesBefore(buf, G, end)) \in Nat
  BY <1>2, <1>3, EscapesAreFinite
<1>7. to < room
  BY <1>2, <1>3, <1>5, <1>6
<1>8. b \in Seq(Cells) /\ Len(b) = 1
  BY DEF Cells
<1> HIDE DEF b
<1>9. outside' = FALSE
  <2>1. ~PastTheEnd(out, to, b)
    BY <1>2, <1>7, <1>8 DEF PastTheEnd
  <2> QED BY <1>1, <2>1, StaysIn
<1>10. out' \in Seq(Cells) /\ Len(out') = room
  BY <1>1, <1>2, <1>8, PutWrites
<1>11. TypeOK'
  <2>1. outside' \in BOOLEAN /\ Len(out') = room' /\ pc' \in Loops
    BY <1>1, <1>9, <1>10 DEF Loops
  <2> QED BY <1>1, <1>2, <1>10, <2>1, TypesGive, TypesHold
<1>12. PrintIsSound' /\ MinifyIsSound' /\ ParseIsSound'
  BY <1>1 DEF PrintIsSound, MinifyIsSound, ParseIsSound, Printing
<1> QED BY <1>1, <1>2, <1>9, <1>11, <1>12 DEF IInv, Sound, Reading, Printing

-----------------------------------------------------------------------------
(* Every step, and the theorem                                             *)

\* Every step preserves the invariant.
LEMMA StepIsSound == IInv /\ [Next]_vars => IInv'
<1> SUFFICES ASSUME IInv, [Next]_vars
             PROVE  IInv'
  OBVIOUS
<1>1. CASE UNCHANGED vars
  <2>1. /\ UNCHANGED <<job, pc, buf, from, end, skipped, room, out, to, ep, outside, starved>>
    BY <1>1 DEF vars
  <2>2. EscapeCharacters' = EscapeCharacters
    BY <2>1 DEF EscapeCharacters, Content
  <2>3. TypeOK' /\ (Sound => Sound') /\ (Open => Open')
    <3>1. TypeOK' /\ (Open => Open')
      BY <2>1 DEF IInv, TypeOK, Open
    <3>2. PrintIsSound => PrintIsSound'
      BY <2>1, <2>2 DEF PrintIsSound
    <3>3. MinifyIsSound => MinifyIsSound'
      BY <2>1 DEF MinifyIsSound, Open
    <3>4. ParseIsSound => ParseIsSound'
      BY <2>1 DEF ParseIsSound
    <3> QED BY <2>1, <3>1, <3>2, <3>3, <3>4 DEF Sound
  <2> QED BY <2>1, <2>3 DEF IInv
<1>2. CASE Next
  <2>1. ~outside
    BY <1>2 DEF Next
  <2>2. CASE Measure \/ CopyPlain \/ EscapeChar \/ CloseEscaped \/ HandOver
    BY <2>1, <2>2, MeasureIsSound, CopyPlainIsSound, EscapeCharIsSound, CloseEscapedIsSound,
       HandOverIsSound
  <2>3. CASE SkipSpace \/ SkipLine \/ SkipComment \/ KeepOther \/ KeepLiteral \/ EndMinify
    BY <2>1, <2>3, SkipSpaceIsSound, SkipLineIsSound, SkipCommentIsSound, KeepOtherIsSound,
       KeepLiteralIsSound, EndMinifyIsSound
  <2>4. CASE NoString \/ Size \/ SizeOpen \/ Reserve
    BY <2>1, <2>4, NoStringIsSound, SizeIsSound, SizeOpenIsSound, ReserveIsSound
  <2>5. CASE CopyByte \/ Unescape \/ Utf16Literal \/ BadEscape \/ FinishString
    BY <2>1, <2>5, CopyByteIsSound, UnescapeIsSound, Utf16LiteralIsSound, BadEscapeIsSound,
       FinishStringIsSound
  <2> QED BY <1>2, <2>2, <2>3, <2>4, <2>5 DEF Next
<1> QED BY <1>1, <1>2

\* Printing, minifying and parsing any string or text uses no memory outside
\* of the buffers, whatever is in it, but for cJSON_Minify of a text that
\* leaves a string or a comment open or has a comment that begins with /*/.
THEOREM BytesStayInside == Spec => []StaysInside
<1>1. Init => IInv
  BY InitIsSound
<1>2. IInv /\ [Next]_vars => IInv'
  BY StepIsSound
<1>3. IInv => StaysInside
  BY DEF IInv, StaysInside, Open
<1> QED BY <1>1, <1>2, <1>3, PTL DEF Spec

-----------------------------------------------------------------------------
(* What is printed of a string is read back                                *)

\* Where the character i of t is printed, or the quote behind the last one.
Start(t, i) == Column(Terminated(t), i)

\* s begins with what is printed of t in front of the character i.
Shows(s, t, i) ==
  /\ s[1] = Quote
  /\ \A k \in 1 .. i - 1 : \A m \in 1 .. Len(Escaped(t[k])) :
       s[Start(t, k) + (m - 1)] = Escaped(t[k])[m]

\* s is all of it, with the closing quote and the NUL.
Image(s, t) ==
  /\ Len(s) = Start(t, Len(t) + 1) + 1
  /\ Shows(s, t, Len(t) + 1)
  /\ s[Start(t, Len(t) + 1)] = Quote /\ s[Len(s)] = Nul

\* The positions where a loop may be that takes a backslash and what follows
\* it for one: where characters begin, and between the digits of a literal.
Stops(t) ==
  {p \in Nat : \/ \E k \in 1 .. Len(t) + 1 : p = Start(t, k)
               \/ \E k \in 1 .. Len(t) :
                    Len(Escaped(t[k])) = 6 /\ \E m \in 2 .. 5 : p = Start(t, k) + m}

\* The columns of a string.
LEMMA StartsAreColumns ==
  ASSUME NEW t \in Seq(Byte)
  PROVE  /\ Len(t) \in Nat
         /\ \A i \in 1 .. Len(t) + 1 : Start(t, i) \in Nat /\ Start(t, i) >= 2
         /\ Start(t, 1) = 2
         /\ \A i \in 1 .. Len(t) :
              /\ t[i] \in Byte /\ Len(Escaped(t[i])) \in {1, 2, 6}
              /\ Start(t, i + 1) = Start(t, i) + Len(Escaped(t[i]))
         /\ \A i, j \in 1 .. Len(t) + 1 : i <= j => Start(t, i) <= Start(t, j)
<1> DEFINE s == Terminated(t)
<1>1. Len(t) \in Nat /\ \A i \in 1 .. Len(t) : s[i] = t[i] /\ t[i] \in Byte
  <2>1. t \in Seq(Chars) /\ Nul \in Chars
    BY DEF Chars
  <2> QED BY <2>1 DEF Terminated
<1> HIDE DEF s
<1>2. Start(t, 1) = 2
  <2>1. WithLetter(s, 1) = {} /\ WithNumber(s, 1) = {}
    BY DEF WithLetter, WithNumber
  <2>2. Cardinality(WithLetter(s, 1)) = 0 /\ Cardinality(WithNumber(s, 1)) = 0
    BY <2>1, FS_EmptySet
  <2> QED BY <2>2 DEF Start, Column, s
<1>3. ASSUME NEW i \in 1 .. Len(t) + 1, NEW j \in 1 .. Len(t) + 1, i <= j
      PROVE  Start(t, i) <= Start(t, j) /\ Start(t, i) \in Nat
  BY <1>1, <1>3, ColumnsGrow DEF Start, s
<1>4. ASSUME NEW i \in 1 .. Len(t) + 1
      PROVE  Start(t, i) \in Nat /\ Start(t, i) >= 2
  <2>1. 1 \in 1 .. Len(t) + 1 /\ 1 <= i
    BY <1>1
  <2> QED BY <1>2, <1>3, <2>1
<1>5. ASSUME NEW i \in 1 .. Len(t)
      PROVE  /\ t[i] \in Byte /\ Len(Escaped(t[i])) \in {1, 2, 6}
             /\ Start(t, i + 1) = Start(t, i) + Len(Escaped(t[i]))
  <2>1. i \in Nat \ {0} /\ s[i] = t[i] /\ t[i] \in Byte
    BY <1>1
  <2>2. Column(s, i + 1) = Column(s, i) + Len(Escaped(s[i]))
    BY <2>1, ColumnStep
  <2>3. Len(Escaped(t[i])) \in {1, 2, 6}
    BY <2>1, EscapedBytes
  <2> QED BY <2>1, <2>2, <2>3 DEF Start, s
<1> QED BY <1>1, <1>2, <1>3, <1>4, <1>5

\* A loop that takes a backslash and what follows it for one stays on its
\* stops, and does not find the end in between.
LEMMA StopsStep ==
  ASSUME NEW t \in Seq(Byte), NEW s, Shows(s, t, Len(t) + 1), NEW p \in Stops(t),
         p # Start(t, Len(t) + 1)
  PROVE  /\ p \in Nat /\ p < Start(t, Len(t) + 1) /\ s[p] \in Byte /\ s[p] # Quote
         /\ s[p] = Backslash => s[p + 1] \in Byte /\ p + 2 \in Stops(t)
         /\ s[p] # Backslash => p + 1 \in Stops(t)
<1>1. /\ Len(t) \in Nat
      /\ \A i \in 1 .. Len(t) + 1 : Start(t, i) \in Nat
      /\ \A i \in 1 .. Len(t) :
           /\ t[i] \in Byte /\ Len(Escaped(t[i])) \in {1, 2, 6}
           /\ Start(t, i + 1) = Start(t, i) + Len(Escaped(t[i]))
      /\ \A i, j \in 1 .. Len(t) + 1 : i <= j => Start(t, i) <= Start(t, j)
  BY StartsAreColumns
<1>2. ASSUME NEW k \in 1 .. Len(t) + 1
      PROVE  Start(t, k) \in Stops(t)
  BY <1>1 DEF Stops
<1>3. ASSUME NEW k \in 1 .. Len(t), Len(Escaped(t[k])) = 6, NEW m \in 2 .. 5
      PROVE  Start(t, k) + m \in Stops(t)
  <2>1. k \in 1 .. Len(t) + 1
    BY <1>1
  <2>2. Start(t, k) + m \in Nat
    BY <1>1, <2>1
  <2> QED BY <1>3, <2>2 DEF Stops
<1>4. \/ \E k \in 1 .. Len(t) : p = Start(t, k)
      \/ \E k \in 1 .. Len(t) : Len(Escaped(t[k])) = 6 /\ \E m \in 2 .. 5 : p = Start(t, k) + m
  <2>1. ASSUME NEW k \in 1 .. Len(t) + 1, p = Start(t, k)
        PROVE  k \in 1 .. Len(t)
    BY <1>1, <2>1
  <2> QED BY <2>1 DEF Stops
<1>5. ASSUME NEW k \in 1 .. Len(t)
      PROVE  LET e == Escaped(t[k])
             IN  /\ k + 1 \in 1 .. Len(t) + 1 /\ k \in 1 .. Len(t) + 1
                 /\ Start(t, k + 1) = Start(t, k) + Len(e)
                 /\ Start(t, k) \in Nat /\ Start(t, k) + Len(e) <= Start(t, Len(t) + 1)
                 /\ \A m \in 1 .. Len(e) : s[Start(t, k) + (m - 1)] = e[m] /\ e[m] \in Byte
                 /\ Len(e) = 1 => e[1] \notin {Quote, Backslash}
                 /\ Len(e) # 1 => e[1] = Backslash
                 /\ Len(e) = 6 => \A m \in 3 .. 6 : e[m] \notin {Quote, Backslash}
  <2> DEFINE e == Escaped(t[k])
  <2>1. /\ k + 1 \in 1 .. Len(t) + 1 /\ k \in 1 .. Len(t) + 1 /\ Len(t) + 1 \in 1 .. Len(t) + 1
        /\ k + 1 <= Len(t) + 1 /\ k \in 1 .. (Len(t) + 1) - 1
    BY <1>1
  <2>2. /\ e \in Seq(Byte)
        /\ Len(e) = 1 => e[1] \notin {Quote, Backslash}
        /\ Len(e) # 1 => e[1] = Backslash
        /\ Len(e) = 6 => \A m \in 3 .. 6 : e[m] \notin {Quote, Backslash}
    BY <1>1, EscapedBytes
  <2>3. \A m \in 1 .. Len(e) : s[Start(t, k) + (m - 1)] = e[m]
    BY <2>1 DEF Shows
  <2> HIDE DEF e
  <2>4. \A m \in 1 .. Len(e) : e[m] \in Byte
    BY <2>2
  <2>5. Start(t, k + 1) = Start(t, k) + Len(e) /\ Start(t, k + 1) <= Start(t, Len(t) + 1)
    BY <1>1, <2>1 DEF e
  <2> QED BY <1>1, <2>1, <2>2, <2>3, <2>4, <2>5 DEF e
<1>6. ASSUME NEW k \in 1 .. Len(t), p = Start(t, k)
      PROVE  /\ p \in Nat /\ p < Start(t, Len(t) + 1) /\ s[p] \in Byte /\ s[p] # Quote
             /\ s[p] = Backslash => s[p + 1] \in Byte /\ p + 2 \in Stops(t)
             /\ s[p] # Backslash => p + 1 \in Stops(t)
  <2> DEFINE e == Escaped(t[k])
             last == Start(t, Len(t) + 1)
  <2>1. /\ Start(t, k + 1) = p + Len(e) /\ p \in Nat /\ p + Len(e) <= last
        /\ \A m \in 1 .. Len(e) : s[p + (m - 1)] = e[m] /\ e[m] \in Byte
        /\ Len(e) = 1 => e[1] \notin {Quote, Backslash}
        /\ Len(e) # 1 => e[1] = Backslash
        /\ Len(e) \in {1, 2, 6} /\ last \in Nat
        /\ Start(t, k + 1) \in Stops(t)
        /\ Len(e) = 6 => p + 2 \in Stops(t)
    <3>1. Len(e) \in {1, 2, 6} /\ last \in Nat
      BY <1>1
    <3>2. Start(t, k + 1) \in Stops(t)
      BY <1>2, <1>5
    <3>3. Len(e) = 6 => p + 2 \in Stops(t)
      BY <1>3, <1>6
    <3> QED BY <1>5, <1>6, <3>1, <3>2, <3>3
  <2> HIDE DEF e, last
  <2>2. s[p] = e[1] /\ e[1] \in Byte
    <3>1. 1 \in 1 .. Len(e) /\ p + (1 - 1) = p
      BY <2>1
    <3> QED BY <2>1, <3>1
  <2>3. s[p] # Quote
    BY <2>1, <2>2 DEF Quote, Backslash
  <2>4. p < last
    BY <2>1
  <2>5. ASSUME s[p] = Backslash
        PROVE  s[p + 1] \in Byte /\ p + 2 \in Stops(t)
    <3>1. Len(e) \in {2, 6}
      BY <2>1, <2>2, <2>5
    <3>2. 2 \in 1 .. Len(e) /\ p + (2 - 1) = p + 1
      <4>1. Len(e) = 2 \/ Len(e) = 6
        BY <3>1
      <4>2. 2 \in 1 .. Len(e)
        <5>1. CASE Len(e) = 2
          BY <5>1
        <5>2. CASE Len(e) = 6
          BY <5>2
        <5> QED BY <4>1, <5>1, <5>2
      <4>3. p \in Nat
        BY <2>1
      <4> QED BY <4>2, <4>3
    <3>3. s[p + 1] = e[2] /\ e[2] \in Byte
      BY <2>1, <3>2
    <3> QED BY <2>1, <3>1, <3>3
  <2>6. ASSUME s[p] # Backslash
        PROVE  p + 1 \in Stops(t)
    <3>1. Len(e) = 1
      BY <2>1, <2>2, <2>6
    <3> QED BY <2>1, <3>1
  <2> QED BY <2>1, <2>2, <2>3, <2>4, <2>5, <2>6 DEF last
<1>7. ASSUME NEW k \in 1 .. Len(t), Len(Escaped(t[k])) = 6, NEW m \in 2 .. 5, p = Start(t, k) + m
      PROVE  /\ p \in Nat /\ p < Start(t, Len(t) + 1) /\ s[p] \in Byte
             /\ s[p] # Quote /\ s[p] # Backslash /\ p + 1 \in Stops(t)
  <2> DEFINE e == Escaped(t[k])
             first == Start(t, k)
             last == Start(t, Len(t) + 1)
  <2>1. /\ first \in Nat /\ first + 6 <= last /\ last \in Nat
        /\ s[first + ((m + 1) - 1)] = e[m + 1] /\ e[m + 1] \in Byte
        /\ e[m + 1] \notin {Quote, Backslash}
        /\ first + 6 \in Stops(t)
    <3>1. m + 1 \in 1 .. 6 /\ m + 1 \in 3 .. 6
      OBVIOUS
    <3>2. last \in Nat
      BY <1>1
    <3>3. first + 6 \in Stops(t)
      <4>1. k + 1 \in 1 .. Len(t) + 1 /\ Start(t, k + 1) = first + 6
        BY <1>5, <1>7
      <4>2. Start(t, k + 1) \in Stops(t)
        BY <1>2, <4>1
      <4> QED BY <4>1, <4>2
    <3> QED BY <1>5, <1>7, <3>1, <3>2, <3>3
  <2>2. m < 5 => first + (m + 1) \in Stops(t)
    <3>1. m < 5 => m + 1 \in 2 .. 5
      OBVIOUS
    <3> QED BY <1>3, <1>7, <3>1
  <2> HIDE DEF e, first, last
  <2>3. p = first + m /\ first + ((m + 1) - 1) = p
    BY <1>7, <2>1 DEF first
  <2>4. p \in Nat /\ p < last
    BY <2>1, <2>3
  <2>5. p + 1 \in Stops(t)
    <3>1. p + 1 = first + (m + 1)
      BY <2>1, <2>3
    <3>2. CASE m < 5
      BY <2>2, <3>1, <3>2
    <3>3. CASE m = 5
      BY <2>1, <3>1, <3>3
    <3> QED BY <3>2, <3>3
  <2> QED BY <2>1, <2>3, <2>4, <2>5 DEF last
<1> QED BY <1>4, <1>6, <1>7


\* Where the second loop of parse_string is: the text is decoded up to there.
ReadsBack(o, t, p, q) ==
  \E i \in 1 .. Len(t) + 1 :
    p = Start(t, i) /\ q = i /\ \A k \in 1 .. i - 1 : o[k] = t[k]

\* The whole text has been printed, is not changed by cJSON_Minify, which
\* never is ahead of itself, and is decoded one printed character at a time.
TripIsSound ==
  LET t == job.text
      last == Start(t, Len(t) + 1)
  IN  /\ pc # "failed"
      /\ pc = "escape" => Shows(out, t, from)
      /\ pc = "printed" => Image(out, t)
      /\ pc \in {"minify", "literal", "size", "decode"} => Image(buf, t)
      /\ pc = "minify" => to = from /\ from \in {1, Len(buf)}
      /\ pc = "literal" => to = from /\ from \in Stops(t)
      /\ pc = "size" => end \in Stops(t)
      /\ pc = "decode" => end = last /\ ReadsBack(out, t, from, to)
      /\ pc = "done" =>
           /\ Len(t) + 1 <= Len(out) /\ out[Len(t) + 1] = Nul
           /\ \A k \in 1 .. Len(t) : out[k] = t[k]

TripInv == job.kind = "trip" /\ ~starved => TripIsSound

\* The string of a job.
LEMMA TripGives ==
  ASSUME IInv, job.kind = "trip"
  PROVE  job.text \in Seq(Byte) /\ Len(job.text) \in Nat
<1>1. job.text \in Seq(Byte)
  BY JobAssumption DEF IInv
<1> QED BY <1>1

\* The opening quote.
LEMMA MeasureIsRight ==
  ASSUME IInv, IInv', ~outside, ~starved', job.kind = "trip", Measure
  PROVE  TripIsSound'
<1>1. pc = "measure" /\ from = 1
  BY DEF Measure, IInv, Sound, PrintIsSound
<1>2. UNCHANGED <<job, from, outside>>
  BY DEF Measure
<1>3. pc' \in {"plain", "escape"}
  BY DEF Measure, Allocate
<1>4. ASSUME pc' = "escape"
      PROVE  Shows(out', job'.text, from')
  <2>1. out'[1] = Quote
    BY <1>2, <1>4 DEF IInv, Sound, PrintIsSound, Prints
  <2>2. \A k \in 1 .. from' - 1 : FALSE
    BY <1>1, <1>2
  <2> QED BY <2>1, <2>2 DEF Shows
<1> QED BY <1>3, <1>4 DEF TripIsSound

\* A string without escape sequences is printed as it is.
LEMMA CopyPlainIsRight ==
  ASSUME IInv, ~outside, job.kind = "trip", CopyPlain
  PROVE  TripIsSound'
<1> DEFINE t == job.text
           N == Len(t)
           L == Len(buf)
<1>1. /\ pc' = "printed" /\ UNCHANGED <<job, buf, from, sizes, to, ep, starved>>
      /\ outside' = FALSE /\ room = L + 2
      /\ out' \in Seq(Cells) /\ Len(out') = room
      /\ out'[1] = Quote /\ out'[L + 1] = Quote /\ out'[L + 2] = Nul
      /\ \A k \in 2 .. L : out'[k] = buf[k - 1] /\ k - 1 \in 1 .. L - 1
      /\ \A k \in 1 .. L - 1 : buf[k] \notin DOMAIN Letter /\ ~(buf[k] < 32)
  BY CopyPlainGives
<1>2. t \in Seq(Byte) /\ N \in Nat
  BY TripGives
<1>3. buf = Terminated(t)
  BY PrinterGives DEF CopyPlain, Printing
<1>4. L = N + 1 /\ \A k \in 1 .. N : buf[k] = t[k]
  BY <1>2, <1>3, TextEnds DEF Terminated
<1>5. ASSUME NEW k \in 1 .. N
      PROVE  Escaped(t[k]) = <<t[k]>>
  <2>1. t[k] \notin DOMAIN Letter /\ ~(t[k] < 32) /\ t[k] \in Byte
    <3>1. k \in 1 .. L - 1 /\ buf[k] = t[k]
      BY <1>2, <1>4
    <3>2. buf[k] \notin DOMAIN Letter /\ ~(buf[k] < 32)
      BY <1>1, <3>1
    <3>3. t[k] \in Byte
      BY <1>2
    <3> HIDE DEF t
    <3> QED BY <3>1, <3>2, <3>3
  <2>2. t[k] > 31 /\ t[k] \notin {Quote, Backslash}
    <3>1. Quote \in DOMAIN Letter /\ Backslash \in DOMAIN Letter
      BY DEF Letter
    <3> DEFINE c == t[k]
    <3>2. c \in Byte /\ ~(c < 32)
      BY <2>1
    <3> HIDE DEF c
    <3>3. c > 31
      BY <3>2 DEF Byte
    <3> QED BY <2>1, <3>1, <3>3 DEF c
  <2> QED BY <2>2 DEF Escaped
<1>6. ASSUME NEW i \in 1 .. N + 1
      PROVE  Start(t, i) = 1 + i
  <2>1. WithLetter(buf, i) = {} /\ WithNumber(buf, i) = {}
    <3>1. \A k \in 1 .. i - 1 : k \in 1 .. L - 1
      BY <1>2, <1>4
    <3> QED BY <1>1, <3>1 DEF WithLetter, WithNumber
  <2>2. Cardinality(WithLetter(buf, i)) = 0 /\ Cardinality(WithNumber(buf, i)) = 0
    BY <2>1, FS_EmptySet
  <2>3. i \in Int
    BY <1>2
  <2> HIDE DEF t
  <2> QED BY <1>3, <2>2, <2>3 DEF Start, Column
<1>7. Shows(out', t, N + 1)
  <2>1. ASSUME NEW k \in 1 .. (N + 1) - 1, NEW m \in 1 .. Len(Escaped(t[k]))
        PROVE  out'[Start(t, k) + (m - 1)] = Escaped(t[k])[m]
    <3>1. k \in 1 .. N /\ k \in 1 .. N + 1
      BY <1>2
    <3>2. m = 1 /\ Escaped(t[k])[m] = t[k] /\ Start(t, k) = 1 + k
      <4>1. Start(t, k) = 1 + k
        BY <1>6, <3>1
      <4>2. Escaped(t[k]) = <<t[k]>>
        BY <1>5, <3>1
      <4> HIDE DEF t
      <4>3. m \in 1 .. Len(<<t[k]>>)
        BY <4>2
      <4>4. m = 1
        BY <4>3
      <4> QED BY <4>1, <4>2, <4>4
    <3>3. k + 1 \in 2 .. L /\ (k + 1) - 1 = k /\ (1 + k) + (1 - 1) = k + 1
      BY <1>4, <3>1
    <3>4. out'[k + 1] = t[k]
      BY <1>1, <1>4, <3>1, <3>3
    <3> QED BY <3>2, <3>3, <3>4
  <2> QED BY <1>1, <2>1 DEF Shows
<1>8. Image(out', t)
  <2>1. Start(t, N + 1) = L + 1
    <3>1. N + 1 \in 1 .. N + 1
      BY <1>2
    <3> QED BY <1>2, <1>4, <1>6, <3>1
  <2>2. Len(out') = (L + 1) + 1 /\ (L + 1) + 1 = L + 2
    BY <1>1, <1>2, <1>4
  <2> QED BY <1>1, <1>7, <2>1, <2>2 DEF Image
<1> QED BY <1>1, <1>8 DEF TripIsSound

\* A character is printed behind the ones in front of it.
LEMMA EscapeCharIsRight ==
  ASSUME IInv, ~outside, job.kind = "trip", TripIsSound, EscapeChar
  PROVE  TripIsSound'
<1> DEFINE t == job.text
           N == Len(t)
           e == Escaped(t[from])
<1>1. /\ t \in Seq(Byte) /\ N \in Nat
      /\ \A i \in 1 .. N + 1 : Start(t, i) \in Nat /\ Start(t, i) >= 2
      /\ \A i \in 1 .. N :
           Len(Escaped(t[i])) \in {1, 2, 6} /\ Start(t, i + 1) = Start(t, i) + Len(Escaped(t[i]))
      /\ \A i, j \in 1 .. N + 1 : i <= j => Start(t, i) <= Start(t, j)
  BY TripGives, StartsAreColumns
<1>2. buf = Terminated(t)
  BY PrinterGives DEF EscapeChar, Printing
<1>3. Len(buf) = N + 1 /\ \A k \in 1 .. N : buf[k] = t[k]
  BY <1>1, <1>2, TextEnds DEF Terminated
<1>4. from \in Nat /\ from >= 1 /\ from < Len(buf)
  BY EscapeCharGives
<1>5. from \in 1 .. N /\ from \in 1 .. N + 1 /\ buf[from] = t[from]
  BY <1>1, <1>3, <1>4
<1>6. /\ pc = "escape" /\ pc' = "escape" /\ from' = from + 1 /\ UNCHANGED job
      /\ e \in Seq(Byte) /\ Len(e) \in {1, 2, 6}
      /\ to = Start(t, from) /\ room \in Nat /\ to + Len(e) <= room - 1
      /\ out \in Seq(Cells) /\ Len(out) = room
      /\ \E b \in Seq(Cells) :
           /\ out' = Put(out, to, b) /\ Len(b) >= Len(e)
           /\ \A k \in 1 .. Len(e) : b[k] = e[k]
  BY <1>2, <1>5, EscapeCharGives DEF Start
<1>7. Shows(out, t, from)
  BY <1>6 DEF TripIsSound
<1>8. PICK b \in Seq(Cells) : /\ out' = Put(out, to, b) /\ Len(b) >= Len(e)
                              /\ \A k \in 1 .. Len(e) : b[k] = e[k]
  BY <1>6
<1>9. to \in Nat /\ to >= 2
  BY <1>1, <1>5, <1>6
<1> HIDE DEF e, N
<1>10. \A k \in 1 .. Len(out) :
         /\ k < to \/ k >= to + Len(b) => out'[k] = out[k]
         /\ to <= k /\ k < to + Len(b) => out'[k] = b[k - to + 1]
  <2>1. /\ Put(out, to, b) \in Seq(Cells) /\ Len(Put(out, to, b)) = Len(out)
        /\ \A k \in 1 .. Len(out) :
             /\ k < to \/ k >= to + Len(b) => Put(out, to, b)[k] = out[k]
             /\ to <= k /\ k < to + Len(b) => Put(out, to, b)[k] = b[k - to + 1]
    <3>1. out \in Seq(Cells) /\ b \in Seq(Cells) /\ to \in Nat
      BY <1>6, <1>9
    <3> QED BY ONLY <3>1, PutWrites
  <2> QED BY <1>8, <2>1
<1>11. out'[1] = Quote
  <2>1. 1 \in 1 .. Len(out) /\ 1 < to
    BY <1>6, <1>9
  <2> QED BY <1>7, <1>10, <2>1 DEF Shows
<1>12. ASSUME NEW k \in 1 .. from, NEW m \in 1 .. Len(Escaped(t[k]))
       PROVE  out'[Start(t, k) + (m - 1)] = Escaped(t[k])[m]
  <2> DEFINE pos == Start(t, k) + (m - 1)
  <2>1. k \in 1 .. N /\ k \in 1 .. N + 1 /\ k + 1 \in 1 .. N + 1
    <3>1. N \in Nat /\ from \in 1 .. N
      BY <1>1, <1>5 DEF N
    <3> QED BY ONLY <3>1, k \in 1 .. from
  <2>2. CASE k = from
    <3>1. m \in 1 .. Len(e) /\ pos = to + (m - 1)
      BY <1>6, <2>2 DEF e
    <3> HIDE DEF pos
    <3>2. pos \in 1 .. Len(out) /\ to <= pos /\ pos < to + Len(b) /\ pos - to + 1 = m
      <4>1. /\ m \in Nat /\ 1 <= m /\ m <= Len(e) /\ Len(e) \in Nat /\ Len(b) \in Nat
            /\ Len(e) <= Len(b) /\ to + Len(e) <= Len(out) - 1 /\ Len(out) \in Nat
        BY <1>6, <1>8, <3>1
      <4> QED BY ONLY <1>9, <3>1, <4>1
    <3>3. out'[pos] = b[m]
      BY <1>10, <3>2
    <3> QED BY <1>8, <2>2, <3>1, <3>3 DEF e, pos
  <2>3. CASE k # from
    <3>1. k \in 1 .. from - 1 /\ k + 1 <= from
      BY <1>5, <2>3
    <3>2. Start(t, k) \in Nat /\ Start(t, k) >= 2 /\ Start(t, k + 1) <= to
      BY <1>1, <1>5, <1>6, <2>1, <3>1
    <3>3. Start(t, k + 1) = Start(t, k) + Len(Escaped(t[k])) /\ Len(Escaped(t[k])) \in {1, 2, 6}
      BY <1>1, <2>1
    <3>4. pos \in Nat /\ pos >= 1 /\ pos < to
      <4> DEFINE n == Len(Escaped(t[k]))
                 q == Start(t, k)
      <4>1. m \in 1 .. n /\ n \in {1, 2, 6} /\ q \in Nat /\ q >= 2 /\ q + n <= to /\ pos = q + (m - 1)
        BY <3>2, <3>3
      <4> HIDE DEF n, q, pos
      <4> QED BY <1>9, <4>1
    <3>5. out[pos] = Escaped(t[k])[m]
      BY <1>7, <3>1 DEF Shows
    <3> HIDE DEF pos
    <3>6. pos \in 1 .. Len(out)
      BY <1>6, <1>9, <3>4
    <3>7. out'[pos] = out[pos]
      BY <1>10, <3>4, <3>6
    <3> QED BY <3>5, <3>7 DEF pos
  <2> QED BY <2>2, <2>3
<1>13. Shows(out', t, from + 1)
  <2>1. (from + 1) - 1 = from
    BY <1>4
  <2> QED BY <1>11, <1>12, <2>1 DEF Shows
<1> QED BY <1>6, <1>13 DEF TripIsSound

\* The closing quote and the NUL behind it are where the columns end.
LEMMA CloseEscapedIsRight ==
  ASSUME IInv, ~outside, job.kind = "trip", TripIsSound, CloseEscaped
  PROVE  TripIsSound'
<1> DEFINE t == job.text
           N == Len(t)
           last == Start(t, N + 1)
<1>1. /\ t \in Seq(Byte) /\ N \in Nat
      /\ \A i \in 1 .. N + 1 : Start(t, i) \in Nat /\ Start(t, i) >= 2
      /\ \A i \in 1 .. N :
           Len(Escaped(t[i])) \in {1, 2, 6} /\ Start(t, i + 1) = Start(t, i) + Len(Escaped(t[i]))
      /\ \A i, j \in 1 .. N + 1 : i <= j => Start(t, i) <= Start(t, j)
  BY TripGives, StartsAreColumns
<1>2. pc = "escape" /\ TypeOK /\ pc \in Printing /\ buf[from] = Nul
  BY DEF CloseEscaped, IInv, Printing
<1>3. buf = Terminated(t) /\ \A k \in 1 .. Len(buf) : k # Len(buf) => buf[k] \in Byte
  BY <1>2, PrinterGives
<1>4. Len(buf) = N + 1
  BY <1>1, <1>3, TextEnds
<1>5. from <= Len(buf) /\ room = Column(buf, Len(buf)) + 1
  BY <1>2 DEF IInv, Sound, PrintIsSound
<1>6. out \in Seq(Cells) /\ Len(out) = room /\ from \in Nat /\ from >= 1 /\ room \in Nat
  BY <1>2, TypesGive
<1>7. from = N + 1
  <2>1. Nul \notin Byte
    BY DEF Byte, Nul
  <2> QED BY <1>1, <1>2, <1>3, <1>4, <1>5, <1>6, <2>1
<1>8. last \in Nat /\ last >= 2 /\ room = last + 1
  <2>1. N + 1 \in 1 .. N + 1
    BY <1>1
  <2> QED BY <1>1, <1>3, <1>4, <1>5, <2>1 DEF Start
<1>9. out' = Closed(out) /\ pc' = "printed" /\ UNCHANGED job
  BY DEF CloseEscaped
<1> HIDE DEF last, N
<1>10. /\ out' \in Seq(Cells) /\ Len(out') = room
       /\ \A k \in 1 .. room - 2 : out'[k] = out[k]
       /\ out'[room - 1] = Quote /\ out'[room] = Nul
  BY <1>6, <1>8, <1>9, ClosedWrites
<1>11. Shows(out, t, N + 1)
  BY <1>2, <1>7 DEF TripIsSound
<1>12. Shows(out', t, N + 1)
  <2>1. out'[1] = Quote
    <3>1. 1 \in 1 .. room - 2
      BY <1>8
    <3> QED BY <1>10, <1>11, <3>1 DEF Shows
  <2>2. ASSUME NEW k \in 1 .. (N + 1) - 1, NEW m \in 1 .. Len(Escaped(t[k]))
        PROVE  out'[Start(t, k) + (m - 1)] = Escaped(t[k])[m]
    <3> DEFINE pos == Start(t, k) + (m - 1)
    <3>1. k \in 1 .. N /\ k \in 1 .. N + 1 /\ k + 1 \in 1 .. N + 1 /\ N + 1 \in 1 .. N + 1 /\ k + 1 <= N + 1
      BY <1>1 DEF N
    <3>2. /\ Start(t, k) \in Nat /\ Start(t, k) >= 2 /\ Start(t, k + 1) <= last
          /\ Start(t, k + 1) = Start(t, k) + Len(Escaped(t[k])) /\ Len(Escaped(t[k])) \in {1, 2, 6}
      BY <1>1, <3>1 DEF N, last
    <3>3. pos \in Nat /\ pos >= 1 /\ pos < last
      BY <1>8, <3>2
    <3>4. out[pos] = Escaped(t[k])[m]
      BY <1>11 DEF Shows
    <3> HIDE DEF pos
    <3>5. pos \in 1 .. room - 2
      BY <1>8, <3>3
    <3> QED BY <1>10, <3>4, <3>5 DEF pos
  <2> QED BY <2>1, <2>2 DEF Shows
<1>13. Image(out', t)
  <2>1. room - 1 = last
    BY <1>8
  <2> QED BY <1>8, <1>10, <1>12, <2>1 DEF Image, N, last
<1> QED BY <1>9, <1>13 DEF TripIsSound

\* All of it is handed over.
LEMMA HandOverIsRight ==
  ASSUME IInv, ~outside, job.kind = "trip", TripIsSound, HandOver
  PROVE  TripIsSound'
<1>1. /\ buf' = out /\ from' = 1 /\ to' = 1 /\ pc' = "minify" /\ UNCHANGED job
  BY HandOverGives
<1>2. Image(out, job.text)
  BY DEF HandOver, TripIsSound
<1> QED BY <1>1, <1>2 DEF TripIsSound

\* What is written where it was read changes nothing.
LEMMA PutSame ==
  ASSUME NEW V, NEW s \in Seq(V), NEW b \in Seq(V), NEW i \in Nat,
         \A k \in 1 .. Len(b) : b[k] = s[i + k - 1]
  PROVE  Put(s, i, b) = s
<1>1. /\ Put(s, i, b) \in Seq(V) /\ Len(Put(s, i, b)) = Len(s)
      /\ \A k \in 1 .. Len(s) :
           /\ k < i \/ k >= i + Len(b) => Put(s, i, b)[k] = s[k]
           /\ i <= k /\ k < i + Len(b) => Put(s, i, b)[k] = b[k - i + 1]
  BY PutWrites
<1>2. ASSUME NEW k \in 1 .. Len(s)
      PROVE  Put(s, i, b)[k] = s[k]
  <2>1. CASE k < i \/ k >= i + Len(b)
    BY <1>1, <2>1
  <2>2. CASE i <= k /\ k < i + Len(b)
    <3>1. k - i + 1 \in 1 .. Len(b) /\ i + (k - i + 1) - 1 = k
      BY <2>2
    <3>2. Put(s, i, b)[k] = b[k - i + 1]
      BY <1>1, <2>2
    <3> QED BY <3>1, <3>2
  <2>3. k < i \/ k >= i + Len(b) \/ (i <= k /\ k < i + Len(b))
    OBVIOUS
  <2> QED BY <2>1, <2>2, <2>3
<1> DEFINE u == Put(s, i, b)
<1>3. u \in Seq(V) /\ Len(u) = Len(s) /\ \A k \in 1 .. Len(s) : u[k] = s[k]
  BY <1>1, <1>2
<1> HIDE DEF u
<1>4. u = s
  BY <1>3
<1> QED BY <1>4 DEF u

\* The ends of what was printed.
LEMMA ImageGives ==
  ASSUME NEW t \in Seq(Byte), NEW s, Image(s, t)
  PROVE  LET last == Start(t, Len(t) + 1)
         IN  /\ last \in Nat /\ last >= 2 /\ Len(s) = last + 1
             /\ s[1] = Quote /\ s[last] = Quote /\ s[last + 1] = Nul
             /\ 2 \in Stops(t) /\ last \in Stops(t)
<1> DEFINE last == Start(t, Len(t) + 1)
<1>1. Len(t) \in Nat
  BY StartsAreColumns
<1>2. 1 \in 1 .. Len(t) + 1 /\ Len(t) + 1 \in 1 .. Len(t) + 1
  BY <1>1
<1>3. last \in Nat /\ last >= 2 /\ Start(t, 1) = 2
  BY <1>2, StartsAreColumns
<1>4. 2 \in Stops(t) /\ last \in Stops(t)
  BY <1>2, <1>3 DEF Stops
<1> QED BY <1>3, <1>4 DEF Image, Shows

\* What the minifier reads of what was printed.
LEMMA MinifiedGives ==
  ASSUME IInv, ~outside, job.kind = "trip", TripIsSound, pc \in {"minify", "literal"}
  PROVE  LET t == job.text
             last == Start(t, Len(t) + 1)
         IN  /\ t \in Seq(Byte) /\ Image(buf, t) /\ to = from
             /\ last \in Nat /\ last >= 2 /\ Len(buf) = last + 1 /\ 2 \in Stops(t)
             /\ buf[1] = Quote /\ buf[last] = Quote /\ buf[last + 1] = Nul
             /\ buf \in Seq(Chars) /\ from \in Nat /\ from >= 1 /\ end = 2
             /\ pc = "minify" => from = 1 \/ from = last + 1
             /\ pc = "literal" => from \in Stops(t)
<1>1. job.text \in Seq(Byte)
  BY TripGives
<1>2. /\ Image(buf, job.text) /\ to = from
      /\ pc = "minify" => from \in {1, Len(buf)}
      /\ pc = "literal" => from \in Stops(job.text)
  BY DEF TripIsSound
<1>3. buf \in Seq(Chars) /\ from \in Nat /\ from >= 1 /\ end = 2
  BY MinifierGives
<1> QED BY <1>1, <1>2, <1>3, ImageGives

\* Outside of the string there is the quote in front of it and the NUL.
LEMMA SkipsNothing ==
  ASSUME IInv, ~outside, job.kind = "trip", TripIsSound
  PROVE  ~SkipSpace /\ ~SkipLine /\ ~SkipComment
<1>1. pc = "minify" => buf[from] \in {Quote, Nul}
  BY MinifiedGives
<1>2. {Quote, Nul} \cap (Space \cup {Slash}) = {}
  BY DEF Quote, Nul, Space, Slash
<1> QED BY <1>1, <1>2 DEF SkipSpace, SkipLine, SkipComment, Opens

\* What is kept is written where it was.
LEMMA KeepChangesNothing ==
  ASSUME buf \in Seq(Chars), from \in Nat, from >= 1, to = from, NEW n \in {1, 2},
         from + n - 1 <= Len(buf), Keep(n)
  PROVE  buf' = buf /\ from' = from + n /\ to' = from + n
<1> DEFINE l == from + n - 1
           b == SubSeq(buf, from, l)
<1>1. l \in Nat /\ l <= Len(buf) /\ from \in Nat \ {0} /\ from <= l + 1 /\ l - from + 1 = n
  OBVIOUS
<1>2. buf' = Put(buf, from, b) /\ from' = from + n /\ to' = from + n
  BY DEF Keep, GoTo
<1> HIDE DEF l
<1>3. b \in Seq(Chars) /\ \A k \in 1 .. Len(b) : b[k] = buf[from + k - 1]
  BY <1>1, PartOf
<1> HIDE DEF b
<1>4. Put(buf, from, b) = buf
  BY <1>3, PutSame
<1> QED BY <1>2, <1>4

\* The opening quote.
LEMMA KeepOtherIsRight ==
  ASSUME IInv, ~outside, job.kind = "trip", TripIsSound, KeepOther
  PROVE  TripIsSound'
<1> DEFINE t == job.text
           last == Start(t, Len(t) + 1)
<1>1. /\ pc = "minify" /\ buf[from] # Nul /\ Keep(1) /\ UNCHANGED job
      /\ pc' = (IF buf[from] = Quote THEN "literal" ELSE "minify")
  BY DEF KeepOther
<1>2. /\ Image(buf, t) /\ to = from /\ last \in Nat /\ last >= 2 /\ Len(buf) = last + 1
      /\ buf[1] = Quote /\ buf[last + 1] = Nul /\ buf \in Seq(Chars)
      /\ 2 \in Stops(t) /\ (from = 1 \/ from = last + 1)
  BY <1>1, MinifiedGives
<1>3. from = 1 /\ buf[from] = Quote
  BY <1>1, <1>2
<1> HIDE DEF last
<1>4. buf' = buf /\ from' = 2 /\ to' = 2
  <2>1. from + 1 - 1 <= Len(buf) /\ from \in Nat /\ from >= 1 /\ 1 \in {1, 2}
    BY <1>2, <1>3
  <2>2. buf' = buf /\ from' = from + 1 /\ to' = from + 1
    BY <1>1, <1>2, <2>1, KeepChangesNothing
  <2> QED BY <1>3, <2>2
<1> QED BY <1>1, <1>2, <1>3, <1>4 DEF TripIsSound

\* The string and the quote behind it.
LEMMA KeepLiteralIsRight ==
  ASSUME IInv, ~outside, job.kind = "trip", TripIsSound, KeepLiteral
  PROVE  TripIsSound'
<1> DEFINE t == job.text
           last == Start(t, Len(t) + 1)
           n == IF buf[from] = Backslash THEN 2 ELSE 1
<1>1. /\ pc = "literal" /\ Keep(n) /\ UNCHANGED job
      /\ pc' = IF buf[from] \in {Quote, Nul} THEN "minify" ELSE "literal"
  BY DEF KeepLiteral
<1>2. /\ t \in Seq(Byte) /\ Image(buf, t) /\ to = from
      /\ last \in Nat /\ last >= 2 /\ Len(buf) = last + 1 /\ buf[last] = Quote
      /\ buf \in Seq(Chars) /\ from \in Nat /\ from >= 1 /\ from \in Stops(t)
  BY <1>1, MinifiedGives
<1>3. n \in {1, 2} /\ (n = 2 <=> buf[from] = Backslash)
  OBVIOUS
<1> HIDE DEF n
<1>4. CASE from = last
  <2>1. n = 1 /\ pc' = "minify"
    BY <1>1, <1>2, <1>3, <1>4 DEF Quote, Backslash
  <2>2. from + n - 1 <= Len(buf)
    BY <1>2, <1>4, <2>1
  <2>3. buf' = buf /\ from' = last + 1 /\ to' = last + 1
    BY <1>1, <1>2, <1>3, <1>4, <2>1, <2>2, KeepChangesNothing
  <2> HIDE DEF last
  <2> QED BY <1>1, <1>2, <2>1, <2>3 DEF TripIsSound
<1>5. CASE from # last
  <2>1. Shows(buf, t, Len(t) + 1)
    BY <1>2 DEF Image
  <2>2. /\ from < last /\ buf[from] \in Byte /\ buf[from] # Quote
        /\ buf[from] = Backslash => from + 2 \in Stops(t)
        /\ buf[from] # Backslash => from + 1 \in Stops(t)
    BY <1>2, <1>5, <2>1, StopsStep
  <2>3. pc' = "literal" /\ from + n \in Stops(t)
    <3>1. Nul \notin Byte
      BY DEF Byte, Nul
    <3>2. buf[from] \notin {Quote, Nul}
      BY <2>2, <3>1
    <3>3. from + n \in Stops(t)
      BY <1>3, <2>2
    <3> QED BY <1>1, <3>2, <3>3
  <2>4. from + n - 1 <= Len(buf)
    BY <1>2, <1>3, <2>2
  <2>5. buf' = buf /\ from' = from + n /\ to' = from + n
    BY <1>1, <1>2, <1>3, <2>4, KeepChangesNothing
  <2> HIDE DEF last
  <2> QED BY <1>1, <1>2, <2>3, <2>5 DEF TripIsSound
<1> QED BY <1>4, <1>5

\* The NUL is where it was.
LEMMA EndMinifyIsRight ==
  ASSUME IInv, ~outside, job.kind = "trip", TripIsSound, EndMinify
  PROVE  TripIsSound'
<1> DEFINE t == job.text
           last == Start(t, Len(t) + 1)
           b == <<Nul>>
<1>1. /\ pc = "minify" /\ buf[from] = Nul /\ buf' = SubSeq(Put(buf, to, b), 1, to)
      /\ pc' = "size" /\ UNCHANGED <<job, end>>
  BY DEF EndMinify, sizes
<1>2. /\ Image(buf, t) /\ to = from /\ last \in Nat /\ Len(buf) = last + 1
      /\ buf[1] = Quote /\ buf \in Seq(Chars) /\ end = 2 /\ 2 \in Stops(t)
      /\ from = 1 \/ from = last + 1
  BY <1>1, MinifiedGives
<1>3. to = Len(buf) /\ to \in Nat /\ buf[to] = Nul
  BY <1>1, <1>2 DEF Quote, Nul
<1>4. b \in Seq(Chars) /\ Len(b) = 1 /\ b[1] = Nul
  BY DEF Chars
<1> HIDE DEF b, last
<1>5. Put(buf, to, b) = buf
  <2>1. \A k \in 1 .. Len(b) : b[k] = buf[to + k - 1]
    BY <1>3, <1>4
  <2> QED BY <1>2, <1>3, <1>4, <2>1, PutSame
<1>6. buf' = buf
  BY <1>1, <1>2, <1>3, <1>5
<1> QED BY <1>1, <1>2, <1>6 DEF TripIsSound

\* What the bytes of an escape sequence mean to parse_string.
LEMMA EscapedMeans ==
  ASSUME NEW c \in Byte
  PROVE  LET e == Escaped(c)
         IN  /\ Len(e) = 1 => e[1] = c
             /\ Len(e) = 2 => e[2] \in Letters /\ e[2] # LetterU /\ Stands(e[2]) = c
             /\ Len(e) = 6 =>
                  /\ c < 32 /\ e[2] = LetterU /\ e[3] = 48 /\ e[4] = 48
                  /\ e[5] = HexDigit(c \div 16) /\ e[6] = HexDigit(c % 16)
<1> DEFINE e == Escaped(c)
<1>1. Len(e) = IF c \in DOMAIN Letter THEN 2 ELSE IF c < 32 THEN 6 ELSE 1
  BY EscapedBytes
<1>2. Quote \in DOMAIN Letter /\ Backslash \in DOMAIN Letter
  BY DEF Letter
<1>3. ASSUME Len(e) = 1
      PROVE  e[1] = c
  <2>1. c \notin DOMAIN Letter /\ ~(c < 32)
    BY <1>1, <1>3
  <2>2. c > 31 /\ c \notin {Quote, Backslash}
    BY <1>2, <2>1 DEF Byte
  <2> QED BY <2>2 DEF Escaped
<1>4. ASSUME Len(e) = 6
      PROVE  /\ c < 32 /\ e[2] = LetterU /\ e[3] = 48 /\ e[4] = 48
             /\ e[5] = HexDigit(c \div 16) /\ e[6] = HexDigit(c % 16)
  <2>1. c \notin DOMAIN Letter /\ c < 32
    <3>1. CASE c \in DOMAIN Letter
      BY <1>1, <1>4, <3>1
    <3>2. CASE c \notin DOMAIN Letter
      BY <1>1, <1>4, <3>2
    <3> QED BY <3>1, <3>2
  <2>2. ~(c > 31)
    BY <2>1 DEF Byte
  <2>3. e = <<Backslash, LetterU, 48, 48, HexDigit(c \div 16), HexDigit(c % 16)>>
    BY <2>1, <2>2 DEF Escaped
  <2> HIDE DEF e
  <2> QED BY <2>1, <2>3
<1>5. ASSUME Len(e) = 2
      PROVE  e[2] \in Letters /\ e[2] # LetterU /\ Stands(e[2]) = c
  <2>1. c \in DOMAIN Letter
    <3>1. CASE c \notin DOMAIN Letter
      BY <1>1, <1>5, <3>1
    <3> QED BY <3>1
  <2>2. /\ DOMAIN Letter = {8, 12, 10, 13, 9, Quote, Backslash}
        /\ Letter[8] = 98 /\ Letter[12] = 102 /\ Letter[10] = 110 /\ Letter[13] = 114
        /\ Letter[9] = 116 /\ Letter[Quote] = Quote /\ Letter[Backslash] = Backslash
    BY DEF Letter, Quote, Backslash
  <2>3. e = <<Backslash, Letter[c]>>
    <3>1. ~(c > 31 /\ c \notin {Quote, Backslash})
      BY <2>1, <2>2
    <3> QED BY <2>1, <3>1, Zenon DEF Escaped
  <2>4. e[2] = Letter[c]
    BY <2>3
  <2>5. Letter[c] \in Letters /\ Letter[c] # LetterU /\ Letter[c] # Slash
    BY <2>1, <2>2 DEF Letters, LetterU, Slash, Quote, Backslash
  <2>6. \A x \in DOMAIN Letter : Letter[x] = Letter[c] => x = c
    BY <2>1, <2>2 DEF Quote, Backslash
  <2>7. (CHOOSE x \in DOMAIN Letter : Letter[x] = Letter[c]) = c
    BY <2>1, <2>6
  <2>8. Stands(Letter[c]) = c
    BY <2>5, <2>7 DEF Stands
  <2> QED BY <2>4, <2>5, <2>8
<1> QED BY <1>3, <1>4, <1>5

\* The digits of a literal are those of the byte.
LEMMA HexIsReadBack ==
  ASSUME NEW c \in Byte, c < 32, NEW i \in Nat,
         buf[i] = 48, buf[i + 1] = 48, buf[i + 2] = HexDigit(c \div 16), buf[i + 3] = HexDigit(c % 16)
  PROVE  ParseHex4(i) = c
<1> DEFINE d == [k \in 0 .. 3 |-> HexValue(buf[i + k])]
           h == c \div 16
           l == c % 16
<1>1. c \in Nat /\ h \in 0 .. 1 /\ l \in 0 .. 15 /\ c = 16 * h + l
  BY DEF Byte
<1> HIDE DEF h, l
<1>2. ASSUME NEW x \in 0 .. 15
      PROVE  HexValue(HexDigit(x)) = x
  <2>1. CASE x < 10
    <3> DEFINE y == 48 + x
    <3>1. HexDigit(x) = y
      BY <2>1 DEF HexDigit
    <3>2. y \in 48 .. 57 /\ y \notin 65 .. 70 /\ y \notin 97 .. 102 /\ y - 48 = x
      BY <2>1
    <3> HIDE DEF y
    <3> QED BY <3>1, <3>2 DEF HexValue
  <2>2. CASE ~(x < 10)
    <3> DEFINE y == 87 + x
    <3>1. HexDigit(x) = y
      BY <2>2 DEF HexDigit
    <3>2. y \notin 48 .. 57 /\ y \notin 65 .. 70 /\ y \in 97 .. 102 /\ y - 87 = x
      BY <2>2
    <3> HIDE DEF y
    <3> QED BY <3>1, <3>2 DEF HexValue
  <2> QED BY <2>1, <2>2
<1>3. HexValue(48) = 0
  <2>1. HexDigit(0) = 48
    BY DEF HexDigit
  <2> QED BY <1>2, <2>1
<1>4. /\ HexValue(buf[i]) = 0 /\ HexValue(buf[i + 1]) = 0
      /\ HexValue(buf[i + 2]) = h /\ HexValue(buf[i + 3]) = l
  BY <1>1, <1>2, <1>3 DEF h, l
<1>5. d[0] = 0 /\ d[1] = 0 /\ d[2] = h /\ d[3] = l
  <2>1. i + 0 = i
    OBVIOUS
  <2> QED BY <1>4, <2>1
<1>6. ~\E k \in 0 .. 3 : d[k] = -1
  <2>1. \A k \in 0 .. 3 : k = 0 \/ k = 1 \/ k = 2 \/ k = 3
    OBVIOUS
  <2> HIDE DEF d
  <2>2. h # -1 /\ l # -1
    BY <1>1
  <2> QED BY <1>5, <2>1, <2>2
<1>7. ParseHex4(i) = 4096 * d[0] + 256 * d[1] + 16 * d[2] + d[3]
  BY <1>6 DEF ParseHex4
<1> HIDE DEF d
<1> QED BY <1>1, <1>5, <1>7

\* What the first loop of parse_string reads.
LEMMA ScannedGives ==
  ASSUME IInv, job.kind = "trip", TripIsSound, pc = "size"
  PROVE  LET t == job.text
             last == Start(t, Len(t) + 1)
         IN  /\ t \in Seq(Byte) /\ Image(buf, t) /\ buf[1] = Quote
             /\ end \in Stops(t)
             /\ end = last => buf[end] = Quote
             /\ end # last =>
                  /\ buf[end] \notin {Quote, Nul}
                  /\ buf[end] = Backslash => buf[end + 1] # Nul /\ end + 2 \in Stops(t)
                  /\ buf[end] # Backslash => end + 1 \in Stops(t)
<1> DEFINE t == job.text
           last == Start(t, Len(t) + 1)
<1>1. t \in Seq(Byte)
  BY TripGives
<1>2. Image(buf, t) /\ end \in Stops(t)
  BY DEF TripIsSound
<1>3. buf[1] = Quote /\ buf[last] = Quote
  BY <1>1, <1>2, ImageGives
<1>4. ASSUME end # last
      PROVE  /\ buf[end] \notin {Quote, Nul}
             /\ buf[end] = Backslash => buf[end + 1] # Nul /\ end + 2 \in Stops(t)
             /\ buf[end] # Backslash => end + 1 \in Stops(t)
  <2>1. Shows(buf, t, Len(t) + 1)
    BY <1>2 DEF Image
  <2>2. /\ buf[end] \in Byte /\ buf[end] # Quote
        /\ buf[end] = Backslash => buf[end + 1] \in Byte /\ end + 2 \in Stops(t)
        /\ buf[end] # Backslash => end + 1 \in Stops(t)
    BY <1>1, <1>2, <1>4, <2>1, StopsStep
  <2>3. Nul \notin Byte
    BY DEF Byte, Nul
  <2> QED BY <2>2, <2>3
<1> QED BY <1>1, <1>2, <1>3, <1>4

\* There is a string, and it is closed.
LEMMA IsNotRejected ==
  ASSUME IInv, job.kind = "trip", TripIsSound
  PROVE  ~NoString /\ ~SizeOpen
<1>1. pc = "size" => buf[1] = Quote /\ buf[end] # Nul
  <2>1. Quote # Nul
    BY DEF Quote, Nul
  <2> QED BY <2>1, ScannedGives
<1> QED BY <1>1 DEF NoString, SizeOpen

\* The end of the string is looked for.
LEMMA SizeIsRight ==
  ASSUME IInv, job.kind = "trip", TripIsSound, Size
  PROVE  TripIsSound'
<1> DEFINE t == job.text
           last == Start(t, Len(t) + 1)
<1>1. pc = "size" /\ buf[end] \notin {Quote, Nul} /\ UNCHANGED <<job, buf>>
  BY DEF Size
<1>2. /\ Image(buf, t)
      /\ end = last => buf[end] = Quote
      /\ end # last =>
           /\ buf[end] = Backslash => buf[end + 1] # Nul /\ end + 2 \in Stops(t)
           /\ buf[end] # Backslash => end + 1 \in Stops(t)
  BY <1>1, ScannedGives
<1>3. end # last
  BY <1>1, <1>2
<1> HIDE DEF last
<1>4. pc' = "size" /\ end' \in Stops(t)
  <2>1. CASE buf[end] = Backslash
    BY <1>1, <1>2, <1>3, <2>1 DEF Size
  <2>2. CASE buf[end] # Backslash
    BY <1>1, <1>2, <1>3, <2>2 DEF Size
  <2> QED BY <2>1, <2>2
<1> QED BY <1>1, <1>2, <1>4 DEF TripIsSound

\* The quote that is found is the last one.
LEMMA ReserveIsRight ==
  ASSUME IInv, ~outside, ~starved', job.kind = "trip", TripIsSound, Reserve
  PROVE  TripIsSound'
<1> DEFINE t == job.text
           last == Start(t, Len(t) + 1)
<1>1. /\ pc = "size" /\ buf[1] = Quote /\ buf[end] = Quote /\ from' = 2
      /\ UNCHANGED <<job, buf, end>>
  BY DEF Reserve
<1>2. pc' = "decode" /\ to' = 1
  BY ReserveGives
<1>3. Image(buf, t) /\ end = last /\ t \in Seq(Byte)
  BY <1>1, ScannedGives
<1>4. Start(t, 1) = 2 /\ 1 \in 1 .. Len(t) + 1
  BY <1>3, StartsAreColumns
<1>5. ReadsBack(out', t, from', to')
  <2>1. \A k \in 1 .. 1 - 1 : FALSE
    OBVIOUS
  <2> QED BY <1>1, <1>2, <1>4, <2>1 DEF ReadsBack
<1> HIDE DEF last
<1>6. end' = Start(job'.text, Len(job'.text) + 1)
  BY <1>1, <1>3 DEF last
<1> QED BY <1>1, <1>2, <1>3, <1>5, <1>6 DEF TripIsSound

\* What the second loop reads, and where it writes.
LEMMA DecodedGives ==
  ASSUME IInv, ~outside, job.kind = "trip", TripIsSound, pc = "decode"
  PROVE  LET t == job.text
             last == Start(t, Len(t) + 1)
         IN  /\ t \in Seq(Byte) /\ Len(t) \in Nat /\ Image(buf, t) /\ end = last
             /\ out \in Seq(Cells) /\ Len(out) = room /\ to <= room - 1 /\ room \in Nat
             /\ \E i \in 1 .. Len(t) + 1 :
                  from = Start(t, i) /\ to = i /\ \A k \in 1 .. i - 1 : out[k] = t[k]
<1> DEFINE t == job.text
<1>1. t \in Seq(Byte) /\ Len(t) \in Nat
  BY TripGives
<1>2. /\ Image(buf, t) /\ end = Start(t, Len(t) + 1)
      /\ \E i \in 1 .. Len(t) + 1 :
           from = Start(t, i) /\ to = i /\ \A k \in 1 .. i - 1 : out[k] = t[k]
  BY DEF TripIsSound, ReadsBack
<1>3. /\ room = end - skipped /\ room \in Nat /\ out \in Seq(Cells) /\ Len(out) = room
      /\ from \in Nat /\ to \in Nat /\ end \in Nat /\ end >= 2
      /\ \E G : /\ Scans(buf, end, G) /\ skipped = Cardinality(EscapesBefore(buf, G, end))
                /\ from \in G /\ to <= from - 1 - Cardinality(EscapesBefore(buf, G, from))
  BY DecodeGives
<1>4. PICK G : /\ Scans(buf, end, G) /\ skipped = Cardinality(EscapesBefore(buf, G, end))
               /\ from \in G /\ to <= from - 1 - Cardinality(EscapesBefore(buf, G, from))
  BY <1>3
<1>5. to <= room - 1
  <2> DEFINE c == Cardinality(EscapesBefore(buf, G, from))
             d == Cardinality(EscapesBefore(buf, G, end))
  <2>1. from \in 2 .. end
    BY <1>4 DEF Scans
  <2>2. from - c <= end - d
    BY <1>3, <1>4, <2>1, EscapesLeft
  <2>3. c \in Nat /\ d \in Nat
    BY <1>3, <1>4, EscapesAreFinite
  <2>4. to <= from - 1 - c /\ skipped = d
    BY <1>4
  <2> HIDE DEF c, d
  <2> QED BY <1>3, <2>2, <2>3, <2>4
<1> QED BY <1>1, <1>2, <1>3, <1>5

\* What stands where the second loop is, and what comes behind that.
LEMMA NextIsRead ==
  ASSUME IInv, ~outside, job.kind = "trip", TripIsSound, Decoding
  PROVE  LET t == job.text
             e == Escaped(t[to])
         IN  /\ to \in 1 .. Len(t) /\ from = Start(t, to) /\ t[to] \in Byte
             /\ from \in Nat /\ end \in Nat /\ Len(e) \in {1, 2, 6}
             /\ Start(t, to + 1) = from + Len(e) /\ from + Len(e) <= end
             /\ \A m \in 1 .. Len(e) : buf[from + (m - 1)] = e[m]
             /\ e[1] = Backslash <=> Len(e) # 1
<1> DEFINE t == job.text
           N == Len(t)
           e == Escaped(t[to])
<1>1. /\ pc = "decode" /\ from < end
  BY DEF Decoding
<1>2. /\ t \in Seq(Byte) /\ N \in Nat /\ Image(buf, t) /\ end = Start(t, N + 1)
      /\ \E i \in 1 .. N + 1 : from = Start(t, i) /\ to = i
  BY <1>1, DecodedGives
<1>3. /\ \A i \in 1 .. N + 1 : Start(t, i) \in Nat
      /\ \A i \in 1 .. N :
           /\ t[i] \in Byte /\ Len(Escaped(t[i])) \in {1, 2, 6}
           /\ Start(t, i + 1) = Start(t, i) + Len(Escaped(t[i]))
      /\ \A i, j \in 1 .. N + 1 : i <= j => Start(t, i) <= Start(t, j)
  BY <1>2, StartsAreColumns
<1>4. to \in 1 .. N + 1 /\ from = Start(t, to)
  BY <1>2
<1>5. to \in 1 .. N
  <2>1. to # N + 1
    <3>1. end \in Nat /\ from \in Nat
      BY <1>2, <1>3, <1>4
    <3> QED BY <1>1, <1>2, <1>4, <3>1
  <2> QED BY <1>2, <1>4, <2>1
<1>6. /\ to + 1 \in 1 .. N + 1 /\ N + 1 \in 1 .. N + 1 /\ to + 1 <= N + 1
      /\ to \in 1 .. (N + 1) - 1
  BY <1>2, <1>5
<1>7. /\ t[to] \in Byte /\ Len(e) \in {1, 2, 6} /\ from \in Nat /\ end \in Nat
      /\ Start(t, to + 1) = from + Len(e) /\ Start(t, to + 1) <= end
  BY <1>2, <1>3, <1>4, <1>5, <1>6
<1>8. \A m \in 1 .. Len(e) : buf[from + (m - 1)] = e[m]
  BY <1>2, <1>4, <1>6 DEF Image, Shows
<1>9. e[1] = Backslash <=> Len(e) # 1
  BY <1>7, EscapedBytes
<1> HIDE DEF e, N
<1>10. from + Len(e) <= end
  BY <1>7
<1> QED BY <1>4, <1>5, <1>7, <1>8, <1>9, <1>10 DEF e, N

\* A character that is read back goes behind the ones in front of it.
LEMMA WritesBack ==
  ASSUME IInv, ~outside, job.kind = "trip", TripIsSound, Decoding,
         UNCHANGED <<job, pc, buf, sizes>>,
         NEW b \in Seq(Cells), Len(b) = 1, b[1] = job.text[to],
         out' = Put(out, to, b), to' = to + 1, from' = Start(job.text, to + 1)
  PROVE  TripIsSound'
<1> DEFINE t == job.text
           N == Len(t)
           last == Start(t, N + 1)
<1>1. pc = "decode" /\ pc' = "decode" /\ end' = end
  BY DEF Decoding, sizes
<1>2. /\ N \in Nat /\ Image(buf, t) /\ end = last
      /\ out \in Seq(Cells) /\ Len(out) = room /\ to <= room - 1 /\ room \in Nat
      /\ \A k \in 1 .. to - 1 : out[k] = t[k]
  BY <1>1, DecodedGives
<1>3. to \in 1 .. N
  BY NextIsRead
<1>4. \A k \in 1 .. Len(out) :
        /\ k < to \/ k >= to + Len(b) => out'[k] = out[k]
        /\ to <= k /\ k < to + Len(b) => out'[k] = b[k - to + 1]
  <2>1. out \in Seq(Cells) /\ b \in Seq(Cells) /\ to \in Nat
    BY <1>2, <1>3
  <2>2. /\ Put(out, to, b) \in Seq(Cells) /\ Len(Put(out, to, b)) = Len(out)
        /\ \A k \in 1 .. Len(out) :
             /\ k < to \/ k >= to + Len(b) => Put(out, to, b)[k] = out[k]
             /\ to <= k /\ k < to + Len(b) => Put(out, to, b)[k] = b[k - to + 1]
    BY ONLY <2>1, PutWrites
  <2> QED BY <2>2
<1>5. \A k \in 1 .. (to + 1) - 1 : out'[k] = t[k]
  <2> TAKE k \in 1 .. (to + 1) - 1
  <2>1. k \in 1 .. Len(out) /\ k <= to
    BY <1>2, <1>3
  <2>2. CASE k = to
    <3>1. to <= k /\ k < to + Len(b) /\ k - to + 1 = 1
      BY <1>3, <2>2
    <3> QED BY <1>4, <2>1, <2>2, <3>1
  <2>3. CASE k # to
    <3>1. k < to /\ k \in 1 .. to - 1
      BY <1>3, <2>1, <2>3
    <3> QED BY <1>2, <1>4, <2>1, <3>1
  <2> QED BY <2>2, <2>3
<1>6. ReadsBack(out', t, from', to')
  <2>1. to + 1 \in 1 .. N + 1
    BY <1>2, <1>3
  <2> QED BY <1>5, <2>1 DEF ReadsBack
<1>7. end' = Start(job'.text, Len(job'.text) + 1)
  BY <1>1, <1>2
<1> HIDE DEF last
<1> QED BY <1>1, <1>2, <1>6, <1>7 DEF TripIsSound

\* A byte that was printed as it is.
LEMMA CopyByteIsRight ==
  ASSUME IInv, ~outside, job.kind = "trip", TripIsSound, CopyByte
  PROVE  TripIsSound'
<1> DEFINE c == job.text[to]
           e == Escaped(c)
           b == <<buf[from]>>
<1>1. /\ Decoding /\ buf[from] # Backslash /\ UNCHANGED <<job, pc, buf, sizes>>
      /\ out' = Put(out, to, b) /\ to' = to + 1 /\ from' = from + 1
  BY DEF CopyByte, Write
<1>2. /\ c \in Byte /\ from \in Nat /\ Len(e) \in {1, 2, 6} /\ Start(job.text, to + 1) = from + Len(e)
      /\ \A m \in 1 .. Len(e) : buf[from + (m - 1)] = e[m]
      /\ e[1] = Backslash <=> Len(e) # 1
  BY <1>1, NextIsRead
<1>3. buf[from] = e[1]
  <2>1. 1 \in 1 .. Len(e) /\ from + (1 - 1) = from
    BY <1>2
  <2> QED BY <1>2, <2>1
<1>4. Len(e) = 1 /\ e[1] = c
  BY <1>1, <1>2, <1>3, EscapedMeans
<1>5. b \in Seq(Cells) /\ Len(b) = 1 /\ b[1] = c
  <2>1. buf[from] \in Cells
    BY <1>2, <1>3, <1>4 DEF Cells
  <2> QED BY <1>3, <1>4, <2>1
<1>6. from' = Start(job.text, to + 1)
  BY <1>1, <1>2, <1>4
<1> HIDE DEF b
<1> QED BY <1>1, <1>5, <1>6, WritesBack

\* What stands where there is a backslash.
LEMMA EscapeIsRead ==
  ASSUME IInv, ~outside, job.kind = "trip", TripIsSound, Decoding, buf[from] = Backslash
  PROVE  LET c == job.text[to]
             e == Escaped(c)
         IN  \/ /\ Len(e) = 2 /\ buf[from + 1] \in Letters /\ buf[from + 1] # LetterU
                /\ Stands(buf[from + 1]) = c
             \/ /\ Len(e) = 6 /\ buf[from + 1] = LetterU /\ buf[from + 1] \notin Letters
                /\ c < 32 /\ SequenceLength = 6 /\ Codepoint = c
<1> DEFINE c == job.text[to]
           e == Escaped(c)
<1>1. /\ c \in Byte /\ from \in Nat /\ end \in Nat /\ Len(e) \in {1, 2, 6} /\ from + Len(e) <= end
      /\ \A m \in 1 .. Len(e) : buf[from + (m - 1)] = e[m]
      /\ e[1] = Backslash <=> Len(e) # 1
  BY NextIsRead
<1>2. /\ Len(e) = 2 => e[2] \in Letters /\ e[2] # LetterU /\ Stands(e[2]) = c
      /\ Len(e) = 6 =>
           /\ c < 32 /\ e[2] = LetterU /\ e[3] = 48 /\ e[4] = 48
           /\ e[5] = HexDigit(c \div 16) /\ e[6] = HexDigit(c % 16)
  BY <1>1, EscapedMeans
<1> HIDE DEF e
<1>3. Len(e) \in {2, 6}
  <2>1. 1 \in 1 .. Len(e) /\ from + (1 - 1) = from
    BY <1>1
  <2> QED BY <1>1, <2>1
<1>4. buf[from + 1] = e[2]
  <2>1. 2 \in 1 .. Len(e) /\ from + (2 - 1) = from + 1
    <3>1. CASE Len(e) = 2
      BY <1>1, <3>1
    <3>2. CASE Len(e) = 6
      BY <1>1, <3>2
    <3> QED BY <1>3, <3>1, <3>2
  <2> QED BY <1>1, <2>1
<1>5. CASE Len(e) = 2
  BY <1>2, <1>4, <1>5 DEF e
<1>6. CASE Len(e) = 6
  <2>1. /\ buf[from + 2] = e[3] /\ buf[(from + 2) + 1] = e[4]
        /\ buf[(from + 2) + 2] = e[5] /\ buf[(from + 2) + 3] = e[6]
    <3>1. /\ 3 \in 1 .. 6 /\ from + (3 - 1) = from + 2
          /\ 4 \in 1 .. 6 /\ from + (4 - 1) = (from + 2) + 1
          /\ 5 \in 1 .. 6 /\ from + (5 - 1) = (from + 2) + 2
          /\ 6 \in 1 .. 6 /\ from + (6 - 1) = (from + 2) + 3
      BY <1>1
    <3> QED BY <1>1, <1>6, <3>1
  <2>2. ParseHex4(from + 2) = c
    <3>1. from + 2 \in Nat
      BY <1>1
    <3> QED BY <1>1, <1>2, <1>6, <2>1, <3>1, HexIsReadBack
  <2>3. c \in Nat /\ c # 0 /\ c < 32 /\ ~IsLow(c) /\ ~IsHigh(c)
    BY <1>1, <1>2, <1>6 DEF Byte, IsLow, IsHigh
  <2>4. ~(end - from < 6)
    BY <1>1, <1>6
  <2>5. SequenceLength = 6
    BY <2>2, <2>3, <2>4 DEF SequenceLength
  <2>6. Codepoint = c
    BY <2>2, <2>5 DEF Codepoint
  <2>7. LetterU \notin Letters
    <3>1. /\ DOMAIN Letter = {8, 12, 10, 13, 9, Quote, Backslash}
          /\ Letter[8] = 98 /\ Letter[12] = 102 /\ Letter[10] = 110 /\ Letter[13] = 114
          /\ Letter[9] = 116 /\ Letter[Quote] = Quote /\ Letter[Backslash] = Backslash
      BY DEF Letter, Quote, Backslash
    <3>2. \A x \in DOMAIN Letter : Letter[x] # LetterU
      BY <3>1 DEF LetterU, Quote, Backslash
    <3> QED BY <3>2 DEF Letters, LetterU, Slash
  <2> QED BY <1>2, <1>4, <1>6, <2>3, <2>5, <2>6, <2>7 DEF e
<1> QED BY <1>3, <1>5, <1>6

\* What is printed with a backslash is never rejected.
LEMMA EscapeIsNotBad ==
  ASSUME IInv, ~outside, job.kind = "trip", TripIsSound
  PROVE  ~BadEscape
<1> SUFFICES ASSUME BadEscape
             PROVE  FALSE
  OBVIOUS
<1>1. /\ Decoding /\ buf[from] = Backslash
      /\ \/ buf[from + 1] = LetterU /\ SequenceLength = 0
         \/ buf[from + 1] \notin Letters \cup {LetterU}
  BY DEF BadEscape
<1>2. \/ buf[from + 1] \in Letters /\ buf[from + 1] # LetterU
      \/ buf[from + 1] = LetterU /\ SequenceLength = 6
  BY <1>1, EscapeIsRead
<1> QED BY <1>1, <1>2

\* A letter stands for the byte that it was printed for.
LEMMA UnescapeIsRight ==
  ASSUME IInv, ~outside, job.kind = "trip", TripIsSound, Unescape
  PROVE  TripIsSound'
<1> DEFINE c == job.text[to]
           e == Escaped(c)
           b == <<Stands(buf[from + 1])>>
<1>1. /\ Decoding /\ buf[from] = Backslash /\ buf[from + 1] \in Letters
      /\ UNCHANGED <<job, pc, buf, sizes>>
      /\ out' = Put(out, to, b) /\ to' = to + 1 /\ from' = from + 2
  BY DEF Unescape, Write
<1>2. c \in Byte /\ Start(job.text, to + 1) = from + Len(e)
  BY <1>1, NextIsRead
<1>3. Len(e) = 2 /\ Stands(buf[from + 1]) = c
  BY <1>1, EscapeIsRead
<1>4. b \in Seq(Cells) /\ Len(b) = 1 /\ b[1] = c
  <2>1. c \in Cells
    BY <1>2 DEF Cells
  <2> QED BY <1>3, <2>1
<1>5. from' = Start(job.text, to + 1)
  BY <1>1, <1>2, <1>3
<1> HIDE DEF b
<1> QED BY <1>1, <1>4, <1>5, WritesBack

\* A number is that of the byte that it was printed for.
LEMMA Utf16LiteralIsRight ==
  ASSUME IInv, ~outside, job.kind = "trip", TripIsSound, Utf16Literal
  PROVE  TripIsSound'
<1> DEFINE c == job.text[to]
           e == Escaped(c)
           b == Utf8(c)
<1>1. /\ Decoding /\ buf[from] = Backslash /\ buf[from + 1] = LetterU
      /\ UNCHANGED <<job, pc, buf, sizes>>
      /\ out' = Put(out, to, Utf8(Codepoint)) /\ to' = to + Utf8Length(Codepoint)
      /\ from' = from + SequenceLength
  BY DEF Utf16Literal, Write
<1>2. c \in Byte /\ Start(job.text, to + 1) = from + Len(e)
  BY <1>1, NextIsRead
<1>3. Len(e) = 6 /\ SequenceLength = 6 /\ Codepoint = c /\ c < 32
  BY <1>1, EscapeIsRead
<1>4. c \in Nat /\ c < 128 /\ Utf8Length(c) = 1
  <2>1. c \in Nat /\ c < 128 /\ c < 2048 /\ c < 65536
    BY <1>2, <1>3 DEF Byte
  <2> QED BY <2>1 DEF Utf8Length
<1>5. b \in Seq(Cells) /\ Len(b) = 1 /\ b[1] = c
  <2>1. b \in Seq(Cells) /\ Len(b) = 1
    <3>1. c \in Nat
      BY <1>4
    <3> HIDE DEF c
    <3>2. /\ Utf8(c) \in Seq(Cells) /\ Len(Utf8(c)) = Utf8Length(c)
          /\ Utf8Length(c) \in 1 .. 4 /\ (c < 65536 => Utf8Length(c) <= 3)
      BY ONLY <3>1, Utf8Bytes
    <3> QED BY <1>4, <3>2
  <2>2. b[1] = (Mark[1] + (c \div Place[1])) % 256
    <3>1. 1 \in 1 .. 1 /\ 1 - 1 + 1 = 1
      OBVIOUS
    <3> QED BY <1>4, <3>1 DEF Utf8
  <2>3. Mark[1] = 0 /\ Place[1] = 1
    BY DEF Mark, Place
  <2>4. (0 + (c \div 1)) % 256 = c
    BY <1>4
  <2> QED BY <2>1, <2>2, <2>3, <2>4
<1>6. from' = Start(job.text, to + 1) /\ out' = Put(out, to, b) /\ to' = to + 1
  BY <1>1, <1>2, <1>3, <1>4
<1> HIDE DEF b
<1> QED BY <1>1, <1>5, <1>6, WritesBack

\* The NUL goes behind the last character.
LEMMA FinishStringIsRight ==
  ASSUME IInv, ~outside, job.kind = "trip", TripIsSound, FinishString
  PROVE  TripIsSound'
<1> DEFINE t == job.text
           N == Len(t)
           b == <<Nul>>
<1>1. pc = "decode" /\ from >= end /\ out' = Put(out, to, b) /\ pc' = "done" /\ UNCHANGED job
  BY DEF FinishString
<1>2. /\ t \in Seq(Byte) /\ N \in Nat /\ end = Start(t, N + 1)
      /\ out \in Seq(Cells) /\ Len(out) = room /\ to <= room - 1 /\ room \in Nat
      /\ to \in 1 .. N + 1 /\ from = Start(t, to) /\ \A k \in 1 .. to - 1 : out[k] = t[k]
  BY <1>1, DecodedGives
<1>3. to = N + 1
  <2> SUFFICES ASSUME to # N + 1
               PROVE  FALSE
    OBVIOUS
  <2>1. /\ to \in 1 .. N /\ to + 1 \in 1 .. N + 1 /\ N + 1 \in 1 .. N + 1 /\ to + 1 <= N + 1
    BY <1>2
  <2>2. /\ Start(t, to) \in Nat /\ Start(t, to + 1) = Start(t, to) + Len(Escaped(t[to]))
        /\ Len(Escaped(t[to])) \in {1, 2, 6}
        /\ Start(t, to + 1) <= Start(t, N + 1) /\ Start(t, N + 1) \in Nat
    BY <1>2, <2>1, StartsAreColumns
  <2> DEFINE n == Len(Escaped(t[to]))
  <2>3. from \in Nat /\ n \in {1, 2, 6} /\ from + n <= end /\ end \in Nat
    BY <1>2, <2>2
  <2> HIDE DEF n
  <2> QED BY <1>1, <2>3
<1>4. b \in Seq(Cells) /\ Len(b) = 1 /\ b[1] = Nul
  BY DEF Cells
<1> HIDE DEF b, N
<1>5. /\ Len(out') = Len(out)
      /\ \A k \in 1 .. Len(out) :
           /\ k < to \/ k >= to + Len(b) => out'[k] = out[k]
           /\ to <= k /\ k < to + Len(b) => out'[k] = b[k - to + 1]
  <2>1. out \in Seq(Cells) /\ b \in Seq(Cells) /\ to \in Nat
    BY <1>2, <1>4
  <2>2. /\ Put(out, to, b) \in Seq(Cells) /\ Len(Put(out, to, b)) = Len(out)
        /\ \A k \in 1 .. Len(out) :
             /\ k < to \/ k >= to + Len(b) => Put(out, to, b)[k] = out[k]
             /\ to <= k /\ k < to + Len(b) => Put(out, to, b)[k] = b[k - to + 1]
    BY ONLY <2>1, PutWrites
  <2> QED BY <1>1, <2>2
<1>6. N + 1 <= Len(out') /\ out'[N + 1] = Nul
  <2>1. to \in 1 .. Len(out) /\ to <= to /\ to < to + Len(b) /\ to - to + 1 = 1
    BY <1>2, <1>4
  <2> QED BY <1>2, <1>3, <1>4, <1>5, <2>1
<1>7. \A k \in 1 .. N : out'[k] = t[k]
  <2> TAKE k \in 1 .. N
  <2>1. k \in 1 .. to - 1 /\ k \in 1 .. Len(out) /\ k < to
    BY <1>2, <1>3
  <2> QED BY <1>2, <1>5, <2>1
<1> QED BY <1>1, <1>6, <1>7 DEF TripIsSound, N

\* Nothing has been printed yet.
LEMMA InitIsRight == Init => TripInv
<1> SUFFICES ASSUME Init, job.kind = "trip"
             PROVE  TripIsSound
  BY DEF TripInv
<1>1. pc = CASE job.kind = "trip" -> "measure" [] job.kind = "parse" -> "size"
             [] job.kind = "minify" -> "minify"
  BY DEF Init
<1>2. pc = "measure"
  BY <1>1
<1> QED BY <1>2 DEF TripIsSound

\* No step brings a wrong byte in, unless memory runs out.
LEMMA StepIsRight == IInv /\ TripInv /\ [Next]_vars => TripInv'
<1> SUFFICES ASSUME IInv, TripInv, [Next]_vars
             PROVE  TripInv'
  OBVIOUS
<1>1. IInv'
  BY StepIsSound
<1>2. CASE UNCHANGED vars
  BY <1>2 DEF vars, TripInv, TripIsSound
<1>3. CASE Next
  <2> SUFFICES ASSUME job'.kind = "trip", ~starved'
               PROVE  TripIsSound'
    BY DEF TripInv
  <2>1. ~outside
    BY <1>3 DEF Next
  <2>2. UNCHANGED job /\ (starved => starved')
    <3>1. CASE Measure \/ CopyPlain \/ EscapeChar \/ CloseEscaped \/ HandOver
      BY <3>1 DEF Measure, Allocate, CopyPlain, EscapeChar, CloseEscaped, HandOver
    <3>2. CASE SkipSpace \/ SkipLine \/ SkipComment \/ KeepOther \/ KeepLiteral \/ EndMinify
      BY <3>2 DEF SkipSpace, SkipLine, SkipComment, KeepOther, KeepLiteral, EndMinify
    <3>3. CASE NoString \/ Size \/ SizeOpen \/ Reserve
      BY <3>3 DEF NoString, Size, SizeOpen, Reserve, Allocate
    <3>4. CASE CopyByte \/ Unescape \/ Utf16Literal \/ BadEscape \/ FinishString
      BY <3>4 DEF CopyByte, Unescape, Utf16Literal, BadEscape, FinishString
    <3> QED BY <1>3, <3>1, <3>2, <3>3, <3>4 DEF Next
  <2>3. job.kind = "trip" /\ ~starved
    BY <2>2
  <2>4. TripIsSound
    BY <2>3 DEF TripInv
  <2>5. CASE Measure \/ CopyPlain \/ EscapeChar \/ CloseEscaped \/ HandOver
    BY <1>1, <2>1, <2>3, <2>4, <2>5, MeasureIsRight, CopyPlainIsRight, EscapeCharIsRight,
       CloseEscapedIsRight, HandOverIsRight
  <2>6. CASE SkipSpace \/ SkipLine \/ SkipComment \/ KeepOther \/ KeepLiteral \/ EndMinify
    BY <2>1, <2>3, <2>4, <2>6, SkipsNothing, KeepOtherIsRight, KeepLiteralIsRight, EndMinifyIsRight
  <2>7. CASE NoString \/ Size \/ SizeOpen \/ Reserve
    BY <2>1, <2>3, <2>4, <2>7, IsNotRejected, SizeIsRight, ReserveIsRight
  <2>8. CASE CopyByte \/ Unescape \/ Utf16Literal \/ BadEscape \/ FinishString
    BY <2>1, <2>3, <2>4, <2>8, CopyByteIsRight, UnescapeIsRight, Utf16LiteralIsRight,
       EscapeIsNotBad, FinishStringIsRight
  <2> QED BY <1>3, <2>5, <2>6, <2>7, <2>8 DEF Next
<1> QED BY <1>2, <1>3

\* The first NUL is the one behind the string.
LEMMA ResultIsText ==
  ASSUME IInv, TripInv
  PROVE  RoundTrip
<1> SUFFICES ASSUME job.kind = "trip", ~starved
             PROVE  pc # "failed" /\ (pc = "done" => Result = job.text)
  BY DEF RoundTrip
<1> DEFINE t == job.text
           N == Len(t)
           nuls == {i \in DOMAIN out : out[i] = Nul}
<1>1. TripIsSound /\ t \in Seq(Byte) /\ N \in Nat
  BY TripGives DEF TripInv
<1>2. pc # "failed"
  BY <1>1 DEF TripIsSound
<1>3. ASSUME pc = "done"
      PROVE  Result = t
  <2>1. N + 1 <= Len(out) /\ out[N + 1] = Nul /\ \A k \in 1 .. N : out[k] = t[k]
    BY <1>1, <1>3 DEF TripIsSound
  <2>2. out \in Seq(Cells) /\ Len(out) \in Nat
    <3>1. TypeOK
      BY DEF IInv
    <3> QED BY <3>1, TypesGive
  <2>3. Nul \notin Byte
    BY DEF Byte, Nul
  <2>4. \A k \in 1 .. N : out[k] # Nul
    BY <1>1, <2>1, <2>3
  <2>5. N + 1 \in nuls /\ nuls \in SUBSET Nat
    BY <1>1, <2>1, <2>2
  <2>6. Min(nuls) \in nuls /\ Min(nuls) <= N + 1
    BY <2>5, MinIsLeast
  <2>7. Min(nuls) = N + 1
    <3> DEFINE m == Min(nuls)
    <3>1. m \in 1 .. Len(out) /\ out[m] = Nul /\ m <= N + 1
      BY <2>2, <2>6
    <3> HIDE DEF m, nuls, N
    <3>2. m \notin 1 .. N
      BY <2>4, <3>1
    <3> QED BY <1>1, <2>2, <3>1, <3>2 DEF m
  <2>8. Result = SubSeq(out, 1, N)
    <3>1. Result = SubSeq(out, 1, Min(nuls) - 1)
      BY DEF Result
    <3>2. Min(nuls) - 1 = N
      BY <1>1, <2>7
    <3> QED BY <3>1, <3>2
  <2> DEFINE r == SubSeq(out, 1, N)
  <2>9. r \in Seq(Cells) /\ Len(r) = N /\ \A k \in 1 .. N : r[k] = t[k]
    <3>1. N <= Len(out) /\ 1 <= N + 1 /\ N - 1 + 1 = N /\ \A k \in Int : 1 + k - 1 = k
      BY <1>1, <2>1, <2>2
    <3>2. /\ r \in Seq(Cells) /\ Len(r) = N - 1 + 1
          /\ \A k \in 1 .. N - 1 + 1 : r[k] = out[1 + k - 1]
      BY <1>1, <2>2, <3>1, PartOf
    <3> HIDE DEF r, N
    <3>3. \A k \in 1 .. N : r[k] = out[k]
      BY <3>1, <3>2
    <3> QED BY <2>1, <3>1, <3>2, <3>3
  <2> HIDE DEF r
  <2>10. r = t
    BY <1>1, <2>9
  <2> QED BY <2>8, <2>10 DEF r
<1> QED BY <1>2, <1>3

\* A string of any length and of any bytes that is printed, minified and
\* parsed comes out as it was, byte for byte, and is not rejected on the way,
\* unless memory runs out.
THEOREM StringsAreReadBack == Spec => []RoundTrip
<1>1. Init => IInv /\ TripInv
  BY InitIsSound, InitIsRight
<1>2. IInv /\ TripInv /\ [Next]_vars => (IInv /\ TripInv)'
  BY StepIsSound, StepIsRight
<1>3. IInv /\ TripInv => RoundTrip
  BY ResultIsText
<1> QED BY <1>1, <1>2, <1>3, PTL DEF Spec
=============================================================================
