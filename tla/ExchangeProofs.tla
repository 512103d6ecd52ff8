----------------------------- MODULE ExchangeProofs -----------------------------
(***************************************************************************)
(* Proofs about the query line, for lines of any length over any alphabet, *)
(* about the answer, for profiles and plans of any length, and about the   *)
(* exchange that takes the one and gives the other.                        *)
(***************************************************************************)
EXTENDS Exchange, FiniteSetTheorems, SequenceTheorems, WellFoundedInduction, TLAPS

-------------------------------------------------------------------------------
(* The least and the greatest of a set of places.                          *)

LEMMA MinOf ==
  ASSUME NEW S \in SUBSET Nat, S # {}
  PROVE  Min(S) \in S /\ \A y \in S : Min(S) <= y
<1> DEFINE R == {p \in Nat \X Nat : p[1] < p[2]}
<1>1. IsWellFoundedOn(R, Nat)
  <2>1. OpToRel(<, Nat) = R
    BY Zenon DEF OpToRel
  <2> QED
    BY NatLessThanWellFounded, <2>1, Zenon
<1>2. \A x, y \in Nat : <<y, x>> \in R <=> y < x
  OBVIOUS
<1> HIDE DEF R
<1>3. PICK x \in S : \A y \in S : ~ (<<y, x>> \in R)
  BY <1>1, WFMin
<1>4. \A y \in S : x <= y
  <2> TAKE y \in S
  <2>1. x \in Nat /\ y \in Nat /\ <<y, x>> \notin R
    BY <1>3
  <2>2. ~(y < x)
    BY <1>2, <2>1
  <2> QED
    BY <2>1, <2>2
<1> QED
  BY <1>3, <1>4 DEF Min

LEMMA MaxOf ==
  ASSUME NEW n \in Nat, NEW S \in SUBSET (0..n), S # {}
  PROVE  Max(S) \in S /\ \A y \in S : y <= Max(S)
<1> DEFINE T == {n - x : x \in S}
<1>1. \A x \in S : x \in 0..n /\ n - x \in Nat
  OBVIOUS
<1>2. T \in SUBSET Nat /\ T # {} /\ \A x \in S : n - x \in T
  BY <1>1
<1>3. Min(T) \in T /\ \A y \in T : Min(T) <= y
  BY <1>2, MinOf
<1>4. PICK x \in S : n - x = Min(T)
  BY <1>3
<1>5. \A y \in S : y <= x
  <2> TAKE y \in S
  <2>1. n - x <= n - y
    BY <1>2, <1>3, <1>4
  <2> QED
    BY <1>1, <2>1
<1> QED
  BY <1>1, <1>4, <1>5 DEF Max

-------------------------------------------------------------------------------
(* Lowering a character, a text and a piece of a text.                     *)

Line == Seq(Char)

\* What lowering leaves alone: all that is no letter, and whether it is one.
LEMMA LowKeeps ==
  ASSUME NEW c \in Char
  PROVE  /\ Low(c) \in Char /\ Low(Low(c)) = Low(c)
         /\ Low(c) \in Blank <=> c \in Blank
         /\ Low(c) \in Control <=> c \in Control
         /\ Low(c) \in NameChar <=> c \in NameChar
         /\ Low(c) \in LabelChar <=> c \in LabelChar
         /\ Low(c) = Bad <=> c = Bad
         /\ \A x \in Mark \cup {CR, LF} : Low(c) = x <=> c = x
<1>1. CASE c \in Caps
  <2>1. Low(c) \in Small
    BY <1>1, CharAssumption DEF Low
  <2>2. Low(c) \in Letter /\ c \in Letter /\ Low(c) \notin Caps
    BY <1>1, <2>1, CharAssumption DEF Letter
  <2>3. \A l \in Letter : /\ l \in Char /\ l \notin Blank /\ l \notin Control
                          /\ l \in NameChar /\ l \in LabelChar /\ l # Bad
                          /\ l \notin Mark \cup {CR, LF}
    BY CharAssumption DEF Char, Blank, NameChar, LabelChar
  <2> QED
    BY <2>2, <2>3 DEF Low
<1>2. CASE c \notin Caps
  BY <1>2 DEF Low
<1> QED
  BY <1>1, <1>2

LEMMA LoweredText ==
  ASSUME NEW s \in Line
  PROVE  /\ Lowered(s) \in Line
         /\ Len(Lowered(s)) = Len(s)
         /\ \A i \in 1..Len(s) : s[i] \in Char /\ Lowered(s)[i] = Low(s[i])
<1>1. \A i \in 1..Len(s) : s[i] \in Char /\ Low(s[i]) \in Char
  BY LowKeeps DEF Line
<1>2. Len(s) \in Nat
  BY DEF Line
<1> QED
  BY <1>1, <1>2 DEF Lowered, Line

LEMMA LoweredTwice ==
  ASSUME NEW s \in Line
  PROVE  Lowered(Lowered(s)) = Lowered(s)
<1>1. \A i \in 1..Len(s) : Low(Lowered(s)[i]) = Low(s[i])
  BY LoweredText, LowKeeps
<1>2. Len(Lowered(s)) = Len(s)
  BY LoweredText
<1> QED
  BY <1>1, <1>2 DEF Lowered

\* A piece is lowered by lowering the whole.
LEMMA Cut ==
  ASSUME NEW s \in Line, NEW a \in Nat \ {0}, NEW b \in 0..Len(s)
  PROVE  /\ SubSeq(s, a, b) \in Line
         /\ Len(SubSeq(s, a, b)) = IF a <= b THEN b - a + 1 ELSE 0
         /\ \A i \in 1..(b - a + 1) : SubSeq(s, a, b)[i] = s[a + i - 1]
         /\ SubSeq(Lowered(s), a, b) = Lowered(SubSeq(s, a, b))
<1> DEFINE p == SubSeq(s, a, b)
           q == SubSeq(Lowered(s), a, b)
           n == IF a <= b THEN b - a + 1 ELSE 0
<1>1. a \in Int /\ b \in Int /\ Len(s) \in Nat /\ \A i \in a..b : i \in 1..Len(s)
  BY DEF Line
<1>2. \A i \in a..b : s[i] \in Char /\ Lowered(s)[i] \in Char /\ Lowered(s)[i] = Low(s[i])
  BY <1>1, LoweredText, LowKeeps
<1>3. /\ p \in Line /\ Len(p) = n
      /\ \A i \in 1..(b - a + 1) : p[i] = s[a + i - 1]
  BY <1>1, <1>2, SubSeqProperties DEF Line
<1>4. /\ q \in Line /\ Len(q) = n
      /\ \A i \in 1..(b - a + 1) : q[i] = Lowered(s)[a + i - 1]
  BY <1>1, <1>2, SubSeqProperties DEF Line
<1>5. Lowered(p) \in Line /\ Len(Lowered(p)) = n /\ \A i \in 1..n : Lowered(p)[i] = Low(p[i])
  BY <1>3, LoweredText
<1>6. \A i \in 1..n : q[i] = Lowered(p)[i]
  <2> TAKE i \in 1..n
  <2>1. i \in 1..(b - a + 1) /\ a + i - 1 \in a..b
    BY <1>1
  <2> QED
    BY <1>2, <1>3, <1>4, <1>5, <2>1
<1>7. q = Lowered(p)
  <2> HIDE DEF p, q, n
  <2> QED
    BY <1>4, <1>5, <1>6 DEF Line
<1> QED
  BY <1>3, <1>7

-------------------------------------------------------------------------------
(* The pieces that the parser cuts a text into.                            *)

LEMMA FindPlace ==
  ASSUME NEW s \in Line, NEW c \in Mark
  PROVE  /\ Find(s, c) \in 1..(Len(s) + 1)
         /\ Find(Lowered(s), c) = Find(s, c)
<1> DEFINE at == {i \in 1..Len(s) : s[i] = c}
           S  == at \cup {Len(s) + 1}
<1>1. Len(s) \in Nat
  BY DEF Line
<1>2. S \in SUBSET Nat /\ S # {} /\ S \subseteq 1..(Len(s) + 1)
  BY <1>1
<1>3. Min(S) \in S
  BY <1>2, MinOf
<1>4. {i \in 1..Len(Lowered(s)) : Lowered(s)[i] = c} = at
  <2>1. Len(Lowered(s)) = Len(s)
    BY LoweredText
  <2>2. \A i \in 1..Len(s) : Lowered(s)[i] = c <=> s[i] = c
    BY LoweredText, LowKeeps
  <2> QED
    BY <2>1, <2>2
<1>5. Len(Lowered(s)) = Len(s)
  BY LoweredText
<1> QED
  BY <1>2, <1>3, <1>4, <1>5 DEF Find

LEMMA BeforeMark ==
  ASSUME NEW s \in Line, NEW c \in Mark
  PROVE  Before(s, c) \in Line /\ Before(Lowered(s), c) = Lowered(Before(s, c))
<1>1. Len(s) \in Nat /\ Find(s, c) \in 1..(Len(s) + 1) /\ Find(Lowered(s), c) = Find(s, c)
  BY FindPlace DEF Line
<1>2. Find(s, c) - 1 \in 0..Len(s) /\ 1 \in Nat \ {0}
  BY <1>1
<1> QED
  BY <1>1, <1>2, Cut DEF Before

LEMMA AfterMark ==
  ASSUME NEW s \in Line, NEW c \in Mark
  PROVE  After(s, c) \in Line /\ After(Lowered(s), c) = Lowered(After(s, c))
<1>1. Len(s) \in Nat /\ Find(s, c) \in 1..(Len(s) + 1) /\ Find(Lowered(s), c) = Find(s, c)
      /\ Len(Lowered(s)) = Len(s)
  BY FindPlace, LoweredText DEF Line
<1>2. Find(s, c) + 1 \in Nat \ {0} /\ Len(s) \in 0..Len(s)
  BY <1>1
<1> QED
  BY <1>1, <1>2, Cut DEF After

LEMMA TrimText ==
  ASSUME NEW s \in Line
  PROVE  Trim(s) \in Line /\ Trim(Lowered(s)) = Lowered(Trim(s))
<1> DEFINE inner == {i \in 1..Len(s) : s[i] \notin Blank}
<1>1. Len(s) \in Nat /\ Len(Lowered(s)) = Len(s)
  BY LoweredText DEF Line
<1>2. {i \in 1..Len(Lowered(s)) : Lowered(s)[i] \notin Blank} = inner
  <2>1. \A i \in 1..Len(s) : Lowered(s)[i] \in Blank <=> s[i] \in Blank
    BY LoweredText, LowKeeps
  <2> QED
    BY <1>1, <2>1
<1>3. CASE inner = {}
  <2>1. Trim(s) = <<>> /\ Trim(Lowered(s)) = <<>>
    BY <1>2, <1>3 DEF Trim
  <2> QED
    BY <2>1 DEF Line, Lowered
<1>4. CASE inner # {}
  <2>1. inner \in SUBSET (0..Len(s)) /\ inner \in SUBSET Nat /\ \A i \in inner : i > 0
    BY <1>1
  <2>2. Min(inner) \in inner /\ Max(inner) \in inner
    BY <1>1, <1>4, <2>1, MinOf, MaxOf
  <2>3. Min(inner) \in Nat \ {0} /\ Max(inner) \in 0..Len(s)
    BY <1>1, <2>1, <2>2
  <2>4. /\ Trim(s) = SubSeq(s, Min(inner), Max(inner))
        /\ Trim(Lowered(s)) = SubSeq(Lowered(s), Min(inner), Max(inner))
    BY <1>2, <1>4 DEF Trim
  <2> HIDE DEF inner
  <2> QED
    BY <2>3, <2>4, Cut
<1> QED
  BY <1>3, <1>4

LEMMA StartsSame ==
  ASSUME NEW s \in Line
  PROVE  Starts(s) \subseteq 1..Len(s) /\ Starts(Lowered(s)) = Starts(s)
<1>1. Len(s) \in Nat /\ Len(Lowered(s)) = Len(s)
  BY LoweredText DEF Line
<1>2. \A i \in 1..Len(s) : Lowered(s)[i] \in Blank <=> s[i] \in Blank
  BY LoweredText, LowKeeps
<1>3. \A i \in 1..Len(s) : i > 1 => i - 1 \in 1..Len(s)
  BY <1>1
<1>4. \A i \in 1..Len(s) :
        (Lowered(s)[i] \notin Blank /\ (i > 1 => Lowered(s)[i - 1] \in Blank))
          <=> (s[i] \notin Blank /\ (i > 1 => s[i - 1] \in Blank))
  BY <1>2, <1>3
<1> QED
  BY <1>1, <1>4 DEF Starts

\* A token is a text that begins with what is no white space.
LEMMA TokenText ==
  ASSUME NEW s \in Line, NEW i \in Starts(s)
  PROVE  /\ Token(s, i) \in Line /\ Len(Token(s, i)) \in Nat \ {0}
         /\ Token(Lowered(s), i) = Lowered(Token(s, i))
<1> DEFINE S == {j \in i..Len(s) : j = Len(s) \/ s[j + 1] \in Blank}
<1>1. Len(s) \in Nat /\ Len(Lowered(s)) = Len(s) /\ i \in 1..Len(s)
  BY LoweredText, StartsSame DEF Line
<1>2. {j \in i..Len(Lowered(s)) : j = Len(Lowered(s)) \/ Lowered(s)[j + 1] \in Blank} = S
  <2>1. \A j \in 1..Len(s) : Lowered(s)[j] \in Blank <=> s[j] \in Blank
    BY LoweredText, LowKeeps
  <2>2. \A j \in i..Len(s) : j # Len(s) => j + 1 \in 1..Len(s)
    BY <1>1
  <2> QED
    BY <1>1, <2>1, <2>2
<1>3. S \in SUBSET Nat /\ Len(s) \in S
  BY <1>1
<1>4. Min(S) \in S
  BY <1>3, MinOf
<1>5. i \in Nat \ {0} /\ Min(S) \in 0..Len(s) /\ i <= Min(S)
  BY <1>1, <1>4
<1>6. Token(s, i) = SubSeq(s, i, Min(S)) /\ Token(Lowered(s), i) = SubSeq(Lowered(s), i, Min(S))
  BY <1>2 DEF Token
<1> HIDE DEF S
<1>7. /\ SubSeq(s, i, Min(S)) \in Line
      /\ Len(SubSeq(s, i, Min(S))) = Min(S) - i + 1
      /\ SubSeq(Lowered(s), i, Min(S)) = Lowered(SubSeq(s, i, Min(S)))
  BY <1>5, Cut
<1>8. Min(S) - i + 1 \in Nat \ {0}
  BY <1>1, <1>5
<1> QED
  BY <1>6, <1>7, <1>8

-------------------------------------------------------------------------------
(* Names.                                                                  *)

LEMMA WithinLow ==
  ASSUME NEW s \in Line, NEW C, \A c \in Char : Low(c) \in C <=> c \in C
  PROVE  Within(Lowered(s), C) <=> Within(s, C)
BY LoweredText DEF Within

LEMMA UsernameSame ==
  ASSUME NEW s \in Line
  PROVE  IsUsername(Lowered(s)) <=> IsUsername(s)
<1>1. /\ Trim(s) \in Line /\ Trim(Lowered(s)) = Lowered(Trim(s))
      /\ Len(Lowered(Trim(s))) = Len(Trim(s))
  BY TrimText, LoweredText
<1>2. Within(Lowered(Trim(s)), NameChar) <=> Within(Trim(s), NameChar)
  BY <1>1, LowKeeps, WithinLow
<1> QED
  BY <1>1, <1>2 DEF IsUsername

LEMMA LabelSame ==
  ASSUME NEW l \in Line
  PROVE  IsLabel(Lowered(l)) <=> IsLabel(l)
<1>1. Len(l) \in Nat /\ Len(Lowered(l)) = Len(l) /\ Lowered(l) \in Line
  BY LoweredText DEF Line
<1>2. l = <<>> <=> Lowered(l) = <<>>
  BY <1>1 DEF Line
<1>3. Within(Lowered(l), LabelChar) <=> Within(l, LabelChar)
  BY LowKeeps, WithinLow
<1>4. l # <<>> => 1 \in 1..Len(l) /\ Len(l) \in 1..Len(l)
  BY <1>1 DEF Line
<1>5. \A i \in 1..Len(l) : Lowered(l)[i] = "-" <=> l[i] = "-"
  BY LoweredText, LowKeeps DEF Mark
<1> QED
  BY <1>1, <1>2, <1>3, <1>4, <1>5 DEF IsLabel

LEMMA LabelsLow ==
  ASSUME NEW s \in Line
  PROVE  Labels(s) \subseteq Line /\ Labels(Lowered(s)) = {Lowered(l) : l \in Labels(s)}
<1> DEFINE cut(t) == {0, Len(t) + 1} \cup {i \in 1..Len(t) : t[i] = "."}
           Gaps   == {q \in cut(s) \X cut(s) :
                        q[1] < q[2] /\ \A i \in cut(s) : ~(q[1] < i /\ i < q[2])}
<1>1. Len(s) \in Nat /\ Len(Lowered(s)) = Len(s)
  BY LoweredText DEF Line
<1>2. cut(Lowered(s)) = cut(s)
  <2>1. \A i \in 1..Len(s) : Lowered(s)[i] = "." <=> s[i] = "."
    BY LoweredText, LowKeeps DEF Mark
  <2> QED
    BY <1>1, <2>1
<1>3. /\ Labels(s) = {SubSeq(s, q[1] + 1, q[2] - 1) : q \in Gaps}
      /\ Labels(Lowered(s)) = {SubSeq(Lowered(s), q[1] + 1, q[2] - 1) : q \in Gaps}
  BY <1>2 DEF Labels
<1>4. ASSUME NEW q \in Gaps
      PROVE  /\ SubSeq(s, q[1] + 1, q[2] - 1) \in Line
             /\ SubSeq(Lowered(s), q[1] + 1, q[2] - 1) = Lowered(SubSeq(s, q[1] + 1, q[2] - 1))
  <2>1. q[1] \in cut(s) /\ q[2] \in cut(s) /\ q[1] < q[2]
    OBVIOUS
  <2>2. \A i \in cut(s) : i \in 0..(Len(s) + 1)
    BY <1>1
  <2>3. q[1] + 1 \in Nat \ {0} /\ q[2] - 1 \in 0..Len(s)
    BY <1>1, <2>1, <2>2
  <2> QED
    BY <2>3, Cut
<1> HIDE DEF Gaps
<1> DEFINE piece(t, q) == SubSeq(t, q[1] + 1, q[2] - 1)
<1>5. \A q \in Gaps : piece(s, q) \in Line /\ piece(Lowered(s), q) = Lowered(piece(s, q))
  BY <1>4
<1>6. Labels(s) = {piece(s, q) : q \in Gaps} /\ Labels(Lowered(s)) = {piece(Lowered(s), q) : q \in Gaps}
  BY <1>3
<1> HIDE DEF piece
<1>7. {piece(Lowered(s), q) : q \in Gaps} = {Lowered(l) : l \in {piece(s, q) : q \in Gaps}}
  BY <1>5
<1> QED
  BY <1>5, <1>6, <1>7

LEMMA HostNameSame ==
  ASSUME NEW s \in Line
  PROVE  IsHostName(Lowered(s)) <=> IsHostName(s)
<1>1. /\ Trim(s) \in Line /\ Trim(Lowered(s)) = Lowered(Trim(s))
      /\ Len(Lowered(Trim(s))) = Len(Trim(s))
  BY TrimText, LoweredText
<1>2. (\A l \in Labels(Lowered(Trim(s))) : IsLabel(l)) <=> (\A l \in Labels(Trim(s)) : IsLabel(l))
  BY <1>1, LabelsLow, LabelSame
<1> QED
  BY <1>1, <1>2 DEF IsHostName

LEMMA NameSame ==
  ASSUME NEW s \in Line
  PROVE  NameOf(Lowered(s)) = NameOf(s)
BY TrimText, LoweredTwice DEF NameOf

-------------------------------------------------------------------------------
(* The parts of a line.                                                    *)

LEMMA EmptyLow ==
  ASSUME NEW s \in Line
  PROVE  Lowered(s) = <<>> <=> s = <<>>
BY LoweredText DEF Line

LEMMA CrlfSame ==
  ASSUME NEW whole \in Line
  PROVE  /\ EndsInCrlf(Lowered(whole)) <=> EndsInCrlf(whole)
         /\ EndsInCrlf(whole) => /\ Stripped(whole) \in Line
                               /\ Stripped(Lowered(whole)) = Lowered(Stripped(whole))
<1> DEFINE n == Len(whole)
<1>1. n \in Nat /\ Len(Lowered(whole)) = n
  BY LoweredText DEF Line
<1>2. ASSUME n >= 2
      PROVE  SubSeq(Lowered(whole), n - 1, n) = <<CR, LF>> <=> SubSeq(whole, n - 1, n) = <<CR, LF>>
  <2> DEFINE p == SubSeq(whole, n - 1, n)
  <2>1. n - 1 \in Nat \ {0} /\ n \in 0..Len(whole)
    BY <1>1, <1>2
  <2>2. /\ p \in Line /\ SubSeq(Lowered(whole), n - 1, n) = Lowered(p)
        /\ Len(p) = IF n - 1 <= n THEN n - (n - 1) + 1 ELSE 0
    BY <2>1, Cut, Zenon
  <2>3. Len(p) = 2
    BY <1>1, <2>2
  <2> HIDE DEF p
  <2>4. /\ Lowered(p) \in Line /\ Len(Lowered(p)) = 2
        /\ Lowered(p)[1] = CR <=> p[1] = CR
        /\ Lowered(p)[2] = LF <=> p[2] = LF
    <3>1. 1 \in 1..Len(p) /\ 2 \in 1..Len(p)
      BY <2>3
    <3>2. /\ p[1] \in Char /\ Lowered(p)[1] = Low(p[1])
          /\ p[2] \in Char /\ Lowered(p)[2] = Low(p[2])
          /\ Lowered(p) \in Line /\ Len(Lowered(p)) = 2
      BY <2>2, <2>3, <3>1, LoweredText
    <3> QED
      BY <3>2, LowKeeps
  <2>5. \A q \in Line : Len(q) = 2 => (q = <<CR, LF>> <=> q[1] = CR /\ q[2] = LF)
    BY DEF Line
  <2> QED
    BY <2>2, <2>3, <2>4, <2>5 DEF p
<1>3. ASSUME n >= 2
      PROVE  Stripped(whole) \in Line /\ Stripped(Lowered(whole)) = Lowered(Stripped(whole))
  <2>1. n - 2 \in 0..n /\ 1 \in Nat \ {0}
    BY <1>1, <1>3
  <2> QED
    BY <1>1, <2>1, Cut DEF Stripped
<1> QED
  BY <1>1, <1>2, <1>3 DEF EndsInCrlf

LEMMA StartsCounted ==
  ASSUME NEW s \in Line
  PROVE  /\ Cardinality(Starts(s)) \in Nat
         /\ Cardinality(Starts(s)) # 0 => Min(Starts(s)) \in Starts(s)
         /\ Cardinality(Starts(s)) \notin {0, 1} =>
              Min(Starts(s) \ {Min(Starts(s))}) \in Starts(s)
<1>1. Len(s) \in Nat /\ Starts(s) \subseteq 1..Len(s)
  BY StartsSame DEF Line
<1>2. IsFiniteSet(Starts(s))
  <2>1. 1 \in Int /\ Len(s) \in Int
    BY <1>1
  <2>2. IsFiniteSet(1..Len(s))
    BY <2>1, FS_Interval
  <2> QED
    BY <1>1, <2>2, FS_Subset, Zenon
<1>3. Starts(s) \in SUBSET Nat /\ Starts(s) \ {Min(Starts(s))} \in SUBSET Nat
  BY <1>1
<1>4. Cardinality(Starts(s)) # 0 => Starts(s) # {}
  BY <1>2, FS_EmptySet
<1>5. Cardinality(Starts(s)) \notin {0, 1} => Starts(s) \ {Min(Starts(s))} # {}
  <2> SUFFICES ASSUME Starts(s) \ {Min(Starts(s))} = {} PROVE Cardinality(Starts(s)) \in {0, 1}
    OBVIOUS
  <2>1. Starts(s) = {} \/ Starts(s) = {Min(Starts(s))}
    OBVIOUS
  <2>2. CASE Starts(s) = {}
    BY <2>2, FS_EmptySet
  <2>3. CASE Starts(s) = {Min(Starts(s))}
    BY <1>2, <2>3, FS_Singleton, Zenon
  <2> QED
    BY <2>1, <2>2, <2>3
<1>6. Cardinality(Starts(s)) \in Nat
  BY <1>2, FS_CardinalityType
<1>7. Cardinality(Starts(s)) # 0 => Min(Starts(s)) \in Starts(s)
  BY <1>3, <1>4, MinOf
<1>8. Cardinality(Starts(s)) \notin {0, 1} =>
        Min(Starts(s) \ {Min(Starts(s))}) \in Starts(s) \ {Min(Starts(s))}
  BY <1>3, <1>5, MinOf
<1> QED
  BY <1>6, <1>7, <1>8

LEMMA VerboseSame ==
  ASSUME NEW raw \in Line, Cardinality(Starts(raw)) # 0
  PROVE  Verbose(Lowered(raw)) <=> Verbose(raw)
<1>1. Min(Starts(raw)) \in Starts(raw) /\ Starts(Lowered(raw)) = Starts(raw)
  BY StartsCounted, StartsSame
<1>2. First(raw) \in Line /\ First(Lowered(raw)) = Lowered(First(raw))
  BY <1>1, TokenText DEF First
<1> QED
  BY <1>2, LoweredTwice DEF Verbose

LEMMA SubjectLow ==
  ASSUME NEW raw \in Line, Cardinality(Starts(raw)) # 0,
         Verbose(raw) => Cardinality(Starts(raw)) # 1
  PROVE  /\ Subject(raw) \in Line /\ Len(Subject(raw)) \in Nat \ {0}
         /\ Subject(Lowered(raw)) = Lowered(Subject(raw))
<1>1. Starts(Lowered(raw)) = Starts(raw)
  BY StartsSame
<1>2. CASE Verbose(raw)
  <2>1. Min(Starts(raw) \ {Min(Starts(raw))}) \in Starts(raw)
    BY <1>2, StartsCounted
  <2>2. /\ Second(raw) \in Line /\ Len(Second(raw)) \in Nat \ {0}
        /\ Second(Lowered(raw)) = Lowered(Second(raw))
    BY <1>1, <2>1, TokenText DEF Second
  <2> QED
    BY <1>2, <2>2, VerboseSame DEF Subject
<1>3. CASE ~Verbose(raw)
  <2>1. /\ First(raw) \in Line /\ Len(First(raw)) \in Nat \ {0}
        /\ First(Lowered(raw)) = Lowered(First(raw))
    BY <1>1, StartsCounted, TokenText DEF First
  <2> QED
    BY <1>3, <2>1, VerboseSame DEF Subject
<1> QED
  BY <1>2, <1>3

LEMMA PartsLow ==
  ASSUME NEW raw \in Line, Cardinality(Starts(raw)) # 0,
         Verbose(raw) => Cardinality(Starts(raw)) # 1
  PROVE  /\ Before(Subject(raw), "@") \in Line
         /\ Before(Subject(Lowered(raw)), "@") = Lowered(Before(Subject(raw), "@"))
         /\ HostText(raw) \in Line /\ HostText(Lowered(raw)) = Lowered(HostText(raw))
<1>1. "@" \in Mark
  BY DEF Mark
<1>2. Subject(raw) \in Line /\ Subject(Lowered(raw)) = Lowered(Subject(raw))
  BY SubjectLow
<1>3. /\ After(Subject(raw), "@") \in Line
      /\ After(Subject(Lowered(raw)), "@") = Lowered(After(Subject(raw), "@"))
  BY <1>1, <1>2, AfterMark
<1> QED
  BY <1>1, <1>2, <1>3, BeforeMark DEF HostText

-------------------------------------------------------------------------------
(* The query of a line.                                                    *)

\* Why a line that ends in CRLF and holds no character it may not hold is refused.
Fault(raw) ==
  LET user  == Before(Subject(raw), "@")
      count == Cardinality(Starts(raw))
  IN  IF count = 0                                   THEN "MissingUsername"
      ELSE IF Verbose(raw) /\ count = 1              THEN "MissingUsername"
      ELSE IF Subject(raw)[1] = "/"                  THEN "UnknownOption"
      ELSE IF count > (IF Verbose(raw) THEN 2 ELSE 1) THEN "TrailingInput"
      ELSE IF user = <<>>                            THEN "MissingUsername"
      ELSE IF ~IsUsername(user)                      THEN "InvalidUsername"
      ELSE IF HostText(raw) # <<>> /\ ~IsHostName(HostText(raw)) THEN "InvalidHostname"
      ELSE "none"

LEMMA RefusalFault ==
  \A whole : Refusal(whole) =
    IF Bad \in {whole[i] : i \in 1..Len(whole)}           THEN "InvalidEncoding"
    ELSE IF ~EndsInCrlf(whole)                            THEN "MissingCrlf"
    ELSE IF ~Within(Stripped(whole), Char \ Control)      THEN "ControlCharacter"
    ELSE Fault(Stripped(whole))
BY Zenon DEF Refusal, Fault

\* A line has at least the tokens that its user and its host are cut from.
Cuttable(raw) == Cardinality(Starts(raw)) # 0 /\ (Verbose(raw) => Cardinality(Starts(raw)) # 1)

LEMMA FaultSame ==
  ASSUME NEW raw \in Line
  PROVE  Fault(Lowered(raw)) = Fault(raw)
<1>1. Starts(Lowered(raw)) = Starts(raw)
  BY StartsSame
<1>2. CASE Cardinality(Starts(raw)) = 0
  BY <1>1, <1>2 DEF Fault
<1>3. CASE Cardinality(Starts(raw)) # 0
  <2>1. Verbose(Lowered(raw)) <=> Verbose(raw)
    BY <1>3, VerboseSame
  <2>2. CASE Verbose(raw) /\ Cardinality(Starts(raw)) = 1
    BY <1>1, <1>3, <2>1, <2>2 DEF Fault
  <2>3. CASE ~(Verbose(raw) /\ Cardinality(Starts(raw)) = 1)
    <3> DEFINE user == Before(Subject(raw), "@")
               low  == Before(Subject(Lowered(raw)), "@")
               host == HostText(raw)
    <3>1. Subject(Lowered(raw))[1] = "/" <=> Subject(raw)[1] = "/"
      <4>1. /\ Subject(raw) \in Line /\ 1 \in 1..Len(Subject(raw))
            /\ Subject(Lowered(raw)) = Lowered(Subject(raw))
        BY <1>3, <2>3, SubjectLow
      <4>2. Subject(raw)[1] \in Char /\ Lowered(Subject(raw))[1] = Low(Subject(raw)[1])
        BY <4>1, LoweredText
      <4> QED
        BY <4>1, <4>2, LowKeeps DEF Mark
    <3>2. user \in Line /\ low = Lowered(user) /\ host \in Line /\ HostText(Lowered(raw)) = Lowered(host)
      BY <1>3, <2>3, PartsLow
    <3>3. /\ low = <<>> <=> user = <<>>
          /\ IsUsername(low) <=> IsUsername(user)
          /\ HostText(Lowered(raw)) = <<>> <=> host = <<>>
          /\ IsHostName(HostText(Lowered(raw))) <=> IsHostName(host)
      <4> HIDE DEF user, low, host
      <4> QED
        BY <3>2, EmptyLow, UsernameSame, HostNameSame
    <3> QED
      BY <1>1, <1>3, <2>1, <2>3, <3>1, <3>3 DEF Fault
  <2> QED
    BY <2>2, <2>3
<1> QED
  BY <1>2, <1>3

LEMMA FaultNone ==
  ASSUME NEW raw \in Line, Fault(raw) = "none"
  PROVE  /\ Cuttable(raw)
         /\ IsUsername(Before(Subject(raw), "@"))
<1>1. Cardinality(Starts(raw)) # 0
  BY DEF Fault
<1>2. Verbose(raw) => Cardinality(Starts(raw)) # 1
  BY <1>1 DEF Fault
<1>3. IsUsername(Before(Subject(raw), "@"))
  BY <1>1, <1>2 DEF Fault
<1> QED
  BY <1>1, <1>2, <1>3 DEF Cuttable

LEMMA RefusalSame ==
  ASSUME NEW whole \in Line
  PROVE  Refusal(Lowered(whole)) = Refusal(whole)
<1>1. Bad \in {Lowered(whole)[i] : i \in 1..Len(Lowered(whole))} <=>
        Bad \in {whole[i] : i \in 1..Len(whole)}
  BY LoweredText, LowKeeps
<1>2. EndsInCrlf(Lowered(whole)) <=> EndsInCrlf(whole)
  BY CrlfSame
<1>3. ASSUME EndsInCrlf(whole)
      PROVE  /\ Within(Stripped(Lowered(whole)), Char \ Control) <=>
                 Within(Stripped(whole), Char \ Control)
             /\ Fault(Stripped(Lowered(whole))) = Fault(Stripped(whole))
  <2>1. Stripped(whole) \in Line /\ Stripped(Lowered(whole)) = Lowered(Stripped(whole))
    BY <1>3, CrlfSame
  <2>2. \A c \in Char : Low(c) \in Char \ Control <=> c \in Char \ Control
    BY LowKeeps
  <2> QED
    BY <2>1, <2>2, WithinLow, FaultSame
<1> QED
  BY <1>1, <1>2, <1>3, RefusalFault

LEMMA RefusalNone ==
  ASSUME NEW whole \in Line, Refusal(whole) = "none"
  PROVE  EndsInCrlf(whole) /\ Fault(Stripped(whole)) = "none"
BY RefusalFault, Zenon

\* The query of a line that is not refused, and what is safe in it.
LEMMA QuerySame ==
  ASSUME NEW whole \in Line, Refusal(whole) = "none"
  PROVE  QueryOf(Lowered(whole)) = QueryOf(whole)
<1> DEFINE raw == Stripped(whole)
<1>1. EndsInCrlf(whole) /\ Fault(raw) = "none"
  BY RefusalNone
<1>2. raw \in Line /\ Stripped(Lowered(whole)) = Lowered(raw)
  BY <1>1, CrlfSame
<1> HIDE DEF raw
<1>3. Cuttable(raw)
  BY <1>1, <1>2, FaultNone
<1>4. /\ Before(Subject(raw), "@") \in Line
      /\ Before(Subject(Lowered(raw)), "@") = Lowered(Before(Subject(raw), "@"))
      /\ HostText(raw) \in Line /\ HostText(Lowered(raw)) = Lowered(HostText(raw))
  BY <1>2, <1>3, PartsLow DEF Cuttable
<1>5. Verbose(Lowered(raw)) = Verbose(raw)
  <2>1. Verbose(Lowered(raw)) <=> Verbose(raw)
    BY <1>2, <1>3, VerboseSame DEF Cuttable
  <2> QED
    BY <2>1 DEF Verbose
<1>6. /\ NameOf(Before(Subject(Lowered(raw)), "@")) = NameOf(Before(Subject(raw), "@"))
      /\ NameOf(HostText(Lowered(raw))) = NameOf(HostText(raw))
  BY <1>4, NameSame
<1> QED
  BY <1>2, <1>5, <1>6 DEF QueryOf, raw

LEMMA QuerySafe ==
  ASSUME NEW whole \in Line, Refusal(whole) = "none"
  PROVE  LET q == QueryOf(whole)
         IN  /\ q.username \in Line /\ q.host \in Line /\ q.verbose \in BOOLEAN
             /\ Len(q.username) \in 1..MaxName
             /\ Within(q.username, Small \cup {"-", "_"})
<1> DEFINE raw  == Stripped(whole)
           user == Before(Subject(raw), "@")
           host == HostText(raw)
<1>1. EndsInCrlf(whole) /\ Fault(raw) = "none"
  BY RefusalNone
<1>2. raw \in Line
  BY <1>1, CrlfSame
<1>3. IsUsername(user) /\ user \in Line /\ host \in Line
  BY <1>1, <1>2, FaultNone, PartsLow DEF Cuttable
<1>4. /\ QueryOf(whole).username = NameOf(user)
      /\ QueryOf(whole).host = NameOf(host)
      /\ QueryOf(whole).verbose \in BOOLEAN
  BY DEF QueryOf, Verbose
<1> HIDE DEF user, host
<1>5. NameOf(user) \in Line /\ NameOf(host) \in Line
  BY <1>3, TrimText, LoweredText DEF NameOf
<1>6. Len(NameOf(user)) \in 1..MaxName
  BY <1>3, TrimText, LoweredText DEF NameOf, IsUsername
<1>7. Within(NameOf(user), Small \cup {"-", "_"})
  <2>1. Within(Trim(user), NameChar) /\ Trim(user) \in Line
    BY <1>3, TrimText DEF IsUsername
  <2>2. \A c \in NameChar : Low(c) \in Small \cup {"-", "_"}
    BY CharAssumption DEF NameChar, Letter, Low
  <2>3. \A i \in 1..Len(Trim(user)) :
          Trim(user)[i] \in NameChar /\ Lowered(Trim(user))[i] = Low(Trim(user)[i])
    BY <2>1, LoweredText DEF Within
  <2>4. Len(NameOf(user)) = Len(Trim(user)) /\ NameOf(user) = Lowered(Trim(user))
    BY <2>1, LoweredText DEF NameOf
  <2> QED
    BY <2>2, <2>3, <2>4 DEF Within
<1> QED
  BY <1>4, <1>5, <1>6, <1>7

-------------------------------------------------------------------------------
(* Induction on the naturals, stated on a set.                             *)

LEMMA EveryNatural ==
  ASSUME NEW P \in SUBSET Nat, 0 \in P, \A n \in P : n + 1 \in P
  PROVE  \A n \in Nat : n \in P
<1> SUFFICES ASSUME Nat \ P # {} PROVE FALSE
  OBVIOUS
<1>1. Nat \ P \in SUBSET Nat
  OBVIOUS
<1>2. Min(Nat \ P) \in Nat \ P /\ \A y \in Nat \ P : Min(Nat \ P) <= y
  BY <1>1, MinOf
<1>3. PICK m \in Nat : m \notin P /\ \A y \in Nat \ P : m <= y
  BY <1>2
<1>4. m # 0 /\ m - 1 \in Nat
  BY <1>3
<1>5. m - 1 \in P
  BY <1>3, <1>4
<1> QED
  BY <1>3, <1>4, <1>5

-------------------------------------------------------------------------------
(* Texts joined, and what of a text is kept.                               *)

\* The recursive function that FlattenSeq takes the last value of.
Flattens(seqs, f) ==
  f = [i \in 1..Len(seqs) |-> IF i = 1 THEN seqs[i] ELSE f[i - 1] \o seqs[i]]

LEMMA FlattenChosen ==
  ASSUME NEW seqs, Len(seqs) # 0
  PROVE  FlattenSeq(seqs) = (CHOOSE f : Flattens(seqs, f))[Len(seqs)]
BY DEF FlattenSeq, Flattens

LEMMA FlattenExists ==
  ASSUME NEW seqs, Len(seqs) \in Nat
  PROVE  \E f : Flattens(seqs, f)
<1> DEFINE Step(f) == [i \in 1..Len(seqs) |-> IF i = 1 THEN seqs[i] ELSE f[i - 1] \o seqs[i]]
           Upto(f, n) == \A i \in 1..Len(seqs) : i <= n => f[i] = Step(f)[i]
           N == {n \in Nat : \E f : Upto(f, n)}
<1>1. 0 \in N
  OBVIOUS
<1>2. ASSUME NEW n \in N PROVE n + 1 \in N
  <2>1. PICK f : Upto(f, n)
    BY <1>2
  <2> DEFINE g == Step(f)
  <2>2. ASSUME NEW i \in 1..Len(seqs), i <= n + 1 PROVE g[i] = Step(g)[i]
    <3>1. CASE i = 1
      BY <3>1
    <3>2. CASE i # 1
      <4>1. i - 1 \in 1..Len(seqs) /\ i - 1 <= n
        BY <1>2, <2>2, <3>2
      <4>2. f[i - 1] = g[i - 1]
        BY <2>1, <4>1
      <4> HIDE DEF g
      <4>3. g[i] = f[i - 1] \o seqs[i]
        BY <3>2 DEF g
      <4>4. Step(g)[i] = g[i - 1] \o seqs[i]
        BY <3>2
      <4> QED
        BY <4>2, <4>3, <4>4
    <3> QED
      BY <3>1, <3>2
  <2>3. Upto(g, n + 1)
    BY <2>2
  <2> HIDE DEF g, Upto
  <2> QED
    BY <1>2, <2>3
<1>3. Len(seqs) \in N
  <2> HIDE DEF Upto
  <2>1. N \in SUBSET Nat
    OBVIOUS
  <2> HIDE DEF N
  <2>2. \A n \in Nat : n \in N
    BY <1>1, <1>2, <2>1, EveryNatural
  <2> QED
    BY <2>2
<1>4. PICK f : Upto(f, Len(seqs))
  BY <1>3
<1> DEFINE g == Step(f)
<1>5. \A i \in 1..Len(seqs) : f[i] = g[i]
  BY <1>4
<1>6. g = Step(g)
  <2>1. ASSUME NEW i \in 1..Len(seqs) PROVE Step(f)[i] = Step(g)[i]
    <3>1. i # 1 => f[i - 1] = g[i - 1]
      <4>1. i # 1 => i - 1 \in 1..Len(seqs)
        OBVIOUS
      <4> HIDE DEF g
      <4> QED
        BY <1>5, <4>1
    <3> HIDE DEF g
    <3> QED
      BY <3>1
  <2>2. g = [i \in 1..Len(seqs) |-> Step(f)[i]] /\ Step(g) = [i \in 1..Len(seqs) |-> Step(g)[i]]
    OBVIOUS
  <2> HIDE DEF g, Step
  <2> QED
    BY <2>1, <2>2
<1> QED
  BY <1>6 DEF Flattens

LEMMA FlattensAt ==
  ASSUME NEW seqs, Len(seqs) \in Nat, NEW f, Flattens(seqs, f)
  PROVE  /\ Len(seqs) # 0 => f[1] = seqs[1]
         /\ \A n \in Nat \ {0} : n + 1 <= Len(seqs) => f[n + 1] = f[n] \o seqs[n + 1]
<1>1. \A i \in 1..Len(seqs) : f[i] = IF i = 1 THEN seqs[i] ELSE f[i - 1] \o seqs[i]
  BY DEF Flattens
<1>2. ASSUME NEW n \in Nat \ {0}, n + 1 <= Len(seqs)
      PROVE  n + 1 \in 1..Len(seqs) /\ n + 1 # 1 /\ (n + 1) - 1 = n
  BY <1>2
<1>3. ASSUME NEW n \in Nat \ {0}, n + 1 <= Len(seqs)
      PROVE  f[n + 1] = f[n] \o seqs[n + 1]
  <2>1. f[n + 1] = IF n + 1 = 1 THEN seqs[n + 1] ELSE f[(n + 1) - 1] \o seqs[n + 1]
    BY <1>1, <1>2, <1>3
  <2> QED
    BY <1>2, <1>3, <2>1
<1>4. Len(seqs) # 0 => f[1] = seqs[1]
  <2>1. Len(seqs) # 0 => 1 \in 1..Len(seqs)
    OBVIOUS
  <2> QED
    BY <1>1, <2>1
<1> QED
  BY <1>3, <1>4

LEMMA ConcatLed ==
  ASSUME NEW C, NEW a \in Seq(C), NEW b \in Seq(C), a # <<>>
  PROVE  a \o b \in Seq(C) /\ a \o b # <<>> /\ (a \o b)[1] = a[1]
<1>1. Len(a) \in Nat \ {0} /\ Len(b) \in Nat
  OBVIOUS
<1>2. a \o b \in Seq(C) /\ Len(a \o b) = Len(a) + Len(b)
  BY ConcatProperties
<1>3. (a \o b)[1] = a[1]
  BY <1>1
<1> QED
  BY <1>1, <1>2, <1>3

LEMMA Appended ==
  ASSUME NEW X, NEW s \in Seq(X), NEW x \in X, NEW t, t = Append(s, x)
  PROVE  /\ t \in Seq(X) /\ Len(t) = Len(s) + 1
         /\ t[Len(s) + 1] = x
         /\ \A i \in 1..Len(s) : t[i] = s[i]
<1>1. t \in Seq(X) /\ Len(t) = Len(s) + 1
  OBVIOUS
<1>2. t[Len(s) + 1] = x
  OBVIOUS
<1>3. \A i \in 1..Len(s) : t[i] = s[i]
  OBVIOUS
<1> QED
  BY <1>1, <1>2, <1>3

LEMMA EverySeq ==
  ASSUME NEW X, NEW P \in SUBSET Seq(X), <<>> \in P,
         \A s \in P : \A x \in X : Append(s, x) \in P
  PROVE  \A s \in Seq(X) : s \in P
<1> DEFINE N == {n \in Nat : \A s \in Seq(X) : Len(s) = n => s \in P}
<1>1. 0 \in N
  BY EmptySeq
<1>2. ASSUME NEW n \in N PROVE n + 1 \in N
  <2> SUFFICES ASSUME NEW s \in Seq(X), Len(s) = n + 1 PROVE s \in P
    OBVIOUS
  <2>1. n \in Nat /\ n <= Len(s) /\ \A i \in 1..n : s[i] \in X
    BY <1>2
  <2>2. PICK front \in Seq(X) : Len(front) = n /\ \A i \in 1..n : front[i] = s[i]
    <3>1. /\ SubSeq(s, 1, n) \in Seq(X) /\ Len(SubSeq(s, 1, n)) = n
          /\ \A i \in 1..n : SubSeq(s, 1, n)[i] = s[i]
      BY <2>1, SubSeqProperties
    <3> QED
      BY <3>1
  <2>3. PICK last \in X : last = s[n + 1]
    BY <2>1
  <2>4. Append(front, last) = s
    <3>1. PICK t : t = Append(front, last)
      OBVIOUS
    <3>2. /\ t \in Seq(X) /\ Len(t) = Len(front) + 1
          /\ t[Len(front) + 1] = last /\ \A i \in 1..Len(front) : t[i] = front[i]
      BY <3>1, Appended
    <3>3. Len(t) = Len(s) /\ t[n + 1] = s[n + 1] /\ \A i \in 1..n : t[i] = s[i]
      BY <2>2, <2>3, <3>2
    <3>4. \A i \in 1..Len(t) : t[i] = s[i]
      <4>1. \A i \in 1..Len(t) : i = n + 1 \/ i \in 1..n
        BY <2>1, <3>3
      <4> QED
        BY <3>3, <4>1
    <3>5. t = s
      BY <3>2, <3>3, <3>4, SeqEqual, Zenon
    <3> QED
      BY <3>1, <3>5
  <2>5. front \in P
    BY <1>2, <2>2
  <2> QED
    BY <2>3, <2>4, <2>5
<1>3. N \in SUBSET Nat
  OBVIOUS
<1> HIDE DEF N
<1>4. \A n \in Nat : n \in N
  BY <1>1, <1>2, <1>3, EveryNatural
<1> QED
  BY <1>4 DEF N

\* One more text is put at the end.
LEMMA FlattenAppend ==
  ASSUME NEW X, NEW seqs \in Seq(Seq(X)), NEW x \in Seq(X), FlattenSeq(seqs) \in Seq(X)
  PROVE  FlattenSeq(Append(seqs, x)) = FlattenSeq(seqs) \o x
<1> DEFINE more == Append(seqs, x)
<1>1. /\ Len(seqs) \in Nat /\ Len(more) = Len(seqs) + 1
      /\ more[Len(seqs) + 1] = x /\ \A i \in 1..Len(seqs) : more[i] = seqs[i]
  BY AppendProperties
<1>0. Len(more) \in Nat /\ Len(more) # 0
  BY <1>1
<1> HIDE DEF more
<1>2. PICK f : Flattens(more, f) /\ FlattenSeq(more) = f[Len(more)]
  BY <1>1, FlattenExists, FlattenChosen
<1>3. CASE Len(seqs) = 0
  <2>1. FlattenSeq(seqs) = <<>>
    <3>1. FlattenSeq(seqs) = seqs
      BY <1>3 DEF FlattenSeq
    <3> QED
      BY <1>3, <3>1
  <2>2. f[1] = x
    BY <1>1, <1>2, <1>3 DEF Flattens
  <2>3. <<>> \o x = x
    OBVIOUS
  <2> QED
    BY <1>1, <1>2, <1>3, <2>1, <2>2, <2>3 DEF more
<1>4. CASE Len(seqs) # 0
  <2>1. PICK g : Flattens(seqs, g) /\ FlattenSeq(seqs) = g[Len(seqs)]
    BY <1>1, <1>4, FlattenExists, FlattenChosen
  <2> DEFINE N == {n \in Nat : n \in 1..Len(seqs) => f[n] = g[n]}
  <2>2. 0 \in N
    OBVIOUS
  <2>3. ASSUME NEW n \in N, n + 1 \in 1..Len(seqs) PROVE f[n + 1] = g[n + 1]
    <3>0. n \in Nat /\ n + 1 \in 1..Len(more) /\ more[n + 1] = seqs[n + 1] /\ (n + 1) - 1 = n
      BY <1>1, <2>3
    <3>1. CASE n = 0
      <4>1. f[1] = more[1] /\ g[1] = seqs[1]
        BY <1>0, <1>1, <1>2, <1>4, <2>1, FlattensAt, Zenon
      <4> QED
        BY <3>0, <3>1, <4>1
    <3>2. CASE n # 0
      <4>1. f[n] = g[n]
        BY <1>1, <2>3, <3>0, <3>2
      <4>2. n \in Nat \ {0} /\ n + 1 <= Len(more) /\ n + 1 <= Len(seqs)
        BY <1>1, <2>3, <3>0, <3>2
      <4>3. f[n + 1] = f[n] \o more[n + 1] /\ g[n + 1] = g[n] \o seqs[n + 1]
        BY <1>0, <1>1, <1>2, <2>1, <4>2, FlattensAt, Zenon
      <4> QED
        BY <3>0, <4>1, <4>3
    <3> QED
      BY <3>1, <3>2
  <2>4. N \in SUBSET Nat /\ \A n \in N : n + 1 \in N
    <3>1. \A n \in N : n + 1 \in Nat /\ (n + 1 \in 1..Len(seqs) => f[n + 1] = g[n + 1])
      BY <2>3
    <3> QED
      BY <3>1
  <2> HIDE DEF N
  <2>5. \A n \in Nat : n \in N
    BY <2>2, <2>4, EveryNatural
  <2>6. f[Len(seqs)] = g[Len(seqs)]
    BY <1>1, <1>4, <2>5 DEF N
  <2>7. f[Len(seqs) + 1] = f[Len(seqs)] \o more[Len(seqs) + 1]
    <3>1. Len(seqs) \in Nat \ {0} /\ Len(seqs) + 1 <= Len(more) /\ Len(more) \in Nat
      BY <1>1, <1>4
    <3> QED
      BY <1>0, <1>2, <3>1, FlattensAt, Zenon
  <2> QED
    BY <1>1, <1>2, <2>1, <2>6, <2>7 DEF more
<1> QED
  BY <1>1, <1>3, <1>4

LEMMA FlattenText ==
  ASSUME NEW X, NEW seqs \in Seq(Seq(X))
  PROVE  FlattenSeq(seqs) \in Seq(X)
<1> DEFINE P == {s \in Seq(Seq(X)) : FlattenSeq(s) \in Seq(X)}
<1>1. <<>> \in P
  <2>1. FlattenSeq(<<>>) = <<>> /\ <<>> \in Seq(X) /\ <<>> \in Seq(Seq(X))
    BY DEF FlattenSeq
  <2> QED
    BY <2>1, Zenon
<1>2. ASSUME NEW s \in P, NEW x \in Seq(X) PROVE Append(s, x) \in P
  <2>1. s \in Seq(Seq(X)) /\ FlattenSeq(s) \in Seq(X)
    BY <1>2
  <2>2. FlattenSeq(Append(s, x)) = FlattenSeq(s) \o x
    BY <2>1, FlattenAppend
  <2>3. FlattenSeq(s) \o x \in Seq(X) /\ Append(s, x) \in Seq(Seq(X))
    BY <2>1
  <2> QED
    BY <2>2, <2>3
<1>3. P \in SUBSET Seq(Seq(X))
  OBVIOUS
<1> HIDE DEF P
<1>4. \A s \in Seq(Seq(X)) : s \in P
  BY <1>1, <1>2, <1>3, EverySeq
<1> QED
  BY <1>4 DEF P

\* What of a text is kept, one character more.
LEMMA KeptAppend ==
  ASSUME NEW X, NEW C, NEW s \in Seq(X), NEW x \in X
  PROVE  Kept(Append(s, x), C) = IF x \in C THEN Append(Kept(s, C), x) ELSE Kept(s, C)
<1> DEFINE bits(t) == [i \in 1..Len(t) |-> IF t[i] \in C THEN <<t[i]>> ELSE <<>>]
           bit     == IF x \in C THEN <<x>> ELSE <<>>
<1>1. /\ Len(s) \in Nat /\ Append(s, x) \in Seq(X) /\ Len(Append(s, x)) = Len(s) + 1
      /\ Append(s, x)[Len(s) + 1] = x /\ \A i \in 1..Len(s) : Append(s, x)[i] = s[i]
  OBVIOUS
<1>2. bit \in Seq(X) /\ \A t \in Seq(X) : bits(t) \in Seq(Seq(X))
  <2>1. ASSUME NEW t \in Seq(X) PROVE bits(t) \in Seq(Seq(X))
    <3>1. \A i \in 1..Len(t) : (IF t[i] \in C THEN <<t[i]>> ELSE <<>>) \in Seq(X)
      OBVIOUS
    <3>2. Len(t) \in Nat
      OBVIOUS
    <3> QED
      BY <3>1, <3>2
  <2> QED
    BY <2>1
<1>3. bits(Append(s, x)) = Append(bits(s), bit)
  <2>1. Len(bits(s)) = Len(s) /\ bits(s) \in Seq(Seq(X))
    BY <1>1, <1>2
  <2> DEFINE long == Append(bits(s), bit)
  <2>2. long \in Seq(Seq(X)) /\ Len(long) = Len(s) + 1 /\ long[Len(s) + 1] = bit
        /\ \A i \in 1..Len(s) : long[i] = bits(s)[i]
    <3> HIDE DEF bits, bit
    <3>1. /\ long \in Seq(Seq(X)) /\ Len(long) = Len(bits(s)) + 1
          /\ long[Len(bits(s)) + 1] = bit /\ \A i \in 1..Len(bits(s)) : long[i] = bits(s)[i]
      <4>1. long = Append(bits(s), bit)
        OBVIOUS
      <4> HIDE DEF long
      <4> QED
        BY <1>2, <2>1, <4>1, Appended
    <3> HIDE DEF long
    <3> QED
      BY <2>1, <3>1
  <2>3. \A i \in 1..(Len(s) + 1) : bits(Append(s, x))[i] = long[i]
    <3> HIDE DEF long
    <3> TAKE i \in 1..(Len(s) + 1)
    <3>1. CASE i = Len(s) + 1
      BY <1>1, <2>2, <3>1
    <3>2. CASE i \in 1..Len(s)
      BY <1>1, <2>2, <3>2
    <3> QED
      BY <1>1, <3>1, <3>2
  <2>4. bits(Append(s, x)) \in Seq(Seq(X)) /\ Len(bits(Append(s, x))) = Len(s) + 1
    BY <1>1, <1>2
  <2> HIDE DEF long, bits, bit
  <2>5. /\ Len(bits(Append(s, x))) = Len(long)
        /\ \A i \in 1..Len(bits(Append(s, x))) : bits(Append(s, x))[i] = long[i]
    BY <2>2, <2>3, <2>4
  <2>6. bits(Append(s, x)) = long
    BY <2>2, <2>4, <2>5, SeqEqual, Zenon
  <2> QED
    BY <2>6 DEF long
<1>4. Kept(s, C) = FlattenSeq(bits(s)) /\ Kept(Append(s, x), C) = FlattenSeq(bits(Append(s, x)))
  BY DEF Kept
<1> HIDE DEF bits, bit
<1>5. FlattenSeq(bits(s)) \in Seq(X)
  BY <1>2, FlattenText
<1>6. Kept(Append(s, x), C) = Kept(s, C) \o bit /\ Kept(s, C) \in Seq(X)
  BY <1>2, <1>3, <1>4, <1>5, FlattenAppend
<1> QED
  BY <1>6 DEF bit

LEMMA KeptText ==
  ASSUME NEW X, NEW C, NEW s \in Seq(X)
  PROVE  Kept(s, C) \in Seq(X \cap C)
<1> DEFINE P == {t \in Seq(X) : Kept(t, C) \in Seq(X \cap C)}
<1>1. <<>> \in P
  <2> DEFINE none == [i \in 1..Len(<<>>) |-> IF <<>>[i] \in C THEN <<<<>>[i]>> ELSE <<>>]
  <2>1. none \in Seq({}) /\ Len(none) = 0
    OBVIOUS
  <2>2. Kept(<<>>, C) = FlattenSeq(none)
    BY DEF Kept
  <2> HIDE DEF none
  <2>3. none = <<>> /\ FlattenSeq(none) = none
    BY <2>1 DEF FlattenSeq
  <2>4. <<>> \in Seq(X) /\ <<>> \in Seq(X \cap C)
    OBVIOUS
  <2> QED
    BY <2>2, <2>3, <2>4
<1>2. ASSUME NEW t \in P, NEW x \in X PROVE Append(t, x) \in P
  <2>1. Kept(Append(t, x), C) = IF x \in C THEN Append(Kept(t, C), x) ELSE Kept(t, C)
    BY <1>2, KeptAppend
  <2>2. Kept(t, C) \in Seq(X \cap C) /\ Append(t, x) \in Seq(X)
    BY <1>2
  <2>3. x \in C => Append(Kept(t, C), x) \in Seq(X \cap C)
    <3>1. x \in C => x \in X \cap C
      OBVIOUS
    <3> QED
      BY <2>2, <3>1, AppendProperties
  <2> QED
    BY <2>1, <2>2, <2>3
<1>3. P \in SUBSET Seq(X)
  OBVIOUS
<1> HIDE DEF P
<1>4. \A t \in Seq(X) : t \in P
  BY <1>1, <1>2, <1>3, EverySeq
<1> QED
  BY <1>4 DEF P

-------------------------------------------------------------------------------
(* The answer.                                                             *)

\* What an answer is made of.
Sign == Char \cup Wording \cup {" "}

\* The sequences that begin with c.
Led(c) == {s \in Seq(Sign) : s # <<>> /\ s[1] = c}

LEMMA LedOf ==
  ASSUME NEW c, NEW s \in Seq(Sign), s # <<>>, s[1] = c
  PROVE  s \in Led(c)
BY DEF Led

LEMMA One ==
  ASSUME NEW X, NEW x \in X
  PROVE  <<x>> \in Seq(X) /\ <<x>> # <<>> /\ <<x>>[1] = x /\ Len(<<x>>) = 1
OBVIOUS

LEMMA Two ==
  ASSUME NEW X, NEW x \in X, NEW y \in X
  PROVE  <<x, y>> \in Seq(X) /\ <<x, y>> # <<>> /\ Len(<<x, y>>) = 2
         /\ <<x, y>>[1] = x /\ <<x, y>>[2] = y
OBVIOUS

LEMMA LabelText ==
  ASSUME NEW key \in Text
  PROVE  Label(key) \in Seq(Sign)
<1> DEFINE raised(c) == IF c \in Small /\ \E d \in Caps : LowerOf[d] = c
                          THEN CHOOSE d \in Caps : LowerOf[d] = c ELSE c
<1>1. \A c \in Char : raised(c) \in Char
  BY DEF Char, Letter
<1>2. Len(key) \in Nat /\ \A i \in 1..Len(key) : key[i] \in Char
  BY DEF Text
<1> HIDE DEF raised
<1>3. \A i \in 1..Len(key) :
        (IF i = 1 THEN raised(key[1]) ELSE IF key[i] = "_" THEN " " ELSE key[i]) \in Sign
  BY <1>1, <1>2 DEF Sign
<1> DEFINE sign(i) == IF i = 1 THEN raised(key[1]) ELSE IF key[i] = "_" THEN " " ELSE key[i]
<1>4. \A i \in 1..Len(key) : sign(i) \in Sign
  BY <1>3
<1> HIDE DEF sign
<1>5. [i \in 1..Len(key) |-> sign(i)] \in Seq(Sign)
  BY <1>2, <1>4
<1> QED
  BY <1>5 DEF Label, raised, sign

LEMMA SanitisedText ==
  ASSUME NEW s \in Text
  PROVE  Sanitised(s) \in Seq(Printable \ {Bad}) /\ Sanitised(s) \in Seq(Sign)
<1>1. Sanitised(s) \in Seq((Char \ {Bad}) \cap Printable)
  BY KeptText DEF Text, Sanitised
<1>2. (Char \ {Bad}) \cap Printable \subseteq Printable \ {Bad}
      /\ (Char \ {Bad}) \cap Printable \subseteq Sign
  BY DEF Sign
<1> QED
  BY <1>1, <1>2, SeqMonotonic, Zenon

\* The places that a set has, in their order, are places.
LEMMA KeptPlaces ==
  ASSUME NEW n \in Nat, NEW S
  PROVE  Kept([i \in 1..n |-> i], S) \in Seq((1..n) \cap S)
<1>1. [i \in 1..n |-> i] \in Seq(1..n)
  OBVIOUS
<1> QED
  BY <1>1, KeptText

LEMMA LinesOfText ==
  ASSUME NEW s \in Text
  PROVE  LinesOf(s) \in Seq(Text)
<1> DEFINE end  == Kept([i \in 1..Len(s) |-> i], {i \in 1..Len(s) : s[i] = LF \/ i = Len(s)})
           a(k) == IF k = 1 THEN 1 ELSE end[k - 1] + 1
           b(k) == IF s[end[k]] = LF THEN end[k] - 1 ELSE end[k]
<1>1. Len(s) \in Nat /\ \A i \in 1..Len(s) : s[i] \in Char \ {Bad}
  BY DEF Text
<1>2. end \in Seq(1..Len(s))
  <2>1. end \in Seq((1..Len(s)) \cap {i \in 1..Len(s) : s[i] = LF \/ i = Len(s)})
    BY <1>1, KeptPlaces
  <2> HIDE DEF end
  <2> QED
    BY <2>1, SeqMonotonic
<1>3. LinesOf(s) = [k \in 1..Len(end) |-> SubSeq(s, a(k), b(k))]
  BY DEF LinesOf
<1> HIDE DEF end
<1>4. ASSUME NEW k \in 1..Len(end) PROVE SubSeq(s, a(k), b(k)) \in Text
  <2>1. end[k] \in 1..Len(s) /\ (k # 1 => end[k - 1] \in 1..Len(s))
    BY <1>2
  <2>2. a(k) \in Nat \ {0} /\ b(k) \in 0..Len(s) /\ a(k) \in Int /\ b(k) \in Int
    BY <1>1, <2>1
  <2> HIDE DEF a, b
  <2>3. \A i \in a(k)..b(k) : s[i] \in Char \ {Bad}
    BY <1>1, <2>2
  <2> QED
    BY <2>2, <2>3, SubSeqProperties DEF Text
<1> HIDE DEF a, b
<1>5. Len(end) \in Nat
  BY <1>2
<1>6. [k \in 1..Len(end) |-> SubSeq(s, a(k), b(k))] \in Seq(Text)
  BY <1>4, <1>5
<1> QED
  BY <1>3, <1>6

LEMMA PlanLinesText ==
  ASSUME NEW plan \in Text \cup {NoPlan}
  PROVE  PlanLines(plan) \in Seq(Seq(Sign))
<1>1. <<<<"(no plan)">>>> \in Seq(Seq(Sign)) /\ <<<<"(empty plan)">>>> \in Seq(Seq(Sign))
  <2>1. "(no plan)" \in Sign /\ "(empty plan)" \in Sign
    BY DEF Sign, Wording
  <2>2. <<"(no plan)">> \in Seq(Sign) /\ <<"(empty plan)">> \in Seq(Sign)
    BY <2>1, One
  <2> QED
    BY <2>2, One
<1>2. ASSUME plan # NoPlan
      PROVE  [k \in 1..Len(LinesOf(plan)) |-> Sanitised(LinesOf(plan)[k])] \in Seq(Seq(Sign))
  <2>1. LinesOf(plan) \in Seq(Text)
    BY <1>2, LinesOfText
  <2>2. Len(LinesOf(plan)) \in Nat
    BY <2>1
  <2>3. \A k \in 1..Len(LinesOf(plan)) : Sanitised(LinesOf(plan)[k]) \in Seq(Sign)
    BY <2>1, SanitisedText
  <2> QED
    BY <2>2, <2>3
<1> QED
  BY <1>1, <1>2 DEF PlanLines

\* The attributes of a profile that parses are texts.
LEMMA AttributesText ==
  ASSUME NEW user, NEW doc \in Document, ProfileError(user, doc) = "none"
  PROVE  Attributes(doc) \in Seq([key : Text, value : Text])
<1> DEFINE C == {f \in Range(doc.fields) : f.key # UsernameKey}
<1>1. doc.fields \in Seq(Field)
  BY DEF Document
<1>2. \A f \in Range(doc.fields) : f.value # NotString
  BY DEF ProfileError
<1>3. Attributes(doc) \in Seq(Field \cap C)
  BY <1>1, KeptText DEF Attributes
<1>4. Field \cap C \subseteq [key : Text, value : Text]
  BY <1>2 DEF Field
<1> HIDE DEF C
<1> QED
  BY <1>3, <1>4, SeqMonotonic, Zenon

LEMMA RenderText ==
  ASSUME NEW user \in Seq(Char), NEW doc \in Document, ProfileError(user, doc) = "none",
         NEW verbose \in BOOLEAN, NEW plan \in Text \cup {NoPlan}
  PROVE  LET lines == Render(user, doc, verbose, plan)
         IN  /\ lines \in Seq(Seq(Sign)) /\ lines # <<>>
             /\ lines[1] \in Led("User: ")
<1> DEFINE attributes == Attributes(doc)
           head   == <<<<"User: ">> \o user>>
           told   == [k \in 1..Len(attributes) |->
                        Label(attributes[k].key) \o <<": ">> \o Sanitised(attributes[k].value)]
           shown  == IF verbose THEN <<<<>>, <<"Plan:">>>> \o PlanLines(plan) ELSE <<>>
           last   == <<<<>>, <<"Powered by fingermouse">>>>
<1>1. Wording \subseteq Sign /\ Char \subseteq Sign
  BY DEF Sign
<1>2. <<"User: ">> \o user \in Led("User: ")
  <2>1. <<"User: ">> \in Seq(Sign) /\ user \in Seq(Sign) /\ <<"User: ">> # <<>>
    <3>1. "User: " \in Sign
      BY <1>1 DEF Wording
    <3>2. user \in Seq(Sign)
      BY <1>1, SeqMonotonic, Zenon
    <3> QED
      BY <3>1, <3>2, One
  <2>2. <<"User: ">>[1] = "User: "
    OBVIOUS
  <2>3. PICK first : first = <<"User: ">>
    OBVIOUS
  <2>4. first \in Seq(Sign) /\ first # <<>> /\ first[1] = "User: "
    BY <2>1, <2>2, <2>3
  <2>5. first \o user \in Seq(Sign) /\ first \o user # <<>> /\ (first \o user)[1] = "User: "
    BY <2>1, <2>4, ConcatLed
  <2>6. first \o user \in Led("User: ")
    BY <2>5, LedOf
  <2> QED
    BY <2>3, <2>6, Zenon
<1>3. told \in Seq(Seq(Sign))
  <2>1. attributes \in Seq([key : Text, value : Text]) /\ Len(attributes) \in Nat
    <3>1. attributes \in Seq([key : Text, value : Text])
      BY AttributesText, Zenon
    <3> HIDE DEF attributes
    <3> QED
      BY <3>1, LenProperties, Zenon
  <2> HIDE DEF attributes
  <2>2. <<": ">> \in Seq(Sign)
    <3>1. ": " \in Sign
      BY <1>1 DEF Wording
    <3> QED
      BY <3>1, One
  <2>3. ASSUME NEW k \in 1..Len(attributes)
        PROVE  Label(attributes[k].key) \o <<": ">> \o Sanitised(attributes[k].value) \in Seq(Sign)
    <3>1. attributes[k].key \in Text /\ attributes[k].value \in Text
      <4>1. attributes[k] \in [key : Text, value : Text]
        BY <2>1, ElementOfSeq, Zenon
      <4> QED
        BY <4>1
    <3>2. Label(attributes[k].key) \in Seq(Sign) /\ Sanitised(attributes[k].value) \in Seq(Sign)
      BY <3>1, LabelText, SanitisedText
    <3>3. Label(attributes[k].key) \o <<": ">> \in Seq(Sign)
      BY <2>2, <3>2, ConcatProperties, Zenon
    <3> QED
      BY <3>2, <3>3, ConcatProperties, Zenon
  <2> DEFINE row(k) == Label(attributes[k].key) \o <<": ">> \o Sanitised(attributes[k].value)
  <2>4. \A k \in 1..Len(attributes) : row(k) \in Seq(Sign)
    BY <2>3
  <2> HIDE DEF row
  <2>5. [k \in 1..Len(attributes) |-> row(k)] \in Seq(Seq(Sign))
    BY <2>1, <2>4
  <2> QED
    BY <2>5 DEF row
<1>4. shown \in Seq(Seq(Sign)) /\ last \in Seq(Seq(Sign))
  <2>1. "Plan:" \in Sign /\ "Powered by fingermouse" \in Sign
    BY <1>1 DEF Wording
  <2>2. <<>> \in Seq(Sign) /\ <<"Plan:">> \in Seq(Sign) /\ <<"Powered by fingermouse">> \in Seq(Sign)
    BY <2>1, One, EmptySeq
  <2>3. <<<<>>, <<"Plan:">>>> \in Seq(Seq(Sign)) /\ last \in Seq(Seq(Sign)) /\ <<>> \in Seq(Seq(Sign))
    BY <2>2, Two, EmptySeq
  <2>4. PlanLines(plan) \in Seq(Seq(Sign))
    BY PlanLinesText
  <2>5. <<<<>>, <<"Plan:">>>> \o PlanLines(plan) \in Seq(Seq(Sign))
    BY <2>3, <2>4, ConcatProperties
  <2> QED
    BY <2>3, <2>5
<1>5. head \in Seq(Seq(Sign)) /\ head # <<>> /\ head[1] = <<"User: ">> \o user
  BY <1>2, One DEF Led
<1>6. Render(user, doc, verbose, plan) = head \o told \o shown \o last
  BY DEF Render
<1>7. head[1] \in Led("User: ")
  BY <1>2, <1>5
<1> HIDE DEF head, told, shown, last, attributes
<1>10. head \o told \in Seq(Seq(Sign)) /\ head \o told # <<>> /\ (head \o told)[1] = head[1]
  BY <1>3, <1>5, ConcatLed
<1>11. /\ (head \o told) \o shown \in Seq(Seq(Sign)) /\ (head \o told) \o shown # <<>>
      /\ ((head \o told) \o shown)[1] = head[1]
  BY <1>4, <1>10, ConcatLed
<1>12. LET lines == ((head \o told) \o shown) \o last
       IN  lines \in Seq(Seq(Sign)) /\ lines # <<>> /\ lines[1] = head[1]
  BY <1>4, <1>11, ConcatLed
<1> QED
  BY <1>6, <1>7, <1>12

LEMMA FramedText ==
  ASSUME NEW s \in Seq(Sign)
  PROVE  /\ Framed(s) \in Seq(Sign)
         /\ \A c \in Sign \ {CR, LF} : s \in Led(c) => Framed(s) \in Led(c)
<1> DEFINE inner == {i \in 1..Len(s) : s[i] \notin {CR, LF}} \cup {0}
           t     == TrimLineEndings(s)
<1>1. Len(s) \in Nat /\ inner \in SUBSET (0..Len(s)) /\ inner # {}
  OBVIOUS
<1>2. Max(inner) \in inner /\ \A i \in inner : i <= Max(inner)
  BY <1>1, MaxOf
<1>3. t = SubSeq(s, 1, Max(inner))
  BY DEF TrimLineEndings
<1>4. Max(inner) \in 0..Len(s)
  BY <1>1, <1>2
<1>5. <<CR, LF>> \in Seq(Sign)
  <2>1. CR \in Sign /\ LF \in Sign
    BY DEF Sign, Char, Blank
  <2> QED
    BY <2>1, Two
<1>6. ASSUME NEW c \in Sign \ {CR, LF}, s \in Led(c)
      PROVE  s[1] = c /\ 1 <= Max(inner)
  <2>1. s # <<>> /\ s[1] = c
    BY <1>6 DEF Led
  <2>2. 1 \in inner
    BY <1>1, <1>6, <2>1
  <2> QED
    BY <1>2, <2>1, <2>2
<1> HIDE DEF inner, t
<1>7. /\ t \in Seq(Sign) /\ Len(t) = Max(inner)
      /\ 1 <= Max(inner) => t[1] = s[1]
  <2>1. \A i \in 1..Max(inner) : s[i] \in Sign
    BY <1>1, <1>4
  <2>2. /\ t \in Seq(Sign) /\ Len(t) = IF 1 <= Max(inner) THEN Max(inner) - 1 + 1 ELSE 0
        /\ \A i \in 1..(Max(inner) - 1 + 1) : t[i] = s[1 + i - 1]
    BY <1>3, <1>4, <2>1, SubSeqProperties
  <2> QED
    BY <1>4, <2>2
<1>8. Framed(s) = t \o <<CR, LF>>
  BY DEF Framed, t
<1>9. Framed(s) \in Seq(Sign)
  BY <1>5, <1>7, <1>8, ConcatProperties
<1>10. ASSUME NEW c \in Sign \ {CR, LF}, s \in Led(c)
       PROVE  Framed(s) \in Led(c)
  <2>1. t # <<>> /\ t[1] = c
    <3>1. 1 <= Len(t) /\ t[1] = c
      BY <1>4, <1>6, <1>7, <1>10
    <3> QED
      BY <3>1
  <2>2. t \o <<CR, LF>> # <<>> /\ (t \o <<CR, LF>>)[1] = t[1]
    BY <1>5, <1>7, <2>1, ConcatLed, Zenon
  <2> QED
    BY <1>8, <1>9, <2>1, <2>2, LedOf
<1> QED
  BY <1>9, <1>10

\* What the first of some texts begins with is what they begin with together.
LEMMA FlattenLed ==
  ASSUME NEW c
  PROVE  \A seqs \in Seq(Seq(Sign)) :
           seqs # <<>> /\ seqs[1] \in Led(c) => FlattenSeq(seqs) \in Led(c)
<1> DEFINE P == {s \in Seq(Seq(Sign)) : s # <<>> /\ s[1] \in Led(c) => FlattenSeq(s) \in Led(c)}
<1>1. <<>> \in P
  OBVIOUS
<1>2. ASSUME NEW s \in P, NEW x \in Seq(Sign) PROVE Append(s, x) \in P
  <2>1. s \in Seq(Seq(Sign)) /\ FlattenSeq(s) \in Seq(Sign)
    BY <1>2, FlattenText
  <2>2. PICK t : t = Append(s, x)
    OBVIOUS
  <2>3. /\ t \in Seq(Seq(Sign)) /\ Len(t) = Len(s) + 1
        /\ t[Len(s) + 1] = x /\ \A i \in 1..Len(s) : t[i] = s[i]
    BY <2>1, <2>2, Appended
  <2>4. FlattenSeq(t) = FlattenSeq(s) \o x
    BY <2>1, <2>2, FlattenAppend
  <2>5. CASE s = <<>>
    <3>1. FlattenSeq(s) = <<>>
      BY <2>5 DEF FlattenSeq
    <3>2. FlattenSeq(t) = x /\ t[1] = x
      <4>1. <<>> \o x = x
        BY ConcatEmptySeq
      <4>2. Len(s) = 0
        BY <2>5
      <4> QED
        BY <2>3, <2>4, <3>1, <4>1, <4>2
    <3> QED
      BY <2>2, <2>3, <3>2
  <2>6. CASE s # <<>>
    <3>1. t[1] = s[1]
      <4>1. 1 \in 1..Len(s)
        BY <2>1, <2>6
      <4> QED
        BY <2>3, <4>1
    <3>2. ASSUME s[1] \in Led(c) PROVE FlattenSeq(t) \in Led(c)
      <4>1. FlattenSeq(s) \in Led(c)
        BY <1>2, <2>6, <3>2
      <4>2. FlattenSeq(s) # <<>> /\ FlattenSeq(s)[1] = c
        BY <4>1 DEF Led
      <4>3. /\ FlattenSeq(s) \o x \in Seq(Sign) /\ FlattenSeq(s) \o x # <<>>
            /\ (FlattenSeq(s) \o x)[1] = FlattenSeq(s)[1]
        BY <2>1, <4>2, ConcatLed
      <4> QED
        BY <2>4, <4>2, <4>3, LedOf
    <3> QED
      BY <2>2, <2>3, <3>1, <3>2
  <2> QED
    BY <2>5, <2>6
<1>3. P \in SUBSET Seq(Seq(Sign))
  OBVIOUS
<1> HIDE DEF P
<1>4. \A s \in Seq(Seq(Sign)) : s \in P
  BY <1>1, <1>2, <1>3, EverySeq
<1> QED
  BY <1>4 DEF P

LEMMA BytesText ==
  ASSUME NEW lines \in Seq(Seq(Sign)), lines # <<>>
  PROVE  \A c \in Sign \ {CR, LF} : lines[1] \in Led(c) => Bytes(lines) \in Led(c)
<1> SUFFICES ASSUME NEW c \in Sign \ {CR, LF}, lines[1] \in Led(c)
             PROVE  Bytes(lines) \in Led(c)
  OBVIOUS
<1> DEFINE framed == [k \in 1..Len(lines) |-> Framed(lines[k])]
<1>1. Len(lines) \in Nat \ {0} /\ \A k \in 1..Len(lines) : lines[k] \in Seq(Sign)
  OBVIOUS
<1>2. \A k \in 1..Len(lines) : Framed(lines[k]) \in Seq(Sign)
  BY <1>1, FramedText
<1>3. framed \in Seq(Seq(Sign)) /\ Len(framed) = Len(lines)
  BY <1>1, <1>2
<1>4. framed[1] = Framed(lines[1]) /\ framed # <<>>
  BY <1>1, <1>3
<1>5. framed[1] \in Led(c)
  <2>1. lines[1] \in Seq(Sign)
    BY <1>1
  <2> QED
    BY <1>4, <2>1, FramedText
<1>6. Bytes(lines) = FlattenSeq(framed)
  BY DEF Bytes
<1> HIDE DEF framed
<1> QED
  BY <1>3, <1>4, <1>5, <1>6, FlattenLed

LEMMA MessageText ==
  ASSUME NEW wording \in Wording
  PROVE  Message(wording) \in Led(wording)
<1>1. wording \in Sign /\ wording \notin {CR, LF}
  BY DEF Sign, Wording, CR, LF
<1>2. <<wording>> \in Led(wording)
  BY <1>1, One DEF Led
<1>3. <<<<wording>>>> \in Seq(Seq(Sign)) /\ <<<<wording>>>> # <<>> /\ <<<<wording>>>>[1] = <<wording>>
  BY <1>2, One DEF Led
<1>4. \A c \in Sign \ {CR, LF} : <<wording>> \in Led(c) => Bytes(<<<<wording>>>>) \in Led(c)
  BY <1>3, BytesText
<1> QED
  BY <1>1, <1>2, <1>4 DEF Message

-------------------------------------------------------------------------------
(* The exchange.                                                           *)

LEMMA EndedLine ==
  ASSUME NEW s \in Line, NEW end \in {<<CR, LF>>, <<LF>>, <<>>}
  PROVE  s \o end \in Line
<1>1. CR \in Char /\ LF \in Char
  BY DEF Char, Blank
<1>2. <<CR, LF>> \in Line /\ <<LF>> \in Line /\ <<>> \in Line
  BY <1>1 DEF Line
<1>3. end \in Line
  BY <1>2
<1> QED
  BY <1>3, ConcatProperties DEF Line

LEMMA TypeStep == TypeOK /\ [Next]_vars => TypeOK'
<1> SUFFICES ASSUME TypeOK, [Next]_vars PROVE TypeOK'
  OBVIOUS
<1>1. CASE Start
  <2>1. options' \in [default_host : Text, allowed_hosts : Seq(Text)]
    BY <1>1, OptionsAssumption DEF Start
  <2> QED
    BY <1>1, <2>1 DEF Start, TypeOK
<1>2. CASE Type
  <2>1. line' \in Seq(Char)
    BY <1>2, PieceAssumption DEF Type, TypeOK
  <2>2. typed' \in 0..MaxPieces
    BY <1>2, PieceAssumption DEF Type, TypeOK
  <2> QED
    BY <1>2, <2>1, <2>2 DEF Type, TypeOK
<1>3. CASE ParseQuery
  <2>1. PICK end \in {<<CR, LF>>, <<LF>>, <<>>} :
          \/ query' = query /\ stage' = "answered"
          \/ /\ Refusal(line \o end) = "none"
             /\ query' = QueryOf(line \o end)
             /\ stage' = "lookup"
    BY <1>3 DEF ParseQuery, Send
  <2>2. line \in Line
    BY DEF TypeOK, Line
  <2>3. line \o end \in Line
    BY <2>2, EndedLine
  <2>4. /\ query'.username \in Seq(Char) /\ query'.host \in Seq(Char) /\ query'.verbose \in BOOLEAN
        /\ query' # NoQuery => /\ Len(query'.username) \in 1..MaxName
                               /\ Within(query'.username, Small \cup {"-", "_"})
    <3>1. CASE query' = query
      BY <3>1 DEF TypeOK
    <3>2. CASE Refusal(line \o end) = "none" /\ query' = QueryOf(line \o end)
      BY <2>3, <3>2, QuerySafe DEF Line
    <3> QED
      BY <2>1, <3>1, <3>2
  <2>5. line' \in Seq(Char) /\ typed' \in 0..MaxPieces
    <3>1. line' = <<>> /\ typed' = 0
      BY <1>3 DEF ParseQuery
    <3> QED
      BY <3>1, PieceAssumption
  <2>6. stage' \in {"answered", "lookup"} /\ UNCHANGED <<options, found>>
    BY <1>3, <2>1 DEF ParseQuery
  <2> QED
    BY <2>4, <2>5, <2>6 DEF TypeOK
<1>4. CASE ChooseHost
  BY <1>4 DEF ChooseHost, Send, TypeOK
<1>5. CASE LoadFails
  BY <1>5 DEF LoadFails, Send, TypeOK
<1>6. CASE LoadUser
  <2>1. PICK profile \in Stored :
          \/ UNCHANGED found
          \/ \E plan \in Plan \cup {NoPlan} : found' = [profile |-> profile, plan |-> plan]
    BY <1>6 DEF LoadUser
  <2>2. /\ found'.profile \in Stored \cup {Nothing.profile}
        /\ found'.plan \in Plan \cup {NoPlan}
    <3>1. CASE UNCHANGED found
      BY <3>1 DEF TypeOK
    <3>2. ASSUME NEW plan \in Plan \cup {NoPlan}, found' = [profile |-> profile, plan |-> plan]
          PROVE  found'.profile = profile /\ found'.plan = plan
      BY <3>2
    <3> QED
      BY <2>1, <3>1, <3>2
  <2>3. stage' = "answered" /\ UNCHANGED <<options, line, typed, query>>
    BY <1>6 DEF LoadUser, Send
  <2> QED
    BY <2>2, <2>3 DEF TypeOK
<1>7. CASE NextConnection
  <2>1. /\ NoQuery.username \in Seq(Char) /\ NoQuery.host \in Seq(Char)
        /\ NoQuery.verbose \in BOOLEAN /\ Nothing.plan = NoPlan
    BY DEF NoQuery, Nothing
  <2> QED
    BY <1>7, <2>1 DEF NextConnection, TypeOK
<1>8. CASE UNCHANGED vars
  BY <1>8 DEF vars, TypeOK
<1> QED
  BY <1>1, <1>2, <1>3, <1>4, <1>5, <1>6, <1>7, <1>8 DEF Next

LEMMA TypeFirst == Init => TypeOK
<1> SUFFICES ASSUME Init PROVE TypeOK
  OBVIOUS
<1>1. <<>> \in Text /\ <<>> \in Seq(Text) /\ <<>> \in Seq(Char)
  BY DEF Text
<1>2. /\ NoQuery.username \in Seq(Char) /\ NoQuery.host \in Seq(Char)
      /\ NoQuery.verbose \in BOOLEAN /\ Nothing.plan = NoPlan
  BY <1>1 DEF NoQuery, Nothing
<1>3. 0 \in 0..MaxPieces
  BY PieceAssumption
<1> QED
  BY <1>1, <1>2, <1>3 DEF Init, TypeOK

\* Whatever clients type, the name that reaches the store is made of lower-case
\* letters, digits, hyphens and underscores and is of a length between 1 and the
\* greatest (identity.rs:32-46, query.rs:37-118).
THEOREM NamesAlwaysSafe == Spec => []TypeOK
<1>1. Init => TypeOK
  BY TypeFirst
<1>2. TypeOK /\ [Next]_vars => TypeOK'
  BY TypeStep
<1> QED
  BY <1>1, <1>2, PTL DEF Spec

\* Whatever the line, of any length, its query and the reason for its refusal are
\* those of the line in lower case (query.rs:68, identity.rs:42 and 82).
THEOREM CaseAlwaysBlind == Spec => []CaseBlind
<1>1. TypeOK => CaseBlind
  <2> SUFFICES ASSUME TypeOK PROVE CaseBlind
    OBVIOUS
  <2>1. line \in Line
    BY DEF TypeOK, Line
  <2>2. line \o <<CR, LF>> \in Line
    BY <2>1, EndedLine
  <2> QED
    BY <2>2, RefusalSame, QuerySame DEF CaseBlind
<1> QED
  BY <1>1, NamesAlwaysSafe, PTL

-------------------------------------------------------------------------------
(* Who is told that its host is not served.                                *)

NotServed == Message("host not served here")

\* As long as no answer has been sent, it is not this one.
MismatchInv == (stage # "answered" => answer # NotServed) /\ MismatchOnlyForeign

LEMMA OtherAnswers ==
  /\ NotServed # <<>>
  /\ \A wording \in {"no matching record", "request refused"} : Message(wording) # NotServed
  /\ \A c \in Wording \ {"host not served here"} : \A bytes \in Led(c) : bytes # NotServed
<1>1. NotServed \in Led("host not served here")
  BY MessageText DEF NotServed, Wording
<1>2. NotServed # <<>> /\ NotServed[1] = "host not served here"
  BY <1>1 DEF Led
<1>3. ASSUME NEW c \in Wording \ {"host not served here"}, NEW bytes \in Led(c)
      PROVE  bytes # NotServed
  BY <1>2 DEF Led
<1>4. \A wording \in {"no matching record", "request refused"} :
        wording \in Wording \ {"host not served here"} /\ Message(wording) \in Led(wording)
  BY MessageText DEF Wording
<1> QED
  BY <1>2, <1>3, <1>4

\* A host that is not in the set is one that was named, and not as it is written
\* anywhere in the options: an entry of white space is the name of no host.
LEMMA HostsWritten ==
  ASSUME NEW o, NEW named,
         (IF named = <<>> THEN NameOf(o.default_host) ELSE named) \notin Hosts(o)
  PROVE  /\ named # <<>>
         /\ \A h \in {o.default_host} \cup Range(o.allowed_hosts) : Lowered(Trim(h)) # named
<1>1. NameOf(o.default_host) \in Hosts(o)
  BY DEF Hosts
<1>2. named # <<>> /\ named \notin Hosts(o)
  BY <1>1
<1>3. ASSUME NEW h \in {o.default_host} \cup Range(o.allowed_hosts) PROVE Lowered(Trim(h)) # named
  <2>1. CASE h \in {o.default_host} \cup Listed(o)
    <3>1. NameOf(h) \in Hosts(o)
      BY <2>1 DEF Hosts
    <3> QED
      BY <1>2, <3>1 DEF NameOf
  <2>2. CASE h \notin {o.default_host} \cup Listed(o)
    <3>1. Trim(h) = <<>>
      BY <1>3, <2>2 DEF Listed
    <3>2. Lowered(<<>>) = <<>>
      BY DEF Lowered
    <3> QED
      BY <1>2, <3>1, <3>2
  <2> QED
    BY <2>1, <2>2
<1> QED
  BY <1>2, <1>3

LEMMA MismatchStep == TypeOK /\ MismatchInv /\ [Next]_vars => MismatchInv'
<1> SUFFICES ASSUME TypeOK, MismatchInv, [Next]_vars PROVE MismatchInv'
  OBVIOUS
\* Another answer, or none where there was none, disturbs nothing.
<1>1. answer' # NotServed => MismatchInv'
  BY DEF MismatchInv, MismatchOnlyForeign, NotServed
<1>2. CASE Start
  BY <1>1, <1>2 DEF Start, MismatchInv
<1>3. CASE Type
  BY <1>1, <1>3 DEF Type, MismatchInv
<1>4. CASE ParseQuery
  <2>1. answer' = Message("request refused") \/ (answer' = answer /\ stage = "reading")
    BY <1>4 DEF ParseQuery, Send
  <2> QED
    BY <1>1, <2>1, OtherAnswers DEF MismatchInv
<1>5. CASE ChooseHost
  <2> DEFINE host == IF query.host = <<>> THEN NameOf(options.default_host) ELSE query.host
  <2>1. CASE host \notin Hosts(options) /\ stage' = "answered"
    <3>1. /\ query.host # <<>>
          /\ \A h \in {options.default_host} \cup Range(options.allowed_hosts) :
               Lowered(Trim(h)) # query.host
      BY <2>1, HostsWritten
    <3>2. UNCHANGED <<options, query>>
      BY <1>5 DEF ChooseHost
    <3> QED
      BY <2>1, <3>1, <3>2 DEF MismatchInv, MismatchOnlyForeign
  <2>2. CASE answer' = answer /\ stage = "lookup"
    BY <1>1, <2>2 DEF MismatchInv
  <2> QED
    BY <1>5, <2>1, <2>2 DEF ChooseHost, Send
<1>6. CASE LoadFails
  BY <1>1, <1>6, OtherAnswers DEF LoadFails, Send
<1>7. CASE LoadUser
  <2>1. PICK profile \in Stored :
          \/ answer' = Message("request refused")
          \/ /\ ProfileError(query.username, profile) = "none"
             /\ \E plan \in (IF query.verbose THEN Plan ELSE {}) \cup {NoPlan} :
                  answer' = Bytes(Render(query.username, profile, query.verbose, plan))
    BY <1>7 DEF LoadUser, Send
  <2>2. ASSUME ProfileError(query.username, profile) = "none",
               NEW plan \in (IF query.verbose THEN Plan ELSE {}) \cup {NoPlan}
        PROVE  Bytes(Render(query.username, profile, query.verbose, plan)) \in Led("User: ")
    <3>1. /\ query.username \in Seq(Char) /\ query.verbose \in BOOLEAN
          /\ profile \in Document /\ plan \in Text \cup {NoPlan}
      BY StoredAssumption DEF TypeOK
    <3>2. LET lines == Render(query.username, profile, query.verbose, plan)
          IN  lines \in Seq(Seq(Sign)) /\ lines # <<>> /\ lines[1] \in Led("User: ")
      BY <2>2, <3>1, RenderText
    <3>3. "User: " \in Sign \ {CR, LF}
      BY DEF Sign, Wording, CR, LF
    <3> QED
      BY <3>2, <3>3, BytesText
  <2>3. "User: " \in Wording \ {"host not served here"}
    BY DEF Wording
  <2>4. answer' # NotServed
    BY <2>1, <2>2, <2>3, OtherAnswers
  <2> QED
    BY <1>1, <2>4
<1>8. CASE NextConnection
  BY <1>1, <1>8, OtherAnswers DEF NextConnection
<1>9. CASE UNCHANGED vars
  BY <1>9 DEF vars, MismatchInv, MismatchOnlyForeign, NotServed
<1> QED
  BY <1>2, <1>3, <1>4, <1>5, <1>6, <1>7, <1>8, <1>9 DEF Next

\* A client is told that its host is not served only if it named one, and one that
\* the operator has written down in no spelling: neither a refusal nor a profile is
\* ever answered in those bytes (config.rs:85-92, 168-181; server.rs:139-178).
THEOREM MismatchAlwaysForeign == Spec => []MismatchOnlyForeign
<1>1. Init => MismatchInv
  BY OtherAnswers DEF Init, MismatchInv, MismatchOnlyForeign, NotServed
<1>2. TypeOK /\ MismatchInv /\ [Next]_vars => MismatchInv'
  BY MismatchStep
<1>3. MismatchInv => MismatchOnlyForeign
  BY DEF MismatchInv
<1> QED
  BY <1>1, <1>2, <1>3, NamesAlwaysSafe, PTL DEF Spec

-------------------------------------------------------------------------------
(* Pieces of a line, by their places.                                      *)

LEMMA CharKinds ==
  /\ CR \in Blank /\ LF \in Blank /\ CR # Bad /\ LF # Bad
  /\ \A c \in NameChar \cup LabelChar \cup Mark :
       c \in Char /\ c \notin Blank /\ c \notin Control /\ c # Bad
<1>1. CR \in Blank /\ LF \in Blank /\ Bad \notin Blank
  BY CharAssumption DEF Blank
<1>2. NameChar \cup LabelChar \cup Mark \subseteq Letter \cup Mark
  BY DEF NameChar, LabelChar, Mark
<1>3. \A c \in Letter \cup Mark : c \in Char /\ c \notin Blank /\ c \notin Control /\ c # Bad
  BY CharAssumption DEF Char
<1> QED
  BY <1>1, <1>2, <1>3

LEMMA PieceWithin ==
  ASSUME NEW s \in Line, NEW a \in Nat \ {0}, NEW b \in 0..Len(s), NEW C
  PROVE  Within(SubSeq(s, a, b), C) <=> \A x \in a..b : s[x] \in C
<1> DEFINE p == SubSeq(s, a, b)
<1>1. /\ Len(p) = IF a <= b THEN b - a + 1 ELSE 0
      /\ \A i \in 1..(b - a + 1) : p[i] = s[a + i - 1]
  BY Cut
<1> HIDE DEF p
<1>2. b \in Int /\ a \in Int
  BY DEF Line
<1>3. ASSUME Within(p, C), NEW x \in a..b PROVE s[x] \in C
  <2>1. x - a + 1 \in 1..Len(p) /\ x - a + 1 \in 1..(b - a + 1) /\ a + (x - a + 1) - 1 = x
    BY <1>1, <1>2
  <2> QED
    BY <1>1, <1>3, <2>1 DEF Within
<1>4. ASSUME \A x \in a..b : s[x] \in C, NEW i \in 1..Len(p) PROVE p[i] \in C
  <2>1. i \in 1..(b - a + 1) /\ a + i - 1 \in a..b
    BY <1>1, <1>2
  <2> QED
    BY <1>1, <1>4, <2>1
<1> QED
  BY <1>3, <1>4 DEF Within, p

LEMMA PieceOfPiece ==
  ASSUME NEW s \in Line, NEW a \in Nat \ {0}, NEW b \in 0..Len(s), a <= b + 1,
         NEW p \in Nat \ {0}, NEW q \in 0..(b - a + 1)
  PROVE  SubSeq(SubSeq(s, a, b), p, q) = SubSeq(s, a + p - 1, a + q - 1)
<1> DEFINE t == SubSeq(s, a, b)
           u == SubSeq(t, p, q)
           v == SubSeq(s, a + p - 1, a + q - 1)
<1>0. a \in Int /\ b \in Int /\ p \in Int /\ q \in Int /\ Len(s) \in Nat /\ b <= Len(s)
  BY DEF Line
<1>1. /\ t \in Line /\ Len(t) = b - a + 1
      /\ \A i \in 1..(b - a + 1) : t[i] = s[a + i - 1]
  <2>1. (IF a <= b THEN b - a + 1 ELSE 0) = b - a + 1
    BY <1>0
  <2> QED
    BY <2>1, Cut
<1>2. a + p - 1 \in Nat \ {0} /\ a + q - 1 \in 0..Len(s)
  BY <1>0
<1>3. /\ v \in Line /\ Len(v) = IF a + p - 1 <= a + q - 1 THEN (a + q - 1) - (a + p - 1) + 1 ELSE 0
      /\ \A i \in 1..((a + q - 1) - (a + p - 1) + 1) : v[i] = s[(a + p - 1) + i - 1]
  BY <1>2, Cut
<1>4. q \in 0..Len(t)
  BY <1>0, <1>1
<1> HIDE DEF t
<1>5. /\ u \in Line /\ Len(u) = IF p <= q THEN q - p + 1 ELSE 0
      /\ \A i \in 1..(q - p + 1) : u[i] = t[p + i - 1]
  BY <1>1, <1>4, Cut
<1> HIDE DEF u, v
<1>6. Len(u) = Len(v)
  BY <1>0, <1>3, <1>5
<1>7. ASSUME NEW i \in 1..Len(u) PROVE u[i] = v[i]
  <2>1. i \in 1..(q - p + 1) /\ p + i - 1 \in 1..(b - a + 1)
    BY <1>0, <1>5
  <2>2. u[i] = t[p + i - 1] /\ t[p + i - 1] = s[a + (p + i - 1) - 1]
    BY <1>1, <1>5, <2>1
  <2>3. i \in 1..((a + q - 1) - (a + p - 1) + 1) /\ a + (p + i - 1) - 1 = (a + p - 1) + i - 1
    BY <1>0, <2>1
  <2> QED
    BY <1>3, <2>2, <2>3
<1>8. u = v
  BY <1>3, <1>5, <1>6, <1>7, SeqEqual DEF Line
<1> QED
  BY <1>8 DEF t, u, v

\* Where the parser finds a mark in a piece of a line, and what it cuts there.
\* Between a and b, c is first at f; f is b + 1 where there is none.
FirstAt(s, a, b, c, f) ==
  /\ a \in Nat \ {0} /\ b \in 0..Len(s) /\ a <= b + 1
  /\ f \in a..(b + 1) /\ (f = b + 1 \/ s[f] = c)
  /\ \A x \in a..(f - 1) : s[x] # c

LEMMA MarkAt ==
  ASSUME NEW s \in Line, NEW a, NEW b, NEW c, NEW f, FirstAt(s, a, b, c, f)
  PROVE  /\ Before(SubSeq(s, a, b), c) = SubSeq(s, a, f - 1)
         /\ After(SubSeq(s, a, b), c) = SubSeq(s, f + 1, b)
<1> SUFFICES ASSUME a \in Nat \ {0}, b \in 0..Len(s), a <= b + 1,
                    f \in a..(b + 1), f = b + 1 \/ s[f] = c, \A x \in a..(f - 1) : s[x] # c
             PROVE  /\ Before(SubSeq(s, a, b), c) = SubSeq(s, a, f - 1)
                    /\ After(SubSeq(s, a, b), c) = SubSeq(s, f + 1, b)
  BY DEF FirstAt
<1> DEFINE t == SubSeq(s, a, b)
           S == {i \in 1..Len(t) : t[i] = c} \cup {Len(t) + 1}
<1>0. a \in Int /\ b \in Int /\ f \in Int /\ Len(s) \in Nat /\ b <= Len(s) /\ a >= 1 /\ f >= 1
  BY DEF Line
<1>1. /\ t \in Line /\ Len(t) = b - a + 1
      /\ \A i \in 1..(b - a + 1) : t[i] = s[a + i - 1]
  <2>1. (IF a <= b THEN b - a + 1 ELSE 0) = b - a + 1
    BY <1>0
  <2> QED
    BY <2>1, Cut
<1> HIDE DEF t
<1>2. f - a + 1 \in S
  <2>1. CASE f = b + 1
    BY <1>0, <1>1, <2>1
  <2>2. CASE f # b + 1
    <3>1. f - a + 1 \in 1..(b - a + 1) /\ a + (f - a + 1) - 1 = f
      BY <1>0, <2>2
    <3> QED
      BY <1>1, <2>2, <3>1
  <2> QED
    BY <2>1, <2>2
<1>3. ASSUME NEW y \in S PROVE f - a + 1 <= y
  <2>1. CASE y = Len(t) + 1
    BY <1>0, <1>1, <2>1
  <2>2. CASE y \in 1..Len(t) /\ t[y] = c
    <3>1. a + y - 1 \in Int /\ s[a + y - 1] = c /\ a + y - 1 >= a
      BY <1>0, <1>1, <2>2
    <3>2. a + y - 1 \notin a..(f - 1)
      BY <3>1
    <3> QED
      BY <1>0, <1>1, <2>2, <3>1, <3>2
  <2> QED
    BY <2>1, <2>2
<1>4. S \in SUBSET Nat /\ S # {}
  BY <1>0, <1>1
<1>5. Min(S) \in S /\ \A y \in S : Min(S) <= y
  BY <1>4, MinOf
<1>6. Min(S) = f - a + 1
  <2>1. Min(S) \in Nat /\ Min(S) <= f - a + 1 /\ f - a + 1 <= Min(S)
    BY <1>2, <1>3, <1>4, <1>5
  <2> QED
    BY <1>0, <2>1
<1>7. Find(t, c) = f - a + 1
  BY <1>6 DEF Find
<1>8. Before(t, c) = SubSeq(s, a, f - 1)
  <2>1. (f - a + 1) - 1 \in 0..(b - a + 1) /\ a + 1 - 1 = a /\ a + ((f - a + 1) - 1) - 1 = f - 1
    BY <1>0
  <2>2. SubSeq(t, 1, (f - a + 1) - 1) = SubSeq(s, a + 1 - 1, a + ((f - a + 1) - 1) - 1)
    BY <2>1, PieceOfPiece DEF t
  <2> QED
    BY <1>7, <2>1, <2>2 DEF Before
<1>9. After(t, c) = SubSeq(s, f + 1, b)
  <2>1. /\ (f - a + 1) + 1 \in Nat \ {0} /\ b - a + 1 \in 0..(b - a + 1)
        /\ a + ((f - a + 1) + 1) - 1 = f + 1 /\ a + (b - a + 1) - 1 = b
    BY <1>0
  <2>2. SubSeq(t, (f - a + 1) + 1, b - a + 1) = SubSeq(s, a + ((f - a + 1) + 1) - 1, a + (b - a + 1) - 1)
    BY <2>1, PieceOfPiece DEF t
  <2> QED
    BY <1>1, <1>7, <2>1, <2>2 DEF After
<1> QED
  BY <1>8, <1>9 DEF t

\* There is such a place.
LEMMA MarkSomewhere ==
  ASSUME NEW s \in Line, NEW a \in Nat \ {0}, NEW b \in 0..Len(s), a <= b + 1, NEW c
  PROVE  \E f \in a..(b + 1) : FirstAt(s, a, b, c, f)
<1> DEFINE S == {f \in a..(b + 1) : f = b + 1 \/ s[f] = c}
<1>0. a \in Int /\ b \in Int
  BY DEF Line
<1>1. S \in SUBSET Nat /\ b + 1 \in S
  BY <1>0
<1>2. Min(S) \in S /\ \A y \in S : Min(S) <= y
  BY <1>1, MinOf
<1>3. PICK f \in S : \A y \in S : f <= y
  BY <1>2
<1>4. \A x \in a..(f - 1) : s[x] # c
  <2> TAKE x \in a..(f - 1)
  <2>1. x \in a..(b + 1) /\ ~(f <= x)
    BY <1>0, <1>3
  <2> QED
    BY <1>3, <2>1
<1> QED
  BY <1>3, <1>4 DEF FirstAt

-------------------------------------------------------------------------------
(* Names without white space around them.                                  *)

LEMMA TrimNone ==
  ASSUME NEW s \in Line, \A i \in 1..Len(s) : s[i] \notin Blank
  PROVE  Trim(s) = s
<1> DEFINE inner == {i \in 1..Len(s) : s[i] \notin Blank}
<1>1. Len(s) \in Nat /\ inner = 1..Len(s)
  BY DEF Line
<1>2. CASE Len(s) = 0
  <2>1. s = <<>> /\ inner = {}
    BY <1>1, <1>2 DEF Line
  <2> QED
    BY <2>1 DEF Trim
<1>3. CASE Len(s) # 0
  <2>1. inner \in SUBSET Nat /\ inner \in SUBSET (0..Len(s)) /\ inner # {}
    BY <1>1, <1>3
  <2>2. Min(inner) \in inner /\ \A y \in inner : Min(inner) <= y
    BY <2>1, MinOf
  <2>3. Max(inner) \in inner /\ \A y \in inner : y <= Max(inner)
    BY <1>1, <2>1, MaxOf
  <2>4. Min(inner) = 1 /\ Max(inner) = Len(s)
    <3>1. 1 \in inner /\ Len(s) \in inner
      BY <1>1, <1>3
    <3> HIDE DEF inner
    <3>2. Min(inner) \in 1..Len(s) /\ Max(inner) \in 1..Len(s)
      BY <1>1, <2>2, <2>3
    <3>3. Min(inner) <= 1 /\ Len(s) <= Max(inner)
      BY <2>2, <2>3, <3>1
    <3> QED
      BY <1>1, <3>2, <3>3
  <2>5. Trim(s) = SubSeq(s, 1, Len(s))
    BY <2>1, <2>4 DEF Trim
  <2> QED
    BY <2>5, SubSeqFull DEF Line
<1> QED
  BY <1>2, <1>3

LEMMA UsernameName ==
  ASSUME NEW s \in Line, \A i \in 1..Len(s) : s[i] \notin Blank
  PROVE  IsUsername(s) <=> Name(s)
BY TrimNone DEF IsUsername, Name

\* The dots of a host, and its ends.
Cuts(h) == {0, Len(h) + 1} \cup {i \in 1..Len(h) : h[i] = "."}

\* p and q are next to each other.
Between(h, p, q) == /\ p \in Cuts(h) /\ q \in Cuts(h) /\ p < q
                    /\ \A i \in Cuts(h) : ~(p < i /\ i < q)

LEMMA LabelsBetween ==
  ASSUME NEW h
  PROVE  \A l : l \in Labels(h) <=> \E p, q : Between(h, p, q) /\ l = SubSeq(h, p + 1, q - 1)
<1> DEFINE Gaps == {q \in Cuts(h) \X Cuts(h) :
                      q[1] < q[2] /\ \A i \in Cuts(h) : ~(q[1] < i /\ i < q[2])}
<1>1. Labels(h) = {SubSeq(h, p[1] + 1, p[2] - 1) : p \in Gaps}
  BY DEF Labels, Cuts
<1>2. ASSUME NEW p, NEW q, Between(h, p, q) PROVE <<p, q>> \in Gaps
  BY <1>2 DEF Between
<1>3. ASSUME NEW g \in Gaps PROVE Between(h, g[1], g[2])
  BY DEF Between
<1> HIDE DEF Gaps
<1>4. ASSUME NEW p, NEW q, Between(h, p, q) PROVE SubSeq(h, p + 1, q - 1) \in Labels(h)
  <2>1. <<p, q>> \in Gaps /\ <<p, q>>[1] = p /\ <<p, q>>[2] = q
    BY <1>2, <1>4
  <2> QED
    BY <1>1, <2>1
<1>5. ASSUME NEW l \in Labels(h)
      PROVE  \E p, q : Between(h, p, q) /\ l = SubSeq(h, p + 1, q - 1)
  <2>1. PICK g \in Gaps : l = SubSeq(h, g[1] + 1, g[2] - 1)
    BY <1>1
  <2> QED
    BY <1>3, <2>1
<1> QED
  BY <1>4, <1>5

\* A place that is no dot lies between two that are next to each other.
LEMMA Enclosed ==
  ASSUME NEW h \in Line, NEW x \in 1..Len(h), h[x] # "."
  PROVE  \E p, q \in Cuts(h) : Between(h, p, q) /\ p < x /\ x < q
<1> DEFINE L == {i \in Cuts(h) : i < x}
           R == {i \in Cuts(h) : x < i}
<1>1. Len(h) \in Nat /\ x \notin Cuts(h) /\ Cuts(h) \subseteq 0..(Len(h) + 1)
      /\ 0 \in Cuts(h) /\ Len(h) + 1 \in Cuts(h)
  BY DEF Line, Cuts
<1>2. L \in SUBSET (0..(Len(h) + 1)) /\ L # {} /\ R \in SUBSET Nat /\ R # {} /\ Len(h) + 1 \in Nat
  BY <1>1
<1>3. Max(L) \in L /\ \A y \in L : y <= Max(L)
  BY <1>2, MaxOf
<1>4. Min(R) \in R /\ \A y \in R : Min(R) <= y
  BY <1>2, MinOf
<1>5. PICK p \in L : \A y \in L : y <= p
  BY <1>3
<1>6. PICK q \in R : \A y \in R : q <= y
  BY <1>4
<1>7. ASSUME NEW i \in Cuts(h) PROVE ~(p < i /\ i < q)
  <2>1. i \in Int /\ i # x /\ p \in Int /\ q \in Int
    BY <1>1, <1>2, <1>5, <1>6
  <2>2. (i < x => i <= p) /\ (x < i => q <= i)
    BY <1>5, <1>6
  <2> QED
    BY <2>1, <2>2
<1>8. p \in Cuts(h) /\ q \in Cuts(h) /\ p < x /\ x < q /\ p < q
  BY <1>1, <1>2, <1>5, <1>6
<1> QED
  BY <1>7, <1>8 DEF Between

\* A label, by the places of the host.
LEMMA LabelAt ==
  ASSUME NEW h \in Line, NEW p, NEW q, Between(h, p, q)
  PROVE  /\ p \in 0..Len(h) /\ q \in 1..(Len(h) + 1)
         /\ IsLabel(SubSeq(h, p + 1, q - 1)) <=>
              /\ p + 1 < q
              /\ h[p + 1] # "-" /\ h[q - 1] # "-"
              /\ \A x \in (p + 1)..(q - 1) : h[x] \in LabelChar
<1> DEFINE l == SubSeq(h, p + 1, q - 1)
<1>1. p \in 0..Len(h) /\ q \in 1..(Len(h) + 1) /\ p < q /\ Len(h) \in Nat
  BY DEF Between, Cuts, Line
<1>2. p + 1 \in Nat \ {0} /\ q - 1 \in 0..Len(h)
  BY <1>1
<1>3. /\ l \in Line
      /\ Len(l) = IF p + 1 <= q - 1 THEN (q - 1) - (p + 1) + 1 ELSE 0
      /\ \A i \in 1..((q - 1) - (p + 1) + 1) : l[i] = h[(p + 1) + i - 1]
  BY <1>2, Cut
<1>4. Within(l, LabelChar) <=> \A x \in (p + 1)..(q - 1) : h[x] \in LabelChar
  BY <1>2, PieceWithin
<1> HIDE DEF l
<1>5. l = <<>> <=> Len(l) = 0
  BY <1>3 DEF Line
<1>6. l # <<>> <=> p + 1 < q
  BY <1>1, <1>3, <1>5
<1>7. p + 1 < q => l[1] = h[p + 1] /\ l[Len(l)] = h[q - 1]
  <2> SUFFICES ASSUME p + 1 < q PROVE l[1] = h[p + 1] /\ l[Len(l)] = h[q - 1]
    OBVIOUS
  <2>1. Len(l) = (q - 1) - (p + 1) + 1 /\ 1 \in 1..Len(l) /\ Len(l) \in 1..Len(l)
    BY <1>1, <1>3
  <2>2. (p + 1) + 1 - 1 = p + 1 /\ (p + 1) + Len(l) - 1 = q - 1
    BY <1>1, <2>1
  <2> QED
    BY <1>3, <2>1, <2>2
<1> QED
  BY <1>1, <1>4, <1>6, <1>7 DEF IsLabel, l

\* What Host asks of the marks in a text.
Spaced(h) ==
  \A i \in 1..Len(h) : h[i] \in {"-", "."} =>
    i # 1 /\ i # Len(h) /\ h[i - 1] # "." /\ h[i + 1] # "."

LEMMA HostSpaced ==
  ASSUME NEW h
  PROVE  Host(h) <=> Len(h) \in 1..MaxHost /\ Within(h, LabelChar \cup {"."}) /\ Spaced(h)
<1>1. ASSUME NEW i \in 1..Len(h), h[i] \in {"-", "."}
      PROVE  "." \notin {h[j] : j \in {k \in {i - 1, i + 1} : h[i] = "." \/ h[i] = "-"}}
               <=> h[i - 1] # "." /\ h[i + 1] # "."
  <2>1. {k \in {i - 1, i + 1} : h[i] = "." \/ h[i] = "-"} = {i - 1, i + 1}
    BY <1>1
  <2> QED
    BY <2>1
<1> QED
  BY <1>1 DEF Host, Spaced

LEMMA LabelsSpaced ==
  ASSUME NEW h \in Line, Len(h) # 0
  PROVE  (\A l \in Labels(h) : IsLabel(l)) <=> Within(h, LabelChar \cup {"."}) /\ Spaced(h)
<1>0. Len(h) \in Nat /\ "." \notin LabelChar
  <2>1. "." \in Mark
    BY DEF Mark
  <2>2. "." \notin Letter
    BY <2>1, CharAssumption
  <2> QED
    BY <2>2 DEF Line, LabelChar
<1>1. (\A l \in Labels(h) : IsLabel(l)) <=>
        \A p, q : Between(h, p, q) => IsLabel(SubSeq(h, p + 1, q - 1))
  <2>1. ASSUME \A l \in Labels(h) : IsLabel(l), NEW p, NEW q, Between(h, p, q)
        PROVE  IsLabel(SubSeq(h, p + 1, q - 1))
    <3>1. SubSeq(h, p + 1, q - 1) \in Labels(h)
      BY <2>1, LabelsBetween
    <3> QED
      BY <2>1, <3>1
  <2>2. ASSUME \A p, q : Between(h, p, q) => IsLabel(SubSeq(h, p + 1, q - 1)), NEW l \in Labels(h)
        PROVE  IsLabel(l)
    <3>1. PICK p, q : Between(h, p, q) /\ l = SubSeq(h, p + 1, q - 1)
      BY LabelsBetween
    <3> QED
      BY <2>2, <3>1
  <2> QED
    BY <2>1, <2>2
<1>2. ASSUME Within(h, LabelChar \cup {"."}), Spaced(h), NEW p, NEW q, Between(h, p, q)
      PROVE  IsLabel(SubSeq(h, p + 1, q - 1))
  <2>1. /\ p \in 0..Len(h) /\ q \in 1..(Len(h) + 1) /\ p < q
        /\ p # 0 => h[p] = "."
        /\ q # Len(h) + 1 => h[q] = "."
        /\ \A x \in (p + 1)..(q - 1) : x \in 1..Len(h) /\ h[x] # "."
    <3>1. p \in 0..Len(h) /\ q \in 1..(Len(h) + 1) /\ p < q
      BY <1>2, LabelAt DEF Between
    <3>2. (p # 0 => h[p] = ".") /\ (q # Len(h) + 1 => h[q] = ".")
      BY <1>0, <1>2, <3>1 DEF Between, Cuts
    <3>3. ASSUME NEW x \in (p + 1)..(q - 1) PROVE x \in 1..Len(h) /\ h[x] # "."
      <4>1. x \in 1..Len(h) /\ p < x /\ x < q
        BY <1>0, <3>1
      <4> QED
        BY <1>2, <4>1 DEF Between, Cuts
    <3> QED
      BY <3>1, <3>2, <3>3
  <2>2. p + 1 < q
    <3> SUFFICES ASSUME q = p + 1 PROVE FALSE
      BY <1>0, <2>1
    <3>1. CASE p = 0
      <4>1. h[1] = "." /\ 1 \in 1..Len(h)
        BY <1>0, <2>1, <3>1
      <4> QED
        BY <1>2, <4>1 DEF Spaced
    <3>2. CASE p # 0
      <4>1. h[p] = "." /\ p \in 1..Len(h)
        BY <1>0, <2>1, <3>2
      <4>2. p # Len(h) /\ h[p + 1] # "."
        BY <1>2, <4>1 DEF Spaced
      <4> QED
        BY <1>0, <2>1, <4>1, <4>2
    <3> QED
      BY <3>1, <3>2
  <2>3. h[p + 1] # "-"
    <3> SUFFICES ASSUME h[p + 1] = "-" PROVE FALSE
      OBVIOUS
    <3>1. p + 1 \in 1..Len(h) /\ (p + 1) - 1 = p
      BY <1>0, <2>1, <2>2
    <3>2. p + 1 # 1 /\ h[(p + 1) - 1] # "."
      BY <1>2, <3>1 DEF Spaced
    <3> QED
      BY <2>1, <3>1, <3>2
  <2>4. h[q - 1] # "-"
    <3> SUFFICES ASSUME h[q - 1] = "-" PROVE FALSE
      OBVIOUS
    <3>1. q - 1 \in 1..Len(h) /\ (q - 1) + 1 = q
      BY <1>0, <2>1, <2>2
    <3>2. q - 1 # Len(h) /\ h[(q - 1) + 1] # "."
      BY <1>2, <3>1 DEF Spaced
    <3> QED
      BY <1>0, <2>1, <3>1, <3>2
  <2>5. \A x \in (p + 1)..(q - 1) : h[x] \in LabelChar
    BY <1>2, <2>1 DEF Within
  <2> QED
    BY <1>2, <2>2, <2>3, <2>4, <2>5, LabelAt
<1>3. ASSUME \A p, q : Between(h, p, q) => IsLabel(SubSeq(h, p + 1, q - 1))
      PROVE  Within(h, LabelChar \cup {"."}) /\ Spaced(h)
  <2>1. ASSUME NEW p, NEW q, Between(h, p, q)
        PROVE  /\ p + 1 < q /\ h[p + 1] # "-" /\ h[q - 1] # "-"
               /\ \A x \in (p + 1)..(q - 1) : h[x] \in LabelChar
    BY <1>3, <2>1, LabelAt
  <2>2. ASSUME NEW x \in 1..Len(h), h[x] # "." PROVE h[x] \in LabelChar
    <3>1. PICK p, q \in Cuts(h) : Between(h, p, q) /\ p < x /\ x < q
      BY <2>2, Enclosed
    <3>2. x \in (p + 1)..(q - 1)
      BY <1>0, <3>1 DEF Cuts
    <3> QED
      BY <2>1, <3>1, <3>2
  <2>3. ASSUME NEW x \in Cuts(h), x + 1 \in Cuts(h) PROVE FALSE
    <3>1. Between(h, x, x + 1)
      BY <1>0, <2>3 DEF Between, Cuts
    <3> QED
      BY <1>0, <2>1, <3>1 DEF Cuts
  <2>4. ASSUME NEW x \in 1..Len(h), h[x] = "."
        PROVE  x # 1 /\ x # Len(h) /\ h[x - 1] # "." /\ h[x + 1] # "."
    <3>0. x \in Cuts(h) /\ 0 \in Cuts(h) /\ Len(h) + 1 \in Cuts(h) /\ x \in Int
      BY <2>4 DEF Cuts
    <3>1. x # 1
      <4>1. x = 1 => 0 + 1 = x
        OBVIOUS
      <4> QED
        BY <2>3, <3>0, <4>1
    <3>2. x # Len(h)
      BY <2>3, <3>0
    <3>3. h[x - 1] # "."
      <4>1. x - 1 \in 1..Len(h) /\ (x - 1) + 1 = x
        BY <1>0, <3>0, <3>1
      <4>2. h[x - 1] = "." => x - 1 \in Cuts(h)
        BY <4>1 DEF Cuts
      <4> QED
        BY <2>3, <3>0, <4>1, <4>2
    <3>4. h[x + 1] # "."
      <4>1. x + 1 \in 1..Len(h)
        BY <1>0, <3>0, <3>2
      <4>2. h[x + 1] = "." => x + 1 \in Cuts(h)
        BY <4>1 DEF Cuts
      <4> QED
        BY <2>3, <3>0, <4>2
    <3> QED
      BY <3>1, <3>2, <3>3, <3>4
  <2>5. ASSUME NEW x \in 1..Len(h), h[x] = "-"
        PROVE  x # 1 /\ x # Len(h) /\ h[x - 1] # "." /\ h[x + 1] # "."
    <3>1. PICK p, q \in Cuts(h) : Between(h, p, q) /\ p < x /\ x < q
      BY <2>5, Enclosed
    <3>2. p + 1 # x /\ q - 1 # x
      BY <2>1, <2>5, <3>1
    <3>3. p \in 0..(x - 2) /\ q \in (x + 2)..(Len(h) + 1) /\ \A i \in Cuts(h) : ~(p < i /\ i < q)
      BY <1>0, <3>1, <3>2 DEF Between, Cuts
    <3>4. x # 1 /\ x # Len(h) /\ x - 1 \in 1..Len(h) /\ x + 1 \in 1..Len(h)
      BY <1>0, <3>3
    <3>5. x - 1 \notin Cuts(h) /\ x + 1 \notin Cuts(h)
      <4>1. p < x - 1 /\ x - 1 < q /\ p < x + 1 /\ x + 1 < q
        BY <1>0, <3>3
      <4> QED
        BY <3>3, <4>1
    <3> QED
      BY <3>4, <3>5 DEF Cuts
  <2>6. Within(h, LabelChar \cup {"."})
    BY <2>2 DEF Within
  <2>7. Spaced(h)
    BY <2>4, <2>5 DEF Spaced
  <2> QED
    BY <2>6, <2>7
<1> QED
  BY <1>1, <1>2, <1>3

LEMMA HostNameHost ==
  ASSUME NEW h \in Line, \A i \in 1..Len(h) : h[i] \notin Blank
  PROVE  IsHostName(h) <=> Host(h)
<1>1. Trim(h) = h
  BY TrimNone
<1>2. Len(h) \in 1..MaxHost => Len(h) # 0
  OBVIOUS
<1> QED
  BY <1>1, <1>2, HostSpaced, LabelsSpaced DEF IsHostName

-------------------------------------------------------------------------------
(* The tokens of a line, by their places.                                  *)

\* A token stands between i and e, both included.
Stands(s, i, e) == /\ i \in 1..Len(s) /\ e \in i..Len(s)
                   /\ i > 1 => s[i - 1] \in Blank
                   /\ \A x \in i..e : s[x] \notin Blank
                   /\ e = Len(s) \/ s[e + 1] \in Blank

LEMMA TokenStands ==
  ASSUME NEW s \in Line
  PROVE  /\ \A i, e : Stands(s, i, e) => i \in Starts(s) /\ Token(s, i) = SubSeq(s, i, e)
         /\ \A i \in Starts(s) : \E e \in 1..Len(s) : Stands(s, i, e)
<1>0. Len(s) \in Nat
  BY DEF Line
<1> DEFINE S(i) == {j \in i..Len(s) : j = Len(s) \/ s[j + 1] \in Blank}
<1>1. ASSUME NEW i, NEW e, Stands(s, i, e)
      PROVE  i \in Starts(s) /\ Token(s, i) = SubSeq(s, i, e)
  <2>0. i \in 1..Len(s) /\ e \in i..Len(s)
    BY <1>1 DEF Stands
  <2>1. i \in Starts(s)
    <3>1. s[i] \notin Blank /\ (i > 1 => s[i - 1] \in Blank)
      BY <1>0, <1>1, <2>0 DEF Stands
    <3> QED
      BY <2>0, <3>1 DEF Starts
  <2>2. S(i) \in SUBSET Nat /\ e \in S(i)
    BY <1>0, <1>1, <2>0 DEF Stands
  <2>3. ASSUME NEW y \in S(i) PROVE e <= y
    <3> SUFFICES ASSUME y < e PROVE FALSE
      BY <1>0, <2>0
    <3>1. y + 1 \in i..e /\ y # Len(s) /\ s[y + 1] \in Blank
      BY <1>0, <2>0
    <3> QED
      BY <1>1, <3>1 DEF Stands
  <2>4. Min(S(i)) \in S(i) /\ \A y \in S(i) : Min(S(i)) <= y
    BY <2>2, MinOf
  <2>5. Min(S(i)) = e
    <3>1. Min(S(i)) \in Nat /\ e \in Nat /\ e <= Min(S(i)) /\ Min(S(i)) <= e
      BY <2>2, <2>3, <2>4
    <3> QED
      BY <3>1
  <2> QED
    BY <2>1, <2>5 DEF Token
<1>2. ASSUME NEW i \in Starts(s) PROVE \E e \in 1..Len(s) : Stands(s, i, e)
  <2>1. i \in 1..Len(s) /\ s[i] \notin Blank /\ (i > 1 => s[i - 1] \in Blank)
    BY DEF Starts
  <2>2. S(i) \in SUBSET Nat /\ Len(s) \in S(i)
    BY <1>0, <2>1
  <2>3. Min(S(i)) \in S(i) /\ \A y \in S(i) : Min(S(i)) <= y
    BY <2>2, MinOf
  <2>4. PICK e \in S(i) : \A y \in S(i) : e <= y
    BY <2>3
  <2>5. ASSUME NEW x \in i..e PROVE s[x] \notin Blank
    <3>1. CASE x = i
      BY <2>1, <3>1
    <3>2. CASE x # i
      <4>1. x - 1 \in i..Len(s) /\ x - 1 < e /\ (x - 1) + 1 = x /\ x - 1 # Len(s)
        BY <1>0, <2>1, <2>4, <3>2
      <4>2. x - 1 \notin S(i)
        BY <1>0, <2>4, <4>1
      <4> QED
        BY <4>1, <4>2
    <3> QED
      BY <3>1, <3>2
  <2>6. e \in i..Len(s) /\ e \in 1..Len(s) /\ (e = Len(s) \/ s[e + 1] \in Blank)
    BY <1>0, <2>1, <2>4
  <2> QED
    BY <2>1, <2>5, <2>6 DEF Stands
<1> QED
  BY <1>1, <1>2

\* What is no white space belongs to a token that starts at or before it.
LEMMA TokenAround ==
  ASSUME NEW s \in Line, NEW x \in 1..Len(s), s[x] \notin Blank
  PROVE  \E i \in Starts(s) : i <= x /\ \A y \in i..x : s[y] \notin Blank
<1> DEFINE S == {i \in 0..x : i = 0 \/ s[i] \in Blank}
<1>0. Len(s) \in Nat /\ x \in Nat
  BY DEF Line
<1>1. S \in SUBSET (0..x) /\ 0 \in S
  BY <1>0
<1>2. Max(S) \in S /\ \A y \in S : y <= Max(S)
  BY <1>0, <1>1, MaxOf
<1>3. PICK b \in S : \A y \in S : y <= b
  BY <1>2
<1>4. b \in 0..(x - 1)
  BY <1>0, <1>3
<1>5. ASSUME NEW y \in (b + 1)..x PROVE s[y] \notin Blank
  <2>1. y \in 0..x /\ ~(y <= b)
    BY <1>0, <1>4
  <2> QED
    BY <1>3, <2>1
<1>6. b + 1 \in 1..Len(s) /\ b + 1 \in (b + 1)..x /\ (b + 1) - 1 = b /\ b + 1 <= x
  BY <1>0, <1>4
<1>7. b + 1 \in Starts(s)
  <2>1. s[b + 1] \notin Blank
    BY <1>5, <1>6
  <2>2. b + 1 > 1 => s[(b + 1) - 1] \in Blank
    BY <1>3, <1>4, <1>6
  <2> QED
    BY <1>6, <2>1, <2>2 DEF Starts
<1> QED
  BY <1>5, <1>6, <1>7

LEMMA StartsFinite ==
  ASSUME NEW s \in Line
  PROVE  IsFiniteSet(Starts(s)) /\ Starts(s) \in SUBSET Nat /\ Starts(s) \subseteq 1..Len(s)
<1>1. Len(s) \in Nat /\ Starts(s) \subseteq 1..Len(s)
  BY StartsSame DEF Line
<1>2. IsFiniteSet(1..Len(s))
  <2>1. 1 \in Int /\ Len(s) \in Int
    BY <1>1
  <2> QED
    BY <2>1, FS_Interval
<1>3. IsFiniteSet(Starts(s))
  BY <1>1, <1>2, FS_Subset, Zenon
<1> QED
  BY <1>1, <1>3

\* The only token stands from i + 1 to d.
Alone(s, i, d) == i \in Nat /\ Stands(s, i + 1, d) /\ Starts(s) = {i + 1}

\* A token that is the option stands at p, and the other one from i + 1 to d.
Flagged(s, p, i, d) == /\ i \in Nat /\ Stands(s, i + 1, d) /\ Starts(s) = {p, i + 1} /\ p < i + 1
                       /\ Stands(s, p, p + 1)
                       /\ s[p] = "/" /\ Low(s[p + 1]) = "w"

LEMMA OptionText ==
  ASSUME NEW s \in Line, NEW p \in 1..Len(s), NEW e \in p..Len(s)
  PROVE  Lowered(SubSeq(s, p, e)) = <<"/", "w">> <=>
           e = p + 1 /\ s[p] = "/" /\ Low(s[p + 1]) = "w"
<1> DEFINE t == SubSeq(s, p, e)
<1>0. Len(s) \in Nat /\ p \in Nat \ {0} /\ e \in 0..Len(s)
  BY DEF Line
<1>1. /\ t \in Line /\ Len(t) = e - p + 1
      /\ \A i \in 1..(e - p + 1) : t[i] = s[p + i - 1]
  <2>1. (IF p <= e THEN e - p + 1 ELSE 0) = e - p + 1
    BY <1>0
  <2> QED
    BY <1>0, <2>1, Cut
<1> HIDE DEF t
<1>2. Lowered(t) \in Line /\ Len(Lowered(t)) = Len(t) /\ \A i \in 1..Len(t) : Lowered(t)[i] = Low(t[i])
  BY <1>1, LoweredText
<1>3. Lowered(t) = <<"/", "w">> <=> Len(t) = 2 /\ Lowered(t)[1] = "/" /\ Lowered(t)[2] = "w"
  <2>1. \A q \in Line : q = <<"/", "w">> <=> Len(q) = 2 /\ q[1] = "/" /\ q[2] = "w"
    BY DEF Line
  <2> QED
    BY <1>2, <2>1
<1>4. ASSUME e = p + 1
      PROVE  /\ Lowered(t)[1] = Low(s[p]) /\ Lowered(t)[2] = Low(s[p + 1])
             /\ Len(t) = 2 /\ s[p] \in Char
  <2>1. Len(t) = 2 /\ p + 1 - 1 = p /\ p + 2 - 1 = p + 1 /\ e - p + 1 = 2
    BY <1>0, <1>1, <1>4
  <2>2. t[1] = s[p] /\ t[2] = s[p + 1]
    BY <1>1, <2>1
  <2>3. Lowered(t)[1] = Low(t[1]) /\ Lowered(t)[2] = Low(t[2])
    BY <1>2, <2>1
  <2> QED
    BY <2>1, <2>2, <2>3 DEF Line
<1>5. e = p + 1 => (Low(s[p]) = "/" <=> s[p] = "/")
  BY <1>4, LowKeeps DEF Mark
<1>6. Len(t) = 2 <=> e = p + 1
  BY <1>0, <1>1
<1> QED
  BY <1>3, <1>4, <1>5, <1>6 DEF t

LEMMA AloneParsed ==
  ASSUME NEW s \in Line, NEW i, NEW d, Alone(s, i, d)
  PROVE  /\ Cardinality(Starts(s)) = 1
         /\ Verbose(s) => s[i + 1] = "/"
         /\ ~Verbose(s) => Subject(s) = SubSeq(s, i + 1, d)
<1>1. Starts(s) = {i + 1} /\ {i + 1} \in SUBSET Nat
  BY StartsFinite DEF Alone
<1>2. Cardinality(Starts(s)) = 1
  BY <1>1, FS_Singleton, Zenon
<1>3. Min(Starts(s)) = i + 1
  BY <1>1, MinOf
<1>4. First(s) = SubSeq(s, i + 1, d)
  BY <1>3, TokenStands DEF First, Alone
<1>5. Verbose(s) => s[i + 1] = "/"
  <2>1. i + 1 \in 1..Len(s) /\ d \in (i + 1)..Len(s)
    BY DEF Alone, Stands
  <2> QED
    BY <1>4, <2>1, OptionText DEF Verbose
<1> QED
  BY <1>2, <1>4, <1>5 DEF Subject

LEMMA FlaggedParsed ==
  ASSUME NEW s \in Line, NEW p, NEW i, NEW d, Flagged(s, p, i, d)
  PROVE  /\ Cardinality(Starts(s)) = 2 /\ Verbose(s)
         /\ Subject(s) = SubSeq(s, i + 1, d)
<1>1. Starts(s) = {p, i + 1} /\ {p, i + 1} \in SUBSET Nat /\ p < i + 1
  BY StartsFinite DEF Flagged
<1>2. Cardinality(Starts(s)) = 2
  <2>1. IsFiniteSet({p}) /\ Cardinality({p}) = 1
    BY FS_Singleton
  <2>2. i + 1 \notin {p} /\ {p} \cup {i + 1} = {p, i + 1}
    BY <1>1
  <2>3. Cardinality({p} \cup {i + 1}) = Cardinality({p}) + 1
    BY <2>1, <2>2, FS_AddElement
  <2> QED
    BY <1>1, <2>1, <2>2, <2>3
<1>3. Min({p, i + 1}) = p
  <2>1. Min({p, i + 1}) \in {p, i + 1} /\ Min({p, i + 1}) <= p
    BY <1>1, MinOf
  <2> QED
    BY <1>1, <2>1
<1>4. Min({p, i + 1} \ {p}) = i + 1
  <2>1. {p, i + 1} \ {p} = {i + 1} /\ {i + 1} \in SUBSET Nat
    BY <1>1
  <2>2. Min({i + 1}) = i + 1
    BY <2>1, MinOf
  <2> QED
    BY <2>1, <2>2
<1>5. First(s) = SubSeq(s, p, p + 1) /\ Second(s) = SubSeq(s, i + 1, d)
  <2>1. Min(Starts(s)) = p /\ Min(Starts(s) \ {Min(Starts(s))}) = i + 1
    BY <1>1, <1>3, <1>4
  <2> QED
    BY <2>1, TokenStands DEF First, Second, Flagged
<1>6. Verbose(s)
  <2>1. p \in 1..Len(s) /\ p + 1 \in p..Len(s) /\ s[p] = "/" /\ Low(s[p + 1]) = "w"
    BY DEF Flagged, Stands
  <2> QED
    BY <1>5, <2>1, OptionText DEF Verbose
<1> QED
  BY <1>2, <1>5, <1>6 DEF Subject

\* A line that has the tokens it should have has them at some places.
LEMMA AloneSomewhere ==
  ASSUME NEW s \in Line, Cardinality(Starts(s)) = 1
  PROVE  \E i \in Nat : \E d \in 1..Len(s) : Alone(s, i, d)
<1>1. PICK a : Starts(s) = {a}
  BY StartsFinite, FS_Singleton, Zenon
<1>2. a \in 1..Len(s) /\ a - 1 \in Nat /\ (a - 1) + 1 = a
  BY <1>1, StartsFinite
<1>3. PICK d \in 1..Len(s) : Stands(s, a, d)
  BY <1>1, TokenStands
<1>4. Alone(s, a - 1, d)
  BY <1>1, <1>2, <1>3 DEF Alone
<1> QED
  BY <1>2, <1>4

LEMMA FlaggedSomewhere ==
  ASSUME NEW s \in Line, Cardinality(Starts(s)) = 2, Verbose(s)
  PROVE  \E p \in 1..Len(s) : \E i \in Nat : \E d \in 1..Len(s) : Flagged(s, p, i, d)
<1> DEFINE p == Min(Starts(s))
<1>1. IsFiniteSet(Starts(s)) /\ Starts(s) \in SUBSET Nat /\ Starts(s) \subseteq 1..Len(s)
  BY StartsFinite
<1>2. p \in Starts(s) /\ \A y \in Starts(s) : p <= y
  <2>1. Starts(s) # {}
    BY <1>1, FS_EmptySet
  <2> QED
    BY <1>1, <2>1, MinOf
<1>3. PICK a : Starts(s) \ {p} = {a}
  <2>1. IsFiniteSet(Starts(s) \ {p}) /\ Cardinality(Starts(s) \ {p}) = Cardinality(Starts(s)) - 1
    BY <1>1, <1>2, FS_RemoveElement
  <2>2. Cardinality(Starts(s) \ {p}) = 1
    BY <2>1
  <2> QED
    BY <2>1, <2>2, FS_Singleton, Zenon
<1>4. PICK e \in 1..Len(s) : Stands(s, p, e)
  BY <1>2, TokenStands
<1>5. First(s) = SubSeq(s, p, e)
  BY <1>4, TokenStands DEF First
<1> HIDE DEF p
<1>6. e = p + 1 /\ s[p] = "/" /\ Low(s[p + 1]) = "w"
  <2>1. p \in 1..Len(s) /\ e \in p..Len(s)
    BY <1>4 DEF Stands
  <2> QED
    BY <1>5, <2>1, OptionText DEF Verbose
<1>7. a \in 1..Len(s) /\ a - 1 \in Nat /\ (a - 1) + 1 = a /\ a \in Starts(s) /\ p < a
      /\ Starts(s) = {p, a} /\ p \in 1..Len(s)
  <2>1. a \in Starts(s) /\ a # p /\ Starts(s) = {p, a}
    BY <1>2, <1>3
  <2>2. a \in 1..Len(s) /\ p \in 1..Len(s) /\ p <= a
    BY <1>1, <1>2, <2>1
  <2> QED
    BY <2>1, <2>2
<1>8. PICK d \in 1..Len(s) : Stands(s, a, d)
  BY <1>7, TokenStands
<1>9. Flagged(s, p, a - 1, d)
  BY <1>4, <1>6, <1>7, <1>8 DEF Flagged
<1> QED
  BY <1>7, <1>9

\* Around the tokens there is white space.
LEMMA AloneAround ==
  ASSUME NEW s \in Line, NEW i, NEW d, Alone(s, i, d)
  PROVE  \A x \in 1..Len(s) : x <= i \/ x > d => s[x] \in Blank
<1> SUFFICES ASSUME NEW x \in 1..Len(s), s[x] \notin Blank PROVE i + 1 <= x /\ x <= d
  <2>1. i + 1 \in 1..Len(s) /\ d \in (i + 1)..Len(s) /\ Len(s) \in Nat /\ i \in Int
    BY DEF Alone, Stands, Line
  <2> QED
    BY <2>1
<1>1. \A y \in (i + 1)..x : s[y] \notin Blank /\ i + 1 <= x
  BY TokenAround DEF Alone
<1>2. i + 1 <= x
  BY TokenAround DEF Alone
<1>3. /\ d \in (i + 1)..Len(s) /\ i + 1 \in 1..Len(s) /\ Len(s) \in Nat
      /\ d = Len(s) \/ s[d + 1] \in Blank
  BY DEF Alone, Stands, Line
<1>4. x <= d
  <2> SUFFICES ASSUME d < x PROVE FALSE
    BY <1>3
  <2>1. d + 1 \in (i + 1)..x /\ d # Len(s)
    BY <1>3
  <2> QED
    BY <1>1, <1>3, <2>1
<1> QED
  BY <1>2, <1>4

LEMMA FlaggedAround ==
  ASSUME NEW s \in Line, NEW p, NEW i, NEW d, Flagged(s, p, i, d)
  PROVE  /\ p + 2 <= i
         /\ \A x \in 1..Len(s) : x < p \/ (p + 2 <= x /\ x <= i) \/ x > d => s[x] \in Blank
<1>1. /\ Len(s) \in Nat /\ i \in Nat /\ p \in 1..Len(s) /\ p < i + 1 /\ p + 1 \in 1..Len(s)
      /\ i + 1 \in 1..Len(s) /\ d \in (i + 1)..Len(s)
      /\ (p + 1 = Len(s) \/ s[p + 2] \in Blank)
      /\ (d = Len(s) \/ s[d + 1] \in Blank)
  <2>1. /\ Len(s) \in Nat /\ i \in Nat /\ p \in 1..Len(s) /\ p < i + 1 /\ p + 1 \in p..Len(s)
        /\ i + 1 \in 1..Len(s) /\ d \in (i + 1)..Len(s)
        /\ (p + 1 = Len(s) \/ s[(p + 1) + 1] \in Blank)
        /\ (d = Len(s) \/ s[d + 1] \in Blank)
    BY DEF Flagged, Stands, Line
  <2>2. (p + 1) + 1 = p + 2
    BY <2>1
  <2> QED
    BY <2>1, <2>2
<1>2. p + 2 <= i
  <2>1. s[p] \notin Blank /\ s[p + 1] \notin Blank
    BY <1>1 DEF Flagged, Stands
  <2>2. s[i] \in Blank
    <3>1. i + 1 > 1 /\ (i + 1) - 1 = i
      BY <1>1
    <3> QED
      BY <3>1 DEF Flagged, Stands
  <2> QED
    BY <1>1, <2>1, <2>2
<1>3. ASSUME NEW x \in 1..Len(s), s[x] \notin Blank
      PROVE  x \in {p, p + 1} \/ x \in (i + 1)..d
  <2>1. PICK a \in {p, i + 1} : a <= x /\ \A y \in a..x : s[y] \notin Blank
    BY <1>3, TokenAround DEF Flagged
  <2>2. CASE a = p
    <3>1. p + 2 \in a..x => p + 1 = Len(s)
      BY <1>1, <2>1
    <3> QED
      BY <1>1, <2>1, <2>2, <3>1
  <2>3. CASE a = i + 1
    <3>1. d + 1 \in a..x => d = Len(s)
      BY <1>1, <2>1
    <3> QED
      BY <1>1, <2>1, <2>3, <3>1
  <2> QED
    BY <2>1, <2>2, <2>3
<1>4. ASSUME NEW x \in 1..Len(s), x < p \/ (p + 2 <= x /\ x <= i) \/ x > d
      PROVE  s[x] \in Blank
  <2>1. x \notin {p, p + 1} /\ x \notin (i + 1)..d
    BY <1>1, <1>2, <1>4
  <2> QED
    BY <1>3, <2>1
<1> QED
  BY <1>2, <1>4

\* Where there is white space around them there are no other tokens.
LEMMA AloneGiven ==
  ASSUME NEW s \in Line, NEW i \in 0..Len(s), NEW d \in (i + 1)..Len(s),
         \A x \in 1..i : s[x] \in Blank, \A x \in (i + 1)..d : s[x] \notin Blank,
         \A x \in (d + 1)..Len(s) : s[x] \in Blank
  PROVE  Alone(s, i, d)
<1>1. Len(s) \in Nat /\ i \in Nat /\ i + 1 \in 1..Len(s) /\ (i + 1) - 1 = i
  BY DEF Line
<1>2. Stands(s, i + 1, d)
  <2>1. i + 1 > 1 => s[(i + 1) - 1] \in Blank
    BY <1>1
  <2>2. d = Len(s) \/ s[d + 1] \in Blank
    BY <1>1
  <2> QED
    BY <1>1, <2>1, <2>2 DEF Stands
<1>3. i + 1 \in Starts(s)
  BY <1>2, TokenStands
<1>4. ASSUME NEW y \in Starts(s) PROVE y = i + 1
  <2>1. y \in 1..Len(s) /\ s[y] \notin Blank /\ (y > 1 => s[y - 1] \in Blank)
    BY DEF Starts
  <2>2. y \in (i + 1)..d
    BY <1>1, <2>1
  <2>3. y > i + 1 => y - 1 \in (i + 1)..d /\ y > 1
    BY <1>1, <2>2
  <2> QED
    BY <1>1, <2>1, <2>2, <2>3
<1> QED
  BY <1>1, <1>2, <1>3, <1>4 DEF Alone

LEMMA FlaggedGiven ==
  ASSUME NEW s \in Line, NEW i \in 0..Len(s), NEW d \in (i + 1)..Len(s), NEW p \in 1..i, p + 2 <= i,
         \A x \in 1..(p - 1) : s[x] \in Blank, s[p] = "/", Low(s[p + 1]) = "w",
         \A x \in (p + 2)..i : s[x] \in Blank, \A x \in (i + 1)..d : s[x] \notin Blank,
         \A x \in (d + 1)..Len(s) : s[x] \in Blank
  PROVE  Flagged(s, p, i, d)
<1>1. /\ Len(s) \in Nat /\ i \in Nat /\ i + 1 \in 1..Len(s) /\ (i + 1) - 1 = i /\ p < i + 1
      /\ p \in 1..Len(s) /\ p + 1 \in p..Len(s) /\ (p + 1) + 1 = p + 2 /\ p + 2 \in (p + 2)..i
      /\ p - 1 \in Int /\ i \in (p + 2)..i
  BY DEF Line
<1>2. s[p] \notin Blank /\ s[p + 1] \notin Blank
  <2>1. s[p] \notin Blank
    BY CharKinds DEF Mark
  <2>2. s[p + 1] \in Char
    BY <1>1 DEF Line
  <2>3. "w" \notin Blank
    BY CharAssumption DEF Letter
  <2> QED
    BY <2>1, <2>2, <2>3, LowKeeps
<1>3. Stands(s, i + 1, d)
  <2>1. i + 1 > 1 => s[(i + 1) - 1] \in Blank
    BY <1>1
  <2>2. d = Len(s) \/ s[d + 1] \in Blank
    BY <1>1
  <2> QED
    BY <1>1, <2>1, <2>2 DEF Stands
<1>4. Stands(s, p, p + 1)
  <2>1. p > 1 => s[p - 1] \in Blank
    BY <1>1
  <2>2. s[(p + 1) + 1] \in Blank
    BY <1>1
  <2>3. \A x \in p..(p + 1) : x = p \/ x = p + 1
    BY <1>1
  <2> QED
    BY <1>1, <1>2, <2>1, <2>2, <2>3 DEF Stands
<1>5. i + 1 \in Starts(s) /\ p \in Starts(s)
  BY <1>3, <1>4, TokenStands
<1>6. ASSUME NEW y \in Starts(s) PROVE y = i + 1 \/ y = p
  <2>1. y \in 1..Len(s) /\ s[y] \notin Blank /\ (y > 1 => s[y - 1] \in Blank)
    BY DEF Starts
  <2>2. y \in (i + 1)..d \/ y = p \/ y = p + 1
    BY <1>1, <2>1
  <2>3. y # p + 1
    BY <1>1, <1>2, <2>1
  <2>4. y \in (i + 1)..d /\ y > i + 1 => y - 1 \in (i + 1)..d /\ y > 1
    BY <1>1
  <2> QED
    BY <1>1, <2>1, <2>2, <2>3, <2>4
<1> QED
  BY <1>1, <1>3, <1>4, <1>5, <1>6 DEF Flagged

\* The option in front of a subject, by its place.
LEMMA FlagAt ==
  ASSUME NEW s \in Line, NEW i \in 0..Len(s)
  PROVE  Flag(SubSeq(s, 1, i)) <=>
           \E p \in 1..i : /\ \A x \in 1..(p - 1) : s[x] \in Blank \ Control
                           /\ p + 2 <= i /\ s[p] = "/" /\ Low(s[p + 1]) = "w"
                           /\ \A x \in (p + 2)..i : s[x] \in Blank \ Control
<1> DEFINE t == SubSeq(s, 1, i)
<1>0. Len(s) \in Nat /\ i \in Nat
  BY DEF Line
<1>1. /\ t \in Line /\ Len(t) = i
      /\ \A x \in 1..i : t[x] = s[x]
  <2>1. /\ t \in Line /\ Len(t) = IF 1 <= i THEN i - 1 + 1 ELSE 0
        /\ \A x \in 1..(i - 1 + 1) : t[x] = s[1 + x - 1]
    BY <1>0, Cut
  <2>2. (IF 1 <= i THEN i - 1 + 1 ELSE 0) = i /\ i - 1 + 1 = i
    BY <1>0
  <2>3. \A x \in 1..i : 1 + x - 1 = x
    OBVIOUS
  <2> QED
    BY <2>1, <2>2, <2>3
<1> HIDE DEF t
<1>2. ASSUME NEW p \in 1..i, p + 2 <= i
      PROVE  /\ Gap(SubSeq(t, 1, p - 1)) <=> \A x \in 1..(p - 1) : s[x] \in Blank \ Control
             /\ Gap(SubSeq(t, p + 2, i)) <=> \A x \in (p + 2)..i : s[x] \in Blank \ Control
             /\ t[p] = s[p] /\ t[p + 1] = s[p + 1]
  <2>1. /\ p - 1 \in 0..Len(t) /\ p + 2 \in Nat \ {0} /\ i \in 0..Len(t)
        /\ p \in 1..i /\ p + 1 \in 1..i /\ 1 \in Nat \ {0}
    BY <1>0, <1>1, <1>2
  <2>2. Gap(SubSeq(t, 1, p - 1)) <=> \A x \in 1..(p - 1) : t[x] \in Blank \ Control
    BY <1>1, <2>1, PieceWithin DEF Gap
  <2>3. Gap(SubSeq(t, p + 2, i)) <=> \A x \in (p + 2)..i : t[x] \in Blank \ Control
    BY <1>1, <2>1, PieceWithin DEF Gap
  <2>4. (\A x \in 1..(p - 1) : x \in 1..i) /\ (\A x \in (p + 2)..i : x \in 1..i)
    BY <1>0
  <2> QED
    BY <1>1, <2>1, <2>2, <2>3, <2>4
<1>3. Flag(t) <=> \E p \in 1..i : /\ Gap(SubSeq(t, 1, p - 1)) /\ p + 2 <= i
                                  /\ t[p] = "/" /\ Low(t[p + 1]) = "w"
                                  /\ Gap(SubSeq(t, p + 2, i))
  BY <1>1 DEF Flag
<1> QED
  BY <1>2, <1>3 DEF t

\* The parser takes the token from i + 1 to d for the subject, and no other.
Taken(s, i, d) == /\ Cardinality(Starts(s)) = IF Verbose(s) THEN 2 ELSE 1
                  /\ Subject(s) = SubSeq(s, i + 1, d)
                  /\ Verbose(s) <=> Flag(SubSeq(s, 1, i))

\* What the parser takes of the subject for the user and for the host.
LEMMA SubjectCut ==
  ASSUME NEW s \in Line, NEW i \in Nat, NEW d, Taken(s, i, d),
         NEW f, FirstAt(s, i + 1, d, "@", f)
  PROVE  /\ Before(Subject(s), "@") = SubSeq(s, i + 1, f - 1)
         /\ f = d + 1 => HostText(s) = <<>>
         /\ \A g : FirstAt(s, f + 1, d, "@", g) => HostText(s) = SubSeq(s, f + 1, g - 1)
<1>0. /\ Len(s) \in Nat /\ d \in 0..Len(s) /\ d \in Int /\ f \in Int
      /\ f + 1 \in Nat \ {0}
  BY DEF Line, FirstAt
<1>1. Before(Subject(s), "@") = SubSeq(s, i + 1, f - 1) /\ After(Subject(s), "@") = SubSeq(s, f + 1, d)
  <2>1. Subject(s) = SubSeq(s, i + 1, d)
    BY DEF Taken
  <2> QED
    BY <2>1, MarkAt
<1>2. ASSUME f = d + 1 PROVE HostText(s) = <<>>
  <2>1. PICK t : t = SubSeq(s, f + 1, d)
    OBVIOUS
  <2>2. t \in Line /\ Len(t) = IF f + 1 <= d THEN d - (f + 1) + 1 ELSE 0
    BY <1>0, <2>1, Cut
  <2>3. Len(t) = 0
    BY <1>0, <1>2, <2>2
  <2>4. Find(t, "@") \in 1..(Len(t) + 1)
    BY <2>2, FindPlace DEF Mark
  <2>5. Find(t, "@") - 1 = 0
    BY <2>3, <2>4
  <2>6. Before(t, "@") = SubSeq(t, 1, 0)
    BY <2>5 DEF Before
  <2>7. Len(SubSeq(t, 1, 0)) = 0 /\ SubSeq(t, 1, 0) \in Line
    BY <2>2, <2>3, Cut
  <2>8. SubSeq(t, 1, 0) = <<>>
    BY <2>7 DEF Line
  <2> QED
    BY <1>1, <2>1, <2>6, <2>8 DEF HostText
<1>3. ASSUME NEW g, FirstAt(s, f + 1, d, "@", g)
      PROVE  HostText(s) = SubSeq(s, f + 1, g - 1)
  <2>1. Before(SubSeq(s, f + 1, d), "@") = SubSeq(s, f + 1, g - 1)
    BY <1>3, MarkAt
  <2> QED
    BY <1>1, <2>1 DEF HostText
<1> QED
  BY <1>1, <1>2, <1>3

\* The line without its end.
LEMMA StrippedCrlf ==
  ASSUME NEW s \in Line
  PROVE  /\ EndsInCrlf(s \o <<CR, LF>>) /\ Stripped(s \o <<CR, LF>>) = s
         /\ s \o <<CR, LF>> \in Line
         /\ Bad \in {(s \o <<CR, LF>>)[i] : i \in 1..Len(s \o <<CR, LF>>)} <=>
              \E i \in 1..Len(s) : s[i] = Bad
<1>1. PICK e : e = <<CR, LF>>
  OBVIOUS
<1>2. e \in Seq(Char) /\ Len(e) = 2 /\ e[1] = CR /\ e[2] = LF
  <2>1. CR \in Char /\ LF \in Char
    BY DEF Char, Blank
  <2> QED
    BY <1>1, <2>1
<1>3. PICK w : w = s \o e
  OBVIOUS
<1>4. /\ w \in Line /\ Len(s) \in Nat /\ Len(w) = Len(s) + 2
      /\ \A i \in 1..Len(s) : w[i] = s[i]
      /\ w[Len(s) + 1] = CR /\ w[Len(s) + 2] = LF
  <2>1. s \in Seq(Char) /\ Len(s) \in Nat
    BY DEF Line
  <2>2. /\ w \in Seq(Char) /\ Len(w) = Len(s) + Len(e)
        /\ \A i \in 1..(Len(s) + Len(e)) : w[i] = IF i <= Len(s) THEN s[i] ELSE e[i - Len(s)]
    BY <1>2, <1>3, <2>1, ConcatProperties, Zenon
  <2>3. \A i \in 1..Len(s) : w[i] = s[i]
    BY <1>2, <2>1, <2>2
  <2>4. /\ Len(s) + 1 \in 1..(Len(s) + 2) /\ Len(s) + 2 \in 1..(Len(s) + 2)
        /\ ~(Len(s) + 1 <= Len(s)) /\ ~(Len(s) + 2 <= Len(s))
        /\ (Len(s) + 1) - Len(s) = 1 /\ (Len(s) + 2) - Len(s) = 2
    BY <2>1
  <2>5. w[Len(s) + 1] = e[1] /\ w[Len(s) + 2] = e[2]
    BY <1>2, <2>2, <2>4
  <2> QED
    BY <1>2, <2>1, <2>2, <2>3, <2>5 DEF Line
<1>5. Stripped(w) = s
  <2>1. Len(w) - 2 = Len(s) /\ Len(s) \in 0..Len(w)
    BY <1>4
  <2>2. PICK t : t = SubSeq(w, 1, Len(s))
    OBVIOUS
  <2>3. /\ t \in Line /\ Len(t) = (IF 1 <= Len(s) THEN Len(s) - 1 + 1 ELSE 0)
        /\ \A i \in 1..(Len(s) - 1 + 1) : t[i] = w[1 + i - 1]
    BY <1>4, <2>1, <2>2, Cut
  <2>4. Len(t) = Len(s) /\ \A i \in 1..Len(s) : t[i] = s[i]
    <3>1. Len(s) - 1 + 1 = Len(s) /\ \A i \in 1..Len(s) : 1 + i - 1 = i
      BY <1>4
    <3> QED
      BY <1>4, <2>3, <3>1
  <2>5. t = s
    BY <1>4, <2>3, <2>4 DEF Line
  <2> QED
    BY <2>1, <2>2, <2>5 DEF Stripped
<1>6. EndsInCrlf(w)
  <2>1. PICK t : t = SubSeq(w, Len(s) + 1, Len(s) + 2)
    OBVIOUS
  <2>2. Len(s) + 1 \in Nat \ {0} /\ Len(s) + 2 \in 0..Len(w)
    BY <1>4
  <2>3. /\ t \in Line
        /\ Len(t) = IF Len(s) + 1 <= Len(s) + 2 THEN (Len(s) + 2) - (Len(s) + 1) + 1 ELSE 0
        /\ \A i \in 1..((Len(s) + 2) - (Len(s) + 1) + 1) : t[i] = w[(Len(s) + 1) + i - 1]
    BY <1>4, <2>1, <2>2, Cut
  <2>4. Len(t) = 2 /\ t[1] = CR /\ t[2] = LF
    <3>1. /\ (Len(s) + 2) - (Len(s) + 1) + 1 = 2 /\ Len(s) + 1 <= Len(s) + 2
          /\ (Len(s) + 1) + 1 - 1 = Len(s) + 1 /\ (Len(s) + 1) + 2 - 1 = Len(s) + 2
      BY <1>4
    <3> QED
      BY <1>4, <2>3, <3>1
  <2>5. t = e
    BY <1>2, <2>3, <2>4, SeqEqual DEF Line
  <2>6. Len(w) - 1 = Len(s) + 1 /\ Len(w) = Len(s) + 2 /\ Len(w) >= 2
    BY <1>4
  <2> QED
    BY <1>1, <2>1, <2>5, <2>6 DEF EndsInCrlf
<1>7. Bad \in {w[i] : i \in 1..Len(w)} <=> \E i \in 1..Len(s) : s[i] = Bad
  <2>1. \A i \in 1..Len(w) : i \in 1..Len(s) \/ i = Len(s) + 1 \/ i = Len(s) + 2
    BY <1>4
  <2>2. \A i \in 1..Len(s) : i \in 1..Len(w)
    BY <1>4
  <2> QED
    BY <1>4, <2>1, <2>2, CharKinds
<1> QED
  BY <1>1, <1>3, <1>4, <1>5, <1>6, <1>7

-------------------------------------------------------------------------------
(* The lines of the grammar are those that the parser takes.               *)

\* The last token goes from i + 1 to d; in front of it are white space and
\* perhaps an option, after it there is white space.
Laid(s, i, d) == /\ i \in 0..Len(s) /\ d \in (i + 1)..Len(s)
                 /\ Gap(SubSeq(s, 1, i)) \/ Flag(SubSeq(s, 1, i))
                 /\ i > 0 => s[i] \in Blank
                 /\ \A x \in (i + 1)..d : s[x] \notin Blank
                 /\ Gap(SubSeq(s, d + 1, Len(s)))

LEMMA GapAt ==
  ASSUME NEW s \in Line
  PROVE  /\ \A i \in 0..Len(s) : Gap(SubSeq(s, 1, i)) <=> \A x \in 1..i : s[x] \in Blank \ Control
         /\ \A d \in 0..Len(s) :
              Gap(SubSeq(s, d + 1, Len(s))) <=> \A x \in (d + 1)..Len(s) : s[x] \in Blank \ Control
<1>1. Len(s) \in Nat /\ Len(s) \in 0..Len(s) /\ 1 \in Nat \ {0} /\ \A d \in 0..Len(s) : d + 1 \in Nat \ {0}
  BY DEF Line
<1> QED
  BY <1>1, PieceWithin DEF Gap

\* White space holds no option.
LEMMA GapNoFlag ==
  ASSUME NEW s \in Line, NEW i \in 0..Len(s), \A x \in 1..i : s[x] \in Blank
  PROVE  ~Flag(SubSeq(s, 1, i))
<1> SUFFICES ASSUME NEW p \in 1..i, s[p] = "/" PROVE FALSE
  BY FlagAt
<1> QED
  BY CharKinds DEF Mark

LEMMA LaidTaken ==
  ASSUME NEW s \in Line, NEW i, NEW d, Laid(s, i, d), s[i + 1] # "/"
  PROVE  Taken(s, i, d)
<1>1. /\ i \in 0..Len(s) /\ d \in (i + 1)..Len(s) /\ Len(s) \in Nat /\ d \in 0..Len(s)
      /\ \A x \in (i + 1)..d : s[x] \notin Blank
      /\ i > 0 => s[i] \in Blank
      /\ Gap(SubSeq(s, 1, i)) \/ Flag(SubSeq(s, 1, i))
  BY DEF Laid, Line
<1>2. \A x \in (d + 1)..Len(s) : s[x] \in Blank
  BY <1>1, GapAt DEF Laid
<1>3. CASE Gap(SubSeq(s, 1, i))
  <2>1. \A x \in 1..i : s[x] \in Blank
    BY <1>1, <1>3, GapAt
  <2>2. Alone(s, i, d)
    BY <1>1, <1>2, <2>1, AloneGiven
  <2>3. ~Flag(SubSeq(s, 1, i))
    BY <1>1, <2>1, GapNoFlag
  <2> QED
    BY <2>2, <2>3, AloneParsed DEF Taken
<1>4. CASE Flag(SubSeq(s, 1, i))
  <2>1. PICK p \in 1..i : /\ \A x \in 1..(p - 1) : s[x] \in Blank \ Control
                          /\ p + 2 <= i /\ s[p] = "/" /\ Low(s[p + 1]) = "w"
                          /\ \A x \in (p + 2)..i : s[x] \in Blank \ Control
    BY <1>1, <1>4, FlagAt
  <2>2. Flagged(s, p, i, d)
    BY <1>1, <1>2, <2>1, FlaggedGiven
  <2> QED
    BY <1>4, <2>2, FlaggedParsed DEF Taken
<1> QED
  BY <1>1, <1>3, <1>4

LEMMA TakenLaid ==
  ASSUME NEW s \in Line, Within(s, Char \ Control),
         Cardinality(Starts(s)) = IF Verbose(s) THEN 2 ELSE 1
  PROVE  \E i, d : Laid(s, i, d) /\ Taken(s, i, d)
<1>1. Len(s) \in Nat /\ \A x \in 1..Len(s) : s[x] \notin Control
  BY DEF Line, Within
<1>2. CASE ~Verbose(s)
  <2>1. PICK i \in Nat : \E d \in 1..Len(s) : Alone(s, i, d)
    BY <1>2, AloneSomewhere
  <2>2. PICK d \in 1..Len(s) : Alone(s, i, d)
    BY <2>1
  <2>3. /\ i \in 0..Len(s) /\ d \in (i + 1)..Len(s)
        /\ i > 0 => s[i] \in Blank
        /\ \A x \in (i + 1)..d : s[x] \notin Blank
    <3>1. /\ i + 1 \in 1..Len(s) /\ d \in (i + 1)..Len(s)
          /\ i + 1 > 1 => s[(i + 1) - 1] \in Blank
          /\ \A x \in (i + 1)..d : s[x] \notin Blank
      BY <2>2 DEF Alone, Stands
    <3>2. (i + 1) - 1 = i
      BY <2>1
    <3> QED
      BY <1>1, <2>1, <3>1, <3>2
  <2>4. /\ \A x \in 1..i : s[x] \in Blank \ Control
        /\ \A x \in (d + 1)..Len(s) : s[x] \in Blank \ Control
    <3>1. \A x \in 1..Len(s) : x <= i \/ x > d => s[x] \in Blank
      BY <2>2, AloneAround
    <3>2. \A x \in 1..i : x \in 1..Len(s) /\ x <= i
      BY <1>1, <2>1, <2>3
    <3>3. \A x \in (d + 1)..Len(s) : x \in 1..Len(s) /\ x > d
      BY <1>1, <2>2
    <3> QED
      BY <1>1, <3>1, <3>2, <3>3
  <2>5. Laid(s, i, d)
    <3>1. d \in 0..Len(s)
      BY <1>1, <2>2
    <3>2. Gap(SubSeq(s, 1, i))
      BY <2>3, <2>4, GapAt
    <3>3. Gap(SubSeq(s, d + 1, Len(s)))
      BY <2>4, <3>1, GapAt
    <3> QED
      BY <2>3, <3>2, <3>3 DEF Laid
  <2>6. ~Flag(SubSeq(s, 1, i))
    <3>1. \A x \in 1..i : s[x] \in Blank
      BY <2>4
    <3> QED
      BY <2>3, <3>1, GapNoFlag
  <2>7. Taken(s, i, d)
    BY <1>2, <2>2, <2>6, AloneParsed DEF Taken
  <2> QED
    BY <2>5, <2>7
<1>3. CASE Verbose(s)
  <2>1. PICK p \in 1..Len(s) : \E i \in Nat : \E d \in 1..Len(s) : Flagged(s, p, i, d)
    BY <1>3, FlaggedSomewhere
  <2>2. PICK i \in Nat : \E d \in 1..Len(s) : Flagged(s, p, i, d)
    BY <2>1
  <2>3. PICK d \in 1..Len(s) : Flagged(s, p, i, d)
    BY <2>2
  <2>4. /\ i \in 0..Len(s) /\ d \in (i + 1)..Len(s)
        /\ i > 0 => s[i] \in Blank
        /\ \A x \in (i + 1)..d : s[x] \notin Blank
        /\ s[p] = "/" /\ Low(s[p + 1]) = "w"
    <3>1. /\ i + 1 \in 1..Len(s) /\ d \in (i + 1)..Len(s)
          /\ i + 1 > 1 => s[(i + 1) - 1] \in Blank
          /\ \A x \in (i + 1)..d : s[x] \notin Blank
          /\ s[p] = "/" /\ Low(s[p + 1]) = "w"
      BY <2>3 DEF Flagged, Stands
    <3>2. (i + 1) - 1 = i
      BY <2>2
    <3> QED
      BY <1>1, <2>2, <3>1, <3>2
  <2>5. /\ p + 2 <= i
        /\ \A x \in 1..Len(s) : x < p \/ (p + 2 <= x /\ x <= i) \/ x > d => s[x] \in Blank
    BY <2>3, FlaggedAround
  <2>6. /\ p \in 1..i
        /\ \A x \in 1..(p - 1) : s[x] \in Blank \ Control
        /\ \A x \in (p + 2)..i : s[x] \in Blank \ Control
        /\ \A x \in (d + 1)..Len(s) : s[x] \in Blank \ Control
    <3>1. p \in Nat /\ p >= 1 /\ i \in Nat /\ d \in Nat /\ i <= Len(s) /\ i <= d
      BY <1>1, <2>1, <2>2, <2>3, <2>4
    <3>2. p \in 1..i
      BY <2>5, <3>1
    <3>3. \A x \in 1..(p - 1) : x \in 1..Len(s) /\ x < p
      BY <1>1, <2>5, <3>1
    <3>4. \A x \in (p + 2)..i : x \in 1..Len(s) /\ p + 2 <= x /\ x <= i
      BY <1>1, <3>1
    <3>5. \A x \in (d + 1)..Len(s) : x \in 1..Len(s) /\ x > d
      BY <1>1, <3>1
    <3> QED
      BY <1>1, <2>5, <3>2, <3>3, <3>4, <3>5
  <2>7. Flag(SubSeq(s, 1, i))
    <3>1. i \in 0..Len(s)
      BY <2>4
    <3> QED
      BY <2>4, <2>5, <2>6, <3>1, FlagAt
  <2>8. Laid(s, i, d)
    <3>1. d \in 0..Len(s)
      BY <1>1, <2>3
    <3>2. Gap(SubSeq(s, d + 1, Len(s)))
      BY <2>6, <3>1, GapAt
    <3> QED
      BY <2>4, <2>7, <3>2 DEF Laid
  <2>9. Taken(s, i, d)
    BY <1>3, <2>3, <2>7, FlaggedParsed DEF Taken
  <2> QED
    BY <2>8, <2>9
<1> QED
  BY <1>2, <1>3

\* The user goes from i + 1 to j and the host from j + 2 to k, up to a second
\* `@` or to d; without an `@` the user goes to d.
Split(s, i, j, k, d) == /\ i < j
                        /\ FirstAt(s, i + 1, d, "@", j + 1)
                        /\ \/ k = j /\ d = j
                           \/ FirstAt(s, j + 2, d, "@", k + 1)
                        /\ i \in Nat /\ j \in Nat /\ k \in Nat

LEMMA SplitPlaces ==
  ASSUME NEW s \in Line, NEW i, NEW j, NEW k, NEW d, Split(s, i, j, k, d)
  PROVE  /\ i \in 0..Len(s) /\ j \in (i + 1)..d /\ k \in j..d /\ d \in 1..Len(s)
         /\ k # j => j < d /\ s[j + 1] = "@" /\ (d = k \/ s[k + 1] = "@")
<1>1. /\ Len(s) \in Nat /\ i \in Nat /\ j \in Nat /\ k \in Nat /\ i < j /\ d \in 0..Len(s)
      /\ j + 1 \in (i + 1)..(d + 1) /\ (j + 1 = d + 1 \/ s[j + 1] = "@")
  BY DEF Split, FirstAt, Line
<1>2. CASE k = j /\ d = j
  BY <1>1, <1>2
<1>3. CASE FirstAt(s, j + 2, d, "@", k + 1)
  <2>1. j + 2 <= d + 1 /\ k + 1 \in (j + 2)..(d + 1) /\ (k + 1 = d + 1 \/ s[k + 1] = "@")
    BY <1>3 DEF FirstAt
  <2>2. j < d /\ k \in j..d /\ j + 1 # d + 1 /\ (k + 1 = d + 1 => d = k)
    BY <1>1, <2>1
  <2> QED
    BY <1>1, <2>1, <2>2
<1> QED
  BY <1>2, <1>3 DEF Split

LEMMA SplitCut ==
  ASSUME NEW s \in Line, NEW i, NEW j, NEW k, NEW d, Split(s, i, j, k, d), Taken(s, i, d)
  PROVE  /\ Before(Subject(s), "@") = SubSeq(s, i + 1, j)
         /\ HostText(s) = SubSeq(s, j + 2, k)
<1>1. /\ Len(s) \in Nat /\ i \in Nat /\ j \in Nat /\ k \in Nat /\ d \in 0..Len(s)
      /\ FirstAt(s, i + 1, d, "@", j + 1)
      /\ (k = j /\ d = j) \/ FirstAt(s, j + 2, d, "@", k + 1)
  BY DEF Split, FirstAt, Line
<1>2. (j + 1) - 1 = j /\ (j + 1) + 1 = j + 2 /\ (k + 1) - 1 = k
  BY <1>1
<1>3. /\ Before(Subject(s), "@") = SubSeq(s, i + 1, (j + 1) - 1)
      /\ j + 1 = d + 1 => HostText(s) = <<>>
      /\ \A g : FirstAt(s, (j + 1) + 1, d, "@", g) => HostText(s) = SubSeq(s, (j + 1) + 1, g - 1)
  <2>1. PICK f : f = j + 1
    OBVIOUS
  <2>2. FirstAt(s, i + 1, d, "@", f)
    BY <1>1, <2>1
  <2>3. /\ Before(Subject(s), "@") = SubSeq(s, i + 1, f - 1)
        /\ f = d + 1 => HostText(s) = <<>>
        /\ \A g : FirstAt(s, f + 1, d, "@", g) => HostText(s) = SubSeq(s, f + 1, g - 1)
    <3>1. i \in Nat /\ Taken(s, i, d)
      BY <1>1
    <3> QED
      BY <2>2, <3>1, SubjectCut
  <2> QED
    BY <2>1, <2>3, Zenon
<1>4. CASE k = j /\ d = j
  <2>1. j + 2 \in Nat \ {0} /\ k \in 0..Len(s) /\ ~(j + 2 <= k)
    BY <1>1, <1>4
  <2>2. Len(SubSeq(s, j + 2, k)) = 0 /\ SubSeq(s, j + 2, k) \in Seq(Char)
    BY <2>1, Cut DEF Line
  <2>3. SubSeq(s, j + 2, k) = <<>>
    BY <2>2
  <2> QED
    BY <1>2, <1>3, <1>4, <2>3
<1>5. CASE FirstAt(s, j + 2, d, "@", k + 1)
  BY <1>2, <1>3, <1>5
<1> QED
  BY <1>1, <1>4, <1>5

\* A name and a host where they are cut are a name and a host.
Named(s, i, j, k) == /\ s[i + 1] # "/"
                     /\ Name(SubSeq(s, i + 1, j))
                     /\ k <= j + 1 \/ Host(SubSeq(s, j + 2, k))

LEMMA FaultNamed ==
  ASSUME NEW s \in Line, NEW i, NEW j, NEW k, NEW d, Split(s, i, j, k, d), Taken(s, i, d),
         \A x \in (i + 1)..d : s[x] \notin Blank
  PROVE  /\ Fault(s) = "none" <=> Named(s, i, j, k)
         /\ NameOf(Before(Subject(s), "@")) = Lowered(SubSeq(s, i + 1, j))
         /\ NameOf(HostText(s)) = Lowered(SubSeq(s, j + 2, k))
<1>1. /\ Cardinality(Starts(s)) = (IF Verbose(s) THEN 2 ELSE 1)
      /\ Subject(s) = SubSeq(s, i + 1, d)
  BY DEF Taken
<1>2. PICK u, h : u = SubSeq(s, i + 1, j) /\ h = SubSeq(s, j + 2, k)
  OBVIOUS
<1>3. Before(Subject(s), "@") = u /\ HostText(s) = h
  <2>1. Before(Subject(s), "@") = SubSeq(s, i + 1, j) /\ HostText(s) = SubSeq(s, j + 2, k)
    BY SplitCut
  <2> QED
    BY <1>2, <2>1, Zenon
<1>4. /\ i \in Nat /\ j \in Nat /\ k \in Nat /\ d \in Nat /\ Len(s) \in Nat
      /\ i < j /\ j <= d /\ j <= k /\ k <= d /\ d <= Len(s)
  BY SplitPlaces DEF Line
<1>5. /\ i + 1 \in Nat \ {0} /\ j + 2 \in Nat \ {0}
      /\ j \in 0..Len(s) /\ k \in 0..Len(s) /\ d \in 0..Len(s)
  BY <1>4
<1>6. /\ u \in Line /\ Len(u) = j - i
      /\ \A x \in 1..Len(u) : u[x] \notin Blank
  <2>1. /\ u \in Line /\ Len(u) = (IF i + 1 <= j THEN j - (i + 1) + 1 ELSE 0)
        /\ \A x \in 1..(j - (i + 1) + 1) : u[x] = s[(i + 1) + x - 1]
    BY <1>2, <1>5, Cut
  <2>2. i + 1 <= j /\ j - (i + 1) + 1 = j - i
    BY <1>4
  <2>3. \A x \in 1..(j - i) : (i + 1) + x - 1 \in (i + 1)..d
    BY <1>4
  <2> QED
    BY <2>1, <2>2, <2>3
<1>7. /\ h \in Line /\ (Len(h) = 0 <=> k <= j + 1)
      /\ \A x \in 1..Len(h) : h[x] \notin Blank
  <2>1. /\ h \in Line /\ Len(h) = (IF j + 2 <= k THEN k - (j + 2) + 1 ELSE 0)
        /\ \A x \in 1..(k - (j + 2) + 1) : h[x] = s[(j + 2) + x - 1]
    BY <1>2, <1>5, Cut
  <2>2. CASE j + 2 <= k
    <3>1. \A x \in 1..(k - (j + 2) + 1) : (j + 2) + x - 1 \in (i + 1)..d
      BY <1>4
    <3>2. k - (j + 2) + 1 # 0 /\ ~(k <= j + 1)
      BY <1>4, <2>2
    <3> QED
      BY <2>1, <2>2, <3>1, <3>2
  <2>3. CASE ~(j + 2 <= k)
    BY <1>4, <2>1, <2>3
  <2> QED
    BY <2>2, <2>3
<1>8. Subject(s)[1] = s[i + 1]
  <2>1. \A x \in 1..(d - (i + 1) + 1) : SubSeq(s, i + 1, d)[x] = s[(i + 1) + x - 1]
    BY <1>5, Cut
  <2>2. 1 \in 1..(d - (i + 1) + 1) /\ (i + 1) + 1 - 1 = i + 1
    BY <1>4
  <2> QED
    BY <1>1, <2>1, <2>2
<1>9. /\ u # <<>>
      /\ IsUsername(u) <=> Name(u)
      /\ h = <<>> <=> k <= j + 1
      /\ IsHostName(h) <=> Host(h)
  <2>1. Len(u) # 0
    BY <1>4, <1>6
  <2>2. h = <<>> <=> Len(h) = 0
    BY <1>7 DEF Line
  <2> QED
    BY <1>6, <1>7, <2>1, <2>2, UsernameName, HostNameHost
<1>10. Fault(s) = "none" <=> /\ Subject(s)[1] # "/"
                             /\ IsUsername(u)
                             /\ h = <<>> \/ IsHostName(h)
  <2>1. CASE Verbose(s)
    <3>1. Cardinality(Starts(s)) = 2
      BY <1>1, <2>1
    <3> QED
      BY <1>3, <1>9, <2>1, <3>1 DEF Fault
  <2>2. CASE ~Verbose(s)
    <3>1. Cardinality(Starts(s)) = 1
      BY <1>1, <2>2
    <3> QED
      BY <1>3, <1>9, <2>2, <3>1 DEF Fault
  <2> QED
    BY <2>1, <2>2
<1>11. NameOf(u) = Lowered(u) /\ NameOf(h) = Lowered(h)
  BY <1>6, <1>7, TrimNone DEF NameOf
<1> QED
  BY <1>2, <1>3, <1>8, <1>9, <1>10, <1>11 DEF Named

\* No character that may not stand in a line.
Spelled(s) == \A x \in 1..Len(s) : s[x] \notin Control /\ s[x] # Bad

\* White space, and an option in front of a subject, hold none.
LEMMA HeadSpelled ==
  ASSUME NEW s \in Line, NEW i \in 0..Len(s), Gap(SubSeq(s, 1, i)) \/ Flag(SubSeq(s, 1, i))
  PROVE  \A x \in 1..i : s[x] \notin Control /\ s[x] # Bad
<1>1. Len(s) \in Nat /\ i \in Nat
  BY DEF Line
<1>2. Bad \notin Blank
  BY CharAssumption DEF Blank
<1>3. CASE Gap(SubSeq(s, 1, i))
  BY <1>2, <1>3, GapAt
<1>4. CASE Flag(SubSeq(s, 1, i))
  <2>1. PICK p \in 1..i : /\ \A x \in 1..(p - 1) : s[x] \in Blank \ Control
                          /\ p + 2 <= i /\ s[p] = "/" /\ Low(s[p + 1]) = "w"
                          /\ \A x \in (p + 2)..i : s[x] \in Blank \ Control
    BY <1>4, FlagAt
  <2>2. s[p] \notin Control /\ s[p] # Bad
    BY <2>1, CharKinds DEF Mark
  <2>3. s[p + 1] \notin Control /\ s[p + 1] # Bad
    <3>1. p + 1 \in 1..Len(s)
      BY <1>1, <2>1
    <3>2. s[p + 1] \in Char
      BY <3>1 DEF Line
    <3>3. "w" \notin Control /\ "w" # Bad
      BY CharAssumption DEF Letter
    <3> QED
      BY <2>1, <3>2, <3>3, LowKeeps
  <2>4. \A x \in 1..i : x \in 1..(p - 1) \/ x = p \/ x = p + 1 \/ x \in (p + 2)..i
    BY <1>1, <2>1
  <2> QED
    BY <1>2, <2>1, <2>2, <2>3, <2>4
<1> QED
  BY <1>3, <1>4

LEMMA ReadsLaid ==
  ASSUME NEW s \in Line, NEW i \in 0..Len(s), NEW j \in 0..Len(s), NEW k \in 0..Len(s),
         Reads(s, i, j, k)
  PROVE  \E d : Laid(s, i, d) /\ Split(s, i, j, k, d) /\ Named(s, i, j, k) /\ Spelled(s)
<1>1. PICK d \in k..Len(s) :
        /\ i < j
        /\ Gap(SubSeq(s, 1, i)) \/ Flag(SubSeq(s, 1, i))
        /\ i > 0 => s[i] \in Blank
        /\ Name(SubSeq(s, i + 1, j))
        /\ \/ k = j /\ d = k
           \/ /\ j < k /\ s[j + 1] = "@"
              /\ k = j + 1 \/ Host(SubSeq(s, j + 2, k))
              /\ d = k \/ s[k + 1] = "@"
              /\ Ignored(SubSeq(s, k + 1, d))
        /\ Gap(SubSeq(s, d + 1, Len(s)))
  BY DEF Reads
<1>2. Len(s) \in Nat /\ i \in Nat /\ j \in Nat /\ k \in Nat /\ d \in Nat /\ d \in 0..Len(s) /\ j <= k /\ k <= d
  BY <1>1 DEF Line
<1>3. i + 1 \in Nat \ {0} /\ j + 2 \in Nat \ {0} /\ k + 1 \in Nat \ {0}
  BY <1>2
<1>4. \A c \in NameChar \cup LabelChar \cup {"."} :
        c \notin Blank /\ c \notin Control /\ c # Bad /\ c # "@" /\ c # "/"
  <2>1. "@" \notin Letter /\ "/" \notin Letter
    BY CharAssumption DEF Mark
  <2> QED
    BY <2>1, CharKinds DEF NameChar, LabelChar, Mark
<1>5. \A x \in (i + 1)..j : s[x] \in NameChar
  BY <1>1, <1>3, PieceWithin DEF Name
<1>6. j < k => /\ \A x \in (j + 2)..k : s[x] \in LabelChar \cup {"."}
               /\ \A x \in (k + 1)..d : s[x] \in Char \ (Blank \cup Control \cup {Bad})
  <2> SUFFICES ASSUME j < k
               PROVE  /\ \A x \in (j + 2)..k : s[x] \in LabelChar \cup {"."}
                      /\ \A x \in (k + 1)..d : s[x] \in Char \ (Blank \cup Control \cup {Bad})
    OBVIOUS
  <2>1. (k = j + 1 \/ Host(SubSeq(s, j + 2, k))) /\ Ignored(SubSeq(s, k + 1, d))
    BY <1>1, <1>2
  <2>2. CASE k = j + 1
    BY <1>2, <1>3, <2>1, <2>2, PieceWithin DEF Ignored
  <2>3. CASE Host(SubSeq(s, j + 2, k))
    <3>1. Within(SubSeq(s, j + 2, k), LabelChar \cup {"."})
      BY <2>3 DEF Host
    <3> QED
      BY <1>2, <1>3, <2>1, <3>1, PieceWithin DEF Ignored
  <2> QED
    BY <2>1, <2>2, <2>3
<1>7. \A x \in (i + 1)..d : s[x] \notin Blank /\ s[x] \notin Control /\ s[x] # Bad
  <2>1. CASE j = k
    <3>1. d = j
      BY <1>1, <1>2, <2>1
    <3> QED
      BY <1>4, <1>5, <3>1
  <2>2. CASE j < k
    <3>1. s[j + 1] \notin Blank /\ s[j + 1] \notin Control /\ s[j + 1] # Bad
      <4>1. s[j + 1] = "@"
        BY <1>1, <1>2, <2>2
      <4> QED
        BY <4>1, CharKinds DEF Mark
    <3>2. \A x \in (i + 1)..d : x \in (i + 1)..j \/ x = j + 1 \/ x \in (j + 2)..k \/ x \in (k + 1)..d
      BY <1>1, <1>2
    <3> QED
      BY <1>4, <1>5, <1>6, <2>2, <3>1, <3>2
  <2> QED
    BY <1>2, <2>1, <2>2
<1>8. Laid(s, i, d)
  <2>1. d \in (i + 1)..Len(s)
    BY <1>1, <1>2
  <2> QED
    BY <1>1, <1>7, <2>1 DEF Laid
<1>9. Split(s, i, j, k, d)
  <2>1. FirstAt(s, i + 1, d, "@", j + 1)
    <3>1. i + 1 <= d + 1 /\ j + 1 \in (i + 1)..(d + 1) /\ (j + 1) - 1 = j
      BY <1>1, <1>2
    <3>2. j + 1 = d + 1 \/ s[j + 1] = "@"
      BY <1>1, <1>2
    <3>3. \A x \in (i + 1)..((j + 1) - 1) : s[x] # "@"
      BY <1>4, <1>5, <3>1
    <3> QED
      BY <1>2, <1>3, <3>1, <3>2, <3>3 DEF FirstAt
  <2>2. CASE j = k
    <3>1. d = j
      BY <1>1, <1>2, <2>2
    <3> QED
      BY <1>1, <1>2, <2>1, <2>2, <3>1 DEF Split
  <2>3. CASE j < k
    <3>1. j + 2 <= d + 1 /\ k + 1 \in (j + 2)..(d + 1) /\ (k + 1) - 1 = k
      BY <1>2, <2>3
    <3>2. k + 1 = d + 1 \/ s[k + 1] = "@"
      BY <1>1, <1>2, <2>3
    <3>3. \A x \in (j + 2)..((k + 1) - 1) : s[x] # "@"
      BY <1>4, <1>6, <2>3, <3>1
    <3>4. FirstAt(s, j + 2, d, "@", k + 1)
      BY <1>2, <1>3, <3>1, <3>2, <3>3 DEF FirstAt
    <3> QED
      BY <1>1, <1>2, <2>1, <3>4 DEF Split
  <2> QED
    BY <1>2, <2>2, <2>3
<1>10. Named(s, i, j, k)
  <2>1. s[i + 1] \in NameChar
    BY <1>1, <1>2, <1>5
  <2>2. k <= j + 1 \/ Host(SubSeq(s, j + 2, k))
    BY <1>1, <1>2
  <2> QED
    BY <1>1, <1>4, <2>1, <2>2 DEF Named
<1>11. Spelled(s)
  <2>1. \A x \in 1..i : s[x] \notin Control /\ s[x] # Bad
    BY <1>1, HeadSpelled
  <2>2. \A x \in (d + 1)..Len(s) : s[x] \notin Control /\ s[x] # Bad
    <3>1. Bad \notin Blank
      BY CharAssumption DEF Blank
    <3>2. \A x \in (d + 1)..Len(s) : s[x] \in Blank \ Control
      BY <1>1, <1>2, GapAt
    <3> QED
      BY <3>1, <3>2
  <2>3. \A x \in 1..Len(s) : x \in 1..i \/ x \in (i + 1)..d \/ x \in (d + 1)..Len(s)
    BY <1>2
  <2> QED
    BY <1>7, <2>1, <2>2, <2>3 DEF Spelled
<1> QED
  BY <1>8, <1>9, <1>10, <1>11

LEMMA LaidReads ==
  ASSUME NEW s \in Line, NEW i, NEW j, NEW k, NEW d,
         Laid(s, i, d), Split(s, i, j, k, d), Named(s, i, j, k), Spelled(s)
  PROVE  Reads(s, i, j, k)
<1>1. /\ i \in 0..Len(s) /\ d \in (i + 1)..Len(s)
      /\ Gap(SubSeq(s, 1, i)) \/ Flag(SubSeq(s, 1, i))
      /\ i > 0 => s[i] \in Blank
      /\ \A x \in (i + 1)..d : s[x] \notin Blank
      /\ Gap(SubSeq(s, d + 1, Len(s)))
  BY DEF Laid
<1>2. /\ i \in Nat /\ j \in Nat /\ k \in Nat /\ d \in Nat /\ Len(s) \in Nat
      /\ i < j /\ j <= k /\ k <= d /\ d <= Len(s) /\ d \in k..Len(s)
      /\ k # j => s[j + 1] = "@" /\ (d = k \/ s[k + 1] = "@")
  BY SplitPlaces DEF Line
<1>3. Name(SubSeq(s, i + 1, j)) /\ (k <= j + 1 \/ Host(SubSeq(s, j + 2, k)))
  BY DEF Named
<1>4. k = j => d = k
  <2>1. FirstAt(s, j + 2, d, "@", k + 1) => k + 1 \in (j + 2)..(d + 1)
    BY DEF FirstAt
  <2>2. k = j => k + 1 \notin (j + 2)..(d + 1)
    BY <1>2
  <2> QED
    BY <2>1, <2>2 DEF Split
<1>5. k # j => j < k /\ (k = j + 1 \/ Host(SubSeq(s, j + 2, k)))
  BY <1>2, <1>3
<1>6. Ignored(SubSeq(s, k + 1, d))
  <2>1. k + 1 \in Nat \ {0} /\ d \in 0..Len(s)
    BY <1>2
  <2>2. \A x \in (k + 1)..d : x \in (i + 1)..d /\ x \in 1..Len(s)
    BY <1>2
  <2>3. \A x \in 1..Len(s) : s[x] \in Char
    BY DEF Line
  <2>4. \A x \in (k + 1)..d : s[x] \in Char \ (Blank \cup Control \cup {Bad})
    BY <1>1, <2>2, <2>3 DEF Spelled
  <2> QED
    BY <2>1, <2>4, PieceWithin DEF Ignored
<1> QED
  BY <1>1, <1>2, <1>3, <1>4, <1>5, <1>6 DEF Reads

\* What the parser asks of a line without its end.
LEMMA RefusalAsks ==
  ASSUME NEW s \in Line
  PROVE  /\ Refusal(s \o <<CR, LF>>) = "none" <=>
              Spelled(s) /\ Within(s, Char \ Control) /\ Fault(s) = "none"
         /\ Spelled(s) => Within(s, Char \ Control)
<1>1. PICK w : w = s \o <<CR, LF>>
  OBVIOUS
<1>2. /\ EndsInCrlf(w) /\ Stripped(w) = s
      /\ Bad \in {w[i] : i \in 1..Len(w)} <=> \E i \in 1..Len(s) : s[i] = Bad
  BY <1>1, StrippedCrlf
<1>3. \A i \in 1..Len(s) : s[i] \in Char
  BY DEF Line
<1>4. Spelled(s) <=> (~\E i \in 1..Len(s) : s[i] = Bad) /\ Within(s, Char \ Control)
  BY <1>3 DEF Spelled, Within
<1>5. Refusal(w) = "none" <=>
        /\ ~(Bad \in {w[i] : i \in 1..Len(w)}) /\ EndsInCrlf(w)
        /\ Within(Stripped(w), Char \ Control)
        /\ Fault(Stripped(w)) = "none"
  BY RefusalFault
<1> QED
  BY <1>1, <1>2, <1>4, <1>5

\* A line that the parser takes has its parts at some places.
LEMMA FaultLaid ==
  ASSUME NEW s \in Line, Within(s, Char \ Control), Fault(s) = "none"
  PROVE  \E i, j, k, d : Laid(s, i, d) /\ Taken(s, i, d) /\ Split(s, i, j, k, d)
<1>1. /\ Cuttable(s)
      /\ Before(Subject(s), "@") # <<>>
      /\ ~(Cardinality(Starts(s)) > (IF Verbose(s) THEN 2 ELSE 1))
  <2>1. Cuttable(s)
    BY FaultNone
  <2> QED
    BY <2>1 DEF Fault, Cuttable
<1>2. Cardinality(Starts(s)) = IF Verbose(s) THEN 2 ELSE 1
  <2>1. Cardinality(Starts(s)) \in Nat
    BY StartsFinite, FS_CardinalityType
  <2>2. CASE Verbose(s)
    BY <1>1, <2>1, <2>2 DEF Cuttable
  <2>3. CASE ~Verbose(s)
    BY <1>1, <2>1, <2>3 DEF Cuttable
  <2> QED
    BY <2>2, <2>3
<1>3. PICK i, d : Laid(s, i, d) /\ Taken(s, i, d)
  BY <1>2, TakenLaid
<1>4. /\ i \in Nat /\ d \in Nat /\ Len(s) \in Nat /\ i < d /\ d <= Len(s)
      /\ i + 1 \in Nat \ {0} /\ d \in 0..Len(s) /\ i + 1 <= d + 1
  <2>1. i \in 0..Len(s) /\ d \in (i + 1)..Len(s)
    BY <1>3 DEF Laid
  <2> QED
    BY <2>1 DEF Line
<1>5. PICK f : f \in (i + 1)..(d + 1) /\ FirstAt(s, i + 1, d, "@", f)
  BY <1>4, MarkSomewhere
<1>6. PICK j : j \in Int /\ f = j + 1 /\ i <= j /\ j <= d
  <2>1. f - 1 \in Int /\ f = (f - 1) + 1 /\ i <= f - 1 /\ f - 1 <= d
    BY <1>4, <1>5
  <2> QED
    BY <2>1
<1>7. Before(Subject(s), "@") = SubSeq(s, i + 1, f - 1)
  <2>1. i \in Nat /\ Taken(s, i, d) /\ FirstAt(s, i + 1, d, "@", f)
    BY <1>3, <1>4, <1>5
  <2> QED
    BY <2>1, SubjectCut
<1>8. i < j
  <2> SUFFICES ASSUME ~(i < j) PROVE FALSE
    OBVIOUS
  <2>1. f - 1 = i /\ i \in 0..Len(s) /\ ~(i + 1 <= i)
    BY <1>4, <1>6
  <2>2. Len(SubSeq(s, i + 1, i)) = 0 /\ SubSeq(s, i + 1, i) \in Seq(Char)
    BY <1>4, <2>1, Cut DEF Line
  <2>3. SubSeq(s, i + 1, i) = <<>>
    BY <2>2
  <2> QED
    BY <1>1, <1>7, <2>1, <2>3
<1>9. \E k : Split(s, i, j, k, d)
  <2>1. CASE j = d
    BY <1>4, <1>5, <1>6, <1>8, <2>1 DEF Split
  <2>2. CASE j # d
    <3>1. j + 2 \in Nat \ {0} /\ j + 2 <= d + 1
      BY <1>4, <1>6, <1>8, <2>2
    <3>2. PICK g \in (j + 2)..(d + 1) : FirstAt(s, j + 2, d, "@", g)
      BY <1>4, <3>1, MarkSomewhere
    <3>3. PICK k \in Nat : g = k + 1
      BY <1>4, <1>6, <1>8, <3>2
    <3>4. FirstAt(s, i + 1, d, "@", j + 1) /\ FirstAt(s, j + 2, d, "@", k + 1) /\ j \in Nat
      BY <1>4, <1>5, <1>6, <1>8, <3>2, <3>3
    <3> QED
      BY <1>4, <1>8, <3>3, <3>4 DEF Split
  <2> QED
    BY <2>1, <2>2
<1> QED
  BY <1>3, <1>9

LEMMA ReadsParsed ==
  ASSUME NEW s \in Line, NEW i \in 0..Len(s), NEW j \in 0..Len(s), NEW k \in 0..Len(s),
         Reads(s, i, j, k)
  PROVE  /\ Refusal(s \o <<CR, LF>>) = "none"
         /\ QueryOf(s \o <<CR, LF>>) = [username |-> Lowered(SubSeq(s, i + 1, j)),
                                        host     |-> Lowered(SubSeq(s, j + 2, k)),
                                        verbose  |-> Flag(SubSeq(s, 1, i))]
<1>1. PICK d : Laid(s, i, d) /\ Split(s, i, j, k, d) /\ Named(s, i, j, k) /\ Spelled(s)
  BY ReadsLaid
<1>2. Taken(s, i, d)
  BY <1>1, LaidTaken DEF Named
<1>3. \A x \in (i + 1)..d : s[x] \notin Blank
  BY <1>1 DEF Laid
<1>4. /\ Fault(s) = "none"
      /\ NameOf(Before(Subject(s), "@")) = Lowered(SubSeq(s, i + 1, j))
      /\ NameOf(HostText(s)) = Lowered(SubSeq(s, j + 2, k))
  BY <1>1, <1>2, <1>3, FaultNamed
<1>5. Verbose(s) = Flag(SubSeq(s, 1, i))
  <2>1. Verbose(s) <=> Flag(SubSeq(s, 1, i))
    BY <1>2 DEF Taken
  <2> QED
    BY <2>1 DEF Verbose, Flag
<1>6. Stripped(s \o <<CR, LF>>) = s
  BY StrippedCrlf
<1>7. Refusal(s \o <<CR, LF>>) = "none"
  BY <1>1, <1>4, RefusalAsks
<1> QED
  BY <1>4, <1>5, <1>6, <1>7 DEF QueryOf

LEMMA ParsedReads ==
  ASSUME NEW s \in Line, Refusal(s \o <<CR, LF>>) = "none"
  PROVE  \E i, j, k \in 0..Len(s) : Reads(s, i, j, k)
<1>1. Spelled(s) /\ Within(s, Char \ Control) /\ Fault(s) = "none"
  BY RefusalAsks
<1>2. PICK i, j, k, d : Laid(s, i, d) /\ Taken(s, i, d) /\ Split(s, i, j, k, d)
  BY <1>1, FaultLaid
<1>3. \A x \in (i + 1)..d : s[x] \notin Blank
  BY <1>2 DEF Laid
<1>4. Named(s, i, j, k)
  BY <1>1, <1>2, <1>3, FaultNamed
<1>5. Reads(s, i, j, k)
  BY <1>1, <1>2, <1>4, LaidReads
<1>6. i \in 0..Len(s) /\ j \in 0..Len(s) /\ k \in 0..Len(s)
  <2>1. i \in 0..Len(s) /\ j \in (i + 1)..d /\ k \in j..d /\ d \in 1..Len(s) /\ Len(s) \in Nat
    BY <1>2, SplitPlaces DEF Line
  <2> QED
    BY <2>1
<1> QED
  BY <1>5, <1>6

\* Whatever the line, of any length, it is refused if the grammar has no reading of
\* it, and is otherwise taken for the one query that the grammar reads in it
\* (query.rs:42-118, identity.rs:32-111).
THEOREM ParseAlwaysExact == Spec => []ParseExact
<1>1. TypeOK => ParseExact
  <2> SUFFICES ASSUME TypeOK
               PROVE  Readings(line) = IF Refusal(line \o <<CR, LF>>) = "none"
                                       THEN {QueryOf(line \o <<CR, LF>>)} ELSE {}
    BY DEF ParseExact
  <2>1. PICK s \in Line : s = line
    BY DEF TypeOK, Line
  <2>2. PICK R : R = {q \in (0..Len(s)) \X (0..Len(s)) \X (0..Len(s)) : Reads(s, q[1], q[2], q[3])}
    OBVIOUS
  <2>3. Readings(s) = {[username |-> Lowered(SubSeq(s, p[1] + 1, p[2])),
                        host     |-> Lowered(SubSeq(s, p[2] + 2, p[3])),
                        verbose  |-> Flag(SubSeq(s, 1, p[1]))] : p \in R}
    BY <2>2 DEF Readings
  <2>4. ASSUME NEW p \in R
        PROVE  /\ Refusal(s \o <<CR, LF>>) = "none"
               /\ QueryOf(s \o <<CR, LF>>) = [username |-> Lowered(SubSeq(s, p[1] + 1, p[2])),
                                              host     |-> Lowered(SubSeq(s, p[2] + 2, p[3])),
                                              verbose  |-> Flag(SubSeq(s, 1, p[1]))]
    <3>1. p[1] \in 0..Len(s) /\ p[2] \in 0..Len(s) /\ p[3] \in 0..Len(s) /\ Reads(s, p[1], p[2], p[3])
      BY <2>2
    <3> QED
      BY <3>1, ReadsParsed
  <2>5. Refusal(s \o <<CR, LF>>) = "none" => R # {}
    <3> SUFFICES ASSUME Refusal(s \o <<CR, LF>>) = "none" PROVE R # {}
      OBVIOUS
    <3>1. PICK i, j, k \in 0..Len(s) : Reads(s, i, j, k)
      BY ParsedReads
    <3>2. <<i, j, k>> \in R
      BY <2>2, <3>1
    <3> QED
      BY <3>2
  <2>6. CASE Refusal(s \o <<CR, LF>>) = "none"
    <3>1. PICK p \in R : TRUE
      BY <2>5, <2>6
    <3>2. Readings(s) = {QueryOf(s \o <<CR, LF>>)}
      BY <2>3, <2>4, <3>1
    <3> QED
      BY <2>1, <2>6, <3>2
  <2>7. CASE Refusal(s \o <<CR, LF>>) # "none"
    <3>1. R = {}
      BY <2>4, <2>7
    <3>2. Readings(s) = {}
      BY <2>3, <3>1
    <3> QED
      BY <2>1, <2>7, <3>2
  <2> QED
    BY <2>6, <2>7
<1> QED
  BY <1>1, NamesAlwaysSafe, PTL

-------------------------------------------------------------------------------
(* The lines that a client cuts an answer into.                            *)

\* The places up to n that are in S.
Places(n, S) == Kept([i \in 1..n |-> i], S)

LEMMA PlacesFirst ==
  ASSUME NEW S
  PROVE  Places(0, S) = <<>>
<1>1. Places(0, S) \in Seq((1..0) \cap S)
  BY KeptPlaces DEF Places
<1>2. (1..0) \cap S = {}
  OBVIOUS
<1>3. Places(0, S) \in Seq({})
  BY <1>1, <1>2
<1> QED
  BY <1>3

LEMMA PlacesNext ==
  ASSUME NEW n \in Nat, NEW S
  PROVE  Places(n + 1, S) = IF n + 1 \in S THEN Append(Places(n, S), n + 1) ELSE Places(n, S)
<1>1. PICK a, b : a = [i \in 1..n |-> i] /\ b = [i \in 1..(n + 1) |-> i]
  OBVIOUS
<1>2. /\ a \in Seq(Nat) /\ Len(a) = n /\ \A i \in 1..n : a[i] = i
      /\ b \in Seq(Nat) /\ Len(b) = n + 1 /\ \A i \in 1..(n + 1) : b[i] = i
  BY <1>1
<1>3. PICK c : c = Append(a, n + 1)
  OBVIOUS
<1>4. c \in Seq(Nat) /\ Len(c) = n + 1 /\ c[n + 1] = n + 1 /\ \A i \in 1..n : c[i] = i
  <2>1. n + 1 \in Nat
    OBVIOUS
  <2>2. c \in Seq(Nat) /\ Len(c) = Len(a) + 1 /\ c[Len(a) + 1] = n + 1 /\ \A i \in 1..Len(a) : c[i] = a[i]
    BY <1>2, <1>3, <2>1, Appended
  <2> QED
    BY <1>2, <2>2
<1>5. b = c
  <2>1. \A i \in 1..(n + 1) : i \in 1..n \/ i = n + 1
    OBVIOUS
  <2>2. \A i \in 1..Len(b) : b[i] = c[i]
    BY <1>2, <1>4, <2>1
  <2> QED
    BY <1>2, <1>4, <2>2, SeqEqual, Zenon
<1>6. Kept(c, S) = IF n + 1 \in S THEN Append(Kept(a, S), n + 1) ELSE Kept(a, S)
  <2>1. PICK m : m = n + 1
    OBVIOUS
  <2>2. m \in Nat /\ a \in Seq(Nat) /\ c = Append(a, m)
    BY <1>2, <1>3, <2>1
  <2>3. Kept(Append(a, m), S) = IF m \in S THEN Append(Kept(a, S), m) ELSE Kept(a, S)
    BY <2>2, KeptAppend
  <2> QED
    BY <2>1, <2>2, <2>3
<1> QED
  BY <1>1, <1>5, <1>6 DEF Places

LEMMA PlacesSame ==
  ASSUME NEW n \in Nat, NEW S, NEW T, \A i \in 1..n : i \in S <=> i \in T
  PROVE  Places(n, S) = Places(n, T)
<1>1. PICK a : a = [i \in 1..n |-> i]
  OBVIOUS
<1>2. Len(a) = n /\ \A i \in 1..n : a[i] = i
  BY <1>1
<1>3. [i \in 1..Len(a) |-> IF a[i] \in S THEN <<a[i]>> ELSE <<>>]
        = [i \in 1..Len(a) |-> IF a[i] \in T THEN <<a[i]>> ELSE <<>>]
  BY <1>2
<1>4. Kept(a, S) = Kept(a, T)
  BY <1>3 DEF Kept
<1> QED
  BY <1>1, <1>4 DEF Places

\* Where S has no more places, none is added.
LEMMA PlacesNone ==
  ASSUME NEW m \in Nat, NEW n \in Nat, m <= n, NEW S, \A i \in (m + 1)..n : i \notin S
  PROVE  Places(n, S) = Places(m, S)
<1> DEFINE N == {k \in Nat : m <= k /\ k <= n => Places(k, S) = Places(m, S)}
<1>1. 0 \in N
  <2>1. m <= 0 => m = 0
    OBVIOUS
  <2> QED
    BY <2>1
<1>2. ASSUME NEW k \in N PROVE k + 1 \in N
  <2>1. k \in Nat /\ k + 1 \in Nat /\ (m <= k /\ k <= n => Places(k, S) = Places(m, S))
    BY <1>2
  <2>2. ASSUME m <= k + 1, k + 1 <= n PROVE Places(k + 1, S) = Places(m, S)
    <3>1. CASE m = k + 1
      BY <3>1
    <3>2. CASE m # k + 1
      <4>1. m <= k /\ k <= n /\ k + 1 \in (m + 1)..n
        BY <2>1, <2>2, <3>2
      <4>2. k + 1 \notin S
        BY <4>1
      <4> QED
        BY <2>1, <4>1, <4>2, PlacesNext
    <3> QED
      BY <3>1, <3>2
  <2> QED
    BY <2>1, <2>2
<1>3. N \in SUBSET Nat
  OBVIOUS
<1> HIDE DEF N
<1>4. n \in N
  BY <1>1, <1>2, <1>3, EveryNatural
<1> QED
  BY <1>4 DEF N


\* A filter keeps as many as there are to be kept.
LEMMA KeptCounted ==
  ASSUME NEW X, NEW C
  PROVE  \A s \in Seq(X) : LET S == {i \in 1..Len(s) : s[i] \in C}
                           IN  IsFiniteSet(S) /\ Len(Kept(s, C)) = Cardinality(S)
<1> DEFINE In(s) == {i \in 1..Len(s) : s[i] \in C}
           P == {s \in Seq(X) : IsFiniteSet(In(s)) /\ Len(Kept(s, C)) = Cardinality(In(s))}
<1>1. <<>> \in P
  <2>1. In(<<>>) = {}
    OBVIOUS
  <2>2. IsFiniteSet(In(<<>>)) /\ Cardinality(In(<<>>)) = 0
    BY <2>1, FS_EmptySet
  <2>3. PICK Y, none : Y = {} /\ none = <<>>
    OBVIOUS
  <2>4. Len(Kept(<<>>, C)) = 0
    <3>1. none \in Seq(Y)
      BY <2>3
    <3>2. Kept(none, C) \in Seq(Y \cap C)
      BY <3>1, KeptText
    <3>3. Y \cap C = {}
      BY <2>3
    <3>4. Kept(none, C) \in Seq({})
      BY <3>2, <3>3
    <3> QED
      BY <2>3, <3>4
  <2>5. <<>> \in Seq(X)
    OBVIOUS
  <2> HIDE DEF In
  <2> QED
    BY <2>2, <2>4, <2>5
<1>2. ASSUME NEW s \in P, NEW x \in X PROVE Append(s, x) \in P
  <2>1. s \in Seq(X) /\ IsFiniteSet(In(s)) /\ Len(Kept(s, C)) = Cardinality(In(s))
    BY <1>2
  <2>2. PICK t : t = Append(s, x)
    OBVIOUS
  <2>3. /\ t \in Seq(X) /\ Len(t) = Len(s) + 1 /\ Len(s) \in Nat
        /\ t[Len(s) + 1] = x /\ \A i \in 1..Len(s) : t[i] = s[i]
    BY <2>1, <2>2, Appended
  <2>4. Kept(t, C) = IF x \in C THEN Append(Kept(s, C), x) ELSE Kept(s, C)
    <3>1. Kept(Append(s, x), C) = IF x \in C THEN Append(Kept(s, C), x) ELSE Kept(s, C)
      <4>1. s \in Seq(X)
        BY <2>1
      <4> HIDE DEF P, In
      <4> QED
        BY <4>1, KeptAppend
    <3> QED
      BY <2>2, <3>1
  <2>5. Kept(s, C) \in Seq(X \cap C)
    BY <2>1, KeptText
  <2>6. \A i : i \in 1..Len(t) <=> i \in 1..Len(s) \/ i = Len(s) + 1
    BY <2>3
  <2>7. IsFiniteSet(In(t)) /\ Len(Kept(t, C)) = Cardinality(In(t))
    <3>1. CASE x \in C
      <4>1. In(t) = In(s) \cup {Len(s) + 1} /\ Len(s) + 1 \notin In(s)
        BY <2>3, <2>6, <3>1
      <4> HIDE DEF In
      <4>2. IsFiniteSet(In(t)) /\ Cardinality(In(t)) = Cardinality(In(s)) + 1
        BY <2>1, <4>1, FS_AddElement
      <4>3. Len(Kept(t, C)) = Len(Kept(s, C)) + 1
        BY <2>4, <2>5, <3>1
      <4> QED
        BY <2>1, <4>2, <4>3
    <3>2. CASE x \notin C
      <4>1. In(t) = In(s)
        BY <2>3, <2>6, <3>2
      <4> QED
        BY <2>1, <2>4, <3>2, <4>1
    <3> QED
      BY <3>1, <3>2
  <2> HIDE DEF In
  <2> QED
    BY <2>2, <2>3, <2>7
<1>3. P \in SUBSET Seq(X)
  OBVIOUS
<1> HIDE DEF P
<1>4. \A s \in Seq(X) : s \in P
  BY <1>1, <1>2, <1>3, EverySeq
<1> QED
  BY <1>4 DEF P

LEMMA PlacesCounted ==
  ASSUME NEW n \in Nat, NEW S \in SUBSET (1..n)
  PROVE  Len(Places(n, S)) = Cardinality(S)
<1>1. PICK a : a = [i \in 1..n |-> i]
  OBVIOUS
<1>2. a \in Seq(Nat) /\ {i \in 1..Len(a) : a[i] \in S} = S
  <2>1. a \in Seq(Nat) /\ Len(a) = n /\ \A i \in 1..n : a[i] = i
    BY <1>1
  <2> QED
    BY <2>1
<1>3. Len(Kept(a, S)) = Cardinality(S)
  <2>1. a \in Seq(Nat)
    BY <1>2
  <2>2. Len(Kept(a, S)) = Cardinality({i \in 1..Len(a) : a[i] \in S})
    BY <2>1, KeptCounted
  <2> QED
    BY <1>2, <2>2
<1> QED
  BY <1>1, <1>3 DEF Places

-------------------------------------------------------------------------------
(* The next line of an answer.                                             *)

\* Where the lines of a end, and the lines.
Ends(a)     == {i \in 2..Len(a) : a[i - 1] = CR /\ a[i] = LF}
LinesIn(a)  ==
  LET end == Places(Len(a), Ends(a))
  IN  [k \in 1..Len(end) |-> SubSeq(a, IF k = 1 THEN 1 ELSE end[k - 1] + 1, end[k] - 2)]
Complete(a) == a = <<>> \/ Len(a) \in Ends(a)

\* What neither ends a line nor stands alone for it.
Sent == Printable

LEMMA SentSign ==
  /\ Sent \subseteq Sign /\ CR \in Sign /\ LF \in Sign /\ CR # LF
  /\ CR \notin Sent /\ LF \notin Sent
<1>1. CR \in Char /\ LF \in Char
  BY DEF Char, Blank
<1>2. CR \notin Printable /\ LF \notin Printable
  <2>1. CR \notin Letter \cup Mark /\ LF \notin Letter \cup Mark
    BY CharAssumption DEF Blank
  <2>2. CR \notin Symbol /\ LF \notin Symbol
    BY CharAssumption
  <2>3. CR # " " /\ LF # " " /\ CR # LF
    BY DEF CR, LF
  <2> QED
    BY <2>1, <2>2, <2>3 DEF Printable
<1>3. Printable \subseteq Char \cup {" "}
  BY DEF Printable, Char
<1>4. CR # LF
  BY DEF CR, LF
<1> QED
  BY <1>1, <1>2, <1>3, <1>4 DEF Sent, Sign

\* The fixed wordings are sent as they stand.
LEMMA WordingSent == Wording \subseteq Sent
BY WordingAssumption DEF Sent, Printable

\* The last line of what is complete ends at its end.
LEMMA LastEnd ==
  ASSUME NEW a \in Seq(Sign), Complete(a)
  PROVE  LET end == Places(Len(a), Ends(a))
         IN  /\ end \in Seq(2..Len(a))
             /\ (IF Len(end) = 0 THEN 0 ELSE end[Len(end)]) = Len(a)
<1> DEFINE end == Places(Len(a), Ends(a))
<1>1. Len(a) \in Nat
  OBVIOUS
<1>2. end \in Seq((1..Len(a)) \cap Ends(a)) /\ (1..Len(a)) \cap Ends(a) \subseteq 2..Len(a)
  BY <1>1, KeptPlaces DEF Places, Ends
<1>3. end \in Seq(2..Len(a))
  <2> HIDE DEF end
  <2> QED
    BY <1>2, SeqMonotonic
<1>4. CASE a = <<>>
  <2>1. Len(a) = 0 /\ end = <<>>
    BY <1>4, PlacesFirst
  <2> QED
    BY <1>3, <2>1
<1>5. CASE a # <<>>
  <2>1. Len(a) \in Ends(a) /\ Len(a) - 1 \in Nat /\ Len(a) - 1 + 1 = Len(a)
    BY <1>1, <1>5 DEF Complete, Ends
  <2>2. PICK b : b = Places(Len(a) - 1, Ends(a))
    OBVIOUS
  <2>3. end = Append(b, Len(a))
    <3>1. PICK m, S : m = Len(a) - 1 /\ S = Ends(a)
      OBVIOUS
    <3>2. m \in Nat /\ m + 1 = Len(a) /\ m + 1 \in S
      BY <2>1, <3>1
    <3>3. Places(m + 1, S) = Append(Places(m, S), m + 1)
      BY <3>2, PlacesNext
    <3> QED
      BY <2>2, <3>1, <3>2, <3>3
  <2>4. b \in Seq(Nat)
    <3>1. PICK m \in Nat : m = Len(a) - 1
      BY <2>1
    <3>2. b \in Seq((1..m) \cap Ends(a)) /\ (1..m) \cap Ends(a) \subseteq Nat
      BY <2>2, <3>1, KeptPlaces DEF Places
    <3> QED
      BY <3>2, SeqMonotonic
  <2> HIDE DEF end
  <2>5. Len(end) = Len(b) + 1 /\ end[Len(b) + 1] = Len(a) /\ Len(b) \in Nat
    BY <1>1, <2>3, <2>4, Appended
  <2>6. (IF Len(end) = 0 THEN 0 ELSE end[Len(end)]) = Len(a)
    BY <2>5
  <2> QED
    BY <1>3, <2>6 DEF end
<1> QED
  BY <1>4, <1>5

\* Where two texts are the same, so are their pieces.
LEMMA PieceSame ==
  ASSUME NEW X, NEW s \in Seq(X), NEW t \in Seq(X), NEW p \in Nat \ {0}, NEW q \in Nat,
         q <= Len(s), q <= Len(t), \A i \in 1..q : s[i] = t[i]
  PROVE  SubSeq(s, p, q) \in Seq(X) /\ SubSeq(s, p, q) = SubSeq(t, p, q)
<1>1. p \in Int /\ q \in Int /\ \A i \in p..q : i \in 1..q /\ i \in 1..Len(s) /\ i \in 1..Len(t)
  OBVIOUS
<1>2. \A i \in p..q : s[i] \in X /\ t[i] \in X
  BY <1>1
<1>3. PICK u, v : u = SubSeq(s, p, q) /\ v = SubSeq(t, p, q)
  OBVIOUS
<1>4. PICK n : n = IF p <= q THEN q - p + 1 ELSE 0
  OBVIOUS
<1>5. u \in Seq(X) /\ Len(u) = n /\ \A i \in 1..(q - p + 1) : u[i] = s[p + i - 1]
  BY <1>1, <1>2, <1>3, <1>4, SubSeqProperties
<1>6. v \in Seq(X) /\ Len(v) = n /\ \A i \in 1..(q - p + 1) : v[i] = t[p + i - 1]
  BY <1>1, <1>2, <1>3, <1>4, SubSeqProperties
<1>7. \A i \in 1..n : i \in 1..(q - p + 1) /\ p + i - 1 \in 1..q
  BY <1>4
<1>8. \A i \in 1..Len(u) : u[i] = v[i]
  BY <1>5, <1>6, <1>7
<1>9. u = v
  BY <1>5, <1>6, <1>8, SeqEqual, Zenon
<1> QED
  BY <1>3, <1>5, <1>9

LEMMA PieceThere ==
  ASSUME NEW X, NEW s \in Seq(X), NEW t \in Seq(X), NEW n \in Nat, n + Len(t) <= Len(s),
         \A i \in 1..Len(t) : s[n + i] = t[i]
  PROVE  SubSeq(s, n + 1, n + Len(t)) = t
<1>1. PICK p, q, u : p = n + 1 /\ q = n + Len(t) /\ u = SubSeq(s, p, q)
  OBVIOUS
<1>2. Len(t) \in Nat /\ Len(s) \in Nat
  OBVIOUS
<1>3. p \in Int /\ q \in Int /\ \A i \in p..q : i \in 1..Len(s)
  BY <1>1, <1>2
<1>4. \A i \in p..q : s[i] \in X
  BY <1>3
<1>5. /\ u \in Seq(X) /\ Len(u) = IF p <= q THEN q - p + 1 ELSE 0
      /\ \A i \in 1..(q - p + 1) : u[i] = s[p + i - 1]
  BY <1>1, <1>3, <1>4, SubSeqProperties
<1>6. Len(u) = Len(t)
  BY <1>1, <1>2, <1>5
<1>7. \A i \in 1..Len(u) : i \in 1..(q - p + 1) /\ p + i - 1 = n + i
  BY <1>1, <1>2, <1>6
<1>8. \A i \in 1..Len(u) : u[i] = t[i]
  BY <1>5, <1>6, <1>7
<1>9. u = t
  BY <1>5, <1>6, <1>8, SeqEqual, Zenon
<1> QED
  BY <1>1, <1>9

\* What a line framed after a makes of it, and what stands where in that.
Ended(a, l) == a \o (l \o <<CR, LF>>)

LEMMA NextPlaces ==
  ASSUME NEW a \in Seq(Sign), NEW l \in Seq(Sign)
  PROVE  LET b == Ended(a, l) IN
         /\ b \in Seq(Sign) /\ Len(b) = Len(a) + Len(l) + 2
         /\ \A i \in 1..Len(a) : b[i] = a[i]
         /\ \A i \in 1..Len(l) : b[Len(a) + i] = l[i]
         /\ b[Len(a) + Len(l) + 1] = CR /\ b[Len(a) + Len(l) + 2] = LF
<1>0. PICK b : b = Ended(a, l)
  OBVIOUS
<1>1. PICK e : e = <<CR, LF>>
  OBVIOUS
<1>2. e \in Seq(Sign) /\ Len(e) = 2 /\ e[1] = CR /\ e[2] = LF
  BY <1>1, SentSign, Two
<1>4. PICK z : z = l \o e
  OBVIOUS
<1>5. /\ z \in Seq(Sign) /\ Len(z) = Len(l) + 2
      /\ \A i \in 1..(Len(l) + 2) : z[i] = IF i <= Len(l) THEN l[i] ELSE e[i - Len(l)]
  <2>1. /\ l \o e \in Seq(Sign) /\ Len(l \o e) = Len(l) + Len(e)
        /\ \A i \in 1..(Len(l) + Len(e)) : (l \o e)[i] = IF i <= Len(l) THEN l[i] ELSE e[i - Len(l)]
    BY <1>2, ConcatProperties
  <2> QED
    BY <1>2, <1>4, <2>1
<1>6. /\ b \in Seq(Sign) /\ Len(b) = Len(a) + Len(z)
      /\ \A i \in 1..(Len(a) + Len(z)) : b[i] = IF i <= Len(a) THEN a[i] ELSE z[i - Len(a)]
  <2>1. /\ a \o z \in Seq(Sign) /\ Len(a \o z) = Len(a) + Len(z)
        /\ \A i \in 1..(Len(a) + Len(z)) : (a \o z)[i] = IF i <= Len(a) THEN a[i] ELSE z[i - Len(a)]
    <3>1. z \in Seq(Sign)
      BY <1>5
    <3> QED
      BY <3>1, ConcatProperties, Zenon
  <2>2. b = a \o z
    BY <1>0, <1>1, <1>4 DEF Ended
  <2> QED
    BY <2>1, <2>2
<1>7. Len(a) \in Nat /\ Len(l) \in Nat
  OBVIOUS
<1>8. \A i \in 1..Len(l) : b[Len(a) + i] = l[i]
  <2> TAKE i \in 1..Len(l)
  <2>1. b[Len(a) + i] = z[i]
    <3>1. Len(a) + i \in 1..(Len(a) + Len(z)) /\ ~(Len(a) + i <= Len(a)) /\ Len(a) + i - Len(a) = i
      BY <1>5, <1>7
    <3> QED
      BY <1>6, <3>1
  <2>2. i \in 1..(Len(l) + 2) /\ i <= Len(l)
    BY <1>7
  <2> QED
    BY <1>5, <2>1, <2>2
<1>9. b[Len(a) + Len(l) + 1] = CR /\ b[Len(a) + Len(l) + 2] = LF
  <2>1. ASSUME NEW i \in 1..2 PROVE b[Len(a) + Len(l) + i] = e[i]
    <3>1. PICK j, k : j = Len(l) + i /\ k = Len(a) + j
      OBVIOUS
    <3>2. j \in 1..(Len(l) + 2) /\ ~(j <= Len(l)) /\ j - Len(l) = i
      BY <1>7, <3>1
    <3>3. z[j] = e[i]
      BY <1>5, <3>2
    <3>4. k \in 1..(Len(a) + Len(z)) /\ ~(k <= Len(a)) /\ k - Len(a) = j
      BY <1>5, <1>7, <3>1, <3>2
    <3>5. b[k] = z[j]
      BY <1>6, <3>4
    <3>6. k = Len(a) + Len(l) + i
      BY <1>7, <3>1
    <3> QED
      BY <3>3, <3>5, <3>6
  <2>2. 1 \in 1..2 /\ 2 \in 1..2
    OBVIOUS
  <2> QED
    BY <1>2, <2>1, <2>2
<1>10. \A i \in 1..Len(a) : b[i] = a[i]
  <2> TAKE i \in 1..Len(a)
  <2>1. i \in 1..(Len(a) + Len(z)) /\ i <= Len(a)
    BY <1>5, <1>7
  <2> QED
    BY <1>6, <2>1
<1> QED
  BY <1>0, <1>5, <1>6, <1>7, <1>8, <1>9, <1>10

LEMMA EndedComplete ==
  ASSUME NEW a \in Seq(Sign), NEW l \in Seq(Sign)
  PROVE  Complete(Ended(a, l))
<1>1. PICK b, n : b = Ended(a, l) /\ n = Len(a) + Len(l) + 1
  OBVIOUS
<1>2. Len(b) = n + 1 /\ n \in Nat \ {0} /\ b[n] = CR /\ b[n + 1] = LF
  <2>1. /\ Len(b) = Len(a) + Len(l) + 2
        /\ b[Len(a) + Len(l) + 1] = CR /\ b[Len(a) + Len(l) + 2] = LF
    BY <1>1, NextPlaces
  <2>2. Len(a) \in Nat /\ Len(l) \in Nat
    OBVIOUS
  <2> QED
    BY <1>1, <2>1, <2>2
<1>3. Len(b) \in Ends(b)
  BY <1>2 DEF Ends
<1> QED
  BY <1>1, <1>3 DEF Complete

\* A line framed after what is complete ends where the framing does.
LEMMA NextEnds ==
  ASSUME NEW a \in Seq(Sign), NEW l \in Seq(Sent)
  PROVE  LET b == Ended(a, l)
         IN  Places(Len(b), Ends(b)) = Append(Places(Len(a), Ends(a)), Len(b))
<1>0. PICK b : b = Ended(a, l)
  OBVIOUS
<1>signs. l \in Seq(Sign)
  BY SentSign, SeqMonotonic
<1>1. /\ b \in Seq(Sign) /\ Len(b) = Len(a) + Len(l) + 2
      /\ \A i \in 1..Len(a) : b[i] = a[i]
      /\ \A i \in 1..Len(l) : b[Len(a) + i] = l[i]
      /\ b[Len(a) + Len(l) + 1] = CR /\ b[Len(a) + Len(l) + 2] = LF
  BY <1>0, <1>signs, NextPlaces
<1>2. Len(a) \in Nat /\ Len(l) \in Nat
  OBVIOUS
<1>3. PICK n, m, S, T : n = Len(a) /\ m = n + Len(l) + 1 /\ S = Ends(a) /\ T = Ends(b)
  OBVIOUS
<1>4. n \in Nat /\ m \in Nat /\ n <= m /\ m + 1 = Len(b)
  BY <1>1, <1>2, <1>3
<1>5. m + 1 \in T
  BY <1>1, <1>2, <1>3, <1>4 DEF Ends
<1>6. \A i \in (n + 1)..m : i \notin T
  <2> TAKE i \in (n + 1)..m
  <2>1. b[i] # LF
    <3>1. CASE i = m
      BY <1>1, <1>2, <1>3, <3>1, SentSign
    <3>2. CASE i # m
      <4>1. i - n \in 1..Len(l) /\ Len(a) + (i - n) = i
        BY <1>2, <1>3, <1>4, <3>2
      <4>2. b[i] = l[i - n] /\ l[i - n] \in Sent
        BY <1>1, <4>1
      <4> QED
        BY <4>2, SentSign
    <3> QED
      BY <3>1, <3>2
  <2> QED
    BY <1>3, <2>1 DEF Ends
<1>7. \A i \in 1..n : i \in S <=> i \in T
  <2> TAKE i \in 1..n
  <2>1. i \in 2..Len(a) <=> i \in 2..Len(b)
    BY <1>3, <1>4
  <2>2. b[i] = a[i] /\ (i \in 2..Len(a) => b[i - 1] = a[i - 1])
    <3>1. i \in 2..Len(a) => i - 1 \in 1..Len(a)
      BY <1>2
    <3> QED
      BY <1>1, <1>3, <3>1
  <2> QED
    BY <1>3, <2>1, <2>2 DEF Ends
<1>8. Places(n, S) = Places(n, T)
  BY <1>4, <1>7, PlacesSame
<1>9. Places(m, T) = Places(n, T)
  BY <1>4, <1>6, PlacesNone
<1>10. Places(m + 1, T) = Append(Places(m, T), m + 1)
  BY <1>4, <1>5, PlacesNext
<1> QED
  <2>1. Places(Len(b), Ends(b)) = Append(Places(Len(a), Ends(a)), Len(b))
    BY <1>3, <1>4, <1>8, <1>9, <1>10
  <2> QED
    BY <1>0, <2>1

\* Such a line is read after those of what is complete, as it stands.
LEMMA ReadNext ==
  ASSUME NEW a \in Seq(Sign), Complete(a), NEW l \in Seq(Sent),
         LinesIn(a) \in Seq(Seq(Sign))
  PROVE  LinesIn(Ended(a, l)) = Append(LinesIn(a), l)
<1>1. PICK b : b = Ended(a, l)
  OBVIOUS
<1>2. PICK e, f : e = Places(Len(a), Ends(a)) /\ f = Places(Len(b), Ends(b))
  OBVIOUS
<1>3. /\ b \in Seq(Sign) /\ Len(b) = Len(a) + Len(l) + 2
      /\ \A i \in 1..Len(a) : b[i] = a[i]
      /\ \A i \in 1..Len(l) : b[Len(a) + i] = l[i]
  <2>1. l \in Seq(Sign)
    BY SentSign, SeqMonotonic
  <2> QED
    BY <1>1, <2>1, NextPlaces
<1>4. f = Append(e, Len(b))
  BY <1>1, <1>2, NextEnds
<1>5. e \in Seq(2..Len(a)) /\ (IF Len(e) = 0 THEN 0 ELSE e[Len(e)]) = Len(a)
  BY <1>2, LastEnd
<1>6. Len(a) \in Nat /\ Len(l) \in Nat /\ Len(e) \in Nat /\ Len(b) \in Nat
  BY <1>3, <1>5
<1>7. Len(f) = Len(e) + 1 /\ f[Len(e) + 1] = Len(b) /\ \A k \in 1..Len(e) : f[k] = e[k]
  <2>1. e \in Seq(Nat) /\ Len(b) \in Nat
    <3>1. 2..Len(a) \subseteq Nat
      OBVIOUS
    <3> QED
      BY <1>5, <1>6, <3>1, SeqMonotonic
  <2> QED
    BY <1>4, <2>1, Appended
<1>8. PICK c, d : c = LinesIn(a) /\ d = LinesIn(b)
  OBVIOUS
<1>9. /\ c = [k \in 1..Len(e) |-> SubSeq(a, IF k = 1 THEN 1 ELSE e[k - 1] + 1, e[k] - 2)]
      /\ d = [k \in 1..Len(f) |-> SubSeq(b, IF k = 1 THEN 1 ELSE f[k - 1] + 1, f[k] - 2)]
  BY <1>2, <1>8 DEF LinesIn
<1>10. ASSUME NEW k \in 1..Len(e) PROVE d[k] = c[k]
  <2>1. k \in 1..Len(f) /\ f[k] = e[k] /\ (k # 1 => k - 1 \in 1..Len(e) /\ f[k - 1] = e[k - 1])
    BY <1>6, <1>7
  <2>2. PICK p, q : p = (IF k = 1 THEN 1 ELSE e[k - 1] + 1) /\ q = e[k] - 2
    OBVIOUS
  <2>3. d[k] = SubSeq(b, p, q) /\ c[k] = SubSeq(a, p, q)
    BY <1>9, <2>1, <2>2
  <2>4. e[k] \in 2..Len(a) /\ (k # 1 => e[k - 1] \in 2..Len(a))
    BY <1>5, <2>1
  <2>5. p \in Nat \ {0} /\ q \in Nat /\ q <= Len(a) /\ q <= Len(b)
    <3>1. PICK x, y : x = e[k] /\ y = e[k - 1]
      OBVIOUS
    <3>2. x \in 2..Len(a) /\ q = x - 2 /\ (k # 1 => y \in 2..Len(a) /\ p = y + 1) /\ (k = 1 => p = 1)
      BY <2>2, <2>4, <3>1
    <3>3. q \in Nat /\ q <= Len(a) /\ q <= Len(b)
      BY <1>3, <1>6, <3>2
    <3>4. p \in Nat \ {0}
      BY <1>6, <3>2
    <3> QED
      BY <3>3, <3>4
  <2>6. \A i \in 1..q : a[i] = b[i]
    BY <1>3, <1>6, <2>5
  <2>7. SubSeq(a, p, q) \in Seq(Sign) /\ SubSeq(a, p, q) = SubSeq(b, p, q)
    <3>1. b \in Seq(Sign)
      BY <1>3
    <3> QED
      BY <2>5, <2>6, <3>1, PieceSame
  <2> QED
    BY <2>3, <2>7
<1>signs. d[Len(e) + 1] = l
  <2>1. PICK k : k = Len(e) + 1
    OBVIOUS
  <2>2. k \in 1..Len(f) /\ f[k] = Len(b)
    BY <1>6, <1>7, <2>1
  <2>3. (IF k = 1 THEN 1 ELSE f[k - 1] + 1) = Len(a) + 1
    <3>1. CASE k = 1
      BY <1>5, <1>6, <2>1, <3>1
    <3>2. CASE k # 1
      <4>1. k - 1 = Len(e) /\ Len(e) \in 1..Len(e) /\ Len(e) # 0
        BY <1>6, <2>1, <3>2
      <4>2. f[k - 1] = e[Len(e)]
        BY <1>7, <4>1
      <4> QED
        BY <1>5, <3>2, <4>1, <4>2
    <3> QED
      BY <3>1, <3>2
  <2>4. f[k] - 2 = Len(a) + Len(l)
    BY <1>3, <1>6, <2>2
  <2>5. d[k] = SubSeq(b, Len(a) + 1, Len(a) + Len(l))
    BY <1>9, <2>2, <2>3, <2>4
  <2>6. l \in Seq(Sign)
    BY SentSign, SeqMonotonic
  <2>7. Len(a) + Len(l) <= Len(b)
    BY <1>3, <1>6
  <2>8. SubSeq(b, Len(a) + 1, Len(a) + Len(l)) = l
    BY <1>3, <1>6, <2>6, <2>7, PieceThere
  <2> QED
    BY <2>1, <2>5, <2>8
<1>12. PICK g : g = Append(c, l)
  OBVIOUS
<1>13. Len(c) = Len(e)
  BY <1>6, <1>9
<1>14. /\ g \in Seq(Seq(Sign)) /\ Len(g) = Len(e) + 1
       /\ g[Len(e) + 1] = l /\ \A k \in 1..Len(e) : g[k] = c[k]
  <2>1. l \in Seq(Sign) /\ c \in Seq(Seq(Sign))
    BY <1>8, SentSign, SeqMonotonic
  <2> QED
    BY <1>12, <1>13, <2>1, Appended
<1>15. \A k \in 1..Len(f) : k \in 1..Len(e) \/ k = Len(e) + 1
  BY <1>6, <1>7
<1>16. Len(d) = Len(f) /\ \A k \in 1..Len(f) : d[k] = g[k]
  <2>1. Len(d) = Len(f)
    BY <1>6, <1>7, <1>9
  <2> QED
    BY <1>10, <1>signs, <1>14, <1>15, <2>1
<1>17. d \in Seq(Seq(Sign))
  <2>1. \A k \in 1..Len(f) : d[k] \in Seq(Sign)
    <3> TAKE k \in 1..Len(f)
    <3>1. k \in 1..Len(g)
      BY <1>7, <1>14
    <3>2. g[k] \in Seq(Sign)
      BY <1>14, <3>1, ElementOfSeq
    <3> QED
      BY <1>16, <3>2
  <2>2. d = [k \in 1..Len(f) |-> d[k]]
    BY <1>9
  <2>3. Len(f) \in Nat
    BY <1>6, <1>7
  <2> QED
    BY <2>1, <2>2, <2>3
<1>18. d = g
  <2>1. Len(d) = Len(g) /\ \A k \in 1..Len(d) : d[k] = g[k]
    BY <1>7, <1>14, <1>16
  <2> QED
    BY <1>14, <1>17, <2>1, SeqEqual, Zenon
<1> QED
  BY <1>1, <1>8, <1>12, <1>18

-------------------------------------------------------------------------------
(* The bytes of lines, and the lines read of them.                         *)

\* Lines are made of the characters that the bytes are.
LEMMA ReadText ==
  ASSUME NEW X, NEW a \in Seq(X)
  PROVE  LinesIn(a) \in Seq(Seq(X))
<1>1. PICK e : e = Places(Len(a), Ends(a))
  OBVIOUS
<1>2. Len(a) \in Nat
  OBVIOUS
<1>3. e \in Seq((1..Len(a)) \cap Ends(a)) /\ (1..Len(a)) \cap Ends(a) \subseteq 2..Len(a)
  BY <1>1, <1>2, KeptPlaces DEF Places, Ends
<1>4. e \in Seq(2..Len(a)) /\ Len(e) \in Nat
  BY <1>3, SeqMonotonic
<1>5. ASSUME NEW k \in 1..Len(e)
      PROVE  SubSeq(a, IF k = 1 THEN 1 ELSE e[k - 1] + 1, e[k] - 2) \in Seq(X)
  <2>1. k # 1 => k - 1 \in 1..Len(e)
    BY <1>4
  <2>2. PICK x, y, p, q : /\ x = e[k] /\ y = e[k - 1]
                          /\ p = (IF k = 1 THEN 1 ELSE e[k - 1] + 1) /\ q = e[k] - 2
    OBVIOUS
  <2>3. /\ x \in 2..Len(a) /\ q = x - 2
        /\ (k # 1 => y \in 2..Len(a) /\ p = y + 1) /\ (k = 1 => p = 1)
    <3>1. x \in 2..Len(a) /\ q = x - 2
      BY <1>4, <2>2
    <3>2. ASSUME k # 1 PROVE y \in 2..Len(a) /\ p = y + 1
      <4>1. PICK j : j = k - 1
        OBVIOUS
      <4>2. j \in 1..Len(e) /\ y = e[j] /\ p = e[j] + 1
        BY <2>1, <2>2, <3>2, <4>1
      <4>3. e[j] \in 2..Len(a)
        BY <1>4, <4>2
      <4> QED
        BY <4>2, <4>3
    <3>3. k = 1 => p = 1
      BY <2>2
    <3> QED
      BY <3>1, <3>2, <3>3
  <2>4. q \in Nat /\ q <= Len(a)
    BY <1>2, <2>3
  <2>5. p \in Nat \ {0}
    BY <1>2, <2>3
  <2>6. p \in Int /\ q \in Int /\ \A i \in p..q : i \in 1..Len(a)
    BY <1>2, <2>4, <2>5
  <2>7. \A i \in p..q : a[i] \in X
    BY <2>6
  <2>8. SubSeq(a, p, q) \in Seq(X)
    BY <2>6, <2>7, SubSeqProperties
  <2> QED
    BY <2>2, <2>8
<1>6. LinesIn(a) = [k \in 1..Len(e) |-> SubSeq(a, IF k = 1 THEN 1 ELSE e[k - 1] + 1, e[k] - 2)]
  BY <1>1 DEF LinesIn
<1> DEFINE piece(k) == SubSeq(a, IF k = 1 THEN 1 ELSE e[k - 1] + 1, e[k] - 2)
<1>7. \A k \in 1..Len(e) : piece(k) \in Seq(X)
  BY <1>5
<1>8. LinesIn(a) = [k \in 1..Len(e) |-> piece(k)]
  BY <1>6
<1> HIDE DEF piece
<1> QED
  BY <1>4, <1>7, <1>8

\* A framed line ends in CRLF, whatever is in it.
LEMMA FramedEnds ==
  ASSUME NEW X, CR \in X, LF \in X, NEW s \in Seq(X)
  PROVE  /\ TrimLineEndings(s) \in Seq(X)
         /\ Framed(s) = TrimLineEndings(s) \o <<CR, LF>>
         /\ Framed(s) \in Seq(X)
<1> DEFINE inner == {i \in 1..Len(s) : s[i] \notin {CR, LF}} \cup {0}
<1>1. Len(s) \in Nat /\ inner \in SUBSET (0..Len(s)) /\ inner # {}
  OBVIOUS
<1>2. PICK m : m = Max(inner)
  OBVIOUS
<1>3. m \in 0..Len(s)
  BY <1>1, <1>2, MaxOf
<1>4. PICK t : t = TrimLineEndings(s)
  OBVIOUS
<1>5. t = SubSeq(s, 1, m)
  BY <1>2, <1>4 DEF TrimLineEndings
<1> HIDE DEF inner
<1>6. t \in Seq(X)
  <2>1. m \in Int /\ \A i \in 1..m : s[i] \in X
    BY <1>1, <1>3
  <2> QED
    BY <1>5, <2>1, SubSeqProperties
<1>7. PICK e : e = <<CR, LF>>
  OBVIOUS
<1>8. e \in Seq(X)
  BY <1>7, Two
<1>9. t \o e \in Seq(X)
  BY <1>6, <1>8, ConcatProperties, Zenon
<1>10. Framed(s) = t \o e
  BY <1>4, <1>7 DEF Framed
<1> QED
  BY <1>4, <1>6, <1>7, <1>9, <1>10

LEMMA FramedCalm ==
  ASSUME NEW s \in Seq(Sent)
  PROVE  Framed(s) = s \o <<CR, LF>>
<1> DEFINE inner == {i \in 1..Len(s) : s[i] \notin {CR, LF}} \cup {0}
<1>1. Len(s) \in Nat
  OBVIOUS
<1>2. \A i \in 1..Len(s) : s[i] \notin {CR, LF}
  BY SentSign
<1>3. inner = 0..Len(s)
  BY <1>1, <1>2
<1>4. inner \in SUBSET (0..Len(s)) /\ inner # {}
  BY <1>1, <1>3
<1>5. Max(inner) \in inner /\ \A y \in inner : y <= Max(inner)
  BY <1>1, <1>4, MaxOf
<1>6. Max(inner) = Len(s)
  BY <1>1, <1>3, <1>5
<1>7. SubSeq(s, 1, Len(s)) = s
  BY SubSeqFull
<1>8. TrimLineEndings(s) = s
  BY <1>6, <1>7 DEF TrimLineEndings
<1> QED
  BY <1>8 DEF Framed

LEMMA BytesNone == Bytes(<<>>) = <<>>
<1>1. PICK none : none = [k \in 1..Len(<<>>) |-> Framed(<<>>[k])]
  OBVIOUS
<1>2. none = <<>>
  BY <1>1
<1>3. FlattenSeq(<<>>) = <<>>
  BY DEF FlattenSeq
<1> QED
  BY <1>1, <1>2, <1>3 DEF Bytes

LEMMA BytesIn ==
  ASSUME NEW X, CR \in X, LF \in X, NEW lines \in Seq(Seq(X))
  PROVE  Bytes(lines) \in Seq(X)
<1>1. Len(lines) \in Nat /\ \A k \in 1..Len(lines) : Framed(lines[k]) \in Seq(X)
  BY FramedEnds
<1>2. PICK framed : framed = [k \in 1..Len(lines) |-> Framed(lines[k])]
  OBVIOUS
<1>3. framed \in Seq(Seq(X))
  BY <1>1, <1>2
<1>4. FlattenSeq(framed) \in Seq(X)
  BY <1>3, FlattenText
<1> QED
  BY <1>2, <1>4 DEF Bytes

\* The bytes of one more line follow those of the others.
LEMMA BytesNext ==
  ASSUME NEW lines \in Seq(Seq(Sign)), NEW s \in Seq(Sign)
  PROVE  Bytes(Append(lines, s)) = Bytes(lines) \o Framed(s)
<1>1. PICK more : more = Append(lines, s)
  OBVIOUS
<1>2. /\ more \in Seq(Seq(Sign)) /\ Len(more) = Len(lines) + 1 /\ Len(lines) \in Nat
      /\ more[Len(lines) + 1] = s /\ \A k \in 1..Len(lines) : more[k] = lines[k]
  BY <1>1, Appended
<1>3. PICK f, g, x : /\ f = [k \in 1..Len(lines) |-> Framed(lines[k])]
                     /\ g = [k \in 1..Len(more) |-> Framed(more[k])]
                     /\ x = Framed(s)
  OBVIOUS
<1>4. \A t \in Seq(Sign) : Framed(t) \in Seq(Sign)
  BY SentSign, FramedEnds
<1>5. f \in Seq(Seq(Sign)) /\ Len(f) = Len(lines) /\ x \in Seq(Sign)
  <2>1. \A k \in 1..Len(lines) : Framed(lines[k]) \in Seq(Sign)
    BY <1>4
  <2> QED
    BY <1>2, <1>3, <1>4, <2>1
<1>6. g \in Seq(Seq(Sign)) /\ Len(g) = Len(lines) + 1
  <2>1. \A k \in 1..Len(more) : Framed(more[k]) \in Seq(Sign)
    BY <1>2, <1>4
  <2> QED
    BY <1>2, <1>3, <2>1
<1>7. PICK h : h = Append(f, x)
  OBVIOUS
<1>8. /\ h \in Seq(Seq(Sign)) /\ Len(h) = Len(lines) + 1
      /\ h[Len(lines) + 1] = x /\ \A k \in 1..Len(lines) : h[k] = f[k]
  BY <1>5, <1>7, Appended
<1>9. \A k \in 1..Len(g) : g[k] = h[k]
  <2> TAKE k \in 1..Len(g)
  <2>1. k \in 1..Len(more) /\ (k \in 1..Len(lines) \/ k = Len(lines) + 1)
    BY <1>2, <1>6
  <2>2. g[k] = Framed(more[k])
    BY <1>3, <2>1
  <2>3. CASE k \in 1..Len(lines)
    BY <1>2, <1>3, <1>8, <2>2, <2>3
  <2>4. CASE k = Len(lines) + 1
    BY <1>2, <1>3, <1>8, <2>2, <2>4
  <2> QED
    BY <2>1, <2>3, <2>4
<1>10. g = h
  <2>1. Len(g) = Len(h)
    BY <1>6, <1>8
  <2> QED
    BY <1>6, <1>8, <1>9, <2>1, SeqEqual, Zenon
<1>11. FlattenSeq(f) \in Seq(Sign)
  BY <1>5, FlattenText
<1>12. FlattenSeq(h) = FlattenSeq(f) \o x
  BY <1>5, <1>7, <1>11, FlattenAppend
<1> QED
  BY <1>1, <1>3, <1>10, <1>12 DEF Bytes

LEMMA BytesComplete ==
  ASSUME NEW lines \in Seq(Seq(Sign))
  PROVE  Bytes(lines) \in Seq(Sign) /\ Complete(Bytes(lines))
<1>1. Bytes(lines) \in Seq(Sign)
  BY SentSign, BytesIn
<1>2. CASE lines = <<>>
  BY <1>1, <1>2, BytesNone DEF Complete
<1>3. CASE lines # <<>>
  <2>1. PICK ls \in Seq(Seq(Sign)), s \in Seq(Sign) : lines = Append(ls, s)
    BY <1>3, SequenceEmptyOrAppend
  <2>2. Bytes(lines) = Bytes(ls) \o Framed(s)
    BY <2>1, BytesNext
  <2>3. Bytes(ls) \in Seq(Sign)
    BY SentSign, BytesIn
  <2>4. TrimLineEndings(s) \in Seq(Sign) /\ Framed(s) = TrimLineEndings(s) \o <<CR, LF>>
    BY SentSign, FramedEnds
  <2>5. Bytes(lines) = Ended(Bytes(ls), TrimLineEndings(s))
    BY <2>2, <2>4 DEF Ended
  <2> QED
    BY <1>1, <2>3, <2>4, <2>5, EndedComplete
<1> QED
  BY <1>2, <1>3

LEMMA AppendLast ==
  ASSUME NEW X, NEW s \in Seq(X), NEW t \in Seq(X), NEW x \in X
  PROVE  s \o Append(t, x) = Append(s \o t, x)
<1>1. PICK u : u = <<x>>
  OBVIOUS
<1>2. u \in Seq(X)
  BY <1>1, One
<1>3. Append(t, x) = t \o u
  BY <1>1, AppendIsConcat
<1>4. s \o t \in Seq(X)
  BY ConcatProperties, Zenon
<1>5. Append(s \o t, x) = (s \o t) \o u
  BY <1>1, <1>4, AppendIsConcat
<1>6. (s \o t) \o u = s \o (t \o u)
  BY <1>2, ConcatAssociative
<1> QED
  BY <1>3, <1>5, <1>6

\* The lines that are sent as they stand are read as they stand, whatever comes
\* before them.
LEMMA ReadRest ==
  ASSUME NEW first \in Seq(Seq(Sign))
  PROVE  \A lines \in Seq(Seq(Sent)) :
           LinesIn(Bytes(first \o lines)) = LinesIn(Bytes(first)) \o lines
<1> DEFINE P == {ls \in Seq(Seq(Sent)) : LinesIn(Bytes(first \o ls)) = LinesIn(Bytes(first)) \o ls}
<1>0. PICK r : r = LinesIn(Bytes(first))
  OBVIOUS
<1>1. r \in Seq(Seq(Sign))
  <2>1. Bytes(first) \in Seq(Sign)
    BY BytesComplete
  <2> QED
    BY <1>0, <2>1, ReadText
<1>2. Seq(Sent) \subseteq Seq(Sign) /\ \A ls \in Seq(Seq(Sent)) : ls \in Seq(Seq(Sign))
  <2>1. Seq(Sent) \subseteq Seq(Sign)
    BY SentSign, SeqMonotonic
  <2> QED
    BY <2>1, SeqMonotonic
<1>3. <<>> \in P
  <2>1. first \o <<>> = first /\ r \o <<>> = r
    BY <1>1, ConcatEmptySeq
  <2>2. <<>> \in Seq(Seq(Sent))
    OBVIOUS
  <2> QED
    BY <1>0, <2>1, <2>2
<1>4. ASSUME NEW ls \in P, NEW l \in Seq(Sent) PROVE Append(ls, l) \in P
  <2>1. ls \in Seq(Seq(Sent)) /\ LinesIn(Bytes(first \o ls)) = r \o ls
    BY <1>0, <1>4
  <2>2. ls \in Seq(Seq(Sign)) /\ l \in Seq(Sign)
    BY <1>2, <2>1
  <2>3. PICK x, a, b : x = first \o ls /\ a = Bytes(x) /\ b = r \o ls
    OBVIOUS
  <2>4. x \in Seq(Seq(Sign)) /\ b \in Seq(Seq(Sign))
    <3>1. first \o ls \in Seq(Seq(Sign)) /\ r \o ls \in Seq(Seq(Sign))
      BY <1>1, <2>2, ConcatProperties, Zenon
    <3> QED
      BY <2>3, <3>1
  <2>5. a \in Seq(Sign) /\ Complete(a)
    BY <2>3, <2>4, BytesComplete
  <2>6. first \o Append(ls, l) = Append(x, l) /\ r \o Append(ls, l) = Append(b, l)
    <3> HIDE DEF P
    <3>1. first \o Append(ls, l) = Append(first \o ls, l)
      BY <2>2, AppendLast
    <3>2. r \o Append(ls, l) = Append(r \o ls, l)
      BY <1>1, <2>2, AppendLast
    <3> QED
      BY <2>3, <3>1, <3>2
  <2>7. Bytes(Append(x, l)) = Ended(a, l)
    <3>1. Bytes(Append(x, l)) = Bytes(x) \o Framed(l)
      BY <2>2, <2>4, BytesNext
    <3>2. Framed(l) = l \o <<CR, LF>>
      BY FramedCalm
    <3> QED
      BY <2>3, <3>1, <3>2 DEF Ended
  <2>8. LinesIn(a) = b
    BY <2>1, <2>3
  <2>9. LinesIn(Ended(a, l)) = Append(b, l)
    <3>1. LinesIn(a) \in Seq(Seq(Sign))
      BY <2>4, <2>8
    <3>2. LinesIn(Ended(a, l)) = Append(LinesIn(a), l)
      BY <2>5, <3>1, ReadNext, Zenon
    <3> QED
      BY <2>8, <3>2
  <2>10. Append(ls, l) \in Seq(Seq(Sent))
    BY <2>1
  <2>11. LinesIn(Bytes(first \o Append(ls, l))) = r \o Append(ls, l)
    BY <2>6, <2>7, <2>9
  <2> QED
    BY <1>0, <2>10, <2>11
<1>5. P \in SUBSET Seq(Seq(Sent))
  OBVIOUS
<1> HIDE DEF P
<1>6. \A ls \in Seq(Seq(Sent)) : ls \in P
  BY <1>3, <1>4, <1>5, EverySeq
<1> QED
  BY <1>6 DEF P

-------------------------------------------------------------------------------
(* What is rendered, and what is read of it.                               *)

\* What a label may have that its key has not.
Lettered(X) == Caps \subseteq X /\ " " \in X

LEMMA LabelIn ==
  ASSUME NEW X, Lettered(X), NEW key \in Seq(X)
  PROVE  Label(key) \in Seq(X)
<1> DEFINE raised(c) == IF c \in Small /\ \E d \in Caps : LowerOf[d] = c
                          THEN CHOOSE d \in Caps : LowerOf[d] = c ELSE c
           at(i)     == IF i = 1 THEN raised(key[1]) ELSE IF key[i] = "_" THEN " " ELSE key[i]
<1>1. \A c \in X : raised(c) \in X
  BY DEF Lettered
<1>2. Len(key) \in Nat
  OBVIOUS
<1>3. \A i \in 1..Len(key) : key[i] \in X /\ key[1] \in X
  <2> TAKE i \in 1..Len(key)
  <2>1. i \in 1..Len(key) /\ 1 \in 1..Len(key)
    BY <1>2
  <2> QED
    BY <2>1
<1> HIDE DEF raised
<1>4. \A i \in 1..Len(key) : at(i) \in X
  BY <1>1, <1>3, Zenon DEF Lettered
<1>5. Label(key) = [i \in 1..Len(key) |-> at(i)]
  BY Zenon DEF Label, raised
<1> HIDE DEF at
<1>6. [i \in 1..Len(key) |-> at(i)] \in Seq(X)
  BY <1>2, <1>4
<1> QED
  BY <1>5, <1>6, Zenon

LEMMA TrimEmpty ==
  ASSUME NEW s \in Text
  PROVE  Trim(s) = <<>> <=> Within(s, Blank)
<1> DEFINE inner == {i \in 1..Len(s) : s[i] \notin Blank}
<1>1. inner = {} <=> Within(s, Blank)
  BY DEF Within
<1>2. inner = {} => Trim(s) = <<>>
  BY DEF Trim
<1>3. ASSUME inner # {} PROVE Trim(s) # <<>>
  <2>1. Len(s) \in Nat /\ inner \in SUBSET Nat /\ inner \in SUBSET (0..Len(s))
    BY DEF Text
  <2>2. PICK p, q : p = Min(inner) /\ q = Max(inner)
    OBVIOUS
  <2>3. p \in inner /\ q \in inner /\ p <= q
    BY <1>3, <2>1, <2>2, MinOf, MaxOf
  <2>4. p \in Int /\ q \in Int /\ \A i \in p..q : i \in 1..Len(s)
    BY <2>1, <2>3
  <2>5. \A i \in p..q : s[i] \in Char \ {Bad}
    BY <2>4 DEF Text
  <2>6. Len(SubSeq(s, p, q)) = q - p + 1
    BY <2>3, <2>4, <2>5, SubSeqProperties
  <2>7. Trim(s) = SubSeq(s, p, q)
    BY <1>3, <2>2 DEF Trim
  <2>8. Len(Trim(s)) # 0
    BY <2>3, <2>4, <2>6, <2>7
  <2> QED
    BY <2>8
<1> QED
  BY <1>1, <1>2, <1>3

\* The lines of a plan that has some: as many as it has line ends, and one more if
\* something stands after the last of them.
LEMMA LinesCounted ==
  ASSUME NEW s \in Text, s # <<>>
  PROVE  LET ends == {i \in 1..Len(s) : s[i] = LF \/ i = Len(s)}
         IN  Len(LinesOf(s)) = Cardinality(ends) /\ Len(LinesOf(s)) \in Nat \ {0}
<1>1. PICK n, S, e : /\ n = Len(s) /\ S = {i \in 1..Len(s) : s[i] = LF \/ i = Len(s)}
                     /\ e = Places(n, S)
  OBVIOUS
<1>2. n \in Nat \ {0} /\ S \in SUBSET (1..n) /\ n \in S
  BY <1>1 DEF Text
<1>3. Len(e) = Cardinality(S)
  BY <1>1, <1>2, PlacesCounted
<1>4. Len(e) \in Nat
  <2>1. e \in Seq((1..n) \cap S)
    BY <1>1, <1>2, KeptPlaces DEF Places
  <2> QED
    BY <2>1
<1>5. Len(e) # 0
  <2>1. IsFiniteSet(S)
    <3>1. 1 \in Int /\ n \in Int
      BY <1>2
    <3>2. IsFiniteSet(1..n)
      BY <3>1, FS_Interval
    <3> QED
      BY <1>2, <3>2, FS_Subset
  <2>2. Cardinality(S) # 0
    BY <1>2, <2>1, FS_EmptySet
  <2> QED
    BY <1>3, <2>2
<1>6. Len(LinesOf(s)) = Len(e)
  <2>1. LinesOf(s) = [k \in 1..Len(e) |->
                        SubSeq(s, IF k = 1 THEN 1 ELSE e[k - 1] + 1,
                                  IF s[e[k]] = LF THEN e[k] - 1 ELSE e[k])]
    BY <1>1 DEF LinesOf, Places
  <2> QED
    BY <1>4, <2>1
<1> QED
  BY <1>1, <1>3, <1>4, <1>5, <1>6

\* What the lines that end at the places of e keep of s, each with a line end.
LastOf(e)  == IF Len(e) = 0 THEN 0 ELSE e[Len(e)]
Rest(s, p, q) == Kept(SubSeq(s, p + 1, IF s[q] = LF THEN q - 1 ELSE q), Printable) \o <<LF>>
Rows(s, e) == [k \in 1..Len(e) |-> Rest(s, IF k = 1 THEN 0 ELSE e[k - 1], e[k])]

LEMMA PieceNext ==
  ASSUME NEW X, NEW s \in Seq(X), NEW m \in Nat, m + 1 <= Len(s), NEW a \in 1..(m + 1)
  PROVE  /\ SubSeq(s, a, m) \in Seq(X) /\ s[m + 1] \in X
         /\ SubSeq(s, a, m + 1) = Append(SubSeq(s, a, m), s[m + 1])
<1>1. PICK u, v, x, w : /\ u = SubSeq(s, a, m) /\ v = SubSeq(s, a, m + 1) /\ x = s[m + 1]
                        /\ w = Append(u, x)
  OBVIOUS
<1>2. a \in Int /\ m \in Int /\ m + 1 \in Int /\ \A i \in a..(m + 1) : i \in 1..Len(s)
  OBVIOUS
<1>3. \A i \in a..(m + 1) : s[i] \in X
  BY <1>2
<1>4. \A i \in a..m : s[i] \in X
  BY <1>3
<1>5. x \in X
  BY <1>1, <1>3
<1>6. u \in Seq(X) /\ Len(u) = m - a + 1 /\ \A i \in 1..(m - a + 1) : u[i] = s[a + i - 1]
  <2>1. /\ u \in Seq(X) /\ Len(u) = IF a <= m THEN m - a + 1 ELSE 0
        /\ \A i \in 1..(m - a + 1) : u[i] = s[a + i - 1]
    BY <1>1, <1>2, <1>4, SubSeqProperties
  <2>2. ~(a <= m) => m - a + 1 = 0
    OBVIOUS
  <2> QED
    BY <2>1, <2>2
<1>7. PICK n \in Nat : n = m - a + 1
  OBVIOUS
<1>8. v \in Seq(X) /\ Len(v) = n + 1 /\ \A i \in 1..(n + 1) : v[i] = s[a + i - 1]
  <2>1. /\ v \in Seq(X) /\ Len(v) = IF a <= m + 1 THEN (m + 1) - a + 1 ELSE 0
        /\ \A i \in 1..((m + 1) - a + 1) : v[i] = s[a + i - 1]
    BY <1>1, <1>2, <1>3, SubSeqProperties
  <2>2. (m + 1) - a + 1 = n + 1
    BY <1>7
  <2> QED
    BY <2>1, <2>2
<1>9. w \in Seq(X) /\ Len(w) = n + 1 /\ w[n + 1] = x /\ \A i \in 1..n : w[i] = u[i]
  BY <1>1, <1>5, <1>6, <1>7, Appended
<1>10. \A i \in 1..Len(v) : v[i] = w[i]
  <2> TAKE i \in 1..Len(v)
  <2>1. CASE i = n + 1
    <3>1. a + i - 1 = m + 1
      BY <1>7, <2>1
    <3> QED
      BY <1>1, <1>8, <1>9, <2>1, <3>1
  <2>2. CASE i # n + 1
    <3>1. i \in 1..n
      BY <1>8, <2>2
    <3> QED
      BY <1>6, <1>7, <1>8, <1>9, <3>1
  <2> QED
    BY <2>1, <2>2
<1>11. v = w
  BY <1>8, <1>9, <1>10, SeqEqual, Zenon
<1> QED
  BY <1>1, <1>5, <1>6, <1>11

LEMMA RestIn ==
  ASSUME NEW s \in Text, NEW p \in 0..Len(s), NEW q \in 1..Len(s)
  PROVE  Rest(s, p, q) \in Seq(Sign)
<1>1. PICK d : d = IF s[q] = LF THEN q - 1 ELSE q
  OBVIOUS
<1>2. p + 1 \in Nat \ {0} /\ d \in 0..Len(s)
  BY <1>1
<1>3. PICK t : t = SubSeq(s, p + 1, d)
  OBVIOUS
<1>4. s \in Line
  <2>1. Char \ {Bad} \subseteq Char
    OBVIOUS
  <2> QED
    BY <2>1, SeqMonotonic DEF Text, Line
<1>5. t \in Seq(Char)
  BY <1>2, <1>3, <1>4, Cut DEF Line
<1>6. Kept(t, Printable) \in Seq(Char \cap Printable)
  BY <1>5, KeptText
<1>7. Char \cap Printable \subseteq Sign
  BY DEF Sign
<1>8. Kept(t, Printable) \in Seq(Sign)
  BY <1>6, <1>7, SeqMonotonic
<1>9. <<LF>> \in Seq(Sign)
  BY SentSign, One
<1>10. Kept(t, Printable) \o <<LF>> \in Seq(Sign)
  BY <1>8, <1>9, ConcatProperties, Zenon
<1> QED
  BY <1>1, <1>3, <1>10 DEF Rest

LEMMA LastOfIn ==
  ASSUME NEW n \in Nat, NEW e \in Seq(1..n)
  PROVE  LastOf(e) \in 0..n
<1>1. CASE Len(e) = 0
  BY <1>1 DEF LastOf
<1>2. CASE Len(e) # 0
  <2>1. Len(e) \in 1..Len(e)
    BY <1>2
  <2> QED
    BY <1>2, <2>1 DEF LastOf
<1> QED
  BY <1>1, <1>2

LEMMA RowsIn ==
  ASSUME NEW s \in Text, NEW e \in Seq(1..Len(s))
  PROVE  Rows(s, e) \in Seq(Seq(Sign))
<1>1. ASSUME NEW k \in 1..Len(e) PROVE Rest(s, IF k = 1 THEN 0 ELSE e[k - 1], e[k]) \in Seq(Sign)
  <2>1. PICK p, q : p = (IF k = 1 THEN 0 ELSE e[k - 1]) /\ q = e[k]
    OBVIOUS
  <2>2. q \in 1..Len(s)
    BY <2>1
  <2>3. p \in 0..Len(s)
    <3>1. Len(s) \in Nat /\ k \in 1..Len(e) /\ Len(e) \in Nat
      BY DEF Text
    <3>2. CASE k = 1
      BY <2>1, <3>1, <3>2
    <3>3. CASE k # 1
      <4>1. k - 1 \in 1..Len(e)
        BY <3>1, <3>3
      <4>2. e[k - 1] \in 1..Len(s)
        BY <4>1
      <4> QED
        BY <2>1, <3>1, <3>3, <4>2
    <3> QED
      BY <3>2, <3>3
  <2>4. Rest(s, p, q) \in Seq(Sign)
    BY <2>2, <2>3, RestIn
  <2> QED
    BY <2>1, <2>4
<1>2. Len(e) \in Nat
  OBVIOUS
<1> DEFINE row(k) == Rest(s, IF k = 1 THEN 0 ELSE e[k - 1], e[k])
<1>3. \A k \in 1..Len(e) : row(k) \in Seq(Sign)
  BY <1>1
<1>4. Rows(s, e) = [k \in 1..Len(e) |-> row(k)]
  BY DEF Rows
<1> HIDE DEF row
<1>5. [k \in 1..Len(e) |-> row(k)] \in Seq(Seq(Sign))
  BY <1>2, <1>3
<1> QED
  BY <1>4, <1>5

\* One place more is one line more.
LEMMA RowsNext ==
  ASSUME NEW s \in Text, NEW e \in Seq(1..Len(s)), NEW x \in 1..Len(s)
  PROVE  Rows(s, Append(e, x)) = Append(Rows(s, e), Rest(s, LastOf(e), x))
<1>1. PICK f : f = Append(e, x)
  OBVIOUS
<1>2. f \in Seq(1..Len(s)) /\ Len(f) = Len(e) + 1 /\ f[Len(e) + 1] = x /\ \A i \in 1..Len(e) : f[i] = e[i]
  BY <1>1, Appended
<1>3. PICK l, r, a, b : /\ l = LastOf(e) /\ r = Rest(s, l, x)
                        /\ a = Rows(s, e) /\ b = Append(a, r)
  OBVIOUS
<1>4. r \in Seq(Sign)
  <2>1. Len(s) \in Nat
    BY DEF Text
  <2>2. l \in 0..Len(s)
    BY <1>3, <2>1, LastOfIn
  <2> QED
    BY <1>3, <2>2, RestIn
<1>5. a \in Seq(Seq(Sign)) /\ Len(a) = Len(e)
  <2>1. a \in Seq(Seq(Sign))
    BY <1>3, RowsIn
  <2>2. Len(e) \in Nat
    OBVIOUS
  <2>3. Len(a) = Len(e)
    BY <1>3, <2>2 DEF Rows
  <2> QED
    BY <2>1, <2>3
<1>6. b \in Seq(Seq(Sign)) /\ Len(b) = Len(a) + 1 /\ b[Len(a) + 1] = r /\ \A i \in 1..Len(a) : b[i] = a[i]
  BY <1>3, <1>4, <1>5, Appended
<1>7. PICK c : c = Rows(s, f)
  OBVIOUS
<1>8. PICK n \in Nat : n = Len(e)
  OBVIOUS
<1>9. c \in Seq(Seq(Sign)) /\ Len(c) = n + 1
  <2>1. c \in Seq(Seq(Sign))
    BY <1>2, <1>7, RowsIn
  <2>2. Len(f) = n + 1
    BY <1>2, <1>8
  <2>3. Len(c) = Len(f)
    BY <1>7, <2>2 DEF Rows
  <2> QED
    BY <2>1, <2>2, <2>3
<1>10. \A k \in 1..(n + 1) : c[k] = Rest(s, IF k = 1 THEN 0 ELSE f[k - 1], f[k])
  <2>1. Len(f) = n + 1
    BY <1>2, <1>8
  <2> QED
    BY <1>7, <2>1 DEF Rows
<1>11. \A k \in 1..n : a[k] = Rest(s, IF k = 1 THEN 0 ELSE e[k - 1], e[k])
  BY <1>3, <1>8 DEF Rows
<1>12. \A k \in 1..Len(b) : b[k] = c[k]
  <2> TAKE k \in 1..Len(b)
  <2>1. k \in 1..(n + 1)
    BY <1>5, <1>6, <1>8
  <2>2. CASE k = n + 1
    <3>1. b[k] = r /\ f[k] = x
      BY <1>2, <1>5, <1>6, <1>8, <2>2
    <3>2. (IF k = 1 THEN 0 ELSE f[k - 1]) = l
      <4>1. CASE n = 0
        BY <1>3, <1>8, <2>2, <4>1 DEF LastOf
      <4>2. CASE n # 0
        <5>1. k # 1 /\ k - 1 = n /\ n \in 1..Len(e)
          BY <1>8, <2>2, <4>2
        <5>2. f[n] = e[n]
          BY <1>2, <5>1
        <5>3. l = e[n]
          BY <1>3, <1>8, <4>2 DEF LastOf
        <5> QED
          BY <5>1, <5>2, <5>3
      <4> QED
        BY <4>1, <4>2
    <3> QED
      BY <1>3, <1>10, <2>1, <3>1, <3>2
  <2>3. CASE k # n + 1
    <3>1. k \in 1..n /\ k \in 1..Len(a) /\ k \in 1..Len(e)
      BY <1>5, <1>8, <2>1, <2>3
    <3>2. b[k] = a[k] /\ f[k] = e[k]
      BY <1>2, <1>6, <3>1
    <3>3. k # 1 => f[k - 1] = e[k - 1]
      <4>1. k # 1 => k - 1 \in 1..Len(e)
        BY <3>1
      <4> QED
        BY <1>2, <4>1
    <3> QED
      BY <1>10, <1>11, <2>1, <3>1, <3>2, <3>3
  <2> QED
    BY <2>2, <2>3
<1>13. b = c
  BY <1>5, <1>6, <1>8, <1>9, <1>12, SeqEqual, Zenon
<1> QED
  BY <1>1, <1>3, <1>7, <1>13

\* Of the first m characters, the lines that are over and what is left after the last
\* of them keep what is printable and the line ends.
LEMMA JoinedSoFar ==
  ASSUME NEW s \in Text
  PROVE  \A m \in 0..Len(s) :
           LET e == Places(m, {i \in 1..Len(s) : s[i] = LF})
           IN  /\ e \in Seq(1..Len(s)) /\ LastOf(e) \in 0..m
               /\ FlattenSeq(Rows(s, e)) \o Kept(SubSeq(s, LastOf(e) + 1, m), Printable)
                    = Kept(SubSeq(s, 1, m), Printable \cup {LF})
<1>1. PICK T, C, n : /\ T = {i \in 1..Len(s) : s[i] = LF} /\ C = Printable \cup {LF}
                     /\ n = Len(s)
  OBVIOUS
<1>2. n \in Nat /\ s \in Seq(Char \ {Bad})
  BY <1>1 DEF Text
<1> DEFINE e(m) == Places(m, T)
           P == {m \in Nat : m <= n =>
                   /\ e(m) \in Seq(1..n) /\ LastOf(e(m)) \in 0..m
                   /\ FlattenSeq(Rows(s, e(m))) \o Kept(SubSeq(s, LastOf(e(m)) + 1, m), Printable)
                        = Kept(SubSeq(s, 1, m), C)}
<1>3. \A m \in 0..n : e(m) \in Seq(1..n) /\ LastOf(e(m)) \in 0..m
  <2> TAKE m \in 0..n
  <2>1. m \in Nat /\ (1..m) \cap T \subseteq 1..m /\ 1..m \subseteq 1..n
    BY <1>2
  <2>2. e(m) \in Seq((1..m) \cap T)
    BY <2>1, KeptPlaces DEF Places
  <2>3. e(m) \in Seq(1..m)
    BY <2>1, <2>2, SeqMonotonic
  <2>4. e(m) \in Seq(1..n)
    BY <2>1, <2>3, SeqMonotonic
  <2>5. LastOf(e(m)) \in 0..m
    BY <2>1, <2>3, LastOfIn
  <2> QED
    BY <2>4, <2>5
<1>4. 0 \in P
  <2>1. PICK none : none = <<>>
    OBVIOUS
  <2>2. e(0) = none
    BY <2>1, PlacesFirst
  <2>3. LastOf(none) = 0 /\ Len(none) = 0
    BY <2>1 DEF LastOf
  <2>4. Rows(s, none) = none
    BY <2>1 DEF Rows
  <2>5. SubSeq(s, 1, 0) = none
    BY <1>2, <2>1
  <2>6. \A X : Kept(none, X) = none
    <3> TAKE X
    <3>1. Kept(none, X) \in Seq({} \cap X)
      <4>1. none \in Seq({})
        BY <2>1, EmptySeq
      <4> QED
        BY <4>1, KeptText
    <3> QED
      BY <2>1, <3>1
  <2>7. FlattenSeq(none) = none
    <3>1. none \in Seq(Seq({}))
      BY <2>1, EmptySeq
    <3>2. FlattenSeq(none) \in Seq({})
      BY <3>1, FlattenText
    <3> QED
      BY <2>1, <3>2
  <2>8. none \o none = none
    BY <2>1
  <2>9. LastOf(e(0)) + 1 = 1
    BY <2>2, <2>3
  <2>10. FlattenSeq(Rows(s, e(0))) \o Kept(SubSeq(s, LastOf(e(0)) + 1, 0), Printable)
           = Kept(SubSeq(s, 1, 0), C)
    BY <2>2, <2>4, <2>5, <2>6, <2>7, <2>8, <2>9, Zenon
  <2>11. 0 \in Nat /\ 0 \in 0..n
    BY <1>2
  <2> HIDE DEF e
  <2> QED
    BY <1>3, <2>10, <2>11
<1>5. ASSUME NEW m \in P PROVE m + 1 \in P
  <2> SUFFICES ASSUME m + 1 <= n
               PROVE  FlattenSeq(Rows(s, e(m + 1))) \o Kept(SubSeq(s, LastOf(e(m + 1)) + 1, m + 1), Printable)
                        = Kept(SubSeq(s, 1, m + 1), C)
    <3>1. m \in Nat /\ m + 1 \in Nat /\ (m + 1 <= n => m + 1 \in 0..n)
      BY <1>2
    <3> HIDE DEF e
    <3> QED
      BY <1>3, <3>1
  <2>1. m \in Nat /\ m + 1 \in Nat /\ m \in 0..n /\ m + 1 \in 1..n /\ m <= n
    BY <1>2
  <2>2. PICK d, l, rows, flat, rest, whole, c :
          /\ d = e(m) /\ l = LastOf(e(m)) /\ rows = Rows(s, e(m)) /\ flat = FlattenSeq(Rows(s, e(m)))
          /\ rest = SubSeq(s, LastOf(e(m)) + 1, m) /\ whole = SubSeq(s, 1, m) /\ c = s[m + 1]
    OBVIOUS
  <2>3. d \in Seq(1..n) /\ l \in 0..m /\ l = LastOf(d)
    BY <1>3, <2>1, <2>2
  <2>4. flat \o Kept(rest, Printable) = Kept(whole, C)
    <3> HIDE DEF e
    <3> QED
      BY <2>1, <2>2
  <2>5. /\ rest \in Seq(Char) /\ whole \in Seq(Char) /\ c \in Char
        /\ SubSeq(s, l + 1, m + 1) = Append(rest, c) /\ SubSeq(s, 1, m + 1) = Append(whole, c)
    <3>1. s \in Seq(Char)
      <4>1. Char \ {Bad} \subseteq Char
        OBVIOUS
      <4> QED
        BY <1>2, <4>1, SeqMonotonic
    <3>2. l + 1 \in 1..(m + 1) /\ 1 \in 1..(m + 1) /\ m + 1 <= Len(s)
      BY <1>1, <2>1, <2>3
    <3>3. /\ SubSeq(s, l + 1, m) \in Seq(Char) /\ s[m + 1] \in Char
          /\ SubSeq(s, l + 1, m + 1) = Append(SubSeq(s, l + 1, m), s[m + 1])
      BY <2>1, <3>1, <3>2, PieceNext
    <3>4. /\ SubSeq(s, 1, m) \in Seq(Char)
          /\ SubSeq(s, 1, m + 1) = Append(SubSeq(s, 1, m), s[m + 1])
      BY <2>1, <3>1, <3>2, PieceNext
    <3> QED
      BY <2>2, <3>3, <3>4
  <2>6. rows \in Seq(Seq(Sign)) /\ flat \in Seq(Sign)
    <3>1. rows \in Seq(Seq(Sign))
      BY <1>1, <2>2, <2>3, RowsIn
    <3> QED
      BY <2>2, <3>1, FlattenText
  <2>7. Kept(rest, Printable) \in Seq(Sign) /\ Kept(whole, C) \in Seq(Sign)
    <3>1. Kept(rest, Printable) \in Seq(Char \cap Printable) /\ Kept(whole, C) \in Seq(Char \cap C)
      BY <2>5, KeptText
    <3>2. Char \cap Printable \subseteq Sign /\ Char \cap C \subseteq Sign
      BY DEF Sign
    <3> QED
      BY <3>1, <3>2, SeqMonotonic
  <2>8. c \in Sign /\ LF \notin Printable
    BY <2>5, SentSign DEF Sign, Sent
  <2>9. CASE c = LF
    <3>1. m + 1 \in T
      BY <1>1, <2>1, <2>2, <2>9
    <3>2. e(m + 1) = Append(d, m + 1)
      BY <2>1, <2>2, <3>1, PlacesNext
    <3>3. PICK added : added = Rest(s, l, m + 1)
      OBVIOUS
    <3>4. Rows(s, e(m + 1)) = Append(rows, added)
      BY <1>1, <2>1, <2>2, <2>3, <3>2, <3>3, RowsNext
    <3>5. PICK end : end = <<LF>>
      OBVIOUS
    <3>6. added = Kept(rest, Printable) \o end
      <4>1. s[m + 1] = LF /\ m + 1 - 1 = m
        BY <2>1, <2>2, <2>9
      <4> QED
        BY <2>2, <3>3, <3>5, <4>1 DEF Rest
    <3>7. end \in Seq(Sign)
      BY <2>8, <2>9, <3>5, One
    <3>8. added \in Seq(Sign)
      BY <2>7, <3>6, <3>7, ConcatProperties, Zenon
    <3>9. FlattenSeq(Append(rows, added)) = flat \o added
      BY <2>2, <2>6, <3>8, FlattenAppend
    <3>10. flat \o added = Kept(whole, C) \o end
      <4>1. PICK kept, Y : kept = Kept(rest, Printable) /\ Y = Sign
        OBVIOUS
      <4>2. flat \in Seq(Y) /\ kept \in Seq(Y) /\ end \in Seq(Y)
        BY <2>6, <2>7, <3>7, <4>1
      <4>3. (flat \o kept) \o end = flat \o (kept \o end)
        BY <4>2, ConcatAssociative
      <4> QED
        BY <2>4, <3>6, <4>1, <4>3
    <3>11. Kept(Append(whole, c), C) = Kept(whole, C) \o end
      <4>0. c \in C
        BY <1>1, <2>9
      <4>1. Kept(Append(whole, c), C) = Append(Kept(whole, C), c)
        BY <2>5, <4>0, KeptAppend
      <4>2. Append(Kept(whole, C), c) = Kept(whole, C) \o <<c>>
        BY <2>7, <2>8, AppendIsConcat
      <4> QED
        BY <2>9, <3>5, <4>1, <4>2
    <3>12. Kept(SubSeq(s, LastOf(e(m + 1)) + 1, m + 1), Printable) = <<>>
      <4>1. LastOf(e(m + 1)) = m + 1
        <5>1. PICK x, f : x = m + 1 /\ f = Append(d, x)
          OBVIOUS
        <5>2. Len(f) = Len(d) + 1 /\ f[Len(d) + 1] = x
          BY <1>2, <2>1, <2>3, <5>1, Appended
        <5>3. Len(d) \in Nat
          BY <2>3
        <5>4. LastOf(f) = x
          BY <5>2, <5>3 DEF LastOf
        <5> QED
          BY <3>2, <5>1, <5>4
      <4>2. SubSeq(s, (m + 1) + 1, m + 1) = <<>>
        BY <2>1
      <4>3. Kept(<<>>, Printable) = <<>>
        <5>1. PICK none : none = <<>>
          OBVIOUS
        <5>2. none \in Seq({})
          BY <5>1, EmptySeq
        <5>3. Kept(none, Printable) \in Seq({} \cap Printable)
          BY <5>2, KeptText
        <5> QED
          BY <5>1, <5>3
      <4> HIDE DEF e
      <4> QED
        BY <4>1, <4>2, <4>3
    <3>13. FlattenSeq(Rows(s, e(m + 1))) = Kept(Append(whole, c), C)
      BY <3>4, <3>9, <3>10, <3>11, Zenon
    <3>14. Kept(Append(whole, c), C) \o <<>> = Kept(Append(whole, c), C)
      <4>1. Append(whole, c) \in Seq(Char)
        BY <2>5
      <4>2. Kept(Append(whole, c), C) \in Seq(Char \cap C)
        BY <4>1, KeptText
      <4> QED
        BY <4>2, ConcatEmptySeq
    <3> HIDE DEF e
    <3> QED
      BY <2>5, <3>12, <3>13, <3>14, Zenon
  <2>10. CASE c # LF
    <3>1. m + 1 \notin T
      BY <1>1, <2>2, <2>10
    <3>2. e(m + 1) = d
      BY <2>1, <2>2, <3>1, PlacesNext
    <3>3. c \in C <=> c \in Printable
      BY <1>1, <2>10
    <3>4. CASE c \in Printable
      <4>1. Kept(Append(rest, c), Printable) = Append(Kept(rest, Printable), c)
        BY <2>5, <3>4, KeptAppend
      <4>2. Kept(Append(whole, c), C) = Append(Kept(whole, C), c)
        BY <2>5, <3>3, <3>4, KeptAppend
      <4>3. flat \o Append(Kept(rest, Printable), c) = Append(flat \o Kept(rest, Printable), c)
        BY <2>6, <2>7, <2>8, AppendLast
      <4> HIDE DEF e
      <4> QED
        BY <2>2, <2>3, <2>4, <2>5, <3>2, <4>1, <4>2, <4>3, Zenon
    <3>5. CASE c \notin Printable
      <4>1. Kept(Append(rest, c), Printable) = Kept(rest, Printable)
        BY <2>5, <3>5, KeptAppend
      <4>2. Kept(Append(whole, c), C) = Kept(whole, C)
        BY <2>5, <3>3, <3>5, KeptAppend
      <4> HIDE DEF e
      <4> QED
        BY <2>2, <2>3, <2>4, <2>5, <3>2, <4>1, <4>2, Zenon
    <3> QED
      BY <3>4, <3>5
  <2> QED
    BY <2>9, <2>10
<1>6. P \in SUBSET Nat
  OBVIOUS
<1> HIDE DEF P
<1>7. \A m \in Nat : m \in P
  BY <1>4, <1>5, <1>6, EveryNatural
<1>8. \A m \in 0..n : m \in Nat /\ m <= n
  BY <1>2
<1> QED
  BY <1>1, <1>7, <1>8 DEF P

\* The lines of a plan, each with a line end, keep what is printable and the line
\* ends, and end in a line end.
LEMMA PlanJoined ==
  ASSUME NEW s \in Text, s # <<>>
  PROVE  FlattenSeq([k \in 1..Len(LinesOf(s)) |-> Sanitised(LinesOf(s)[k]) \o <<LF>>])
           = Kept(s, Printable \cup {LF}) \o (IF s[Len(s)] = LF THEN <<>> ELSE <<LF>>)
<1>1. PICK n, S, T, e, d, C :
        /\ n = Len(s) /\ S = {i \in 1..Len(s) : s[i] = LF \/ i = Len(s)}
        /\ T = {i \in 1..Len(s) : s[i] = LF} /\ e = Places(n, S) /\ d = Places(n, T)
        /\ C = Printable \cup {LF}
  OBVIOUS
<1>2. n \in Nat \ {0} /\ s \in Seq(Char \ {Bad}) /\ s \in Seq(Char)
  <2>1. Char \ {Bad} \subseteq Char
    OBVIOUS
  <2>2. s \in Seq(Char \ {Bad})
    BY DEF Text
  <2> QED
    BY <1>1, <2>1, <2>2, SeqMonotonic
<1>3. [k \in 1..Len(LinesOf(s)) |-> Sanitised(LinesOf(s)[k]) \o <<LF>>] = Rows(s, e)
  <2> DEFINE from(k) == IF k = 1 THEN 0 ELSE e[k - 1]
             upto(k) == IF s[e[k]] = LF THEN e[k] - 1 ELSE e[k]
  <2>1. LinesOf(s) = [k \in 1..Len(e) |-> SubSeq(s, IF k = 1 THEN 1 ELSE e[k - 1] + 1, upto(k))]
    BY <1>1 DEF LinesOf, Places
  <2>2. Len(e) \in Nat
    <3>1. e \in Seq((1..n) \cap S)
      BY <1>1, <1>2, KeptPlaces DEF Places
    <3> QED
      BY <3>1
  <2>3. \A k \in 1..Len(e) : (IF k = 1 THEN 1 ELSE e[k - 1] + 1) = from(k) + 1
    OBVIOUS
  <2>4. Len(LinesOf(s)) = Len(e)
    BY <2>1, <2>2
  <2>5. \A k \in 1..Len(e) : LinesOf(s)[k] = SubSeq(s, from(k) + 1, upto(k))
    BY <2>1, <2>3
  <2>6. \A k \in 1..Len(e) : Sanitised(LinesOf(s)[k]) \o <<LF>> = Rest(s, from(k), e[k])
    BY <2>5 DEF Sanitised, Rest
  <2> QED
    BY <2>4, <2>6 DEF Rows
<1>4. PICK rows, flat, rest, whole, tail :
        /\ rows = Rows(s, d) /\ flat = FlattenSeq(Rows(s, d))
        /\ rest = Kept(SubSeq(s, LastOf(d) + 1, n), Printable) /\ whole = Kept(SubSeq(s, 1, n), C)
        /\ tail = <<LF>>
  OBVIOUS
<1>5. d \in Seq(1..n) /\ LastOf(d) \in 0..n /\ flat \o rest = whole
  <2>1. n \in 0..Len(s)
    BY <1>1, <1>2
  <2> QED
    BY <1>1, <1>4, <2>1, JoinedSoFar
<1>6. whole = Kept(s, C)
  <2>1. SubSeq(s, 1, n) = s
    BY <1>1, <1>2
  <2> QED
    BY <1>4, <2>1
<1>7. rows \in Seq(Seq(Sign)) /\ flat \in Seq(Sign)
  <2>1. rows \in Seq(Seq(Sign))
    BY <1>1, <1>4, <1>5, RowsIn
  <2> QED
    BY <1>4, <2>1, FlattenText
<1>8. rest \in Seq(Sign) /\ whole \in Seq(Sign) /\ tail \in Seq(Sign)
  <2>1. SubSeq(s, LastOf(d) + 1, n) \in Seq(Char)
    <3>1. LastOf(d) + 1 \in Nat \ {0} /\ n \in 0..Len(s)
      BY <1>1, <1>2, <1>5
    <3> QED
      BY <1>2, <3>1, Cut DEF Line
  <2>2. rest \in Seq(Char \cap Printable) /\ whole \in Seq(Char \cap C)
    BY <1>2, <1>4, <1>6, <2>1, KeptText
  <2>3. Char \cap Printable \subseteq Sign /\ Char \cap C \subseteq Sign
    BY DEF Sign
  <2>4. rest \in Seq(Sign) /\ whole \in Seq(Sign)
    BY <2>2, <2>3, SeqMonotonic
  <2>5. tail \in Seq(Sign)
    BY <1>4, SentSign, One
  <2> QED
    BY <2>4, <2>5
<1>9. CASE s[n] = LF
  <2>1. \A i \in 1..n : i \in S <=> i \in T
    BY <1>1, <1>9
  <2>2. e = d
    BY <1>1, <1>2, <2>1, PlacesSame
  \* Nothing is left after the last line end.
  <2>3. rest = <<>>
    <3>1. LastOf(d) = n
      <4>1. PICK m \in Nat : n = m + 1
        BY <1>2
      <4>2. m + 1 \in T
        BY <1>1, <1>2, <1>9, <4>1
      <4>3. PICK f : f = Places(m, T)
        OBVIOUS
      <4>4. d = Append(f, m + 1)
        BY <1>1, <4>1, <4>2, <4>3, PlacesNext
      <4>5. f \in Seq((1..m) \cap T) /\ (1..m) \cap T \subseteq Nat
        BY <4>1, <4>3, KeptPlaces DEF Places
      <4>6. f \in Seq(Nat)
        BY <4>5, SeqMonotonic
      <4>7. Len(d) = Len(f) + 1 /\ d[Len(f) + 1] = m + 1 /\ Len(f) \in Nat
        BY <4>1, <4>4, <4>6, Appended
      <4> QED
        BY <4>1, <4>7 DEF LastOf
    <3>2. SubSeq(s, n + 1, n) = <<>>
      BY <1>2
    <3>3. PICK none : none = <<>>
      OBVIOUS
    <3>4. none \in Seq({})
      BY <3>3, EmptySeq
    <3>5. Kept(none, Printable) \in Seq({} \cap Printable)
      BY <3>4, KeptText
    <3>6. Kept(none, Printable) = none
      BY <3>3, <3>5
    <3> QED
      BY <1>4, <3>1, <3>2, <3>3, <3>6
  <2>4. flat \o rest = flat
    BY <1>7, <2>3, ConcatEmptySeq
  <2>5. FlattenSeq(Rows(s, e)) = whole
    BY <1>4, <1>5, <2>2, <2>4
  <2>6. whole \o <<>> = whole
    BY <1>8, ConcatEmptySeq
  <2> QED
    BY <1>1, <1>3, <1>6, <1>9, <2>5, <2>6, Zenon
<1>10. CASE s[n] # LF
  <2>1. PICK m \in Nat : n = m + 1
    BY <1>2
  <2>2. m + 1 \in S /\ m + 1 \notin T /\ \A i \in 1..m : i \in S <=> i \in T
    BY <1>1, <1>10, <2>1
  <2>3. Places(m, S) = Places(m, T)
    BY <2>2, PlacesSame
  <2>4. Places(m + 1, T) = Places(m, T)
    BY <2>2, PlacesNext
  <2>5. Places(m + 1, S) = Append(Places(m, S), m + 1)
    BY <2>2, PlacesNext
  <2>6. e = Append(d, n)
    BY <1>1, <2>1, <2>3, <2>4, <2>5
  <2>7. PICK added : added = Rest(s, LastOf(d), n)
    OBVIOUS
  <2>8. Rows(s, e) = Append(rows, added)
    <3>1. n \in 1..Len(s)
      BY <1>1, <1>2
    <3> QED
      BY <1>1, <1>4, <1>5, <2>6, <2>7, <3>1, RowsNext
  <2>9. added = rest \o tail
    BY <1>4, <1>10, <2>7 DEF Rest
  <2>10. added \in Seq(Sign)
    BY <1>8, <2>9, ConcatProperties, Zenon
  <2>11. FlattenSeq(Append(rows, added)) = flat \o added
    BY <1>4, <1>7, <2>10, FlattenAppend
  <2>12. flat \o (rest \o tail) = (flat \o rest) \o tail
    BY <1>7, <1>8, ConcatAssociative
  <2>13. FlattenSeq(Rows(s, e)) = whole \o tail
    BY <1>5, <2>8, <2>9, <2>11, <2>12
  <2> QED
    BY <1>1, <1>3, <1>4, <1>6, <1>10, <2>13, Zenon
<1> QED
  BY <1>9, <1>10

LEMMA PlanLinesAre ==
  ASSUME NEW plan \in Text \cup {NoPlan}
  PROVE  LET rows == PlanLines(plan)
             text == IF plan = NoPlan \/ Within(plan, Blank) THEN 1
                     ELSE Cardinality({i \in 1..Len(plan) : plan[i] = LF \/ i = Len(plan)})
         IN  /\ rows \in Seq(Seq(Sent)) /\ Len(rows) = text /\ text \in Nat \ {0}
             /\ plan = NoPlan => rows = <<<<"(no plan)">>>>
             /\ plan # NoPlan /\ Within(plan, Blank) => rows = <<<<"(empty plan)">>>>
             /\ plan # NoPlan /\ ~Within(plan, Blank) =>
                  FlattenSeq([k \in 1..Len(rows) |-> rows[k] \o <<LF>>])
                    = Kept(plan, Printable \cup {LF})
                        \o (IF plan[Len(plan)] = LF THEN <<>> ELSE <<LF>>)
<1>1. PICK none, empty, rows : /\ none = <<"(no plan)">> /\ empty = <<"(empty plan)">>
                               /\ rows = PlanLines(plan)
  OBVIOUS
<1>text. PICK text :
           text = IF plan = NoPlan \/ Within(plan, Blank) THEN 1
                  ELSE Cardinality({i \in 1..Len(plan) : plan[i] = LF \/ i = Len(plan)})
  OBVIOUS
<1>2. none \in Seq(Sent) /\ empty \in Seq(Sent)
  <2>1. "(no plan)" \in Sent /\ "(empty plan)" \in Sent
    BY WordingSent DEF Wording
  <2> QED
    BY <1>1, <2>1, One
<1>3. CASE plan = NoPlan
  <2>1. rows = <<none>>
    BY <1>1, <1>3 DEF PlanLines
  <2>one. text = 1 /\ text \in Nat \ {0}
    BY <1>3, <1>text
  <2>2. rows \in Seq(Seq(Sent)) /\ Len(rows) = text
    BY <1>2, <2>1, <2>one, One
  <2>3. rows = <<<<"(no plan)">>>>
    BY <1>1, <2>1
  <2> QED
    BY <1>1, <1>text, <1>3, <2>one, <2>2, <2>3, Zenon
<1>4. CASE plan # NoPlan /\ Within(plan, Blank)
  <2>1. Trim(plan) = <<>>
    BY <1>4, TrimEmpty
  <2>2. rows = <<empty>>
    BY <1>1, <1>4, <2>1 DEF PlanLines
  <2>one. text = 1 /\ text \in Nat \ {0}
    BY <1>4, <1>text
  <2>3. rows \in Seq(Seq(Sent)) /\ Len(rows) = text
    BY <1>2, <2>2, <2>one, One
  <2>4. rows = <<<<"(empty plan)">>>>
    BY <1>1, <2>2
  <2> QED
    BY <1>1, <1>text, <1>4, <2>one, <2>3, <2>4, Zenon
<1>5. CASE plan # NoPlan /\ ~Within(plan, Blank)
  <2>1. plan \in Text /\ Trim(plan) # <<>> /\ plan # <<>>
    <3>1. plan \in Text /\ Trim(plan) # <<>>
      BY <1>5, TrimEmpty
    <3>2. Within(<<>>, Blank)
      BY DEF Within
    <3> QED
      BY <1>5, <3>1, <3>2
  <2>2. PICK ls : ls = LinesOf(plan)
    OBVIOUS
  <2>3. /\ Len(ls) = Cardinality({i \in 1..Len(plan) : plan[i] = LF \/ i = Len(plan)})
        /\ Len(ls) \in Nat \ {0}
    BY <2>1, <2>2, LinesCounted
  <2>4. \A k \in 1..Len(ls) : Sanitised(ls[k]) \in Seq(Printable \ {Bad})
    <3>1. ls \in Seq(Text)
      BY <2>1, <2>2, LinesOfText
    <3>2. \A k \in 1..Len(ls) : ls[k] \in Text
      BY <3>1
    <3> QED
      BY <3>2, SanitisedText
  <2>5. rows = [k \in 1..Len(ls) |-> Sanitised(ls[k])]
    BY <1>1, <1>5, <2>1, <2>2 DEF PlanLines
  <2>6. rows \in Seq(Seq(Sent)) /\ Len(rows) = Len(ls)
    <3>1. rows \in Seq(Seq(Printable \ {Bad})) /\ Len(rows) = Len(ls)
      BY <2>3, <2>4, <2>5
    <3>2. Seq(Printable \ {Bad}) \subseteq Seq(Sent)
      <4>1. Printable \ {Bad} \subseteq Sent
        BY DEF Sent
      <4> QED
        BY <4>1, SeqMonotonic
    <3> QED
      BY <3>1, <3>2, SeqMonotonic
  <2>7. [k \in 1..Len(rows) |-> rows[k] \o <<LF>>]
          = [k \in 1..Len(LinesOf(plan)) |-> Sanitised(LinesOf(plan)[k]) \o <<LF>>]
    <3>1. \A k \in 1..Len(ls) : rows[k] = Sanitised(ls[k])
      BY <2>5
    <3> QED
      BY <2>2, <2>6, <3>1
  <2>8. FlattenSeq([k \in 1..Len(rows) |-> rows[k] \o <<LF>>])
          = Kept(plan, Printable \cup {LF}) \o (IF plan[Len(plan)] = LF THEN <<>> ELSE <<LF>>)
    BY <2>1, <2>7, PlanJoined
  <2> QED
    BY <1>1, <1>5, <2>3, <2>6, <2>8
<1> QED
  BY <1>3, <1>4, <1>5

-------------------------------------------------------------------------------
(* The parts of an answer.                                                 *)

\* Of the fields of a profile that parses, one is the user's name.
LEMMA AttributesCounted ==
  ASSUME NEW user, NEW doc \in Document, ProfileError(user, doc) = "none"
  PROVE  Len(Attributes(doc)) = Len(doc.fields) - 1
<1>1. PICK s, C : s = doc.fields /\ C = {f \in Range(doc.fields) : f.key # UsernameKey}
  OBVIOUS
<1>2. /\ s \in Seq(Field)
      /\ \A i, j \in 1..Len(s) : s[i].key = s[j].key => i = j
  BY <1>1 DEF Document
<1>3. Len(s) \in Nat
  BY <1>2
<1>4. \A i \in 1..Len(s) : s[i] \in Range(s)
  BY <1>3 DEF Range
<1>5. PICK p \in 1..Len(s) : s[p].key = UsernameKey
  <2>1. Declared(doc) # {}
    BY DEF ProfileError
  <2>2. PICK f \in Range(s) : f.key = UsernameKey
    BY <1>1, <2>1 DEF Declared
  <2>3. PICK i \in 1..Len(s) : f = s[i]
    BY <1>2, <2>2, RangeEquality
  <2> QED
    BY <2>2, <2>3
<1>6. {i \in 1..Len(s) : s[i] \in C} = (1..Len(s)) \ {p}
  <2>1. \A i \in 1..Len(s) : s[i] \in C <=> s[i].key # UsernameKey
    BY <1>1, <1>4
  <2>2. \A i \in 1..Len(s) : s[i].key # UsernameKey <=> i # p
    BY <1>2, <1>5
  <2> QED
    BY <2>1, <2>2
<1>7. Cardinality((1..Len(s)) \ {p}) = Len(s) - 1
  <2>1. IsFiniteSet(1..Len(s)) /\ Cardinality(1..Len(s)) = Len(s)
    <3>1. PICK n, o : n = Len(s) /\ o = 1
      OBVIOUS
    <3>2. o \in Int /\ n \in Int /\ n - o + 1 = n /\ (o > n => n = 0)
      BY <1>3, <3>1
    <3>3. IsFiniteSet(o..n) /\ Cardinality(o..n) = IF o > n THEN 0 ELSE n - o + 1
      BY <3>2, FS_Interval
    <3> QED
      BY <3>1, <3>2, <3>3
  <2> QED
    BY <1>5, <2>1, FS_RemoveElement
<1>8. Len(Kept(s, C)) = Cardinality({i \in 1..Len(s) : s[i] \in C})
  <2>1. s \in Seq(Field)
    BY <1>2
  <2> QED
    BY <2>1, KeptCounted
<1> QED
  BY <1>1, <1>6, <1>7, <1>8 DEF Attributes

LEMMA AttributesFields ==
  ASSUME NEW user, NEW doc \in Document, ProfileError(user, doc) = "none"
  PROVE  /\ Attributes(doc) \in Seq([key : Text, value : Text]) /\ Len(Attributes(doc)) \in Nat
         /\ \A k \in 1..Len(Attributes(doc)) : /\ Attributes(doc)[k] \in Range(doc.fields)
                                               /\ Attributes(doc)[k].key \in Text
                                               /\ Attributes(doc)[k].value \in Text
<1>1. PICK s, C, a : /\ s = doc.fields /\ C = {f \in Range(doc.fields) : f.key # UsernameKey}
                     /\ a = Attributes(doc)
  OBVIOUS
<1>2. a \in Seq([key : Text, value : Text])
  BY <1>1, AttributesText
<1>3. a \in Seq(Field \cap C)
  <2>1. s \in Seq(Field)
    BY <1>1 DEF Document
  <2>2. Kept(s, C) \in Seq(Field \cap C)
    BY <2>1, KeptText
  <2> QED
    BY <1>1, <2>2 DEF Attributes
<1>4. \A k \in 1..Len(a) : a[k] \in Field \cap C /\ a[k] \in [key : Text, value : Text]
  <2> TAKE k \in 1..Len(a)
  <2>1. a[k] \in [key : Text, value : Text]
    BY <1>2, ElementOfSeq, Zenon
  <2>2. a[k] \in Field \cap C
    BY <1>3, ElementOfSeq, Zenon
  <2> QED
    BY <2>1, <2>2
<1>5. \A k \in 1..Len(a) : a[k] \in Range(s) /\ a[k].key \in Text /\ a[k].value \in Text
  BY <1>1, <1>4
<1>6. Len(a) \in Nat
  BY <1>2
<1> QED
  BY <1>1, <1>2, <1>5, <1>6

\* The parts of an answer: the name and the fields, the plan, the last line.
Row(doc, k) ==
  Label(Attributes(doc)[k].key) \o <<": ">> \o Sanitised(Attributes(doc)[k].value)
Upper(user, doc) ==
  <<<<"User: ">> \o user>> \o [k \in 1..Len(Attributes(doc)) |-> Row(doc, k)]
Shown(verbose, plan) == IF verbose THEN <<<<>>, <<"Plan:">>>> \o PlanLines(plan) ELSE <<>>
Foot == <<<<>>, <<"Powered by fingermouse">>>>

LEMMA RenderParts ==
  ASSUME NEW user, NEW doc, NEW verbose, NEW plan
  PROVE  Render(user, doc, verbose, plan) = (Upper(user, doc) \o Shown(verbose, plan)) \o Foot
BY Zenon DEF Render, Upper, Row, Shown, Foot

LEMMA FieldsText ==
  ASSUME NEW doc \in Document
  PROVE  doc.fields \in Seq(Field) /\ Len(doc.fields) \in Nat
<1>1. doc.fields \in Seq(Field)
  BY DEF Document
<1> QED
  BY <1>1, LenProperties, Zenon

\* What the upper part has beside the name and the labels.
Worded(X) == Printable \cup {"User: ", ": "} \subseteq X

LEMMA UpperIn ==
  ASSUME NEW X, Worded(X), NEW user \in Seq(X),
         NEW doc \in Document, NEW name, ProfileError(name, doc) = "none",
         \A k \in 1..Len(Attributes(doc)) : Label(Attributes(doc)[k].key) \in Seq(X)
  PROVE  /\ Upper(user, doc) \in Seq(Seq(X)) /\ Len(Upper(user, doc)) = Len(doc.fields)
         /\ Upper(user, doc)[1] = <<"User: ">> \o user
<1>1. PICK n : n = Len(Attributes(doc))
  OBVIOUS
<1>2. n \in Nat /\ n = Len(doc.fields) - 1
  BY <1>1, AttributesFields, AttributesCounted
<1>3. \A k \in 1..n : Row(doc, k) \in Seq(X)
  <2> TAKE k \in 1..n
  <2>1. PICK label, colon, value : /\ label = Label(Attributes(doc)[k].key) /\ colon = <<": ">>
                                   /\ value = Sanitised(Attributes(doc)[k].value)
    OBVIOUS
  <2>2. label \in Seq(X) /\ colon \in Seq(X)
    <3>1. ": " \in X
      BY DEF Worded
    <3> QED
      BY <1>1, <2>1, <3>1, One
  <2>3. value \in Seq(X)
    <3>1. Attributes(doc)[k].value \in Text
      BY <1>1, AttributesFields
    <3>2. value \in Seq(Printable \ {Bad})
      BY <2>1, <3>1, SanitisedText
    <3>3. Printable \ {Bad} \subseteq X
      BY DEF Worded
    <3> QED
      BY <3>2, <3>3, SeqMonotonic
  <2>4. (label \o colon) \o value \in Seq(X)
    <3>1. label \o colon \in Seq(X)
      BY <2>2, ConcatProperties, Zenon
    <3> QED
      BY <2>3, <3>1, ConcatProperties, Zenon
  <2> QED
    BY <2>1, <2>4 DEF Row
<1>4. PICK told : told = [k \in 1..n |-> Row(doc, k)]
  OBVIOUS
<1>5. told \in Seq(Seq(X)) /\ Len(told) = n
  BY <1>2, <1>3, <1>4
<1>6. PICK first, head : first = <<"User: ">> \o user /\ head = <<first>>
  OBVIOUS
<1>7. first \in Seq(X)
  <2>1. PICK u : u = <<"User: ">>
    OBVIOUS
  <2>2. u \in Seq(X)
    <3>1. "User: " \in X
      BY DEF Worded
    <3> QED
      BY <2>1, <3>1, One
  <2>3. u \o user \in Seq(X)
    BY <2>2, ConcatProperties, Zenon
  <2> QED
    BY <1>6, <2>1, <2>3
<1>8. head \in Seq(Seq(X)) /\ head # <<>> /\ head[1] = first /\ Len(head) = 1
  BY <1>6, <1>7, One
<1>9. head \o told \in Seq(Seq(X)) /\ (head \o told)[1] = first
  BY <1>5, <1>8, ConcatLed
<1>10. Len(head \o told) = Len(head) + Len(told)
  BY <1>5, <1>8, ConcatProperties
<1>11. Upper(user, doc) = head \o told
  BY <1>1, <1>4, <1>6 DEF Upper
<1>12. Len(doc.fields) \in Nat
  BY FieldsText
<1>13. Len(head \o told) = Len(doc.fields)
  BY <1>2, <1>5, <1>8, <1>10, <1>12
<1> QED
  BY <1>6, <1>9, <1>11, <1>13

LEMMA FootIn ==
  Foot \in Seq(Seq(Sent)) /\ Len(Foot) = 2 /\ Foot[2] = <<"Powered by fingermouse">>
<1>1. PICK x, y : x = <<>> /\ y = <<"Powered by fingermouse">>
  OBVIOUS
<1>2. "Powered by fingermouse" \in Sent
  BY WordingSent DEF Wording
<1>3. x \in Seq(Sent) /\ y \in Seq(Sent)
  BY <1>1, <1>2, One, EmptySeq
<1>4. Foot = <<x, y>>
  BY <1>1 DEF Foot
<1> QED
  BY <1>1, <1>3, <1>4, Two

LEMMA ShownIn ==
  ASSUME NEW verbose \in BOOLEAN, NEW plan \in Text \cup {NoPlan}
  PROVE  /\ Shown(verbose, plan) \in Seq(Seq(Sent))
         /\ Len(Shown(verbose, plan)) = IF verbose THEN 2 + Len(PlanLines(plan)) ELSE 0
<1>1. PICK x, y, mark, rows : /\ x = <<>> /\ y = <<"Plan:">> /\ mark = <<x, y>>
                              /\ rows = PlanLines(plan)
  OBVIOUS
<1>2. "Plan:" \in Sent
  BY WordingSent DEF Wording
<1>3. x \in Seq(Sent) /\ y \in Seq(Sent)
  BY <1>1, <1>2, One, EmptySeq
<1>4. mark \in Seq(Seq(Sent)) /\ Len(mark) = 2
  BY <1>1, <1>3, Two
<1>5. rows \in Seq(Seq(Sent))
  BY <1>1, PlanLinesAre
<1>6. mark \o rows \in Seq(Seq(Sent)) /\ Len(mark \o rows) = Len(mark) + Len(rows)
  BY <1>4, <1>5, ConcatProperties
<1>7. CASE verbose
  <2>1. Shown(verbose, plan) = mark \o rows
    BY <1>1, <1>7 DEF Shown
  <2> QED
    BY <1>1, <1>4, <1>6, <1>7, <2>1
<1>8. CASE ~verbose
  <2>1. Shown(verbose, plan) = x
    BY <1>1, <1>8 DEF Shown
  <2>2. x \in Seq(Seq(Sent)) /\ Len(x) = 0
    BY <1>1, EmptySeq
  <2> QED
    BY <1>8, <2>1, <2>2
<1> QED
  BY <1>7, <1>8

LEMMA ReadNone == LinesIn(<<>>) = <<>>
<1>1. PICK a, e : a = <<>> /\ e = Places(Len(a), Ends(a))
  OBVIOUS
<1>2. Len(a) = 0
  BY <1>1
<1>3. e = <<>>
  BY <1>1, <1>2, PlacesFirst
<1>4. LinesIn(a) = [k \in 1..Len(e) |-> SubSeq(a, IF k = 1 THEN 1 ELSE e[k - 1] + 1, e[k] - 2)]
  BY <1>1 DEF LinesIn
<1>5. 1..Len(e) = {}
  BY <1>3
<1>6. LinesIn(a) = <<>>
  BY <1>4, <1>5
<1> QED
  BY <1>1, <1>6

\* An answer whose labels are plain is read line by line as it was rendered.
LEMMA RenderRead ==
  ASSUME NEW user \in Seq(Printable), NEW doc \in Document, ProfileError(user, doc) = "none",
         NEW verbose \in BOOLEAN, NEW plan \in Text \cup {NoPlan},
         \A f \in Range(doc.fields) : Within(f.key, Printable)
  PROVE  LET lines == Render(user, doc, verbose, plan)
         IN  /\ LinesIn(Bytes(lines)) = lines /\ lines \in Seq(Seq(Sent))
             /\ Len(lines) = Len(doc.fields) + Len(Shown(verbose, plan)) + 2
             /\ lines[1] = <<"User: ">> \o user
             /\ lines[Len(lines)] = <<"Powered by fingermouse">>
<1>1. PICK up, sh, ft : up = Upper(user, doc) /\ sh = Shown(verbose, plan) /\ ft = Foot
  OBVIOUS
<1>ends. PICK hello, bye : hello = <<"User: ">> \o user /\ bye = <<"Powered by fingermouse">>
  OBVIOUS
<1>2. up \in Seq(Seq(Sent)) /\ Len(up) = Len(doc.fields) /\ up[1] = hello
  <2>1. Worded(Sent) /\ Printable \subseteq Sent
    BY WordingSent DEF Sent, Wording, Worded
  <2>2. user \in Seq(Sent)
    BY <2>1, SeqMonotonic
  <2>3. \A k \in 1..Len(Attributes(doc)) : Label(Attributes(doc)[k].key) \in Seq(Sent)
    <3> TAKE k \in 1..Len(Attributes(doc))
    <3>1. PICK key : key = Attributes(doc)[k].key
      OBVIOUS
    <3>2. key \in Text /\ Within(key, Printable)
      BY <3>1, AttributesFields
    <3>3. key \in Seq(Printable)
      BY <3>2 DEF Text, Within
    <3>4. Lettered(Printable)
      BY DEF Lettered, Printable, Letter
    <3>5. Label(key) \in Seq(Printable)
      BY <3>3, <3>4, LabelIn
    <3> QED
      BY <2>1, <3>1, <3>5, SeqMonotonic
  <2>4. /\ Upper(user, doc) \in Seq(Seq(Sent)) /\ Len(Upper(user, doc)) = Len(doc.fields)
        /\ Upper(user, doc)[1] = <<"User: ">> \o user
    BY <2>1, <2>2, <2>3, UpperIn
  <2> QED
    BY <1>1, <1>ends, <2>4
<1>3. sh \in Seq(Seq(Sent)) /\ ft \in Seq(Seq(Sent)) /\ Len(ft) = 2 /\ ft[2] = bye
  BY <1>1, <1>ends, ShownIn, FootIn
<1>4. up # <<>>
  <2>1. Len(Attributes(doc)) \in Nat /\ Len(Attributes(doc)) = Len(doc.fields) - 1
    BY AttributesFields, AttributesCounted
  <2>2. Len(doc.fields) \in Nat
    BY FieldsText
  <2> QED
    BY <1>2, <2>1, <2>2
<1>5. PICK us, lines : us = up \o sh /\ lines = us \o ft
  OBVIOUS
<1>6. us \in Seq(Seq(Sent)) /\ us # <<>> /\ us[1] = up[1] /\ Len(us) = Len(up) + Len(sh)
  <2>1. up \o sh \in Seq(Seq(Sent)) /\ up \o sh # <<>> /\ (up \o sh)[1] = up[1]
    BY <1>2, <1>3, <1>4, ConcatLed
  <2>2. Len(up \o sh) = Len(up) + Len(sh)
    BY <1>2, <1>3, ConcatProperties
  <2> QED
    BY <1>5, <2>1, <2>2
<1>7. lines \in Seq(Seq(Sent)) /\ lines[1] = up[1]
  <2>1. us \o ft \in Seq(Seq(Sent)) /\ (us \o ft)[1] = us[1]
    BY <1>3, <1>6, ConcatLed
  <2> QED
    BY <1>5, <1>6, <2>1
<1>8. Len(lines) = Len(us) + 2 /\ lines[Len(lines)] = ft[2]
  <2>1. /\ Len(us \o ft) = Len(us) + Len(ft)
        /\ \A i \in 1..(Len(us) + Len(ft)) : (us \o ft)[i] = IF i <= Len(us) THEN us[i] ELSE ft[i - Len(us)]
    <3>1. us \in Seq(Seq(Sent)) /\ ft \in Seq(Seq(Sent))
      BY <1>3, <1>6
    <3> QED
      BY <3>1, ConcatProperties, Zenon
  <2>2. PICK n : n = Len(us) + 2
    OBVIOUS
  <2>3. Len(us) \in Nat
    BY <1>6
  <2>4. n \in 1..(Len(us) + Len(ft)) /\ ~(n <= Len(us)) /\ n - Len(us) = 2
    BY <1>3, <2>2, <2>3
  <2>5. lines[n] = ft[2] /\ Len(lines) = n
    BY <1>3, <1>5, <2>1, <2>2, <2>4
  <2> QED
    BY <2>2, <2>5
<1>9. LinesIn(Bytes(lines)) = lines
  <2>1. PICK none : none = <<>>
    OBVIOUS
  <2>2. none \in Seq(Seq(Sign))
    BY <2>1, EmptySeq
  <2>3. LinesIn(Bytes(none \o lines)) = LinesIn(Bytes(none)) \o lines
    BY <1>7, <2>2, ReadRest
  <2>4. none \o lines = lines
    BY <1>7, <2>1, ConcatEmptySeq
  <2>5. LinesIn(Bytes(none)) = none
    BY <2>1, BytesNone, ReadNone
  <2> QED
    BY <2>3, <2>4, <2>5
<1>10. Render(user, doc, verbose, plan) = lines
  BY <1>1, <1>5, RenderParts
<1>11. Len(lines) = Len(doc.fields) + Len(Shown(verbose, plan)) + 2
  BY <1>1, <1>2, <1>6, <1>8
<1> QED
  BY <1>2, <1>3, <1>7, <1>8, <1>9, <1>10, <1>11, <1>ends

\* Whatever the labels are, the lines after them are read as they were rendered.
LEMMA PlanRead ==
  ASSUME NEW user \in Seq(Char), NEW doc \in Document, ProfileError(user, doc) = "none",
         NEW verbose \in BOOLEAN, NEW plan \in Text \cup {NoPlan}
  PROVE  \E upper \in Seq(Seq(Sign)) :
           LinesIn(Bytes(Render(user, doc, verbose, plan)))
             = upper \o (Shown(verbose, plan) \o Foot)
<1>1. PICK up, sh, ft : up = Upper(user, doc) /\ sh = Shown(verbose, plan) /\ ft = Foot
  OBVIOUS
<1>2. up \in Seq(Seq(Sign))
  <2>1. Worded(Sign) /\ Char \subseteq Sign /\ Lettered(Sign)
    BY SentSign, WordingSent DEF Sent, Sign, Wording, Worded, Lettered, Char, Letter
  <2>2. user \in Seq(Sign)
    BY <2>1, SeqMonotonic
  <2>3. \A k \in 1..Len(Attributes(doc)) : Label(Attributes(doc)[k].key) \in Seq(Sign)
    <3> TAKE k \in 1..Len(Attributes(doc))
    <3>1. Attributes(doc)[k].key \in Text
      BY AttributesFields
    <3> QED
      BY <3>1, LabelText
  <2>4. Upper(user, doc) \in Seq(Seq(Sign))
    BY <2>1, <2>2, <2>3, UpperIn
  <2> QED
    BY <1>1, <2>4
<1>3. sh \in Seq(Seq(Sent)) /\ ft \in Seq(Seq(Sent))
  BY <1>1, ShownIn, FootIn
<1>4. sh \o ft \in Seq(Seq(Sent))
  BY <1>3, ConcatProperties, Zenon
<1>5. LinesIn(Bytes(up \o (sh \o ft))) = LinesIn(Bytes(up)) \o (sh \o ft)
  BY <1>2, <1>4, ReadRest
<1>6. (up \o sh) \o ft = up \o (sh \o ft)
  <2>1. Seq(Sent) \subseteq Seq(Sign)
    BY SentSign, SeqMonotonic
  <2>2. sh \in Seq(Seq(Sign)) /\ ft \in Seq(Seq(Sign))
    BY <1>3, <2>1, SeqMonotonic
  <2>3. PICK Y : Y = Seq(Sign)
    OBVIOUS
  <2>4. up \in Seq(Y) /\ sh \in Seq(Y) /\ ft \in Seq(Y)
    BY <1>2, <2>2, <2>3
  <2> QED
    BY <2>4, ConcatAssociative
<1>7. LinesIn(Bytes(up)) \in Seq(Seq(Sign))
  <2>1. Bytes(up) \in Seq(Sign)
    BY <1>2, SentSign, BytesIn
  <2> QED
    BY <2>1, ReadText
<1>8. Render(user, doc, verbose, plan) = (up \o sh) \o ft
  BY <1>1, RenderParts
<1> QED
  BY <1>1, <1>5, <1>6, <1>7, <1>8

-------------------------------------------------------------------------------
(* The answer made of a profile.                                           *)

\* An answer made of a profile is the one rendered of it, and of what is asked.
Rendered == Render(query.username, found.profile, query.verbose, found.plan)

ToldInv ==
  /\ stage # "answered" => found = Nothing
  /\ Told => /\ found.profile \in Document /\ found.plan \in Text \cup {NoPlan}
             /\ ProfileError(query.username, found.profile) = "none"
             /\ answer = Bytes(Rendered)

LEMMA ToldStep == TypeOK /\ ToldInv /\ [Next]_vars => ToldInv'
<1> SUFFICES ASSUME TypeOK, ToldInv, [Next]_vars PROVE ToldInv'
  OBVIOUS
\* Where nothing was found nothing is claimed.
<1>1. found' = Nothing => ToldInv'
  BY DEF ToldInv, Told
<1>2. CASE Start
  BY <1>1, <1>2 DEF Start, ToldInv
<1>3. CASE Type
  BY <1>1, <1>3 DEF Type, ToldInv
<1>4. CASE ParseQuery
  BY <1>1, <1>4 DEF ParseQuery, ToldInv
<1>5. CASE ChooseHost
  BY <1>1, <1>5 DEF ChooseHost, ToldInv
<1>6. CASE LoadFails
  BY <1>1, <1>6 DEF LoadFails, ToldInv
<1>7. CASE LoadUser
  <2>1. stage = "loading" /\ UNCHANGED query /\ stage' = "answered"
    BY <1>7 DEF LoadUser, Send
  <2>2. PICK profile \in Stored :
          \/ UNCHANGED found
          \/ /\ ProfileError(query.username, profile) = "none"
             /\ \E plan \in (IF query.verbose THEN Plan ELSE {}) \cup {NoPlan} :
                  /\ found' = [profile |-> profile, plan |-> plan]
                  /\ answer' = Bytes(Render(query.username, profile, query.verbose, plan))
    BY <1>7 DEF LoadUser, Send
  <2>3. CASE UNCHANGED found
    BY <1>1, <2>1, <2>3 DEF ToldInv
  <2>4. ASSUME ProfileError(query.username, profile) = "none", NEW plan \in Plan \cup {NoPlan},
               found' = [profile |-> profile, plan |-> plan],
               answer' = Bytes(Render(query.username, profile, query.verbose, plan))
        PROVE  ToldInv'
    <3>1. found'.profile = profile /\ found'.plan = plan
      BY <2>4
    <3>2. profile \in Document /\ plan \in Text \cup {NoPlan}
      BY StoredAssumption
    <3> QED
      BY <2>1, <2>4, <3>1, <3>2, Zenon DEF ToldInv, Rendered
  <2>5. (IF query.verbose THEN Plan ELSE {}) \cup {NoPlan} \subseteq Plan \cup {NoPlan}
    OBVIOUS
  <2> QED
    BY <2>2, <2>3, <2>4, <2>5
<1>8. CASE NextConnection
  BY <1>1, <1>8 DEF NextConnection
<1>9. CASE UNCHANGED vars
  BY <1>9 DEF vars, ToldInv, Told, Rendered
<1> QED
  BY <1>2, <1>3, <1>4, <1>5, <1>6, <1>7, <1>8, <1>9 DEF Next

LEMMA ToldAlways == Spec => []ToldInv
<1>1. Init => ToldInv
  BY DEF Init, ToldInv, Told
<1>2. TypeOK /\ ToldInv /\ [Next]_vars => ToldInv'
  BY ToldStep
<1> QED
  BY <1>1, <1>2, NamesAlwaysSafe, PTL DEF Spec

LEMMA SeqIn ==
  ASSUME NEW X, NEW Y, NEW s \in Seq(X), \A i \in 1..Len(s) : s[i] \in Y
  PROVE  s \in Seq(Y)
OBVIOUS

LEMMA WithinNone ==
  ASSUME NEW C
  PROVE  Within(<<>>, C)
BY DEF Within

\* The name that is asked for is of printable characters, if one is.
LEMMA AskedPlain ==
  ASSUME TypeOK
  PROVE  query.username \in Seq(Printable) /\ query.username \in Seq(Char) /\ query.verbose \in BOOLEAN
<1>1. query.username \in Seq(Char) /\ query.verbose \in BOOLEAN
  BY DEF TypeOK
<1>2. Within(query.username, Small \cup {"-", "_"})
  <2>1. CASE query = NoQuery
    <3>1. query.username = <<>>
      BY <2>1 DEF NoQuery
    <3> QED
      BY <3>1, WithinNone
  <2>2. CASE query # NoQuery
    BY <2>2 DEF TypeOK
  <2> QED
    BY <2>1, <2>2
<1>3. Small \cup {"-", "_"} \subseteq Printable
  BY DEF Printable, Letter, Mark
<1>4. query.username \in Seq(Printable)
  <2>1. PICK s : s = query.username
    OBVIOUS
  <2>2. s \in Seq(Char) /\ \A i \in 1..Len(s) : s[i] \in Small \cup {"-", "_"}
    BY <1>1, <1>2, <2>1 DEF Within
  <2>3. \A i \in 1..Len(s) : s[i] \in Printable
    BY <1>3, <2>2
  <2>4. s \in Seq(Printable)
    BY <2>2, <2>3, SeqIn, Zenon
  <2> QED
    BY <2>1, <2>4
<1> QED
  BY <1>1, <1>4

LEMMA LinesAre == LinesRead = LinesIn(answer)
BY DEF LinesRead, LinesIn, Places, Ends

\* Whatever is in the values and in the plan, the answer has the lines that the
\* fields and the lines of the plan make, in printable characters, between the line
\* of the name and the last one (user.rs:74-105, 147-149; framing.rs:19-24).
THEOREM AnswerAlwaysFramed == Spec => []AnswerFramed
<1>1. TypeOK /\ ToldInv => AnswerFramed
  <2> SUFFICES ASSUME TypeOK, ToldInv, Told, PlainKeys PROVE AnswerFramed
    BY DEF AnswerFramed
  <2>1. PICK user, doc, plan, lines :
          /\ user = query.username /\ doc = found.profile /\ plan = found.plan
          /\ lines = Render(user, doc, query.verbose, plan)
    OBVIOUS
  <2>2. /\ doc \in Document /\ plan \in Text \cup {NoPlan}
        /\ ProfileError(user, doc) = "none"
        /\ answer = Bytes(lines)
    BY <2>1 DEF ToldInv, Rendered
  <2>3. user \in Seq(Printable) /\ query.verbose \in BOOLEAN
    BY <2>1, AskedPlain
  <2>4. \A f \in Range(doc.fields) : Within(f.key, Printable)
    BY <2>1 DEF PlainKeys
  <2>5. PICK hello, bye : hello = <<"User: ">> \o user /\ bye = <<"Powered by fingermouse">>
    OBVIOUS
  <2>6. /\ LinesIn(Bytes(lines)) = lines /\ lines \in Seq(Seq(Sent))
        /\ Len(lines) = Len(doc.fields) + Len(Shown(query.verbose, plan)) + 2
        /\ lines[1] = hello /\ lines[Len(lines)] = bye
    <3>1. PICK ls : ls = Render(user, doc, query.verbose, plan)
      OBVIOUS
    <3>2. /\ LinesIn(Bytes(ls)) = ls /\ ls \in Seq(Seq(Sent))
          /\ Len(ls) = Len(doc.fields) + Len(Shown(query.verbose, plan)) + 2
          /\ ls[1] = <<"User: ">> \o user /\ ls[Len(ls)] = <<"Powered by fingermouse">>
      BY <2>2, <2>3, <2>4, <3>1, RenderRead
    <3> QED
      BY <2>1, <2>5, <3>1, <3>2
  <2>7. LinesRead = lines
    BY <2>2, <2>6, LinesAre
  <2>8. Len(doc.fields) \in Nat
    BY <2>2, FieldsText
  <2>text. PICK text : text = PlanRows
    OBVIOUS
  <2>9. Len(PlanLines(plan)) = text /\ text \in Nat
    BY <2>1, <2>2, <2>text, PlanLinesAre DEF PlanRows
  <2>10. Len(Shown(query.verbose, plan)) = IF query.verbose THEN 2 + text ELSE 0
    BY <2>2, <2>3, <2>9, ShownIn
  <2>11. Len(lines) = Len(doc.fields) - 1 + (IF query.verbose THEN 5 + text ELSE 3)
    <3>1. PICK a, b, c : /\ a = Len(doc.fields) /\ b = Len(Shown(query.verbose, plan))
                         /\ c = Len(lines)
      OBVIOUS
    <3>2. a \in Nat /\ c = a + b + 2
      BY <2>6, <2>8, <3>1
    <3>3. CASE query.verbose
      <4>1. b = 2 + text
        BY <2>10, <3>1, <3>3
      <4>2. c = a - 1 + (5 + text)
        BY <2>9, <3>2, <4>1
      <4> QED
        BY <3>1, <3>3, <4>2, Zenon
    <3>4. CASE ~query.verbose
      <4>1. b = 0
        BY <2>10, <3>1, <3>4
      <4>2. c = a - 1 + 3
        BY <3>2, <4>1
      <4> QED
        BY <3>1, <3>4, <4>2, Zenon
    <3> QED
      BY <3>3, <3>4
  <2>12. \A i \in 1..Len(lines) : Within(lines[i], Printable)
    <3> TAKE i \in 1..Len(lines)
    <3>1. lines[i] \in Seq(Sent)
      <4>1. lines \in Seq(Seq(Sent))
        BY <2>6
      <4> QED
        BY <4>1, ElementOfSeq, Zenon
    <3> QED
      BY <3>1 DEF Within, Sent
  <2> QED
    BY <2>1, <2>5, <2>6, <2>7, <2>11, <2>12, <2>text DEF AnswerFramed
<1> QED
  BY <1>1, ToldAlways, NamesAlwaysSafe, PTL

\* The lines of a plan between those before and after them, and where they stand.
LaidOut(Y, upper, two, rows, foot, lines, m, text) ==
  /\ upper \in Seq(Y) /\ two \in Seq(Y) /\ rows \in Seq(Y) /\ foot \in Seq(Y)
  /\ Len(two) = 2 /\ Len(foot) = 2
  /\ lines = upper \o ((two \o rows) \o foot) /\ m = Len(upper) /\ text = Len(rows)

LEMMA LinesLaidOut ==
  ASSUME NEW Y, NEW upper, NEW two, NEW rows, NEW foot, NEW lines, NEW m, NEW text,
         LaidOut(Y, upper, two, rows, foot, lines, m, text)
  PROVE  /\ Len(lines) = m + text + 4 /\ lines \in Seq(Y)
         /\ \A i \in 1..2 : lines[m + i] = two[i] /\ lines[m + 2 + text + i] = foot[i]
         /\ \A i \in 1..text : lines[m + 2 + i] = rows[i]
<1>0. /\ upper \in Seq(Y) /\ two \in Seq(Y) /\ rows \in Seq(Y) /\ foot \in Seq(Y)
      /\ Len(two) = 2 /\ Len(foot) = 2
      /\ lines = upper \o ((two \o rows) \o foot) /\ m = Len(upper) /\ text = Len(rows)
  BY DEF LaidOut
<1>1. PICK mid, low : mid = two \o rows /\ low = mid \o foot /\ lines = upper \o low
  BY <1>0
<1>2. m \in Nat /\ text \in Nat
  BY <1>0
<1>3. /\ mid \in Seq(Y) /\ Len(mid) = 2 + text
      /\ \A i \in 1..(2 + text) : mid[i] = IF i <= 2 THEN two[i] ELSE rows[i - 2]
  <2>1. /\ two \o rows \in Seq(Y) /\ Len(two \o rows) = Len(two) + Len(rows)
        /\ \A i \in 1..(Len(two) + Len(rows)) :
             (two \o rows)[i] = IF i <= Len(two) THEN two[i] ELSE rows[i - Len(two)]
    BY <1>0, ConcatProperties
  <2> QED
    BY <1>0, <1>1, <2>1
<1>4. /\ low \in Seq(Y) /\ Len(low) = text + 4
      /\ \A i \in 1..(text + 4) : low[i] = IF i <= 2 + text THEN mid[i] ELSE foot[i - (2 + text)]
  <2>1. /\ mid \o foot \in Seq(Y) /\ Len(mid \o foot) = Len(mid) + Len(foot)
        /\ \A i \in 1..(Len(mid) + Len(foot)) :
             (mid \o foot)[i] = IF i <= Len(mid) THEN mid[i] ELSE foot[i - Len(mid)]
    BY <1>0, <1>3, ConcatProperties
  <2>2. Len(mid) + Len(foot) = text + 4
    BY <1>0, <1>2, <1>3
  <2> QED
    BY <1>0, <1>1, <1>3, <2>1, <2>2
<1>5. /\ lines \in Seq(Y) /\ Len(lines) = m + text + 4
      /\ \A i \in 1..(m + text + 4) : lines[i] = IF i <= m THEN upper[i] ELSE low[i - m]
  <2>1. /\ upper \o low \in Seq(Y) /\ Len(upper \o low) = Len(upper) + Len(low)
        /\ \A i \in 1..(Len(upper) + Len(low)) :
             (upper \o low)[i] = IF i <= Len(upper) THEN upper[i] ELSE low[i - Len(upper)]
    BY <1>0, <1>4, ConcatProperties
  <2>2. Len(upper) + Len(low) = m + text + 4
    BY <1>0, <1>1, <1>2, <1>4
  <2> QED
    BY <1>0, <1>1, <2>1, <2>2
<1>6. \A i \in 1..(text + 4) : lines[m + i] = low[i]
  <2> TAKE i \in 1..(text + 4)
  <2>1. PICK k : k = m + i
    OBVIOUS
  <2>2. k \in 1..(m + text + 4) /\ ~(k <= m) /\ k - m = i
    BY <1>2, <2>1
  <2>3. lines[k] = low[i]
    BY <1>5, <2>2
  <2> QED
    BY <2>1, <2>3
<1>7. \A i \in 1..2 : lines[m + i] = two[i]
  <2> TAKE i \in 1..2
  <2>1. i \in 1..(text + 4) /\ i \in 1..(2 + text) /\ i <= 2 /\ i <= 2 + text
    BY <1>2
  <2> QED
    BY <1>3, <1>4, <1>6, <2>1
<1>8. \A i \in 1..text : lines[m + 2 + i] = rows[i]
  <2> TAKE i \in 1..text
  <2>1. PICK k : k = 2 + i
    OBVIOUS
  <2>2. k \in 1..(text + 4) /\ k \in 1..(2 + text) /\ ~(k <= 2) /\ k <= 2 + text /\ k - 2 = i
        /\ m + 2 + i = m + k
    BY <1>2, <2>1
  <2> QED
    BY <1>3, <1>4, <1>6, <2>2
<1>9. \A i \in 1..2 : lines[m + 2 + text + i] = foot[i]
  <2> TAKE i \in 1..2
  <2>1. PICK k : k = 2 + text + i
    OBVIOUS
  <2>2. k \in 1..(text + 4) /\ ~(k <= 2 + text) /\ k - (2 + text) = i /\ m + 2 + text + i = m + k
    BY <1>2, <2>1
  <2> QED
    BY <1>4, <1>6, <2>2
<1> QED
  BY <1>1, <1>5, <1>7, <1>8, <1>9

\* Read from its end, a verbose answer has the plan under its heading, whatever the
\* keys hold and even if the plan is worded like an answer of the server: what is
\* printable in the file and its line ends in their order, or one line that says that
\* there is no plan or that it is blank (README.md:61-62, user.rs:82-104).
THEOREM PlanAlwaysShown == Spec => []PlanShown
<1>1. TypeOK /\ ToldInv => PlanShown
  <2> SUFFICES ASSUME TypeOK, ToldInv, Told, query.verbose PROVE PlanShown
    BY DEF PlanShown
  <2>1. PICK user, doc, plan, lines, text :
          /\ user = query.username /\ doc = found.profile /\ plan = found.plan
          /\ lines = LinesRead /\ text = PlanRows
    OBVIOUS
  <2>2. /\ doc \in Document /\ plan \in Text \cup {NoPlan}
        /\ ProfileError(user, doc) = "none"
        /\ answer = Bytes(Render(user, doc, query.verbose, plan))
    BY <2>1 DEF ToldInv, Rendered
  <2>3. user \in Seq(Char) /\ query.verbose \in BOOLEAN
    BY <2>1, AskedPlain
  <2>4. PICK upper \in Seq(Seq(Sign)) :
          LinesIn(Bytes(Render(user, doc, query.verbose, plan)))
            = upper \o (Shown(query.verbose, plan) \o Foot)
    BY <2>2, <2>3, PlanRead
  <2>5. PICK blank, mark, bye, two, foot, rows :
          /\ blank = <<>> /\ mark = <<"Plan:">> /\ bye = <<"Powered by fingermouse">>
          /\ two = <<blank, mark>> /\ foot = <<blank, bye>> /\ rows = PlanLines(plan)
    OBVIOUS
  <2>6. lines = upper \o ((two \o rows) \o foot)
    <3>1. lines = upper \o (Shown(query.verbose, plan) \o Foot)
      BY <2>1, <2>2, <2>4, LinesAre
    <3>2. Shown(query.verbose, plan) = two \o rows /\ Foot = foot
      BY <2>5 DEF Shown, Foot
    <3> QED
      BY <3>1, <3>2
  <2>7. rows \in Seq(Seq(Sent)) /\ Len(rows) = text /\ text \in Nat \ {0}
    BY <2>1, <2>2, <2>5, PlanLinesAre DEF PlanRows
  <2>says. /\ plan = NoPlan => rows = <<<<"(no plan)">>>>
           /\ plan # NoPlan /\ Within(plan, Blank) => rows = <<<<"(empty plan)">>>>
           /\ plan # NoPlan /\ ~Within(plan, Blank) =>
                FlattenSeq([k \in 1..Len(rows) |-> rows[k] \o <<LF>>])
                  = Kept(plan, Printable \cup {LF})
                      \o (IF plan[Len(plan)] = LF THEN <<>> ELSE <<LF>>)
    BY <2>1, <2>2, <2>5, PlanLinesAre DEF PlanRows
  <2>8. PICK Y : Y = Seq(Sign)
    OBVIOUS
  <2>9. upper \in Seq(Y) /\ rows \in Seq(Y) /\ two \in Seq(Y) /\ foot \in Seq(Y)
    <3>1. Sent \subseteq Sign
      BY SentSign
    <3>2. Seq(Sent) \subseteq Y
      BY <2>8, <3>1, SeqMonotonic
    <3>3. rows \in Seq(Y) /\ upper \in Seq(Y)
      BY <2>7, <2>8, <3>2, SeqMonotonic
    <3>4. "Plan:" \in Sign /\ "Powered by fingermouse" \in Sign
      BY DEF Sign, Wording
    <3>5. blank \in Y /\ mark \in Y /\ bye \in Y
      BY <2>5, <2>8, <3>4, One, EmptySeq
    <3>6. two \in Seq(Y) /\ foot \in Seq(Y)
      BY <2>5, <3>5, Two
    <3> QED
      BY <3>3, <3>6
  <2>pair. Len(two) = 2 /\ Len(foot) = 2
    BY <2>5
  <2>10. PICK m \in Nat : m = Len(upper)
    BY <2>9
  <2>11. /\ Len(lines) = m + text + 4 /\ lines \in Seq(Y)
         /\ \A i \in 1..2 : lines[m + i] = two[i] /\ lines[m + 2 + text + i] = foot[i]
         /\ \A i \in 1..text : lines[m + 2 + i] = rows[i]
    <3>1. LaidOut(Y, upper, two, rows, foot, lines, m, text)
      BY <2>pair, <2>6, <2>7, <2>9, <2>10, Zenon DEF LaidOut
    <3> QED
      BY <3>1, LinesLaidOut
  <2>12. PICK last : last = m + text + 2
    OBVIOUS
  <2>13. /\ Len(lines) - 2 = last /\ text + 2 <= last
         /\ last - text - 1 = m + 1 /\ last - text = m + 2
         /\ last - text + 1 = m + 2 + 1 /\ last = m + 2 + text
         /\ last + 1 = last + 1 /\ last + 2 = last + 2
    BY <2>7, <2>10, <2>11, <2>12
  <2>14. SubSeq(lines, m + 1, m + 2) = two
    <3>1. Len(two) = 2 /\ m + Len(two) <= Len(lines) /\ \A i \in 1..Len(two) : lines[m + i] = two[i]
      BY <2>pair, <2>7, <2>10, <2>11
    <3>2. SubSeq(lines, m + 1, m + Len(two)) = two
      BY <2>9, <2>10, <2>11, <3>1, PieceThere
    <3> QED
      BY <3>1, <3>2
  <2>15. SubSeq(lines, last - text + 1, last) = rows
    <3>1. PICK p \in Nat : p = m + 2
      BY <2>10
    <3>2. p + Len(rows) <= Len(lines) /\ \A i \in 1..Len(rows) : lines[p + i] = rows[i]
      BY <2>7, <2>10, <2>11, <3>1
    <3>3. SubSeq(lines, p + 1, p + Len(rows)) = rows
      BY <2>9, <2>11, <3>1, <3>2, PieceThere
    <3>4. p + 1 = last - text + 1 /\ p + Len(rows) = last
      BY <2>7, <2>13, <3>1
    <3> QED
      BY <3>3, <3>4
  <2>16. SubSeq(lines, last + 1, last + 2) = foot
    <3>1. last \in Nat /\ last = m + 2 + text
      BY <2>7, <2>10, <2>13
    <3>2. Len(foot) = 2 /\ last + Len(foot) <= Len(lines) /\ \A i \in 1..Len(foot) : lines[last + i] = foot[i]
      BY <2>pair, <2>7, <2>10, <2>11, <3>1
    <3>3. SubSeq(lines, last + 1, last + Len(foot)) = foot
      BY <2>9, <2>11, <3>1, <3>2, PieceThere
    <3> QED
      BY <3>2, <3>3
  <2>17. two = <<<<>>, <<"Plan:">>>> /\ foot = <<<<>>, <<"Powered by fingermouse">>>>
    BY <2>5
  <2>18. SubSeq(lines, last - text - 1, last - text) = two
    BY <2>13, <2>14
  <2>19. LinesRead = lines /\ PlanRows = text /\ found.plan = plan /\ Len(lines) - 2 = last
    BY <2>1, <2>13
  <2>20. text + 2 <= last
    BY <2>13
  <2> QED
    BY <2>says, <2>15, <2>16, <2>17, <2>18, <2>19, <2>20, Zenon DEF PlanShown
<1> QED
  BY <1>1, ToldAlways, NamesAlwaysSafe, PTL
=============================================================================
