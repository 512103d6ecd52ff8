-------------------------------- MODULE Query --------------------------------
(***************************************************************************)
(* The query line of src/src/query.rs and the names of src/src/identity.rs. *)
(*                                                                         *)
(* A line is a sequence of characters, of which only the classes matter:   *)
(* what may stand in a name, what separates, what is refused.  Each        *)
(* operator is a function of the code; the reasons for a refusal come in   *)
(* the order in which the code looks for them.                             *)
(***************************************************************************)
EXTENDS Naturals, Sequences, FiniteSets, FiniteSetsExt

CONSTANTS
  Small,     \* lower-case letters and digits
  Caps,      \* upper-case letters
  LowerOf,   \* the lower-case letter of each
  Space,     \* white space other than CR and LF
  Control,   \* control characters other than CR and LF, some of them white space
  Symbol,    \* the rest of printable ASCII, the fixed wordings of the answers included
  Foreign,   \* DEL, and the characters beyond ASCII that are not white space
  Bad,       \* bytes that are not UTF-8
  MaxName,   \* Username::MAX_LEN
  MaxHost    \* HostName::MAX_LEN

CR == "CR"
LF == "LF"
Letter == Small \cup Caps
Mark   == {"-", "_", ".", "@", "/"}
Blank  == Space \cup {CR, LF}
Char   == Letter \cup Mark \cup Blank \cup Control \cup Symbol \cup Foreign \cup {Bad}
Text   == Seq(Char \ {Bad})

ASSUME CharAssumption ==
  /\ "w" \in Small
  /\ Small \cap Caps = {}
  /\ LowerOf \in [Caps -> Small]
  /\ Letter \cap Mark = {}
  /\ (Letter \cup Mark) \cap (Blank \cup Control \cup Symbol \cup Foreign \cup {Bad}) = {}
  /\ {CR, LF} \cap (Space \cup Control \cup Symbol \cup Foreign) = {}
  /\ Bad \notin Blank \cup Control \cup Symbol \cup Foreign
ASSUME LengthAssumption == MaxName \in Nat \ {0} /\ MaxHost \in Nat \ {0}

-------------------------------------------------------------------------------
(* Pieces of a text.                                                       *)

Within(s, C) == \A i \in 1..Len(s) : s[i] \in C

Low(c) == IF c \in Caps THEN LowerOf[c] ELSE c

\* to_ascii_lowercase
Lowered(s) == [i \in 1..Len(s) |-> Low(s[i])]

\* trim
Trim(s) ==
  LET inner == {i \in 1..Len(s) : s[i] \notin Blank} IN
  IF inner = {} THEN <<>> ELSE SubSeq(s, Min(inner), Max(inner))

\* The first place of c in s, or the place after the end of s.
Find(s, c) == Min({i \in 1..Len(s) : s[i] = c} \cup {Len(s) + 1})

Before(s, c) == SubSeq(s, 1, Find(s, c) - 1)
After(s, c)  == SubSeq(s, Find(s, c) + 1, Len(s))

\* split('.'): the texts between the dots.
Labels(s) ==
  LET cut == {0, Len(s) + 1} \cup {i \in 1..Len(s) : s[i] = "."}
  IN  {SubSeq(s, p[1] + 1, p[2] - 1) : p \in {q \in cut \X cut :
         q[1] < q[2] /\ \A i \in cut : ~(q[1] < i /\ i < q[2])}}

\* split_whitespace: where the tokens begin, and the token that begins at i.
Starts(s) == {i \in 1..Len(s) : s[i] \notin Blank /\ (i > 1 => s[i - 1] \in Blank)}
Token(s, i) ==
  SubSeq(s, i, Min({j \in i..Len(s) : j = Len(s) \/ s[j + 1] \in Blank}))

First(s)  == Token(s, Min(Starts(s)))
Second(s) == Token(s, Min(Starts(s) \ {Min(Starts(s))}))

-------------------------------------------------------------------------------
(* Names.                                                                  *)

NameChar  == Letter \cup {"-", "_"}
LabelChar == Letter \cup {"-"}

IsUsername(s) == Len(Trim(s)) \in 1..MaxName /\ Within(Trim(s), NameChar)

IsLabel(s) == /\ s # <<>>
              /\ s[1] # "-" /\ s[Len(s)] # "-"
              /\ Within(s, LabelChar)

IsHostName(s) == Len(Trim(s)) \in 1..MaxHost /\ \A l \in Labels(Trim(s)) : IsLabel(l)

\* Slip: the name is kept as it was spelled.
NameAsSpelled(s) == Trim(s)

\* The normalised text: the labels of a host are lowered one by one and joined.
NameOf(s) == Lowered(Trim(s))

-------------------------------------------------------------------------------
(* The line.                                                               *)

EndsInCrlf(line) == Len(line) >= 2 /\ SubSeq(line, Len(line) - 1, Len(line)) = <<CR, LF>>

Stripped(line) == SubSeq(line, 1, Len(line) - 2)

\* Slip: the option is recognised in upper case only.
VerboseUpper(raw) == First(raw) \in {<<"/", c>> : c \in {d \in Caps : LowerOf[d] = "w"}}

\* eq_ignore_ascii_case("/W")
Verbose(raw) == Lowered(First(raw)) = <<"/", "w">>

\* The token that names the user.
Subject(raw) == IF Verbose(raw) THEN Second(raw) ELSE First(raw)

\* Slip: the host is all that follows the first `@`.
HostToTheEnd(raw) == After(Subject(raw), "@")

\* Up to a second `@`, which ends the host and hides what follows.
HostText(raw) == Before(After(Subject(raw), "@"), "@")

\* Why the line is refused, "none" if it is not.
Refusal(line) ==
  LET raw   == Stripped(line)
      user  == Before(Subject(raw), "@")
      count == Cardinality(Starts(raw))
  IN  IF Bad \in {line[i] : i \in 1..Len(line)}      THEN "InvalidEncoding"
      ELSE IF ~EndsInCrlf(line)                      THEN "MissingCrlf"
      ELSE IF ~Within(raw, Char \ Control)           THEN "ControlCharacter"
      ELSE IF count = 0                              THEN "MissingUsername"
      ELSE IF Verbose(raw) /\ count = 1              THEN "MissingUsername"
      ELSE IF Subject(raw)[1] = "/"                  THEN "UnknownOption"
      ELSE IF count > (IF Verbose(raw) THEN 2 ELSE 1) THEN "TrailingInput"
      ELSE IF user = <<>>                            THEN "MissingUsername"
      ELSE IF ~IsUsername(user)                      THEN "InvalidUsername"
      ELSE IF HostText(raw) # <<>> /\ ~IsHostName(HostText(raw)) THEN "InvalidHostname"
      ELSE "none"

\* The FingerQuery of a line that is not refused; an empty host stands for None.
QueryOf(line) ==
  LET raw == Stripped(line) IN
  [username |-> NameOf(Before(Subject(raw), "@")),
   host     |-> NameOf(HostText(raw)),
   verbose  |-> Verbose(raw)]
=============================================================================
