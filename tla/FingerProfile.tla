----------------------------- MODULE FingerProfile -----------------------------
(***************************************************************************)
(* A user's profile and the answer made of it: src/src/user.rs and         *)
(* src/src/framing.rs.                                                     *)
(*                                                                         *)
(* A document is what the UTF-8 and TOML decoders make of the stored bytes: *)
(* unreadable, or the fields of a table in the order it yields them, no    *)
(* key twice.  A fixed wording of the answer is one character, which users *)
(* may write as well: a plan may say "(no plan)", a quoted key "Plan:".    *)
(***************************************************************************)
EXTENDS Query, SequencesExt

CONSTANTS
  UsernameKey,  \* the key "username"
  NotString,    \* a value that is no string
  NoPlan        \* stands for `None` where the code holds the plan

Wording   == {"User: ", ": ", "Plan:", "(empty plan)", "(no plan)",
              "Powered by fingermouse", "request refused", "no matching record",
              "host not served here"}
ASSUME WordingAssumption == Wording \subseteq Symbol

Printable == Letter \cup Mark \cup Symbol \cup {" "}

Field    == [key : Text, value : Text \cup {NotString}]
Document == {d \in [form : {"not UTF-8", "not TOML", "table"}, fields : Seq(Field)] :
               \A i, j \in 1..Len(d.fields) : d.fields[i].key = d.fields[j].key => i = j}

\* filter: what of s is in C, in its order.
Kept(s, C) == FlattenSeq([i \in 1..Len(s) |-> IF s[i] \in C THEN <<s[i]>> ELSE <<>>])

-------------------------------------------------------------------------------
(* FingerProfile::parse                                                    *)

Declared(doc) == {f.value : f \in {g \in Range(doc.fields) : g.key = UsernameKey}}

\* A value that is no string is met in the loop, the name judged after it.
ProfileError(user, doc) ==
  IF doc.form # "table"                                     THEN "Unreadable"
  ELSE IF \E f \in Range(doc.fields) : f.value = NotString  THEN "NonStringValue"
  ELSE IF Declared(doc) = {}                                THEN "MissingUsername"
  ELSE IF \E n \in Declared(doc) : ~IsUsername(n)           THEN "UsernameInvalid"
  ELSE IF \E n \in Declared(doc) : NameOf(n) # user         THEN "UsernameMismatch"
  ELSE "none"

Attributes(doc) == Kept(doc.fields, {f \in Range(doc.fields) : f.key # UsernameKey})

-------------------------------------------------------------------------------
(* render                                                                  *)

\* normalise_key leaves control characters as they are.
Label(key) ==
  LET raised(c) == IF c \in Small /\ \E d \in Caps : LowerOf[d] = c
                     THEN CHOOSE d \in Caps : LowerOf[d] = c ELSE c
  IN  [i \in 1..Len(key) |->
         IF i = 1 THEN raised(key[1]) ELSE IF key[i] = "_" THEN " " ELSE key[i]]

\* Slip: control characters are let through.
SanitisedLoosely(s) == Kept(s, Printable \cup Control \cup {CR, LF})

\* sanitise_line
Sanitised(s) == Kept(s, Printable)

\* lines(): the texts that end in LF, and what is left after the last one.  The
\* CR that lines() takes off is none that Sanitised would keep.
LinesOf(s) ==
  LET end == Kept([i \in 1..Len(s) |-> i], {i \in 1..Len(s) : s[i] = LF \/ i = Len(s)})
  IN  [k \in 1..Len(end) |->
         SubSeq(s, IF k = 1 THEN 1 ELSE end[k - 1] + 1,
                   IF s[end[k]] = LF THEN end[k] - 1 ELSE end[k])]

\* Slip: only an empty file counts as an empty plan.
PlanLinesUntrimmed(plan) ==
  CASE plan = NoPlan -> <<<<"(no plan)">>>>
    [] plan = <<>>   -> <<<<"(empty plan)">>>>
    [] OTHER         -> [k \in 1..Len(LinesOf(plan)) |-> Sanitised(LinesOf(plan)[k])]

\* append_plan_lines
PlanLines(plan) ==
  IF plan = NoPlan             THEN <<<<"(no plan)">>>>
  ELSE IF Trim(plan) = <<>>    THEN <<<<"(empty plan)">>>>
  ELSE [k \in 1..Len(LinesOf(plan)) |-> Sanitised(LinesOf(plan)[k])]

Render(user, doc, include_plan, plan) ==
  LET attributes == Attributes(doc) IN
  <<<<"User: ">> \o user>>
    \o [k \in 1..Len(attributes) |->
          Label(attributes[k].key) \o <<": ">> \o Sanitised(attributes[k].value)]
    \o (IF include_plan THEN <<<<>>, <<"Plan:">>>> \o PlanLines(plan) ELSE <<>>)
    \o <<<<>>, <<"Powered by fingermouse">>>>

-------------------------------------------------------------------------------
(* CrlfBuffer                                                              *)

TrimLineEndings(s) == SubSeq(s, 1, Max({i \in 1..Len(s) : s[i] \notin {CR, LF}} \cup {0}))

\* push_line
Framed(s) == TrimLineEndings(s) \o <<CR, LF>>

Bytes(lines) == FlattenSeq([k \in 1..Len(lines) |-> Framed(lines[k])])

Message(wording) == Bytes(<<<<wording>>>>)
=============================================================================
