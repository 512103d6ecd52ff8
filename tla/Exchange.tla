------------------------------- MODULE Exchange -------------------------------
(***************************************************************************)
(* One exchange after another, from the operator's options and the         *)
(* client's characters to the bytes of the answer: what config.rs makes of *)
(* the host names, query.rs of the line, user.rs of the stored files and   *)
(* framing.rs of the answer, joined as server.rs joins them.               *)
(*                                                                         *)
(* The steps in between, with their deadlines and failures, are those of   *)
(* FingerServer and UserStorage; here the contents are followed through.   *)
(***************************************************************************)
EXTENDS FingerProfile

CONSTANTS
  Options,    \* what an operator may set: [default_host, allowed_hosts]
  Piece,      \* texts a client may type at once
  MaxPieces,  \* bound: how many of them make a line
  Stored,     \* profiles a user may have in the store
  Plan        \* plans a user may have in the store

ASSUME OptionsAssumption == Options \subseteq [default_host : Text, allowed_hosts : Seq(Text)]
ASSUME PieceAssumption == Piece \subseteq Seq(Char) /\ MaxPieces \in Nat
ASSUME StoredAssumption == Stored \subseteq Document /\ Plan \subseteq Text /\ NoPlan \notin Plan

VARIABLES
  stage,    \* how far the server and the exchange are
  options,  \* the options the server was started with
  line,     \* what the client has typed, not ended yet
  typed,    \* of how many pieces it is made
  query,    \* the FingerQuery, while there is one
  found,    \* the profile and the plan the answer was made of
  answer    \* the bytes sent

vars == <<stage, options, line, typed, query, found, answer>>

NoQuery == [username |-> <<>>, host |-> <<>>, verbose |-> FALSE]
Nothing == [profile |-> [form |-> "not TOML", fields |-> <<>>], plan |-> NoPlan]

-------------------------------------------------------------------------------
(* The host names of a configuration.                                      *)

\* The entries of the list that are no white space.
Listed(o) == {e \in Range(o.allowed_hosts) : Trim(e) # <<>>}

\* from_cli refuses the options if one host name is invalid.
OptionsRefused(o) == \E h \in {o.default_host} \cup Listed(o) : ~IsHostName(h)

\* Slip: the list replaces the default host.
HostsWithoutDefault(o) ==
  IF o.allowed_hosts = <<>> THEN {NameOf(o.default_host)} ELSE {NameOf(h) : h \in Listed(o)}

\* allowed_hosts: a set that the default host is always in.
Hosts(o) == {NameOf(h) : h \in {o.default_host} \cup Listed(o)}

-------------------------------------------------------------------------------

Send(bytes) ==
  /\ stage' = "answered"
  /\ answer' = bytes

Start ==
  /\ stage = "stopped"
  /\ \E o \in Options : /\ ~OptionsRefused(o)
                        /\ options' = o
  /\ stage' = "reading"
  /\ UNCHANGED <<line, typed, query, found, answer>>

Type ==
  /\ stage = "reading"
  /\ typed < MaxPieces
  /\ \E p \in Piece : line' = line \o p
  /\ typed' = typed + 1
  /\ UNCHANGED <<stage, options, query, found, answer>>

\* The line ends, in CRLF or in something else, and is parsed.
ParseQuery ==
  /\ stage = "reading"
  /\ \E end \in {<<CR, LF>>, <<LF>>, <<>>} :
       LET whole == line \o end IN
       \/ /\ Refusal(whole) # "none"
          /\ Send(Message("request refused"))
          /\ UNCHANGED query
       \/ /\ Refusal(whole) = "none"
          /\ query' = QueryOf(whole)
          /\ stage' = "lookup"
          /\ UNCHANGED answer
  /\ line' = <<>>
  /\ typed' = 0
  /\ UNCHANGED <<options, found>>

\* respond_to_query, and what build_response does before it awaits the store.
ChooseHost ==
  LET host == IF query.host = <<>> THEN NameOf(options.default_host) ELSE query.host IN
  /\ stage = "lookup"
  /\ \/ /\ host \notin Hosts(options)
        /\ Send(Message("host not served here"))
     \/ /\ host \in Hosts(options)
        /\ stage' = "loading"
        /\ UNCHANGED answer
  /\ UNCHANGED <<options, line, typed, query, found>>

\* load_user finds no profile, or fails.
LoadFails ==
  /\ stage = "loading"
  /\ \E wording \in {"no matching record", "request refused"} : Send(Message(wording))
  /\ UNCHANGED <<options, line, typed, query, found>>

\* load_user has both files, the plan only if it was asked for; a profile that
\* does not parse is a refusal.
LoadUser ==
  /\ stage = "loading"
  /\ \E profile \in Stored :
       \/ /\ ProfileError(query.username, profile) # "none"
          /\ Send(Message("request refused"))
          /\ UNCHANGED found
       \/ /\ ProfileError(query.username, profile) = "none"
          /\ \E plan \in (IF query.verbose THEN Plan ELSE {}) \cup {NoPlan} :
               /\ found' = [profile |-> profile, plan |-> plan]
               /\ Send(Bytes(Render(query.username, profile, query.verbose, plan)))
  /\ UNCHANGED <<options, line, typed, query>>

\* The connection is over; another one begins.
NextConnection ==
  /\ stage = "answered"
  /\ stage' = "reading"
  /\ query' = NoQuery
  /\ found' = Nothing
  /\ answer' = <<>>
  /\ UNCHANGED <<options, line, typed>>

Init ==
  /\ stage = "stopped"
  /\ options = [default_host |-> <<>>, allowed_hosts |-> <<>>]
  /\ line = <<>>
  /\ typed = 0
  /\ query = NoQuery
  /\ found = Nothing
  /\ answer = <<>>

Next ==
  \/ Start \/ Type \/ ParseQuery \/ ChooseHost
  \/ LoadFails \/ LoadUser \/ NextConnection

Spec == Init /\ [][Next]_vars

-------------------------------------------------------------------------------

\* A name that reaches the store is a file name of its own, whatever was typed:
\* lower-case letters, digits, hyphens and underscores, neither empty nor too long
\* (identity.rs:32-46); and none is left over from the connection before.
TypeOK ==
  /\ stage \in {"stopped", "reading", "lookup", "loading", "answered"}
  /\ options \in [default_host : Text, allowed_hosts : Seq(Text)]
  /\ line \in Seq(Char)
  /\ typed \in 0..MaxPieces
  /\ query.username \in Seq(Char) /\ query.host \in Seq(Char) /\ query.verbose \in BOOLEAN
  /\ stage \in {"stopped", "reading"} => query = NoQuery
  /\ query # NoQuery => /\ Len(query.username) \in 1..MaxName
                        /\ Within(query.username, Small \cup {"-", "_"})
  /\ found.profile \in Stored \cup {Nothing.profile}
  /\ found.plan \in Plan \cup {NoPlan}

\* The queries of the line, read as a grammar: white space, an option with white
\* space after it, a name, a host after an `@` and anything after another, white
\* space.
Gap(s)      == Within(s, Blank \ Control)
Flag(s)     == \E i \in 1..Len(s) : /\ Gap(SubSeq(s, 1, i - 1)) /\ i + 2 <= Len(s)
                                    /\ s[i] = "/" /\ Low(s[i + 1]) = "w"
                                    /\ Gap(SubSeq(s, i + 2, Len(s)))
Name(s)     == Len(s) \in 1..MaxName /\ Within(s, NameChar)
Host(s)     == /\ Len(s) \in 1..MaxHost
               /\ Within(s, LabelChar \cup {"."})
               /\ \A i \in 1..Len(s) : s[i] \in {"-", "."} =>
                    /\ i \notin {1, Len(s)}
                    /\ "." \notin {s[j] : j \in {k \in {i - 1, i + 1} : s[i] = "." \/ s[i] = "-"}}
Ignored(s)  == Within(s, Char \ (Blank \cup Control \cup {Bad}))
\* The name is between i and j, the host, after an `@`, between j + 1 and k.
Reads(s, i, j, k) ==
  \E d \in k..Len(s) :
    /\ i < j
    /\ Gap(SubSeq(s, 1, i)) \/ Flag(SubSeq(s, 1, i))
    /\ i > 0 => s[i] \in Blank
    /\ Name(SubSeq(s, i + 1, j))
    /\ \/ k = j /\ d = k
       \/ /\ j < k /\ s[j + 1] = "@"
          /\ k = j + 1 \/ Host(SubSeq(s, j + 2, k))
          /\ d = k \/ s[k + 1] = "@"
          /\ Ignored(SubSeq(s, k + 1, d))
    /\ Gap(SubSeq(s, d + 1, Len(s)))
Readings(s) ==
  {[username |-> Lowered(SubSeq(s, p[1] + 1, p[2])), host |-> Lowered(SubSeq(s, p[2] + 2, p[3])),
    verbose |-> Flag(SubSeq(s, 1, p[1]))] :
     p \in {q \in (0..Len(s)) \X (0..Len(s)) \X (0..Len(s)) : Reads(s, q[1], q[2], q[3])}}

\* The parser takes exactly the lines of the grammar, and takes each for the one
\* query it stands for (query.rs:42-118, identity.rs:32-111).
ParseExact ==
  stage = "reading" =>
    LET whole == line \o <<CR, LF>> IN
    Readings(line) = IF Refusal(whole) = "none" THEN {QueryOf(whole)} ELSE {}

\* Neither the option nor a name nor the reason for a refusal depends on the case
\* of a letter (query.rs:68, identity.rs:42 and 82).
CaseBlind ==
  LET whole == line \o <<CR, LF>> IN
  /\ Refusal(Lowered(whole)) = Refusal(whole)
  /\ Refusal(whole) = "none" => QueryOf(Lowered(whole)) = QueryOf(whole)

\* A client is told that its host is not served only if it named one, and one that
\* the operator has not written down in any spelling (config.rs:85-92, 168-181
\* against query.rs:87-94 and server.rs:139-178).
MismatchOnlyForeign ==
  answer = Message("host not served here") =>
    /\ query.host # <<>>
    /\ \A h \in {options.default_host} \cup Range(options.allowed_hosts) :
         Lowered(Trim(h)) # query.host

\* What a client makes of the answer when it cuts it at each CRLF.
LinesRead ==
  LET end == Kept([i \in 1..Len(answer) |-> i],
                  {i \in 2..Len(answer) : answer[i - 1] = CR /\ answer[i] = LF})
  IN  [k \in 1..Len(end) |-> SubSeq(answer, IF k = 1 THEN 1 ELSE end[k - 1] + 1, end[k] - 2)]

Told == stage = "answered" /\ found # Nothing

PlainKeys == \A f \in Range(found.profile.fields) : Within(f.key, Printable)

\* The lines that the plan takes in a verbose answer.
PlanRows ==
  IF found.plan = NoPlan \/ Within(found.plan, Blank) THEN 1
  ELSE Cardinality({i \in 1..Len(found.plan) : found.plan[i] = LF \/ i = Len(found.plan)})

\* Whatever is in the values and in the plan, no character of theirs but printable
\* ASCII is sent, and none of them begins a line: where a field and a line of the
\* plan stand in the answer is where they stand in the files (user.rs:74-105,
\* 147-149; framing.rs:19-24).
AnswerFramed ==
  Told /\ PlainKeys =>
    LET fields == Len(found.profile.fields) - 1
        lines  == LinesRead
    IN  /\ Len(lines) = fields + (IF query.verbose THEN 5 + PlanRows ELSE 3)
        /\ \A i \in 1..Len(lines) : Within(lines[i], Printable)
        /\ lines[1] = <<"User: ">> \o query.username
        /\ lines[Len(lines)] = <<"Powered by fingermouse">>

\* Read from its end, a verbose answer has the plan under its heading, whatever the
\* keys hold and even if the plan is worded like an answer of the server: the
\* printable characters of the file and its line ends in their order, with a line
\* end after the last line, or one line that says that there is no plan or that it
\* is blank (README.md:61-62, user.rs:82-104).
PlanShown ==
  Told /\ query.verbose =>
    LET lines == LinesRead
        last  == Len(lines) - 2
        rows  == SubSeq(lines, last - PlanRows + 1, last)
        plan  == found.plan
    IN  /\ PlanRows + 2 <= last
        /\ SubSeq(lines, last - PlanRows - 1, last - PlanRows) = <<<<>>, <<"Plan:">>>>
        /\ SubSeq(lines, last + 1, last + 2) = <<<<>>, <<"Powered by fingermouse">>>>
        /\ IF plan = NoPlan              THEN rows = <<<<"(no plan)">>>>
           ELSE IF Within(plan, Blank)   THEN rows = <<<<"(empty plan)">>>>
           ELSE FlattenSeq([k \in 1..Len(rows) |-> rows[k] \o <<LF>>])
                  = Kept(plan, Printable \cup {LF})
                      \o (IF plan[Len(plan)] = LF THEN <<>> ELSE <<LF>>)
=============================================================================
