------------------------------ MODULE MCExchange ------------------------------
(* An instance of Exchange for TLC.                                        *)
EXTENDS Exchange

MCLowerOf == [c \in Caps |-> CASE c = "W" -> "w"]

MCUsernameKey == <<"u", "_">>

MCOptions ==
  {[default_host |-> d, allowed_hosts |-> l] :
     d \in {<<"w">>, <<" ", "W">>, <<"-">>},
     l \in {<<>>, <<<<>>, <<"W", ".", "w">>, <<" ">>, <<"u">>>>, <<<<"w", ".">>>>}}

\* The option is typed at once, so is a name with its `@` or a dot; each kind of
\* character that is refused is there.
MCPiece ==
  {<<c>> : c \in {"w", "W", "@", ".", "-", "/", " ", CR, "tab", "e-acute", "bad"}}
    \cup {<<"/", "W">>, <<"w", "@">>, <<"w", ".">>}

MCValues == {<<>>, <<"u", LF, "w">>, <<"bell", "w">>, <<"nbsp">>, <<"*", CR, LF>>,
             <<"Plan:">>}
\* A key in quotes may hold the line that heads the plan.
MCKeys   == {<<"u">>, <<"w", "_", "w">>, <<"u", CR, LF, "Plan:", CR, LF, "(no plan)">>}

MCNames == {<<"w">>, <<" ", "W", LF>>, <<"w", "-">>, <<"@">>}

Table(fields) == [form |-> "table", fields |-> fields]
Called(n)     == [key |-> UsernameKey, value |-> n]

MCStored ==
  {[form |-> f, fields |-> <<>>] : f \in {"not UTF-8", "not TOML", "table"}}
    \cup {Table(<<Called(n)>>) : n \in MCNames \cup {NotString}}
    \cup {Table(<<[key |-> k, value |-> v], Called(<<"W">>)>>) :
            k \in MCKeys, v \in MCValues \cup {NotString}}
    \cup {Table(<<Called(<<"w">>), [key |-> <<"w">>, value |-> v], [key |-> <<"u">>, value |-> <<"w">>]>>) :
            v \in MCValues}

\* A plan may say what the server says of a plan that is missing or blank.
MCPlan ==
  UNION {[1..n -> {"w", " ", LF, CR, "bell"}] : n \in 0..3}
    \cup UNION {[1..n -> {"(no plan)", "(empty plan)", "Plan:", LF}] : n \in 1..2}
=============================================================================
