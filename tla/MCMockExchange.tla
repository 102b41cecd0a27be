---------------------------- MODULE MCMockExchange ----------------------------
(***************************************************************************)
(* Small tests: OBS with every kind of alias line, with and without a      *)
(* token, against portals of version 5 and 6; and clients with arrays of   *)
(* their own, readable or not.                                             *)
(***************************************************************************)
EXTENDS MockExchange

Obs(name, token, action, aliases) ==
  [name |-> name, token |-> token, action |-> action, aliases |-> aliases]

\* Plain and prefixed lines, blank ones, prefixes without a pattern, white space all over.
Lines == {<<>>, <<"draft">>, <<"ascii", "any:", "draft", "ascii">>, <<"same_app:", "ascii">>,
          <<"any_app:", "ascii", "broken">>, <<"same:", "any:", "draft">>,
          <<"wide", "any:", "draft">>, <<"any:", "wide">>, <<"any:", "draft", "wide", "ascii">>,
          <<"draft", "wide", "draft">>}

Texts == {<<>>} \cup {<<l>> : l \in Lines} \cup {<<l, <<"draft">>>> : l \in Lines}

Configured == {Obs("Camera", token, action, <<>>) : token \in {"", "old"}, action \in Known}

Typed == {Obs("", "old", Skip, text) : text \in Texts} \cup {New("Camera"), New("")}

Fields(kind, pattern, scope) == [kind |-> kind, pattern |-> pattern, scope |-> scope]

OwnEntries == {Fields("title_regex", <<"draft">>, scope) : scope \in {Absent, NotString, "any", "same_app", "all"}}
              \cup {Fields("other", <<"draft">>, "same"), Fields("title_regex", <<"ascii">>, "same"),
                    Fields(Absent, <<"draft">>, "same"), Fields("title_regex", NotString, "same")}

OwnRules == {<<e>> : e \in OwnEntries} \cup {<<e, Fields("title_regex", <<"draft">>, "any_app")>> : e \in OwnEntries}
            \cup {<<Fields("title_regex", <<"draft">>, "any_app"), Fields("title_regex", <<"broken">>, Absent),
                    Fields("title_regex", <<"draft">>, "same"), Fields("title_regex", <<"draft">>, Absent)>>}

Own(rules, actions) ==
  [token |-> "old", label |-> Absent, policy |-> [default |-> Skip, actions |-> actions], rules |-> rules]

Unavailable == RestoreTokenFails("source_unavailable")
NotFound    == RestoreTokenFails("token_not_found")

\* The texts and the arrays need no failure; the actions get every kind of it.
MCSetups ==
  [settings : Configured, own : {Absent}, version : {6}, scenario : {NotFound, Unavailable}]
    \cup [settings : Typed, own : {Absent}, version : {5, 6}, scenario : {NormalSession}]
    \cup [settings : {New("")}, version : {6}, scenario : {NormalSession},
          own : {Own(rules, <<>>) : rules \in OwnRules}]
    \cup [settings : {New("")}, version : {6}, scenario : {NotFound, Unavailable},
          own : {Own(Absent, [token_not_found |-> Error]), Own(Absent, [source_unavailable |-> Error])}]
    \cup [settings : {Obs("", "old", Prompt, <<>>)}, version : {6}, own : {Absent},
          scenario : {ExternallyTriggeredRescue("token_not_found")}]

MCScenarios == {s.scenario : s \in MCSetups}
MCTriggers  == {Success}
\* The calls that come of them.
MCCalls == {Parsed(OptionsOf(s)) : s \in {t \in MCSetups : ~ IsMalformed(OptionsOf(t))}}
==============================================================================
