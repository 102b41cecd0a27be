-------------------------- MODULE MCCosmicScreenCast --------------------------
(***************************************************************************)
(* A small COSMIC desktop: two applications, one output, and window lists  *)
(* in which the saved window is present, has come back under a new         *)
(* identifier, has a neighbour in another application whose title matches  *)
(* an any_app alias, or is missing.                                        *)
(***************************************************************************)
EXTENDS CosmicScreenCast

\* The saved window, a later window of its application, a window elsewhere.
Old    == [id |-> 1, app |-> "code", title |-> "project"]
Later  == [id |-> 2, app |-> "code", title |-> "project - draft"]
Foreign == [id |-> 3, app |-> "browser", title |-> "project - draft"]

MCIds      == 1..3
MCApps     == {"", "code", "browser"}
MCTitles   == {"project", "project - draft"}
MCPatterns == {"draft"}
MCMatches  == {<<"draft", "project - draft">>}
MCOutputs  == {"HDMI"}

SameAppAlias == [pattern |-> "draft", scope |-> "same_app"]
AnyAppAlias  == [pattern |-> "draft", scope |-> "any_app"]

\* A scope, and a pattern, that this version does not know.
MCUnreadable == {[pattern |-> "draft", scope |-> "all"], [pattern |-> "(", scope |-> "same_app"]}

SavedAs(mode, rules) ==
  [outputs |-> {},
   windows |-> <<[id |-> 1, app |-> "code", title |-> "project", mode |-> mode, rules |-> rules]>>]

AppToken   == SavedAs(AppMode, <<>>)
ExactToken == SavedAs(ExactMode, <<>>)
AliasToken == SavedAs(TitleMode, <<AnyAppAlias, SameAppAlias>>)
OutputToken == [outputs |-> {"HDMI"}, windows |-> <<>>]

\* Two windows saved together: the whole token resolves or nothing does.
PairToken ==
  [outputs |-> {},
   windows |-> <<[id |-> 1, app |-> "code", title |-> "project", mode |-> AppMode, rules |-> <<>>],
                 [id |-> 3, app |-> "browser", title |-> "project - draft", mode |-> ExactMode,
                  rules |-> <<>>]>>]

RaceTokens  == {AppToken, AliasToken}
RaceLists   == {<<>>, <<Foreign>>, <<Foreign, Later>>}
WideTokens  == {ExactToken, AliasToken, OutputToken, PairToken}
WideLists   == {<<>>, <<Old>>, <<Foreign>>, <<Foreign, Later>>}

\* By default prompt, skip or error; the last two override one reason.
Policy(default, actions) == [default |-> default, actions |-> actions]
Nothing == [r \in {} |-> Prompt]
RacePolicies == {Policy(Error, [source_unavailable |-> 3])}
WidePolicies ==
  RacePolicies \cup {Policy(Skip, Nothing), Policy(Absent, Nothing), Policy(7, [source_unavailable |-> Error]),
                    Policy(Skip, [source_unavailable |-> 3, token_not_found |-> Prompt])}

NoRules     == {<<>>}
ClientRules == {<<>>, <<SameAppAlias>>}
OnePick     == {AppMode}
TwoPicks    == {ExactMode, TitleMode}
==============================================================================
