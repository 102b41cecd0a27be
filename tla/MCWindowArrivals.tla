--------------------------- MODULE MCWindowArrivals ---------------------------
(***************************************************************************)
(* Three identifiers, two applications and the empty one, three titles and *)
(* two patterns, one of which matches a title the other does not.          *)
(***************************************************************************)
EXTENDS WindowArrivals

MCApps    == {"", "code", "web"}
MCMatches == {<<"p", "t1">>, <<"p", "t2">>, <<"q", "t2">>}

Alias(pattern, scope) == [pattern |-> pattern, scope |-> scope]

RuleLists ==
  {<<>>} \cup {<<Alias("q", s1), Alias("p", s2)>> : s1, s2 \in Scopes}

\* Mode 9 is one no version writes; a token may still carry it.
MCSavedWindows ==
  {[id |-> 1, app |-> a, title |-> "t0", mode |-> m, rules |-> rs] :
     a \in {"", "code"}, m \in {ExactMode, AppMode, TitleMode, 9}, rs \in RuleLists}
==============================================================================
