---------------------------- MODULE ToplevelMatch ----------------------------
(***************************************************************************)
(* How the COSMIC portal decides which current window a saved window of a  *)
(* restore token stands for: resolve_toplevel_match, its helpers, and the  *)
(* all-or-nothing resolution of a whole token.                             *)
(*                                                                         *)
(* A window (ToplevelInfo) is a record [id, app, title]; the window list   *)
(* is a sequence, because the code takes the first match in list order.    *)
(* A saved window is a record [id, app, title, mode, rules]; a rule is a   *)
(* record [pattern, scope].  Strings are members of constant sets, and the *)
(* case-insensitive regex search is the relation Matches.                  *)
(***************************************************************************)
EXTENDS Integers, Sequences

CONSTANTS
  Ids,       \* compositor toplevel identifiers
  Apps,      \* app ids, NoAppId among them
  NoAppId,   \* the empty app id
  Titles,    \* window titles
  Patterns,  \* compiled title patterns
  Matches    \* <<pattern, title>> pairs for which the regex search succeeds

ASSUME MatchAssumption ==
  /\ NoAppId \in Apps
  /\ Matches \subseteq Patterns \X Titles

ExactMode == 0
AppMode   == 1
TitleMode == 2

\* Token data may carry any u32 mode; every value above TitleMode acts as AppMode.
Scopes == {"same_app", "any_app"}
Rule   == [pattern : Patterns, scope : Scopes]

Window == [id : Ids, app : Apps, title : Titles]
Saved  == [id : Ids, app : Apps, title : Titles, mode : Nat, rules : Seq(Rule)]

(***************************************************************************)
(* One rule against one candidate.                                         *)
(***************************************************************************)
\* Mutant: the empty application is an application like others.
RuleMatchesEmptyApp(rule, saved, w) ==
  /\ rule.scope = "same_app" => w.app = saved.app
  /\ <<rule.pattern, w.title>> \in Matches

RuleMatches(rule, saved, w) ==
  /\ rule.scope = "same_app" => saved.app # NoAppId /\ w.app = saved.app
  /\ <<rule.pattern, w.title>> \in Matches

\* Mutant: the scope is not looked at again.
RuleAutoMatchesAnyScope(rule, saved, w) == RuleMatches(rule, saved, w)

RuleAutoMatches(rule, saved, w) ==
  rule.scope = "same_app" /\ RuleMatches(rule, saved, w)

SameAppAndTitle(saved, w) ==
  saved.app # NoAppId /\ w.app = saved.app /\ w.title = saved.title

SameApp(saved, w) == saved.app # NoAppId /\ w.app = saved.app

(***************************************************************************)
(* The decision.  NoMatch and NeedsConsent carry no window.                *)
(***************************************************************************)
Matched(w)   == [kind |-> "auto", windows |-> <<w>>]
NeedsConsent == [kind |-> "consent", windows |-> <<>>]
NoMatch      == [kind |-> "none", windows |-> <<>>]

\* Mutant: the last match instead of the first.
Greatest(S) == CHOOSE i \in S : \A j \in S : j <= i

Least(S) == CHOOSE i \in S : \A j \in S : i <= j

\* Mutant: the whole rule decides, its scope included.
PositionsAnyScope(saved, r, infos) ==
  {k \in DOMAIN infos : RuleMatches(saved.rules[r], saved, infos[k])}

\* The positions of the windows that rule r of the saved window selects unattended.
AutoPositions(saved, r, infos) ==
  {k \in DOMAIN infos : RuleAutoMatches(saved.rules[r], saved, infos[k])}

\* Rules are tried in order, and each of them over the whole list before the next.
TitleRegexResult(saved, infos) ==
  LET live == {r \in DOMAIN saved.rules : AutoPositions(saved, r, infos) # {}}
  IN  IF live # {}
      THEN Matched(infos[Least(AutoPositions(saved, Least(live), infos))])
      ELSE IF \E r \in DOMAIN saved.rules, k \in DOMAIN infos :
                /\ RuleMatches(saved.rules[r], saved, infos[k])
                /\ ~ RuleAutoMatches(saved.rules[r], saved, infos[k])
           THEN NeedsConsent
           ELSE NoMatch

ResolveToplevel(saved, infos) ==
  LET exact  == {k \in DOMAIN infos : infos[k].id = saved.id}
      titled == {k \in DOMAIN infos : SameAppAndTitle(saved, infos[k])}
      inApp  == {k \in DOMAIN infos : SameApp(saved, infos[k])}
  IN  CASE exact # {}                             -> Matched(infos[Least(exact)])
        [] exact = {} /\ saved.mode = ExactMode   -> NoMatch
        [] exact = {} /\ saved.mode # ExactMode /\ titled # {}
                                                  -> Matched(infos[Least(titled)])
        [] exact = {} /\ titled = {} /\ saved.mode = TitleMode
                                                  -> TitleRegexResult(saved, infos)
        [] OTHER -> IF inApp # {} THEN Matched(infos[Least(inApp)]) ELSE NoMatch

\* match_candidate: the decision for one candidate, the only form the unit tests exercise.
MatchCandidate(saved, w) ==
  CASE w.id = saved.id -> "auto"
    [] w.id # saved.id /\ saved.mode = ExactMode -> "none"
    [] w.id # saved.id /\ saved.mode # ExactMode /\ SameAppAndTitle(saved, w) -> "auto"
    [] w.id # saved.id /\ ~ SameAppAndTitle(saved, w) /\ saved.mode = TitleMode ->
         LET hits == {r \in DOMAIN saved.rules : RuleMatches(saved.rules[r], saved, w)}
         IN  CASE hits = {} -> "none"
               [] \E r \in hits : RuleAutoMatches(saved.rules[r], saved, w) -> "auto"
               [] OTHER -> "consent"
    [] OTHER -> IF SameApp(saved, w) THEN "auto" ELSE "none"

(***************************************************************************)
(* A whole token: [outputs |-> set of names, windows |-> sequence of       *)
(* Saved].  Sources need every output and every window; the consent test   *)
(* looks at the windows only.                                              *)
(***************************************************************************)
ResolvesTo(src, infos, outs) ==
  /\ src.outputs \subseteq outs
  /\ \A i \in DOMAIN src.windows : ResolveToplevel(src.windows[i], infos).kind = "auto"

CapturedWindows(src, infos) ==
  [i \in DOMAIN src.windows |-> ResolveToplevel(src.windows[i], infos).windows[1]]

\* Mutant: a window that is merely missing asks for consent.
NeedsConsentWhenMissing(src, infos) ==
  \E i \in DOMAIN src.windows : ResolveToplevel(src.windows[i], infos).kind # "auto"

NeedsConsentWith(src, infos) ==
  \E i \in DOMAIN src.windows : ResolveToplevel(src.windows[i], infos).kind = "consent"
==============================================================================
