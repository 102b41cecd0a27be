---------------------------- MODULE WindowArrivals ----------------------------
(***************************************************************************)
(* One saved window of a token, watched while windows open: each new one   *)
(* goes to the end of the list that resolve_toplevel_match searches.       *)
(***************************************************************************)
EXTENDS ToplevelMatch

CONSTANTS
  SavedWindows,  \* the saved window, in every form of interest
  MaxWindows     \* bound on the list

ASSUME ArrivalsAssumption == SavedWindows \subseteq Saved

VARIABLES saved, infos

vars == <<saved, infos>>

Init == saved \in SavedWindows /\ infos = <<>>

Open ==
  /\ Len(infos) < MaxWindows
  /\ \E w \in Window :
       /\ \A k \in DOMAIN infos : infos[k].id # w.id
       /\ infos' = Append(infos, w)
  /\ UNCHANGED saved

Next == Open

Spec == Init /\ [][Next]_vars

Result == ResolveToplevel(saved, infos)

\* The decision over a whole list is the one the unit tests check candidate by candidate: some
\* window matches unattended, or none does and some needs consent, or none matches at all.
ListAgreesWithCandidates ==
  LET kinds == {MatchCandidate(saved, infos[k]) : k \in DOMAIN infos}
  IN  Result.kind = IF "auto" \in kinds THEN "auto"
                    ELSE IF "consent" \in kinds THEN "consent" ELSE "none"

\* The confidentiality boundary of one saved window: an unattended match is a window of the list
\* that has the saved identifier or belongs to the saved, non-empty, application.
AutoStaysInApp ==
  Result.kind = "auto" =>
    LET w == Result.windows[1]
    IN  /\ \E k \in DOMAIN infos : infos[k] = w
        /\ w.id = saved.id \/ SameApp(saved, w)

\* A window that opens never takes a match away, and replaces the matched window only by one that
\* stands closer to the saved window: by identifier, by application and title, or by an earlier rule.
ArrivalOnlyImproves ==
  [][Result.kind = "auto" =>
       /\ Result'.kind = "auto"
       /\ Result'.windows = Result.windows
          \/ LET new == infos'[Len(infos')]
             IN  /\ Result'.windows = <<new>>
                 /\ \/ new.id = saved.id
                    \/ SameAppAndTitle(saved, new)
                    \/ /\ saved.mode = TitleMode
                       /\ \E r \in DOMAIN saved.rules :
                            /\ RuleAutoMatches(saved.rules[r], saved, new)
                            /\ \A q \in 1..r :
                                 ~ RuleAutoMatches(saved.rules[q], saved, Result.windows[1])]_vars
==============================================================================
