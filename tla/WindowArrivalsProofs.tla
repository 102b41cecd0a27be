------------------------- MODULE WindowArrivalsProofs -------------------------
(***************************************************************************)
(* Theorems about one saved window and a growing window list, for every    *)
(* saved window and lists of any length.                                   *)
(***************************************************************************)
EXTENDS WindowArrivals, ToplevelMatchProofs

\* Both variables keep their type: the saved window never changes, the list is one of windows.
ListInv == saved \in Saved /\ infos \in Seq(Window)

\* The list holds windows only, however many have opened.
LEMMA ListCorrect == Spec => []ListInv
<1>1. Init => ListInv
  BY ArrivalsAssumption DEF Init, ListInv
<1>2. ListInv /\ [Next]_vars => ListInv'
  BY DEF ListInv, Next, Open, vars
<1> QED BY <1>1, <1>2, PTL DEF Spec

\* The confidentiality boundary of one saved window, whatever windows open: an unattended match
\* is the saved window or one of its non-empty application.
THEOREM MatchStaysInApp == Spec => []AutoStaysInApp
<1>1. ListInv => AutoStaysInApp
  <2> SUFFICES ASSUME ListInv, Result.kind = "auto"
               PROVE  LET w == Result.windows[1]
                      IN  /\ \E k \in DOMAIN infos : infos[k] = w
                          /\ w.id = saved.id \/ SameApp(saved, w)
    BY DEF AutoStaysInApp
  <2>1. PICK k \in DOMAIN infos :
          /\ Result = Matched(infos[k])
          /\ infos[k].id = saved.id \/ SameApp(saved, infos[k])
    BY AutoMatchStaysInApp DEF ListInv, Result
  <2>2. Result.windows[1] = infos[k]
    BY <2>1 DEF Matched
  <2> QED BY <2>1, <2>2
<1> QED BY <1>1, ListCorrect, PTL

\* The decision over a list is the decision over its windows one by one, so the candidate-wise
\* form that the unit tests exercise speaks for the list-wise form that the portal runs.
THEOREM ListDecision == Spec => []ListAgreesWithCandidates
<1>1. ListInv => ListAgreesWithCandidates
  <2> SUFFICES ASSUME ListInv PROVE ListAgreesWithCandidates
    OBVIOUS
  <2> DEFINE exact  == {k \in DOMAIN infos : infos[k].id = saved.id}
             titled == {k \in DOMAIN infos : SameAppAndTitle(saved, infos[k])}
             inApp  == {k \in DOMAIN infos : SameApp(saved, infos[k])}
             kinds  == {MatchCandidate(saved, infos[k]) : k \in DOMAIN infos}
  <2> HIDE DEF exact, titled, inApp
  <2>0. Result =
          CASE exact # {}                             -> Matched(infos[Least(exact)])
            [] exact = {} /\ saved.mode = ExactMode   -> NoMatch
            [] exact = {} /\ saved.mode # ExactMode /\ titled # {}
                                                      -> Matched(infos[Least(titled)])
            [] exact = {} /\ titled = {} /\ saved.mode = TitleMode
                                                      -> TitleRegexResult(saved, infos)
            [] OTHER -> IF inApp # {} THEN Matched(infos[Least(inApp)]) ELSE NoMatch
    BY DEF Result, ResolveToplevel, exact, titled, inApp
  <2>1. CASE exact # {}
    <3>1. PICK k \in DOMAIN infos : infos[k].id = saved.id
      BY <2>1 DEF exact
    <3>2. MatchCandidate(saved, infos[k]) = "auto"
      BY <3>1 DEF MatchCandidate
    <3>3. Result.kind = "auto"
      BY <2>0, <2>1 DEF Matched
    <3> QED BY <3>2, <3>3 DEF ListAgreesWithCandidates
  <2>2. CASE exact = {} /\ saved.mode = ExactMode
    <3>1. \A k \in DOMAIN infos : MatchCandidate(saved, infos[k]) = "none"
      BY <2>2 DEF exact, MatchCandidate, ExactMode, TitleMode
    <3>2. Result.kind = "none"
      BY <2>0, <2>2 DEF NoMatch, ExactMode, TitleMode
    <3> QED BY <3>1, <3>2 DEF ListAgreesWithCandidates
  <2>3. CASE exact = {} /\ saved.mode # ExactMode /\ titled # {}
    <3>1. PICK k \in DOMAIN infos : SameAppAndTitle(saved, infos[k])
      BY <2>3 DEF titled
    <3>2. MatchCandidate(saved, infos[k]) = "auto"
      BY <2>3, <3>1 DEF MatchCandidate, exact
    <3>3. Result.kind = "auto"
      BY <2>0, <2>3 DEF Matched
    <3> QED BY <3>2, <3>3 DEF ListAgreesWithCandidates
  <2>4. CASE exact = {} /\ titled = {} /\ saved.mode = TitleMode
    <3> DEFINE hits(k) == {r \in DOMAIN saved.rules : RuleMatches(saved.rules[r], saved, infos[k])}
    <3>1. \A k \in DOMAIN infos :
            MatchCandidate(saved, infos[k]) =
              CASE hits(k) = {} -> "none"
                [] \E r \in hits(k) : RuleAutoMatches(saved.rules[r], saved, infos[k]) -> "auto"
                [] OTHER -> "consent"
      BY <2>4 DEF MatchCandidate, exact, titled, ExactMode, TitleMode
    <3>2. Result = TitleRegexResult(saved, infos)
      BY <2>0, <2>4 DEF TitleMode, ExactMode
    <3>3. \A k \in DOMAIN infos, r \in DOMAIN saved.rules :
            RuleAutoMatches(saved.rules[r], saved, infos[k])
              => RuleMatches(saved.rules[r], saved, infos[k])
      BY DEF RuleAutoMatches
    <3>4. CASE \E k \in DOMAIN infos, r \in DOMAIN saved.rules :
                 RuleAutoMatches(saved.rules[r], saved, infos[k])
      <4>1. PICK k \in DOMAIN infos, r \in DOMAIN saved.rules :
              RuleAutoMatches(saved.rules[r], saved, infos[k])
        BY <3>4
      <4>2. r \in hits(k)
        BY <3>3, <4>1
      <4>3. MatchCandidate(saved, infos[k]) = "auto"
        BY <3>1, <4>1, <4>2
      <4>4. AutoPositions(saved, r, infos) # {}
        BY <4>1 DEF AutoPositions
      <4>5. Result.kind = "auto"
        BY <3>2, <4>4 DEF TitleRegexResult, Matched
      <4> QED BY <4>3, <4>5 DEF ListAgreesWithCandidates
    <3>5. CASE ~ \E k \in DOMAIN infos, r \in DOMAIN saved.rules :
                 RuleAutoMatches(saved.rules[r], saved, infos[k])
      <4>1. \A r \in DOMAIN saved.rules : AutoPositions(saved, r, infos) = {}
        BY <3>5 DEF AutoPositions
      <4>2. Result = IF \E r \in DOMAIN saved.rules, k \in DOMAIN infos :
                          RuleMatches(saved.rules[r], saved, infos[k])
                     THEN NeedsConsent ELSE NoMatch
        BY <3>2, <3>5, <4>1 DEF TitleRegexResult
      <4>3. \A k \in DOMAIN infos :
              MatchCandidate(saved, infos[k]) = IF hits(k) = {} THEN "none" ELSE "consent"
        BY <3>1, <3>5
      <4>4. CASE \E k \in DOMAIN infos : hits(k) # {}
        <5>1. Result.kind = "consent"
          BY <4>2, <4>4 DEF NeedsConsent
        <5>2. "consent" \in kinds /\ "auto" \notin kinds
          BY <4>3, <4>4
        <5> QED BY <5>1, <5>2 DEF ListAgreesWithCandidates
      <4>5. CASE \A k \in DOMAIN infos : hits(k) = {}
        <5>1. Result.kind = "none"
          BY <4>2, <4>5 DEF NoMatch
        <5>2. "consent" \notin kinds /\ "auto" \notin kinds
          BY <4>3, <4>5
        <5> QED BY <5>1, <5>2 DEF ListAgreesWithCandidates
      <4> QED BY <4>4, <4>5
    <3> QED BY <3>4, <3>5
  <2>5. CASE exact = {} /\ titled = {} /\ saved.mode \notin {ExactMode, TitleMode}
    <3>1. \A k \in DOMAIN infos :
            MatchCandidate(saved, infos[k]) = IF SameApp(saved, infos[k]) THEN "auto" ELSE "none"
      BY <2>5 DEF MatchCandidate, exact, titled
    <3>2. Result = IF inApp # {} THEN Matched(infos[Least(inApp)]) ELSE NoMatch
      BY <2>0, <2>5
    <3>3. CASE inApp # {}
      <4>1. PICK k \in DOMAIN infos : SameApp(saved, infos[k])
        BY <3>3 DEF inApp
      <4>2. "auto" \in kinds
        BY <3>1, <4>1
      <4>3. Result.kind = "auto"
        BY <3>2, <3>3 DEF Matched
      <4> QED BY <4>2, <4>3 DEF ListAgreesWithCandidates
    <3>4. CASE inApp = {}
      <4>1. "auto" \notin kinds /\ "consent" \notin kinds
        BY <3>1, <3>4 DEF inApp
      <4>2. Result.kind = "none"
        BY <3>2, <3>4 DEF NoMatch
      <4> QED BY <4>1, <4>2 DEF ListAgreesWithCandidates
    <3> QED BY <3>3, <3>4
  <2> QED BY <2>1, <2>2, <2>3, <2>4, <2>5
<1> QED BY <1>1, ListCorrect, PTL

(***************************************************************************)
(* A window that opens stands behind all others.                           *)
(***************************************************************************)
LEMMA LeastIs ==
  ASSUME NEW S \in SUBSET Nat, NEW i \in S, \A j \in S : i <= j
  PROVE  Least(S) = i
<1>1. Least(S) \in S /\ \A j \in S : Least(S) <= j
  BY LeastExists
<1>2. Least(S) <= i /\ i <= Least(S) /\ i \in Nat /\ Least(S) \in Nat
  BY <1>1
<1> QED BY <1>2

LEMMA Appended ==
  ASSUME NEW list \in Seq(Window), NEW w \in Window, NEW more, more = Append(list, w)
  PROVE  /\ DOMAIN list = 1..Len(list) /\ DOMAIN more = 1..(Len(list) + 1) /\ Len(list) \in Nat
         /\ Len(more) = Len(list) + 1
         /\ more[Len(list) + 1] = w /\ \A k \in DOMAIN list : more[k] = list[k]
OBVIOUS

\* The first of some positions stays the first.
LEMMA FirstStays ==
  ASSUME NEW n \in Nat, NEW S \in SUBSET (1..n), S # {}, NEW T \in SUBSET (1..(n + 1)),
         T \cap (1..n) = S
  PROVE  Least(T) = Least(S) /\ Least(S) \in S
<1>1. S \in SUBSET Nat /\ T \in SUBSET Nat
  OBVIOUS
<1>2. Least(S) \in S /\ \A j \in S : Least(S) <= j
  BY <1>1, LeastExists
<1>3. ASSUME NEW j \in T PROVE Least(S) <= j
  <2>1. CASE j \in 1..n
    BY <1>2, <2>1
  <2>2. CASE j = n + 1
    BY <1>2, <2>2
  <2> QED BY <2>1, <2>2
<1>4. Least(S) \in T
  BY <1>2
<1> QED BY <1>1, <1>2, <1>3, <1>4, LeastIs

\* Where there was none, the new one is the first.
LEMMA FirstIsNew ==
  ASSUME NEW n \in Nat, NEW T \in SUBSET (1..(n + 1)), T \cap (1..n) = {}, T # {}
  PROVE  Least(T) = n + 1
<1>1. T = {n + 1}
  <2>1. ASSUME NEW j \in T PROVE j = n + 1
    <3>1. j \in 1..(n + 1) /\ j \notin 1..n
      OBVIOUS
    <3> QED BY <3>1
  <2> QED BY <2>1
<1>2. T \in SUBSET Nat /\ n + 1 \in T /\ \A j \in T : n + 1 <= j
  BY <1>1
<1> QED BY <1>2, LeastIs

\* A list of rules over a list with one more window: the same window, or the new one by an earlier rule.
LEMMA RegexImproves ==
  ASSUME NEW list \in Seq(Window), NEW w \in Window, NEW more, more = Append(list, w),
         NEW s \in Saved, TitleRegexResult(s, list).kind = "auto"
  PROVE  \/ TitleRegexResult(s, more) = TitleRegexResult(s, list)
         \/ /\ TitleRegexResult(s, more) = Matched(w)
            /\ \E r \in DOMAIN s.rules :
                 /\ RuleAutoMatches(s.rules[r], s, w)
                 /\ \A q \in 1..r :
                      ~ RuleAutoMatches(s.rules[q], s, TitleRegexResult(s, list).windows[1])
<1> DEFINE n == Len(list)
           live  == {r \in DOMAIN s.rules : AutoPositions(s, r, list) # {}}
           live2 == {r \in DOMAIN s.rules : AutoPositions(s, r, more) # {}}
           first == Least(live)
           earlier == Least(live2)
<1>1. /\ DOMAIN list = 1..n /\ DOMAIN more = 1..(n + 1) /\ n \in Nat
      /\ more[n + 1] = w /\ \A k \in 1..n : more[k] = list[k]
  BY Appended
<1>2. live # {}
  BY DEF TitleRegexResult, NeedsConsent, NoMatch
<1>3. s.rules \in Seq(Rule) /\ DOMAIN s.rules \subseteq Nat
  BY DEF Saved
<1>4. \A r : /\ AutoPositions(s, r, list) \subseteq 1..n
             /\ AutoPositions(s, r, more) \subseteq 1..(n + 1)
             /\ AutoPositions(s, r, more) \cap (1..n) = AutoPositions(s, r, list)
  BY <1>1 DEF AutoPositions
<1>5. live \subseteq live2 /\ live2 # {}
  BY <1>2, <1>4
<1>6. /\ first \in live /\ \A j \in live : first <= j
      /\ earlier \in live2 /\ \A j \in live2 : earlier <= j
  <2>1. live \in SUBSET Nat /\ live2 \in SUBSET Nat
    BY <1>3
  <2> QED BY <1>2, <1>5, <2>1, LeastExists
<1>7. /\ TitleRegexResult(s, list) = Matched(list[Least(AutoPositions(s, first, list))])
      /\ TitleRegexResult(s, more) = Matched(more[Least(AutoPositions(s, earlier, more))])
  BY <1>2, <1>5 DEF TitleRegexResult
<1>8. first \in Nat /\ earlier \in Nat /\ earlier <= first
  BY <1>3, <1>5, <1>6
<1> HIDE DEF first, earlier
<1>9. CASE earlier = first
  <2>1. AutoPositions(s, first, list) # {}
    BY <1>6
  <2>2. /\ Least(AutoPositions(s, first, more)) = Least(AutoPositions(s, first, list))
        /\ Least(AutoPositions(s, first, list)) \in AutoPositions(s, first, list)
    BY <1>1, <1>4, <2>1, FirstStays
  <2>3. more[Least(AutoPositions(s, first, more))] = list[Least(AutoPositions(s, first, list))]
    BY <1>1, <1>4, <2>2
  <2> QED BY <1>7, <1>9, <2>3
<1>10. CASE earlier < first
  <2>1. earlier \notin live
    BY <1>6, <1>8, <1>10
  <2>2. AutoPositions(s, earlier, list) = {} /\ AutoPositions(s, earlier, more) # {}
    BY <1>6, <2>1
  <2>3. Least(AutoPositions(s, earlier, more)) = n + 1
    BY <1>1, <1>4, <2>2, FirstIsNew
  <2>4. TitleRegexResult(s, more) = Matched(w)
    BY <1>1, <1>7, <2>3
  <2>5. RuleAutoMatches(s.rules[earlier], s, w)
    <3>1. n + 1 \in AutoPositions(s, earlier, more)
      BY <1>4, <2>2
    <3> QED BY <1>1, <3>1 DEF AutoPositions
  <2>6. ASSUME NEW q \in 1..earlier
        PROVE  ~ RuleAutoMatches(s.rules[q], s, TitleRegexResult(s, list).windows[1])
    <3>1. q \in DOMAIN s.rules /\ ~ (first <= q)
      <4>1. earlier \in DOMAIN s.rules
        BY <1>6
      <4> QED BY <1>3, <1>8, <1>10, <4>1
    <3>2. AutoPositions(s, q, list) = {}
      BY <1>6, <3>1
    <3>3. Least(AutoPositions(s, first, list)) \in 1..n
      <4>1. AutoPositions(s, first, list) # {} /\ AutoPositions(s, first, list) \in SUBSET DOMAIN list
        BY <1>1, <1>4, <1>6
      <4> QED BY <1>1, <4>1, LeastPosition
    <3>4. TitleRegexResult(s, list).windows[1] = list[Least(AutoPositions(s, first, list))]
      BY <1>7 DEF Matched
    <3> QED BY <1>1, <3>2, <3>3, <3>4 DEF AutoPositions
  <2>7. earlier \in DOMAIN s.rules
    BY <1>6
  <2> QED BY <2>4, <2>5, <2>6, <2>7
<1> QED BY <1>8, <1>9, <1>10

\* The match stays, or the new window takes its place and is
\* closer to the saved one.
MatchKept(s, list, w, more) ==
  \/ ResolveToplevel(s, more) = ResolveToplevel(s, list)
  \/ /\ ResolveToplevel(s, more) = Matched(w)
     /\ \/ w.id = s.id
        \/ SameAppAndTitle(s, w)
        \/ /\ s.mode = TitleMode
           /\ \E r \in DOMAIN s.rules :
                /\ RuleAutoMatches(s.rules[r], s, w)
                /\ \A q \in 1..r :
                     ~ RuleAutoMatches(s.rules[q], s, ResolveToplevel(s, list).windows[1])

\* One more window at the end of the list leaves a match that is kept.
LEMMA MatchImproves ==
  ASSUME NEW list \in Seq(Window), NEW w \in Window, NEW more, more = Append(list, w),
         NEW s \in Saved, ResolveToplevel(s, list).kind = "auto"
  PROVE  MatchKept(s, list, w, more)
<1> SUFFICES
        \/ ResolveToplevel(s, more) = ResolveToplevel(s, list)
        \/ /\ ResolveToplevel(s, more) = Matched(w)
           /\ \/ w.id = s.id
              \/ SameAppAndTitle(s, w)
              \/ /\ s.mode = TitleMode
                 /\ \E r \in DOMAIN s.rules :
                      /\ RuleAutoMatches(s.rules[r], s, w)
                      /\ \A q \in 1..r :
                           ~ RuleAutoMatches(s.rules[q], s, ResolveToplevel(s, list).windows[1])
  BY DEF MatchKept
<1> DEFINE n == Len(list)
           exact   == {k \in DOMAIN list : list[k].id = s.id}
           exact2  == {k \in DOMAIN more : more[k].id = s.id}
           titled  == {k \in DOMAIN list : SameAppAndTitle(s, list[k])}
           titled2 == {k \in DOMAIN more : SameAppAndTitle(s, more[k])}
           inApp   == {k \in DOMAIN list : SameApp(s, list[k])}
           inApp2  == {k \in DOMAIN more : SameApp(s, more[k])}
<1>1. /\ DOMAIN list = 1..n /\ DOMAIN more = 1..(n + 1) /\ n \in Nat
      /\ more[n + 1] = w /\ \A k \in 1..n : more[k] = list[k]
  BY Appended
<1>2. /\ exact \subseteq 1..n /\ exact2 \subseteq 1..(n + 1) /\ exact2 \cap (1..n) = exact
      /\ titled \subseteq 1..n /\ titled2 \subseteq 1..(n + 1) /\ titled2 \cap (1..n) = titled
      /\ inApp \subseteq 1..n /\ inApp2 \subseteq 1..(n + 1) /\ inApp2 \cap (1..n) = inApp
  BY <1>1
<1>3. /\ n + 1 \in exact2 <=> w.id = s.id
      /\ n + 1 \in titled2 <=> SameAppAndTitle(s, w)
  BY <1>1
<1>4. ResolveToplevel(s, list) =
        CASE exact # {}                            -> Matched(list[Least(exact)])
          [] exact = {} /\ s.mode = ExactMode      -> NoMatch
          [] exact = {} /\ s.mode # ExactMode /\ titled # {} -> Matched(list[Least(titled)])
          [] exact = {} /\ titled = {} /\ s.mode = TitleMode -> TitleRegexResult(s, list)
          [] OTHER -> IF inApp # {} THEN Matched(list[Least(inApp)]) ELSE NoMatch
  BY DEF ResolveToplevel
<1>5. ResolveToplevel(s, more) =
        CASE exact2 # {}                            -> Matched(more[Least(exact2)])
          [] exact2 = {} /\ s.mode = ExactMode      -> NoMatch
          [] exact2 = {} /\ s.mode # ExactMode /\ titled2 # {} -> Matched(more[Least(titled2)])
          [] exact2 = {} /\ titled2 = {} /\ s.mode = TitleMode -> TitleRegexResult(s, more)
          [] OTHER -> IF inApp2 # {} THEN Matched(more[Least(inApp2)]) ELSE NoMatch
  BY DEF ResolveToplevel
<1> HIDE DEF exact, exact2, titled, titled2, inApp, inApp2
<1>6. ASSUME NEW S \in SUBSET (1..n), S # {}, NEW T \in SUBSET (1..(n + 1)), T \cap (1..n) = S
      PROVE  more[Least(T)] = list[Least(S)]
  BY <1>1, <1>6, FirstStays
<1>7. ASSUME NEW T \in SUBSET (1..(n + 1)), T \cap (1..n) = {}, T # {}
      PROVE  more[Least(T)] = w /\ n + 1 \in T
  <2>1. Least(T) = n + 1
    BY <1>1, <1>7, FirstIsNew
  <2>2. Least(T) \in T
    <3>1. T \in SUBSET Nat
      OBVIOUS
    <3> QED BY <1>7, <3>1, LeastExists
  <2> QED BY <1>1, <2>1, <2>2
<1>8. CASE exact # {}
  <2>1. exact2 # {}
    BY <1>2, <1>8
  <2>2. more[Least(exact2)] = list[Least(exact)]
    BY <1>2, <1>6, <1>8
  <2> QED BY <1>4, <1>5, <1>8, <2>1, <2>2
<1>9. CASE exact = {} /\ exact2 # {}
  <2>1. more[Least(exact2)] = w /\ w.id = s.id
    BY <1>2, <1>3, <1>7, <1>9
  <2> QED BY <1>5, <1>9, <2>1
<1>10. CASE exact = {} /\ exact2 = {}
  <2>1. s.mode # ExactMode
    <3>1. NoMatch.kind # "auto"
      BY DEF NoMatch
    <3>2. ASSUME s.mode = ExactMode PROVE ResolveToplevel(s, list) = NoMatch
      BY <1>4, <1>10, <3>2 DEF ExactMode, TitleMode
    <3> QED BY <3>1, <3>2
  <2>2. CASE titled # {}
    <3>1. titled2 # {}
      BY <1>2, <2>2
    <3>2. more[Least(titled2)] = list[Least(titled)]
      BY <1>2, <1>6, <2>2
    <3> QED BY <1>4, <1>5, <1>10, <2>1, <2>2, <3>1, <3>2
  <2>3. CASE titled = {} /\ titled2 # {}
    <3>1. more[Least(titled2)] = w /\ SameAppAndTitle(s, w)
      BY <1>2, <1>3, <1>7, <2>3
    <3> QED BY <1>5, <1>10, <2>1, <2>3, <3>1
  <2>4. CASE titled = {} /\ titled2 = {} /\ s.mode = TitleMode
    <3>1. /\ ResolveToplevel(s, list) = TitleRegexResult(s, list)
          /\ ResolveToplevel(s, more) = TitleRegexResult(s, more)
      BY <1>4, <1>5, <1>10, <2>1, <2>4
    <3>2. TitleRegexResult(s, list).kind = "auto"
      BY <3>1
    <3> QED BY <2>4, <3>1, <3>2, RegexImproves
  <2>5. CASE titled = {} /\ titled2 = {} /\ s.mode # TitleMode
    <3>1. /\ ResolveToplevel(s, list) = IF inApp # {} THEN Matched(list[Least(inApp)]) ELSE NoMatch
          /\ ResolveToplevel(s, more) = IF inApp2 # {} THEN Matched(more[Least(inApp2)]) ELSE NoMatch
      BY <1>4, <1>5, <1>10, <2>1, <2>5
    <3>2. inApp # {}
      BY <3>1 DEF NoMatch
    <3>3. inApp2 # {} /\ more[Least(inApp2)] = list[Least(inApp)]
      BY <1>2, <1>6, <3>2
    <3> QED BY <3>1, <3>2, <3>3
  <2> QED BY <2>2, <2>3, <2>4, <2>5
<1> QED BY <1>8, <1>9, <1>10

\* While windows open, in any number and in any order, a saved window that is matched unattended stays
\* matched, and changes hands only to a window that stands closer to it.
THEOREM ArrivalsOnlyImprove == Spec => ArrivalOnlyImproves
<1>1. ListInv /\ [Next]_vars =>
        (Result.kind = "auto" =>
           /\ Result'.kind = "auto"
           /\ Result'.windows = Result.windows
              \/ LET new == infos'[Len(infos')]
                 IN  /\ Result'.windows = <<new>>
                     /\ \/ new.id = saved.id
                        \/ SameAppAndTitle(saved, new)
                        \/ /\ saved.mode = TitleMode
                           /\ \E r \in DOMAIN saved.rules :
                                /\ RuleAutoMatches(saved.rules[r], saved, new)
                                /\ \A q \in 1..r :
                                     ~ RuleAutoMatches(saved.rules[q], saved, Result.windows[1]))
  <2> SUFFICES ASSUME ListInv, [Next]_vars, Result.kind = "auto"
               PROVE  /\ Result'.kind = "auto"
                      /\ \/ Result'.windows = Result.windows
                         \/ /\ Result'.windows = <<infos'[Len(infos')]>>
                            /\ \/ infos'[Len(infos')].id = saved.id
                               \/ SameAppAndTitle(saved, infos'[Len(infos')])
                               \/ /\ saved.mode = TitleMode
                                  /\ \E r \in DOMAIN saved.rules :
                                       /\ RuleAutoMatches(saved.rules[r], saved, infos'[Len(infos')])
                                       /\ \A q \in 1..r :
                                            ~ RuleAutoMatches(saved.rules[q], saved, Result.windows[1])
    OBVIOUS
  <2>1. CASE Open
    <3>1. PICK w \in Window : infos' = Append(infos, w)
      BY <2>1 DEF Open
    <3>2. saved' = saved /\ saved \in Saved /\ infos \in Seq(Window)
      BY <2>1 DEF Open, ListInv
    <3>3. infos'[Len(infos')] = w
      BY <3>1, <3>2, Appended
    <3>4. /\ Result = ResolveToplevel(saved, infos)
          /\ Result' = ResolveToplevel(saved, infos')
      BY <3>2 DEF Result
    <3>5. Matched(w).kind = "auto" /\ Matched(w).windows = <<w>>
      BY DEF Matched
    <3>6. MatchKept(saved, infos, w, infos')
      BY <3>1, <3>2, <3>4, MatchImproves
    <3> QED BY <3>3, <3>4, <3>5, <3>6 DEF MatchKept
  <2>2. CASE UNCHANGED vars
    <3>1. Result' = Result
      BY <2>2 DEF vars, Result
    <3> QED BY <3>1
  <2> QED BY <2>1, <2>2 DEF Next
<1> QED BY <1>1, ListCorrect, PTL DEF Spec, ArrivalOnlyImproves
==============================================================================
