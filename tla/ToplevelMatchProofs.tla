-------------------------- MODULE ToplevelMatchProofs --------------------------
(***************************************************************************)
(* What the matching of saved windows guarantees for every window list,    *)
(* and what the token builder returns.                                     *)
(***************************************************************************)
EXTENDS RestoreToken, WellFoundedInduction, TLAPS

\* A non-empty set of positions has a least one.
LEMMA LeastExists ==
  ASSUME NEW S \in SUBSET Nat, S # {}
  PROVE  Least(S) \in S /\ \A j \in S : Least(S) <= j
<1> DEFINE R == {ss \in Nat \X Nat : ss[1] < ss[2]}
<1>1. IsWellFoundedOn(R, Nat)
  BY NatLessThanWellFounded DEF OpToRel
<1>2. PICK x \in S : \A y \in S : ~ (<<y, x>> \in R)
  BY <1>1, WFMin
<1>3. ASSUME NEW y \in S PROVE x <= y
  <2>1. <<y, x>> \in Nat \X Nat /\ <<y, x>> \notin R
    BY <1>2
  <2>2. ~ (y < x)
    BY <2>1
  <2> QED BY <2>2
<1> QED BY <1>2, <1>3 DEF Least

\* The window of a decision that carries one.
LEMMA LeastPosition ==
  ASSUME NEW infos \in Seq(Window), NEW S \in SUBSET DOMAIN infos, S # {}
  PROVE  Least(S) \in S /\ Least(S) \in DOMAIN infos /\ infos[Least(S)] \in Window
<1>1. S \in SUBSET Nat
  OBVIOUS
<1>2. Least(S) \in S
  BY <1>1, LeastExists
<1> QED BY <1>2

\* A list of rules decides for a window of the saved application, or for none.
LEMMA TitleRegexStaysInApp ==
  ASSUME NEW infos \in Seq(Window), NEW saved \in Saved,
         TitleRegexResult(saved, infos).kind = "auto"
  PROVE  \E k \in DOMAIN infos :
           /\ TitleRegexResult(saved, infos) = Matched(infos[k])
           /\ SameApp(saved, infos[k])
<1> DEFINE live == {r \in DOMAIN saved.rules : AutoPositions(saved, r, infos) # {}}
<1>1. live # {}
  BY DEF TitleRegexResult, NeedsConsent, NoMatch, AutoPositions
<1>2. Least(live) \in live
  <2>1. saved.rules \in Seq(Rule)
    BY DEF Saved
  <2>2. live \in SUBSET Nat
    BY <2>1
  <2> QED BY <1>1, <2>2, LeastExists
<1> DEFINE hits == AutoPositions(saved, Least(live), infos)
<1>3. hits # {} /\ hits \in SUBSET DOMAIN infos
  BY <1>2 DEF AutoPositions
<1>4. Least(hits) \in hits
  BY <1>3, LeastPosition
<1>5. SameApp(saved, infos[Least(hits)])
  BY <1>4 DEF AutoPositions, RuleAutoMatches, RuleMatches, SameApp
<1>6. TitleRegexResult(saved, infos) = Matched(infos[Least(hits)])
  BY <1>1 DEF TitleRegexResult
<1> QED BY <1>3, <1>4, <1>5, <1>6

\* The confidentiality boundary for one saved window and any window list: an unattended decision
\* names a window of the list that is the saved one or belongs to its, non-empty, application.
THEOREM AutoMatchStaysInApp ==
  ASSUME NEW infos \in Seq(Window), NEW saved \in Saved,
         ResolveToplevel(saved, infos).kind = "auto"
  PROVE  \E k \in DOMAIN infos :
           /\ ResolveToplevel(saved, infos) = Matched(infos[k])
           /\ infos[k].id = saved.id \/ SameApp(saved, infos[k])
<1> DEFINE exact  == {k \in DOMAIN infos : infos[k].id = saved.id}
           titled == {k \in DOMAIN infos : SameAppAndTitle(saved, infos[k])}
           inApp  == {k \in DOMAIN infos : SameApp(saved, infos[k])}
<1>1. CASE exact # {}
  <2>1. Least(exact) \in exact
    BY <1>1, LeastPosition
  <2> QED BY <1>1, <2>1 DEF ResolveToplevel
<1>2. CASE exact = {} /\ saved.mode = ExactMode
  <2>1. ResolveToplevel(saved, infos) = NoMatch
    BY <1>2 DEF ResolveToplevel, ExactMode, TitleMode
  <2> QED BY <2>1 DEF NoMatch
<1>3. CASE exact = {} /\ saved.mode # ExactMode /\ titled # {}
  <2>1. Least(titled) \in titled
    BY <1>3, LeastPosition
  <2>2. ResolveToplevel(saved, infos) = Matched(infos[Least(titled)])
    BY <1>3 DEF ResolveToplevel
  <2> QED BY <2>1, <2>2 DEF SameApp, SameAppAndTitle
<1>4. CASE exact = {} /\ titled = {} /\ saved.mode = TitleMode
  <2>1. ResolveToplevel(saved, infos) = TitleRegexResult(saved, infos)
    BY <1>4 DEF ResolveToplevel, ExactMode, TitleMode
  <2> QED BY <2>1, TitleRegexStaysInApp
<1>5. CASE exact = {} /\ saved.mode # ExactMode /\ titled = {} /\ saved.mode # TitleMode
  <2>1. ResolveToplevel(saved, infos)
          = IF inApp # {} THEN Matched(infos[Least(inApp)]) ELSE NoMatch
    BY <1>5 DEF ResolveToplevel
  <2>2. inApp # {}
    BY <2>1 DEF NoMatch
  <2>3. Least(inApp) \in inApp
    BY <2>2, LeastPosition
  <2> QED BY <2>1, <2>2, <2>3
<1> QED BY <1>1, <1>2, <1>3, <1>4, <1>5

\* The window an unattended decision carries is a window.
LEMMA MatchIsWindow ==
  ASSUME NEW infos \in Seq(Window), NEW saved \in Saved,
         ResolveToplevel(saved, infos).kind = "auto"
  PROVE  ResolveToplevel(saved, infos).windows[1] \in Window
<1>1. PICK k \in DOMAIN infos : ResolveToplevel(saved, infos) = Matched(infos[k])
  BY AutoMatchStaysInApp
<1>2. infos[k] \in Window
  OBVIOUS
<1> QED BY <1>1, <1>2 DEF Matched

\* Consent is asked for only because of an alias, of a window in title mode, that reaches beyond
\* the application.
LEMMA ConsentNeedsAnyApp ==
  ASSUME NEW infos \in Seq(Window), NEW saved \in Saved,
         ResolveToplevel(saved, infos).kind = "consent"
  PROVE  saved.mode = TitleMode /\ \E r \in DOMAIN saved.rules : saved.rules[r].scope = "any_app"
<1> DEFINE exact  == {k \in DOMAIN infos : infos[k].id = saved.id}
           titled == {k \in DOMAIN infos : SameAppAndTitle(saved, infos[k])}
           inApp  == {k \in DOMAIN infos : SameApp(saved, infos[k])}
<1>1. exact = {} /\ titled = {} /\ saved.mode = TitleMode
  BY DEF ResolveToplevel, Matched, NoMatch, ExactMode, TitleMode
<1>2. TitleRegexResult(saved, infos).kind = "consent"
  BY <1>1 DEF ResolveToplevel, ExactMode, TitleMode
<1>3. PICK r \in DOMAIN saved.rules, k \in DOMAIN infos :
        /\ RuleMatches(saved.rules[r], saved, infos[k])
        /\ ~ RuleAutoMatches(saved.rules[r], saved, infos[k])
  BY <1>2 DEF TitleRegexResult, Matched, NoMatch
<1>4. saved.rules[r].scope \in Scopes
  <2>1. saved.rules \in Seq(Rule)
    BY DEF Saved
  <2>2. saved.rules[r] \in Rule
    BY <2>1
  <2> QED BY <2>2 DEF Rule
<1> QED BY <1>1, <1>3, <1>4 DEF RuleAutoMatches, Scopes

\* A token that resolves is captured as many windows, each of the list.
LEMMA CapturedWindowsType ==
  ASSUME NEW src \in Sources, NEW infos \in Seq(Window), NEW outs, ResolvesTo(src, infos, outs)
  PROVE  /\ CapturedWindows(src, infos) \in Seq(Window)
         /\ Len(CapturedWindows(src, infos)) = Len(src.windows)
<1>1. \A i \in 1..Len(src.windows) : src.windows[i] \in Saved
  BY DEF Sources
<1>2. \A i \in 1..Len(src.windows) :
        ResolveToplevel(src.windows[i], infos).windows[1] \in Window
  BY <1>1, MatchIsWindow DEF ResolvesTo, Sources
<1> QED BY <1>2 DEF CapturedWindows, Sources

\* A function over an initial segment is a sequence.
LEMMA FunctionIsSequence ==
  ASSUME NEW S, NEW m \in Nat, NEW f \in [1..m -> S]
  PROVE  f \in Seq(S) /\ Len(f) = m
OBVIOUS

\* Resizing a sequence of S with an item of S gives a sequence of S.
LEMMA ResizeType ==
  ASSUME NEW S, NEW seq \in Seq(S), NEW n \in Nat, NEW fill \in S
  PROVE  Resize(seq, n, fill) \in Seq(S)
BY DEF Resize

\* Resize gives the length it is asked for.
LEMMA ResizeLen ==
  ASSUME NEW seq, NEW n \in Nat, NEW fill
  PROVE  Len(Resize(seq, n, fill)) = n
BY DEF Resize

\* Resize keeps the items that both lengths have.
LEMMA ResizeKeeps ==
  ASSUME NEW seq, NEW n \in Nat, NEW fill, NEW i \in 1..n, i \in DOMAIN seq
  PROVE  Resize(seq, n, fill)[i] = seq[i]
BY DEF Resize

\* A token that stands for a capture.
MadeFrom(tok, cap) ==
  /\ tok.outputs = cap.outputs
  /\ Len(tok.windows) = Len(cap.windows)
  /\ DOMAIN tok.windows = DOMAIN cap.windows
  /\ \A i \in DOMAIN tok.windows :
       /\ tok.windows[i].id = cap.windows[i].id
       /\ i \in DOMAIN cap.modes => tok.windows[i].mode = cap.modes[i]

\* What TokenFor returns, for any capture and any list: nothing, or a token for exactly the
\* captured outputs and windows, in order, with the captured modes where there are some.
THEOREM TokenForCapture ==
  ASSUME NEW cap \in Capture, NEW src \in Sources \cup {NoSource}, NEW ext \in Seq(Rule),
         NEW infos \in Seq(Window), NEW outs,
         TokenFor(cap, src, ext, infos, outs) # NoToken
  PROVE  /\ TokenFor(cap, src, ext, infos, outs) \in Sources
         /\ MadeFrom(TokenFor(cap, src, ext, infos, outs), cap)
<1> DEFINE n == Len(cap.windows)
           modes == Resize(IF cap.modes # <<>> THEN cap.modes ELSE SavedModes(src),
                           n, IF ext = <<>> THEN AppMode ELSE TitleMode)
           rules == Resize(cap.rules, n, ext)
           Info(i) == infos[Least(PositionOf(cap.windows[i].id, infos))]
           wins == [i \in 1..n |->
                     [id |-> Info(i).id, app |-> Info(i).app, title |-> Info(i).title,
                      mode |-> modes[i], rules |-> IF rules[i] = <<>> THEN ext ELSE rules[i]]]
           tok == [outputs |-> cap.outputs, windows |-> wins]
<1>0. /\ cap.windows \in Seq(Window) /\ cap.modes \in Seq(Nat) /\ cap.rules \in Seq(Seq(Rule))
      /\ cap.outputs \in SUBSET OutputNames
      /\ n \in Nat
  BY DEF Capture
<1>1. /\ \A i \in 1..n : PositionOf(cap.windows[i].id, infos) # {}
      /\ TokenFor(cap, src, ext, infos, outs) = tok
  BY DEF TokenFor
<1>2. ASSUME NEW i \in 1..n
      PROVE  Info(i) \in Window /\ Info(i).id = cap.windows[i].id
  <2>1. PositionOf(cap.windows[i].id, infos) \in SUBSET DOMAIN infos
    BY DEF PositionOf
  <2>2. /\ Least(PositionOf(cap.windows[i].id, infos)) \in PositionOf(cap.windows[i].id, infos)
        /\ Info(i) \in Window
    BY <1>1, <2>1, LeastPosition
  <2> QED BY <2>2 DEF PositionOf
<1>3. SavedModes(src) \in Seq(Nat)
  <2>1. CASE src = NoSource
    BY <2>1 DEF SavedModes
  <2>2. CASE src # NoSource
    <3>1. src.windows \in Seq(Saved)
      BY <2>2 DEF Sources
    <3>2. ASSUME NEW i \in DOMAIN src.windows PROVE src.windows[i].mode \in Nat
      <4>1. src.windows[i] \in Saved
        BY <3>1
      <4> QED BY <4>1 DEF Saved
    <3>3. /\ SavedModes(src) \in [1..Len(src.windows) -> Nat]
          /\ Len(src.windows) \in Nat
      BY <2>2, <3>1, <3>2 DEF SavedModes
    <3> QED BY <3>3, FunctionIsSequence
  <2> QED BY <2>1, <2>2
<1>4. /\ modes \in Seq(Nat) /\ Len(modes) = n
      /\ \A i \in 1..n : i \in DOMAIN cap.modes => modes[i] = cap.modes[i]
  <2> DEFINE base == IF cap.modes # <<>> THEN cap.modes ELSE SavedModes(src)
             fill == IF ext = <<>> THEN AppMode ELSE TitleMode
  <2>1. base \in Seq(Nat) /\ fill \in Nat
    BY <1>0, <1>3 DEF AppMode, TitleMode
  <2>2. ASSUME NEW i \in 1..n, i \in DOMAIN cap.modes PROVE modes[i] = cap.modes[i]
    <3>1. base = cap.modes
      BY <1>0, <2>2
    <3> QED BY <1>0, <2>2, <3>1, ResizeKeeps
  <2> HIDE DEF base, fill
  <2>3. Resize(base, n, fill) \in Seq(Nat)
    BY <1>0, <2>1, ResizeType
  <2>4. Len(Resize(base, n, fill)) = n
    BY <1>0, ResizeLen
  <2> QED BY <2>2, <2>3, <2>4 DEF base, fill
<1>5. rules \in Seq(Seq(Rule)) /\ Len(rules) = n
  <2>1. rules \in Seq(Seq(Rule))
    BY <1>0, ResizeType
  <2>2. Len(rules) = n
    BY <1>0, ResizeLen
  <2> QED BY <2>1, <2>2
<1> HIDE DEF modes, rules, Info
<1>6. wins \in Seq(Saved) /\ Len(wins) = n
  <2>1. ASSUME NEW i \in 1..n PROVE wins[i] \in Saved
    <3>1. modes[i] \in Nat /\ rules[i] \in Seq(Rule)
      BY <1>4, <1>5
    <3> QED BY <1>2, <3>1 DEF Saved, Window
  <2>2. wins \in [1..n -> Saved]
    BY <2>1
  <2> HIDE DEF wins, n
  <2> QED BY <1>0, <2>2, FunctionIsSequence
<1>7. tok \in Sources
  BY <1>0, <1>6 DEF Sources
<1>8. \A i \in 1..n : wins[i].id = cap.windows[i].id
  BY <1>2
<1>9. \A i \in 1..n : i \in DOMAIN cap.modes => wins[i].mode = cap.modes[i]
  BY <1>4
<1> QED
  <2>1. DOMAIN wins = 1..n
    OBVIOUS
  <2>2. tok.outputs = cap.outputs /\ tok.windows = wins
    OBVIOUS
  <2>3. DOMAIN cap.windows = 1..n
    BY <1>0
  <2> HIDE DEF wins, tok, n
  <2>4. MadeFrom(tok, cap)
    BY <1>6, <1>8, <1>9, <2>1, <2>2, <2>3 DEF MadeFrom, n
  <2> QED BY <1>1, <1>7, <2>4
==============================================================================
