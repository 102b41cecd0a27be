-------------------------- MODULE CosmicPickerProofs --------------------------
(***************************************************************************)
(* The COSMIC picker, for any windows, seeds, suggestions and limits, and  *)
(* for messages in any order.                                              *)
(***************************************************************************)
EXTENDS CosmicPicker, ToplevelMatchProofs, SequenceTheorems, FiniteSetTheorems

Modes     == {ExactMode, AppMode, TitleMode}
RuleLists == {AliasRowsToRules(list) : list \in Seq(Row)} \cup {<<>>}

\* CaptureSources as the dialog edits them.
Selection == [outputs : SUBSET OutputNames, windows : Seq(Windows),
              modes : Seq(Modes), rules : Seq(RuleLists)]

TypeInv ==
  /\ multiple \in BOOLEAN
  /\ sources \in Selection
  /\ DOMAIN modeOf \subseteq Windows /\ \A w \in DOMAIN modeOf : modeOf[w] \in Modes
  /\ DOMAIN rows \subseteq Windows /\ \A w \in DOMAIN rows : rows[w] \in Seq(Row)
  /\ dialog \in {"open", "shared", "cancelled"}

\* Every selected window is in the map of modes, which may hold more.
ModeInv ==
  \A k \in DOMAIN sources.windows :
    /\ sources.windows[k] \in DOMAIN modeOf
    /\ sources.modes[k] = modeOf[sources.windows[k]]

\* One window, or one output, or nothing.
OneInv ==
  ~ multiple =>
    \/ sources.outputs = {} /\ Len(sources.windows) <= 1
    \/ sources.windows = <<>> /\ \E o \in OutputNames : sources.outputs = {o}

IInv == TypeInv /\ VectorsParallel /\ ModeInv /\ OneInv /\ SharedAsShown

(***************************************************************************)
(* The helpers.                                                            *)
(***************************************************************************)

\* What appending to a sequence leaves.
LEMMA OneMore ==
  ASSUME NEW S, NEW list \in Seq(S), NEW e \in S, NEW n \in Nat, Len(list) = n
  PROVE  /\ Len(Append(list, e)) = n + 1 /\ DOMAIN Append(list, e) = 1..(n + 1)
         /\ Append(list, e)[n + 1] = e /\ \A k \in 1..n : Append(list, e)[k] = list[k]
OBVIOUS

\* What removing one index of a sequence leaves.
LEMMA RemoveAtProperties ==
  ASSUME NEW S, NEW seq \in Seq(S), NEW k \in DOMAIN seq
  PROVE  /\ RemoveAt(seq, k) \in Seq(S)
         /\ Len(RemoveAt(seq, k)) = Len(seq) - 1
         /\ \A i \in 1..(Len(seq) - 1) :
              RemoveAt(seq, k)[i] = seq[IF i < k THEN i ELSE i + 1]
<1> DEFINE n == Len(seq)
           before == SubSeq(seq, 1, k - 1)
           after  == SubSeq(seq, k + 1, n)
<1>1. n \in Nat /\ k \in 1..n /\ k - 1 \in Int /\ k + 1 \in Int /\ n \in Int
  OBVIOUS
<1>2. /\ \A i \in 1..(k - 1) : seq[i] \in S
      /\ \A i \in (k + 1)..n : seq[i] \in S
  BY <1>1
<1>3. /\ before \in Seq(S) /\ Len(before) = IF 1 <= k - 1 THEN k - 1 - 1 + 1 ELSE 0
      /\ \A i \in 1..(k - 1 - 1 + 1) : before[i] = seq[1 + i - 1]
  BY <1>1, <1>2, SubSeqProperties
<1>4. /\ after \in Seq(S) /\ Len(after) = IF k + 1 <= n THEN n - (k + 1) + 1 ELSE 0
      /\ \A i \in 1..(n - (k + 1) + 1) : after[i] = seq[k + 1 + i - 1]
  BY <1>1, <1>2, SubSeqProperties
<1>5. Len(before) = k - 1 /\ Len(after) = n - k
  BY <1>1, <1>3, <1>4
<1>6. RemoveAt(seq, k) = before \o after
  BY DEF RemoveAt
<1> HIDE DEF before, after
<1> DEFINE joined == before \o after
<1>7. /\ joined \in Seq(S) /\ Len(joined) = Len(before) + Len(after)
      /\ \A i \in 1..(Len(before) + Len(after)) :
           joined[i] = IF i <= Len(before) THEN before[i] ELSE after[i - Len(before)]
  BY <1>3, <1>4, ConcatProperties
<1> HIDE DEF joined
<1>8. Len(before) + Len(after) = n - 1
  BY <1>1, <1>5
<1>9. ASSUME NEW i \in 1..(n - 1), i < k PROVE joined[i] = seq[i]
  <2>1. i \in 1..(k - 1 - 1 + 1) /\ 1 + i - 1 = i /\ i <= k - 1
    BY <1>1, <1>9
  <2>2. joined[i] = before[i]
    BY <1>5, <1>7, <1>8, <2>1
  <2> QED BY <1>3, <2>1, <2>2
<1>10. ASSUME NEW i \in 1..(n - 1), ~ (i < k) PROVE joined[i] = seq[i + 1]
  <2>1. i - (k - 1) \in 1..(n - (k + 1) + 1) /\ ~ (i <= k - 1)
    BY <1>1, <1>10
  <2>2. k + 1 + (i - (k - 1)) - 1 = i + 1
    BY <1>1, <1>10
  <2>3. joined[i] = after[i - (k - 1)]
    BY <1>5, <1>7, <1>8, <2>1
  <2> QED BY <1>4, <2>1, <2>2, <2>3
<1>11. RemoveAt(seq, k) = joined
  BY <1>6 DEF joined
<1> HIDE DEF n
<1>12. \A i \in 1..(n - 1) : joined[i] = seq[IF i < k THEN i ELSE i + 1]
  BY <1>9, <1>10
<1> QED BY <1>7, <1>8, <1>11, <1>12 DEF n

\* The filled-in rows of a list are a sequence, and a limit of them as long as it says.
LEMMA KeptProperties ==
  ASSUME NEW list \in Seq(Row)
  PROVE  /\ Len(Kept(list)) = Least({Len(Filled(list)), MaxRules})
         /\ DOMAIN Kept(list) = 1..Len(Kept(list))
         /\ \A j \in DOMAIN Kept(list) : Kept(list)[j] = Filled(list)[j]
<1> DEFINE ink == {k \in DOMAIN list : list[k].pattern # Blank}
           m   == Least({Len(Filled(list)), MaxRules})
           S   == {Filled(list)[i] : i \in 1..m}
<1>1. Cardinality(ink) \in Nat
  <2>1. DOMAIN list = 1..Len(list) /\ Len(list) \in Nat
    OBVIOUS
  <2>2. IsFiniteSet(DOMAIN list)
    BY <2>1, FS_Interval
  <2>3. IsFiniteSet(ink)
    BY <2>2, FS_Subset
  <2> QED BY <2>3, FS_CardinalityType
<1>2. Len(Filled(list)) \in Nat
  <2>1. DOMAIN Filled(list) = 1..Cardinality(ink)
    BY DEF Filled, Chosen
  <2> QED BY <1>1, <2>1
<1>3. m \in Nat
  <2>1. {Len(Filled(list)), MaxRules} \in SUBSET Nat
    BY <1>2, TokenAssumption
  <2> QED BY <2>1, LeastExists
<1> HIDE DEF m
<1>4. \A i \in 1..m : Filled(list)[i] \in S
  OBVIOUS
<1> HIDE DEF S
<1>5. /\ SubSeq(Filled(list), 1, m) \in Seq(S)
      /\ Len(SubSeq(Filled(list), 1, m)) = IF 1 <= m THEN m - 1 + 1 ELSE 0
      /\ \A i \in 1..(m - 1 + 1) : SubSeq(Filled(list), 1, m)[i] = Filled(list)[1 + i - 1]
  <2>1. 1 \in Int /\ m \in Int
    BY <1>3
  <2> QED BY <1>4, <2>1, SubSeqProperties
<1>6. Kept(list) = SubSeq(Filled(list), 1, m)
  BY DEF Kept, m
<1>7. Len(Kept(list)) = m /\ Kept(list) \in Seq(S)
  BY <1>3, <1>5, <1>6
<1>8. DOMAIN Kept(list) = 1..m
  BY <1>7
<1>9. ASSUME NEW j \in 1..m PROVE Kept(list)[j] = Filled(list)[j]
  <2>1. j \in 1..(m - 1 + 1) /\ 1 + j - 1 = j
    BY <1>3
  <2> QED BY <1>5, <1>6, <2>1
<1> QED BY <1>7, <1>8, <1>9 DEF m

\* The rows a window starts with.
LEMMA InitialRowsType == ASSUME NEW w PROVE InitialAliasRows(w) \in Seq(Row)
<1> DEFINE byApp   == {k \in DOMAIN Seeds : Seeds[k].app # NoAppId /\ Seeds[k].app = w.app
                                          /\ Seeds[k].rules # <<>>}
           byTitle == {k \in DOMAIN Seeds : Seeds[k].title # NoTitle /\ Seeds[k].title = w.title
                                           /\ Seeds[k].rules # <<>>}
<1>1. ASSUME NEW k \in DOMAIN Seeds PROVE Seeds[k].rules \in Seq(Row)
  <2>1. Rule \subseteq Row
    BY DEF Rule, Row
  <2>2. Seeds[k].rules \in Seq(Rule)
    BY PickerAssumption
  <2> QED BY <2>1, <2>2, SeqMonotonic
<1>2. byApp # {} => Least(byApp) \in DOMAIN Seeds
  <2>1. byApp \in SUBSET Nat
    BY PickerAssumption
  <2> QED BY <2>1, LeastExists
<1>3. byTitle # {} => Least(byTitle) \in DOMAIN Seeds
  <2>1. byTitle \in SUBSET Nat
    BY PickerAssumption
  <2> QED BY <2>1, LeastExists
<1>4. w \in DOMAIN Suggested => <<[pattern |-> Suggested[w], scope |-> "same_app"]>> \in Seq(Row)
  BY PickerAssumption DEF Row, Scopes
<1> HIDE DEF byApp, byTitle
<1>5. InitialAliasRows(w) = IF byApp # {} THEN Seeds[Least(byApp)].rules
                            ELSE IF byTitle # {} THEN Seeds[Least(byTitle)].rules
                            ELSE IF w \in DOMAIN Suggested
                                 THEN <<[pattern |-> Suggested[w], scope |-> "same_app"]>>
                                 ELSE <<>>
  BY DEF InitialAliasRows, byApp, byTitle
<1>6. <<>> \in Seq(Row)
  OBVIOUS
<1> QED BY <1>1, <1>2, <1>3, <1>4, <1>5, <1>6

\* A map with one entry less.
LEMMA DropProperties ==
  ASSUME NEW f, NEW key
  PROVE  /\ DOMAIN Drop(f, key) = DOMAIN f \ {key}
         /\ \A k \in DOMAIN f : k # key => Drop(f, key)[k] = f[k]
BY DEF Drop

\* A record with these four fields is a selection.
LEMMA SelectionMade ==
  ASSUME NEW src, src = [f \in {"outputs", "windows", "modes", "rules"} |-> src[f]],
         src.outputs \in SUBSET OutputNames, src.windows \in Seq(Windows),
         src.modes \in Seq(Modes), src.rules \in Seq(RuleLists)
  PROVE  src \in Selection
BY DEF Selection

\* What deselecting position k leaves of the selection.
LEMMA WithoutProperties ==
  ASSUME NEW src \in Selection, NEW k \in DOMAIN src.windows,
         Len(src.modes) = Len(src.windows), Len(src.rules) = Len(src.windows)
  PROVE  /\ Without(src, k) \in Selection
         /\ Without(src, k).outputs = src.outputs
         /\ Len(Without(src, k).windows) = Len(src.windows) - 1
         /\ Len(Without(src, k).modes) = Len(src.windows) - 1
         /\ Len(Without(src, k).rules) = Len(src.windows) - 1
         /\ \A i \in 1..(Len(src.windows) - 1) :
              /\ Without(src, k).windows[i] = src.windows[IF i < k THEN i ELSE i + 1]
              /\ Without(src, k).modes[i] = src.modes[IF i < k THEN i ELSE i + 1]
<1> DEFINE left == Without(src, k)
<1>1. /\ src.windows \in Seq(Windows) /\ src.modes \in Seq(Modes) /\ src.rules \in Seq(RuleLists)
      /\ src.outputs \in SUBSET OutputNames
  BY DEF Selection
<1>2. k \in DOMAIN src.windows /\ k \in DOMAIN src.modes /\ k \in DOMAIN src.rules
  BY <1>1
<1>3. /\ RemoveAt(src.windows, k) \in Seq(Windows)
      /\ Len(RemoveAt(src.windows, k)) = Len(src.windows) - 1
      /\ \A i \in 1..(Len(src.windows) - 1) :
           RemoveAt(src.windows, k)[i] = src.windows[IF i < k THEN i ELSE i + 1]
  BY <1>1, <1>2, RemoveAtProperties
<1>4. /\ RemoveAt(src.modes, k) \in Seq(Modes)
      /\ Len(RemoveAt(src.modes, k)) = Len(src.modes) - 1
      /\ \A i \in 1..(Len(src.modes) - 1) :
           RemoveAt(src.modes, k)[i] = src.modes[IF i < k THEN i ELSE i + 1]
  BY <1>1, <1>2, RemoveAtProperties
<1>5. /\ RemoveAt(src.rules, k) \in Seq(RuleLists)
      /\ Len(RemoveAt(src.rules, k)) = Len(src.rules) - 1
  BY <1>1, <1>2, RemoveAtProperties
<1>6. /\ left.outputs = src.outputs /\ left.windows = RemoveAt(src.windows, k)
      /\ left.modes = RemoveAt(src.modes, k) /\ left.rules = RemoveAt(src.rules, k)
  BY DEF Without, Selection
<1>7. left = [f \in {"outputs", "windows", "modes", "rules"} |-> left[f]]
  BY DEF Without, Selection
<1> HIDE DEF left
<1>8. left \in Selection
  BY <1>1, <1>3, <1>4, <1>5, <1>6, <1>7, SelectionMade
<1> QED BY <1>3, <1>4, <1>5, <1>6, <1>8 DEF left

\* An index is not found twice in a sequence without repetitions, nor in what is left of it.
LEMMA ShiftInjective ==
  ASSUME NEW n \in Nat, NEW k \in 1..n, NEW i \in 1..(n - 1), NEW j \in 1..(n - 1),
         (IF i < k THEN i ELSE i + 1) = (IF j < k THEN j ELSE j + 1)
  PROVE  i = j
OBVIOUS

LEMMA ShiftDomain ==
  ASSUME NEW n \in Nat, NEW k \in 1..n, NEW i \in 1..(n - 1)
  PROVE  (IF i < k THEN i ELSE i + 1) \in 1..n /\ (IF i < k THEN i ELSE i + 1) # k
OBVIOUS

(***************************************************************************)
(* The messages.                                                           *)
(***************************************************************************)
LEMMA DeselectStep ==
  ASSUME IInv, NEW w \in Windows, Deselect(w)
  PROVE  IInv'
<1> DEFINE n == Len(sources.windows)
           Old(i, k) == IF i < k THEN i ELSE i + 1
<1>1. PICK k \in DOMAIN sources.windows : sources.windows[k] = w /\ sources' = Without(sources, k)
  BY DEF Deselect
<1>2. /\ sources \in Selection /\ n \in Nat /\ DOMAIN sources.windows = 1..n
      /\ Len(sources.modes) = n /\ Len(sources.rules) = n
  BY DEF IInv, TypeInv, VectorsParallel, Selection
<1>3. /\ sources' \in Selection /\ sources'.outputs = sources.outputs
      /\ Len(sources'.windows) = n - 1 /\ Len(sources'.modes) = n - 1
      /\ Len(sources'.rules) = n - 1
      /\ \A i \in 1..(n - 1) : /\ sources'.windows[i] = sources.windows[Old(i, k)]
                               /\ sources'.modes[i] = sources.modes[Old(i, k)]
  BY <1>1, <1>2, WithoutProperties
<1>4. DOMAIN sources'.windows = 1..(n - 1)
  BY <1>2, <1>3 DEF Selection
<1>5. \A i \in 1..(n - 1) : Old(i, k) \in 1..n /\ Old(i, k) # k
  BY <1>1, <1>2, ShiftDomain
<1>6. \A i, j \in 1..(n - 1) : Old(i, k) = Old(j, k) => i = j
  BY <1>1, <1>2, ShiftInjective
<1>7. /\ modeOf' = Drop(modeOf, w) /\ rows' = rows /\ multiple' = multiple
      /\ dialog' = dialog /\ dialog = "open"
  BY DEF Deselect
<1> HIDE DEF n, Old
<1>8. DOMAIN modeOf' = DOMAIN modeOf \ {w} /\ \A v \in DOMAIN modeOf : v # w => modeOf'[v] = modeOf[v]
  BY <1>7, DropProperties
<1>9. TypeInv'
  BY <1>3, <1>7, <1>8 DEF IInv, TypeInv
<1>10. \A i, j \in 1..n : sources.windows[i] = sources.windows[j] => i = j
  BY <1>2 DEF IInv, VectorsParallel
<1>11. VectorsParallel'
  BY <1>3, <1>4, <1>5, <1>6, <1>10 DEF VectorsParallel
<1>12. ModeInv'
  <2>1. SUFFICES ASSUME NEW i \in 1..(n - 1)
                 PROVE  /\ sources'.windows[i] \in DOMAIN modeOf'
                        /\ sources'.modes[i] = modeOf'[sources'.windows[i]]
    BY <1>4 DEF ModeInv
  <2>2. Old(i, k) \in 1..n /\ Old(i, k) # k
    BY <1>5
  <2>3. sources.windows[Old(i, k)] # w
    BY <1>1, <1>2, <1>10, <2>2
  <2>4. /\ sources.windows[Old(i, k)] \in DOMAIN modeOf
        /\ sources.modes[Old(i, k)] = modeOf[sources.windows[Old(i, k)]]
    BY <1>2, <2>2 DEF IInv, ModeInv
  <2> QED BY <1>3, <1>8, <2>3, <2>4
<1>13. OneInv'
  <2>1. n >= 1
    BY <1>1, <1>2
  <2>2. sources.windows # <<>>
    BY <1>1
  <2> QED BY <1>2, <1>3, <1>7, <2>1, <2>2 DEF IInv, OneInv, n
<1>14. SharedAsShown'
  BY <1>7 DEF SharedAsShown
<1> QED BY <1>9, <1>11, <1>12, <1>13, <1>14 DEF IInv

LEMMA SelectToplevelStep ==
  ASSUME IInv, NEW w \in Windows, SelectToplevel(w)
  PROVE  IInv'
<1> DEFINE old     == IF Replaces THEN Empty ELSE sources
           oldMode == IF Replaces THEN Nowhere ELSE modeOf
           mode    == IF w \in DOMAIN oldMode THEN oldMode[w]
                      ELSE IF InitialAliasRows(w) = <<>> THEN AppMode ELSE TitleMode
           n       == Len(old.windows)
<1>1. /\ sources' = [old EXCEPT !.windows = Append(@, w), !.modes = Append(@, mode),
                                !.rules = Append(@, <<>>)]
      /\ modeOf' = Put(oldMode, w, mode)
      /\ rows' = IF w \in DOMAIN rows THEN rows ELSE Put(rows, w, InitialAliasRows(w))
      /\ multiple' = multiple /\ dialog' = dialog /\ dialog = "open"
      /\ \A k \in DOMAIN sources.windows : sources.windows[k] # w
  BY DEF SelectToplevel
<1>2. /\ Empty \in Selection /\ Empty.windows = <<>> /\ Empty.modes = <<>> /\ Empty.rules = <<>>
      /\ Empty.outputs = {}
  BY DEF Empty, Selection
<1>3. DOMAIN Nowhere = {}
  BY DEF Nowhere
<1>4. /\ old \in Selection
      /\ Len(old.modes) = Len(old.windows) /\ Len(old.rules) = Len(old.windows)
      /\ \A j, k \in DOMAIN old.windows : old.windows[j] = old.windows[k] => j = k
      /\ \A k \in DOMAIN old.windows : old.windows[k] # w
  <2>1. CASE Replaces
    <3>1. old = Empty
      BY <2>1
    <3> QED BY <1>2, <3>1
  <2>2. CASE ~ Replaces
    <3>1. old = sources
      BY <2>2
    <3> QED BY <1>1, <3>1 DEF IInv, TypeInv, VectorsParallel
  <2> QED BY <2>1, <2>2
<1>5. /\ DOMAIN oldMode \subseteq Windows
      /\ \A v \in DOMAIN oldMode : oldMode[v] \in Modes
      /\ \A k \in DOMAIN old.windows : /\ old.windows[k] \in DOMAIN oldMode
                                       /\ old.modes[k] = oldMode[old.windows[k]]
  <2>1. CASE Replaces
    <3>1. old = Empty /\ oldMode = Nowhere
      BY <2>1
    <3> QED BY <1>2, <1>3, <3>1
  <2>2. CASE ~ Replaces
    <3>1. old = sources /\ oldMode = modeOf
      BY <2>2
    <3> QED BY <3>1 DEF IInv, TypeInv, ModeInv
  <2> QED BY <2>1, <2>2
<1> HIDE DEF oldMode
<1>6. mode \in Modes
  BY <1>5 DEF Modes
<1> HIDE DEF mode
<1>7. ~ multiple => old.outputs = {} /\ old.windows = <<>>
  <2>1. CASE Replaces
    BY <1>2, <2>1
  <2>2. CASE ~ Replaces
    BY <2>2 DEF Replaces, IsEmpty
  <2> QED BY <2>1, <2>2
<1> HIDE DEF old
<1>8. /\ sources' \in Selection
      /\ sources'.outputs = old.outputs /\ sources'.windows = Append(old.windows, w)
      /\ sources'.modes = Append(old.modes, mode) /\ sources'.rules = Append(old.rules, <<>>)
  <2>1. sources' = [old EXCEPT !.windows = Append(@, w), !.modes = Append(@, mode),
                               !.rules = Append(@, <<>>)]
    BY <1>1
  <2>2. /\ old.windows \in Seq(Windows) /\ old.modes \in Seq(Modes)
        /\ old.rules \in Seq(RuleLists) /\ old.outputs \in SUBSET OutputNames
    BY <1>4 DEF Selection
  <2>3. /\ sources'.outputs = old.outputs /\ sources'.windows = Append(old.windows, w)
        /\ sources'.modes = Append(old.modes, mode) /\ sources'.rules = Append(old.rules, <<>>)
    BY <1>4, <2>1 DEF Selection
  <2>4. sources' = [f \in {"outputs", "windows", "modes", "rules"} |-> sources'[f]]
    BY <1>4, <2>1 DEF Selection
  <2>5. /\ Append(old.windows, w) \in Seq(Windows) /\ Append(old.modes, mode) \in Seq(Modes)
        /\ Append(old.rules, <<>>) \in Seq(RuleLists)
    <3>1. <<>> \in RuleLists
      BY DEF RuleLists
    <3> QED BY <1>6, <2>2, <3>1, AppendProperties
  <2>6. sources' \in Selection
    BY <2>2, <2>3, <2>4, <2>5, SelectionMade
  <2> QED BY <2>3, <2>6
<1>9. /\ old.windows \in Seq(Windows) /\ old.modes \in Seq(Modes) /\ old.rules \in Seq(RuleLists)
      /\ n \in Nat /\ DOMAIN old.windows = 1..n
  BY <1>4 DEF Selection
<1>10. /\ Len(sources'.windows) = n + 1 /\ Len(sources'.modes) = n + 1
       /\ Len(sources'.rules) = n + 1 /\ DOMAIN sources'.windows = 1..(n + 1)
       /\ sources'.windows[n + 1] = w /\ sources'.modes[n + 1] = mode
       /\ \A k \in 1..n : sources'.windows[k] = old.windows[k] /\ sources'.modes[k] = old.modes[k]
  <2>1. Len(old.windows) = n /\ Len(old.modes) = n /\ Len(old.rules) = n
    BY <1>4
  <2> HIDE DEF n
  <2>2. <<>> \in RuleLists
    BY DEF RuleLists
  <2>3. /\ Len(sources'.windows) = n + 1 /\ DOMAIN sources'.windows = 1..(n + 1)
        /\ sources'.windows[n + 1] = w /\ \A k \in 1..n : sources'.windows[k] = old.windows[k]
    BY <1>8, <1>9, <2>1, OneMore
  <2>4. /\ Len(sources'.modes) = n + 1
        /\ sources'.modes[n + 1] = mode /\ \A k \in 1..n : sources'.modes[k] = old.modes[k]
    BY <1>6, <1>8, <1>9, <2>1, OneMore
  <2>5. Len(sources'.rules) = n + 1
    BY <1>8, <1>9, <2>1, <2>2, OneMore
  <2> QED BY <2>3, <2>4, <2>5
<1> HIDE DEF n
<1>11. ASSUME NEW k \in 1..(n + 1) PROVE k \in 1..n \/ k = n + 1
  BY <1>9
<1>12. /\ DOMAIN modeOf' = DOMAIN oldMode \cup {w} /\ modeOf'[w] = mode
       /\ \A v \in DOMAIN oldMode : v # w => modeOf'[v] = oldMode[v]
  <2>1. modeOf' = Put(oldMode, w, mode)
    BY <1>1
  <2> QED BY <2>1 DEF Put
<1>13. TypeInv'
  <2>1. DOMAIN modeOf' \subseteq Windows /\ \A v \in DOMAIN modeOf' : modeOf'[v] \in Modes
    BY <1>5, <1>6, <1>12
  <2>2. DOMAIN rows' \subseteq Windows /\ \A v \in DOMAIN rows' : rows'[v] \in Seq(Row)
    <3>1. CASE w \in DOMAIN rows
      BY <1>1, <3>1 DEF IInv, TypeInv
    <3>2. CASE w \notin DOMAIN rows
      <4>1. rows' = Put(rows, w, InitialAliasRows(w))
        BY <1>1, <3>2
      <4>2. /\ DOMAIN rows' = DOMAIN rows \cup {w} /\ rows'[w] = InitialAliasRows(w)
            /\ \A v \in DOMAIN rows : v # w => rows'[v] = rows[v]
        BY <4>1 DEF Put
      <4> QED BY <4>2, InitialRowsType DEF IInv, TypeInv
    <3> QED BY <3>1, <3>2
  <2> QED BY <1>1, <1>8, <2>1, <2>2 DEF IInv, TypeInv
<1>14. VectorsParallel'
  <2>1. ASSUME NEW j \in 1..(n + 1), NEW k \in 1..(n + 1), sources'.windows[j] = sources'.windows[k]
        PROVE  j = k
    <3>1. CASE j \in 1..n /\ k \in 1..n
      BY <1>4, <1>9, <1>10, <2>1, <3>1
    <3>2. CASE j \in 1..n /\ k = n + 1
      BY <1>4, <1>9, <1>10, <2>1, <3>2
    <3>3. CASE j = n + 1 /\ k \in 1..n
      BY <1>4, <1>9, <1>10, <2>1, <3>3
    <3> QED BY <1>11, <3>1, <3>2, <3>3
  <2> QED BY <1>10, <2>1 DEF VectorsParallel
<1>15. ModeInv'
  <2>1. SUFFICES ASSUME NEW k \in 1..(n + 1)
                 PROVE  /\ sources'.windows[k] \in DOMAIN modeOf'
                        /\ sources'.modes[k] = modeOf'[sources'.windows[k]]
    BY <1>10 DEF ModeInv
  <2>2. CASE k = n + 1
    BY <1>10, <1>12, <2>2
  <2>3. CASE k \in 1..n
    <3>1. sources'.windows[k] # w
      BY <1>4, <1>9, <1>10, <2>3
    <3> QED BY <1>5, <1>9, <1>10, <1>12, <2>3, <3>1
  <2> QED BY <1>11, <2>2, <2>3
<1>16. OneInv'
  <2>1. SUFFICES ASSUME ~ multiple PROVE sources'.outputs = {} /\ Len(sources'.windows) <= 1
    BY <1>1 DEF OneInv
  <2>2. n = 0 /\ old.outputs = {}
    BY <1>7, <2>1 DEF n
  <2> QED BY <1>8, <1>10, <2>2
<1>17. SharedAsShown'
  BY <1>1 DEF SharedAsShown
<1> QED BY <1>13, <1>14, <1>15, <1>16, <1>17 DEF IInv

LEMMA SelectOutputStep ==
  ASSUME IInv, NEW o \in OutputNames, SelectOutput(o)
  PROVE  IInv'
<1> DEFINE old == IF o \notin sources.outputs /\ Replaces THEN Empty ELSE sources
           now == IF o \in sources.outputs THEN sources.outputs \ {o} ELSE old.outputs \cup {o}
<1>1. /\ modeOf' = modeOf /\ rows' = rows /\ multiple' = multiple
      /\ dialog' = dialog /\ dialog = "open"
  BY DEF SelectOutput
<1>2. /\ Empty \in Selection /\ Empty.windows = <<>> /\ Empty.modes = <<>> /\ Empty.rules = <<>>
      /\ Empty.outputs = {}
  BY DEF Empty, Selection
<1>3. sources \in Selection
  BY DEF IInv, TypeInv
<1>4. sources' = [old EXCEPT !.outputs = now]
  BY DEF SelectOutput
<1>5. /\ old \in Selection
      /\ Len(old.modes) = Len(old.windows) /\ Len(old.rules) = Len(old.windows)
      /\ \A j, k \in DOMAIN old.windows : old.windows[j] = old.windows[k] => j = k
      /\ \A k \in DOMAIN old.windows : /\ old.windows[k] \in DOMAIN modeOf
                                       /\ old.modes[k] = modeOf[old.windows[k]]
  <2>1. CASE old = Empty
    BY <1>2, <2>1
  <2>2. CASE old = sources
    BY <1>3, <2>2 DEF IInv, VectorsParallel, ModeInv
  <2> QED BY <2>1, <2>2
<1>6. now \in SUBSET OutputNames
  BY <1>3, <1>5 DEF Selection
<1>7. ~ multiple => \/ old.windows = <<>> /\ (now = {} \/ now = {o})
                    \/ now = {} /\ Len(old.windows) <= 1
  <2>1. CASE o \in sources.outputs
    <3>1. old = sources /\ now = sources.outputs \ {o}
      BY <2>1
    <3> QED BY <2>1, <3>1 DEF IInv, OneInv
  <2>2. CASE o \notin sources.outputs /\ Replaces
    <3>1. old = Empty /\ now = {o}
      BY <1>2, <2>2
    <3> QED BY <1>2, <3>1
  <2>3. CASE o \notin sources.outputs /\ ~ Replaces
    <3>1. old = sources /\ now = sources.outputs \cup {o}
      BY <2>3
    <3> QED BY <2>3, <3>1 DEF Replaces, IsEmpty
  <2> QED BY <2>1, <2>2, <2>3
<1> HIDE DEF old, now
<1>8. /\ sources'.outputs = now /\ sources'.windows = old.windows
      /\ sources'.modes = old.modes /\ sources'.rules = old.rules
      /\ sources' = [f \in {"outputs", "windows", "modes", "rules"} |-> sources'[f]]
  BY <1>4, <1>5 DEF Selection
<1>9. sources' \in Selection
  <2>1. /\ old.windows \in Seq(Windows) /\ old.modes \in Seq(Modes)
        /\ old.rules \in Seq(RuleLists)
    BY <1>5 DEF Selection
  <2> QED BY <1>6, <1>8, <2>1, SelectionMade
<1>10. TypeInv'
  BY <1>1, <1>9 DEF IInv, TypeInv
<1>11. VectorsParallel'
  BY <1>5, <1>8 DEF VectorsParallel
<1>12. ModeInv'
  BY <1>1, <1>5, <1>8 DEF ModeInv
<1>13. OneInv'
  BY <1>1, <1>7, <1>8 DEF OneInv
<1>14. SharedAsShown'
  BY <1>1 DEF SharedAsShown
<1> QED BY <1>10, <1>11, <1>12, <1>13, <1>14 DEF IInv

LEMMA SetRescueModeStep ==
  ASSUME IInv, NEW w \in Windows, NEW m \in Modes, SetRescueMode(w, m)
  PROVE  IInv'
<1> DEFINE n == Len(sources.windows)
<1>1. /\ rows' = rows /\ multiple' = multiple /\ dialog' = dialog /\ dialog = "open"
      /\ sources' = [sources EXCEPT !.modes = UpdateModes(w, m)]
      /\ modeOf' = Put(modeOf, w, m)
  BY DEF SetRescueMode
<1>2. /\ sources \in Selection /\ n \in Nat /\ DOMAIN sources.windows = 1..n
      /\ Len(sources.modes) = n /\ Len(sources.rules) = n /\ DOMAIN sources.modes = 1..n
  BY DEF IInv, TypeInv, VectorsParallel, Selection
<1>3. /\ DOMAIN modeOf' = DOMAIN modeOf \cup {w} /\ modeOf'[w] = m
      /\ \A v \in DOMAIN modeOf : v # w => modeOf'[v] = modeOf[v]
  BY <1>1 DEF Put
<1> HIDE DEF n
<1>4. UpdateModes(w, m) = [k \in 1..n |-> IF sources.windows[k] = w THEN m ELSE sources.modes[k]]
  BY <1>2 DEF UpdateModes
<1>5. UpdateModes(w, m) \in Seq(Modes) /\ Len(UpdateModes(w, m)) = n
  <2>1. \A k \in 1..n : sources.modes[k] \in Modes
    BY <1>2 DEF Selection
  <2>2. UpdateModes(w, m) \in [1..n -> Modes]
    BY <1>4, <2>1
  <2> QED BY <1>2, <2>2, FunctionIsSequence
<1>6. /\ sources'.outputs = sources.outputs /\ sources'.windows = sources.windows
      /\ sources'.modes = UpdateModes(w, m) /\ sources'.rules = sources.rules
      /\ sources' = [f \in {"outputs", "windows", "modes", "rules"} |-> sources'[f]]
  BY <1>1, <1>2 DEF Selection
<1>7. sources' \in Selection
  <2>1. /\ sources.windows \in Seq(Windows) /\ sources.rules \in Seq(RuleLists)
        /\ sources.outputs \in SUBSET OutputNames
    BY <1>2 DEF Selection
  <2> QED BY <1>5, <1>6, <2>1, SelectionMade
<1>8. TypeInv'
  BY <1>1, <1>3, <1>7 DEF IInv, TypeInv
<1>9. VectorsParallel'
  BY <1>2, <1>5, <1>6 DEF IInv, VectorsParallel, n
<1>10. ModeInv'
  <2>1. SUFFICES ASSUME NEW k \in 1..n
                 PROVE  /\ sources.windows[k] \in DOMAIN modeOf'
                        /\ UpdateModes(w, m)[k] = modeOf'[sources.windows[k]]
    BY <1>2, <1>6 DEF ModeInv
  <2>2. UpdateModes(w, m)[k] = IF sources.windows[k] = w THEN m ELSE sources.modes[k]
    BY <1>4
  <2>3. /\ sources.windows[k] \in DOMAIN modeOf
        /\ sources.modes[k] = modeOf[sources.windows[k]]
    BY <1>2 DEF IInv, ModeInv
  <2> QED BY <1>3, <2>2, <2>3
<1>11. OneInv'
  BY <1>1, <1>6 DEF IInv, OneInv
<1>12. SharedAsShown'
  BY <1>1 DEF SharedAsShown
<1> QED BY <1>8, <1>9, <1>10, <1>11, <1>12 DEF IInv

\* The alias rows are edited apart from the selection.
LEMMA RowsStep ==
  ASSUME IInv, UNCHANGED <<multiple, sources, modeOf, dialog>>, dialog = "open",
         DOMAIN rows' \subseteq Windows, \A v \in DOMAIN rows' : rows'[v] \in Seq(Row)
  PROVE  IInv'
<1>1. TypeInv'
  BY DEF IInv, TypeInv
<1>2. VectorsParallel' /\ ModeInv' /\ OneInv'
  BY DEF IInv, VectorsParallel, ModeInv, OneInv
<1>3. SharedAsShown'
  BY DEF SharedAsShown
<1> QED BY <1>1, <1>2, <1>3 DEF IInv

LEMMA RowsOfType == ASSUME TypeInv, NEW w PROVE RowsOf(w) \in Seq(Row)
BY DEF TypeInv, RowsOf

LEMMA AddRescueAliasStep ==
  ASSUME IInv, NEW w \in Windows, AddRescueAlias(w)
  PROVE  IInv'
<1> DEFINE row == [pattern |-> Blank, scope |-> "same_app"]
<1>1. rows' = Put(rows, w, Append(RowsOf(w), row))
  BY DEF AddRescueAlias
<1>2. row \in Row
  BY DEF Row, Scopes
<1> HIDE DEF row
<1>3. Append(RowsOf(w), row) \in Seq(Row)
  BY <1>2, RowsOfType, AppendProperties DEF IInv
<1>4. /\ DOMAIN rows' = DOMAIN rows \cup {w} /\ rows'[w] = Append(RowsOf(w), row)
      /\ \A v \in DOMAIN rows : v # w => rows'[v] = rows[v]
  BY <1>1 DEF Put
<1>5. DOMAIN rows' \subseteq Windows /\ \A v \in DOMAIN rows' : rows'[v] \in Seq(Row)
  BY <1>3, <1>4 DEF IInv, TypeInv
<1> QED BY <1>5, RowsStep DEF AddRescueAlias

LEMMA RemoveRescueAliasStep ==
  ASSUME IInv, NEW w \in Windows, RemoveRescueAlias(w)
  PROVE  IInv'
<1>1. PICK k \in DOMAIN rows[w] : rows' = Put(rows, w, RemoveAt(rows[w], k))
  BY DEF RemoveRescueAlias
<1>2. RemoveAt(rows[w], k) \in Seq(Row)
  <2>1. rows[w] \in Seq(Row)
    BY DEF IInv, TypeInv, RemoveRescueAlias
  <2> QED BY <2>1, RemoveAtProperties
<1>3. /\ DOMAIN rows' = DOMAIN rows \cup {w} /\ rows'[w] = RemoveAt(rows[w], k)
      /\ \A v \in DOMAIN rows : v # w => rows'[v] = rows[v]
  BY <1>1 DEF Put
<1>4. DOMAIN rows' \subseteq Windows /\ \A v \in DOMAIN rows' : rows'[v] \in Seq(Row)
  BY <1>2, <1>3 DEF IInv, TypeInv
<1> QED BY <1>4, RowsStep DEF RemoveRescueAlias

LEMMA SetRescueAliasStep ==
  ASSUME IInv, NEW w \in Windows, SetRescueAlias(w)
  PROVE  IInv'
<1>1. rows[w] \in Seq(Row) /\ w \in DOMAIN rows
  BY DEF IInv, TypeInv, SetRescueAlias
<1>2. PICK k \in DOMAIN rows[w] :
        \/ \E p \in Patterns \cup {Blank, Bad} : rows' = [rows EXCEPT ![w][k].pattern = p]
        \/ \E scope \in Scopes : rows' = [rows EXCEPT ![w][k].scope = scope]
  BY DEF SetRescueAlias
<1>3. \E row \in Row : rows' = [rows EXCEPT ![w] = [rows[w] EXCEPT ![k] = row]]
  <2>1. rows[w][k] \in Row
    BY <1>1
  <2>2. CASE \E p \in Patterns \cup {Blank, Bad} : rows' = [rows EXCEPT ![w][k].pattern = p]
    <3>1. PICK p \in Patterns \cup {Blank, Bad} : rows' = [rows EXCEPT ![w][k].pattern = p]
      BY <2>2
    <3> DEFINE row == [rows[w][k] EXCEPT !.pattern = p]
    <3>2. row \in Row
      BY <2>1 DEF Row
    <3>3. rows' = [rows EXCEPT ![w] = [rows[w] EXCEPT ![k] = row]]
      BY <3>1
    <3> HIDE DEF row
    <3> QED BY <3>2, <3>3
  <2>3. CASE \E scope \in Scopes : rows' = [rows EXCEPT ![w][k].scope = scope]
    <3>1. PICK scope \in Scopes : rows' = [rows EXCEPT ![w][k].scope = scope]
      BY <2>3
    <3> DEFINE row == [rows[w][k] EXCEPT !.scope = scope]
    <3>2. row \in Row
      BY <2>1 DEF Row
    <3>3. rows' = [rows EXCEPT ![w] = [rows[w] EXCEPT ![k] = row]]
      BY <3>1
    <3> HIDE DEF row
    <3> QED BY <3>2, <3>3
  <2> QED BY <1>2, <2>2, <2>3
<1>4. PICK row \in Row : rows' = [rows EXCEPT ![w] = [rows[w] EXCEPT ![k] = row]]
  BY <1>3
<1>5. [rows[w] EXCEPT ![k] = row] \in Seq(Row)
  BY <1>1, ExceptSeq
<1>6. DOMAIN rows' \subseteq Windows /\ \A v \in DOMAIN rows' : rows'[v] \in Seq(Row)
  BY <1>4, <1>5 DEF IInv, TypeInv
<1> QED BY <1>6, RowsStep DEF SetRescueAlias

LEMMA ShareStep ==
  ASSUME IInv, Share
  PROVE  IInv'
<1> DEFINE n == Len(sources.windows)
           synced == [k \in DOMAIN sources.windows |-> AliasRowsToRules(RowsOf(sources.windows[k]))]
<1>1. /\ modeOf' = modeOf /\ rows' = rows /\ multiple' = multiple
      /\ sources' = [sources EXCEPT !.rules = synced]
      /\ dialog' = IF IsEmpty \/ HasInvalidAliases THEN "open" ELSE "shared"
  BY DEF Share, SyncCaptureAliases
<1>2. /\ sources \in Selection /\ n \in Nat /\ DOMAIN sources.windows = 1..n
      /\ Len(sources.modes) = n
  BY DEF IInv, TypeInv, VectorsParallel, Selection
<1>3. \A k \in 1..n : RowsOf(sources.windows[k]) \in Seq(Row)
  BY RowsOfType DEF IInv
<1> HIDE DEF n
<1>4. synced = [k \in 1..n |-> AliasRowsToRules(RowsOf(sources.windows[k]))]
  BY <1>2
<1> HIDE DEF synced
<1>5. synced \in Seq(RuleLists) /\ Len(synced) = n
  <2>1. \A k \in 1..n : AliasRowsToRules(RowsOf(sources.windows[k])) \in RuleLists
    BY <1>3 DEF RuleLists
  <2>2. synced \in [1..n -> RuleLists]
    BY <1>4, <2>1
  <2> QED BY <1>2, <2>2, FunctionIsSequence
<1>6. /\ sources'.outputs = sources.outputs /\ sources'.windows = sources.windows
      /\ sources'.modes = sources.modes /\ sources'.rules = synced
      /\ sources' = [f \in {"outputs", "windows", "modes", "rules"} |-> sources'[f]]
  BY <1>1, <1>2 DEF Selection
<1>7. sources' \in Selection
  <2>1. /\ sources.windows \in Seq(Windows) /\ sources.modes \in Seq(Modes)
        /\ sources.outputs \in SUBSET OutputNames
    BY <1>2 DEF Selection
  <2> QED BY <1>5, <1>6, <2>1, SelectionMade
<1>8. TypeInv'
  BY <1>1, <1>7 DEF IInv, TypeInv
<1>9. VectorsParallel'
  BY <1>2, <1>5, <1>6 DEF IInv, VectorsParallel, n
<1>10. ModeInv'
  BY <1>1, <1>6 DEF IInv, ModeInv
<1>11. OneInv'
  BY <1>1, <1>6 DEF IInv, OneInv
<1>12. SharedAsShown'
  <2>1. SUFFICES ASSUME dialog' = "shared"
                 PROVE  /\ ~ IsEmpty'
                        /\ \A k \in DOMAIN sources'.windows :
                             LET filled == Filled(RowsOf(sources.windows[k])')
                             IN  /\ Len(sources'.rules[k]) = Least({Len(filled), MaxRules})
                                 /\ \A j \in DOMAIN sources'.rules[k] :
                                      sources'.rules[k][j] = filled[j] /\ filled[j].pattern # Bad
    BY DEF SharedAsShown
  <2>2. ~ IsEmpty /\ ~ HasInvalidAliases
    BY <1>1, <2>1
  <2>3. ~ IsEmpty'
    BY <1>6, <2>2 DEF IsEmpty
  <2>4. ASSUME NEW k \in DOMAIN sources'.windows
        PROVE  LET filled == Filled(RowsOf(sources.windows[k])')
               IN  /\ Len(sources'.rules[k]) = Least({Len(filled), MaxRules})
                   /\ \A j \in DOMAIN sources'.rules[k] :
                        sources'.rules[k][j] = filled[j] /\ filled[j].pattern # Bad
    <3>0. k \in 1..n /\ sources'.rules[k] = synced[k]
      BY <1>2, <1>6
    <3> DEFINE list == RowsOf(sources.windows[k])
    <3>1. list \in Seq(Row)
      BY <1>3, <3>0
    <3>2. ~ IsInvalid(list)
      BY <1>2, <2>2, <3>0 DEF HasInvalidAliases
    <3>3. synced[k] = AliasRowsToRules(list)
      BY <1>4, <3>0
    <3>4. RowsOf(sources.windows[k])' = list
      BY <1>1, <1>6 DEF RowsOf
    <3> HIDE DEF list
    <3>5. synced[k] = Kept(list)
      BY <3>2, <3>3 DEF AliasRowsToRules
    <3>6. \A j \in DOMAIN Kept(list) : Kept(list)[j].pattern # Bad
      BY <3>2 DEF IsInvalid
    <3>7. /\ Len(Kept(list)) = Least({Len(Filled(list)), MaxRules})
          /\ \A j \in DOMAIN Kept(list) : Kept(list)[j] = Filled(list)[j]
      BY <3>1, KeptProperties
    <3>8. /\ Len(synced[k]) = Least({Len(Filled(list)), MaxRules})
          /\ \A j \in DOMAIN synced[k] :
               synced[k][j] = Filled(list)[j] /\ Filled(list)[j].pattern # Bad
      BY <3>5, <3>6, <3>7
    <3> QED BY <3>0, <3>4, <3>8
  <2> QED BY <2>3, <2>4
<1> QED BY <1>8, <1>9, <1>10, <1>11, <1>12 DEF IInv

(***************************************************************************)
(* The theorems.                                                           *)
(***************************************************************************)
LEMMA InitHolds == Init => IInv
<1> SUFFICES ASSUME Init PROVE IInv
  OBVIOUS
<1>1. /\ Empty \in Selection /\ Empty.windows = <<>> /\ Empty.modes = <<>> /\ Empty.rules = <<>>
      /\ Empty.outputs = {}
  BY DEF Empty, Selection
<1>2. DOMAIN Nowhere = {}
  BY DEF Nowhere
<1>3. /\ sources = Empty /\ modeOf = Nowhere /\ rows = Nowhere /\ multiple \in BOOLEAN
      /\ dialog = "open"
  BY DEF Init
<1>4. TypeInv
  BY <1>1, <1>2, <1>3 DEF TypeInv
<1>5. VectorsParallel /\ ModeInv /\ OneInv
  BY <1>1, <1>3 DEF VectorsParallel, ModeInv, OneInv
<1>6. SharedAsShown
  BY <1>3 DEF SharedAsShown
<1> QED BY <1>4, <1>5, <1>6 DEF IInv

LEMMA StepHolds == IInv /\ [Next]_vars => IInv'
<1> SUFFICES ASSUME IInv, [Next]_vars PROVE IInv'
  OBVIOUS
<1>1. CASE \E w \in Windows : SelectToplevel(w) \/ Deselect(w)
  BY <1>1, SelectToplevelStep, DeselectStep
<1>2. CASE \E w \in Windows : \E m \in {ExactMode, AppMode, TitleMode} : SetRescueMode(w, m)
  BY <1>2, SetRescueModeStep DEF Modes
<1>3. CASE \E w \in Windows : AddRescueAlias(w) \/ RemoveRescueAlias(w) \/ SetRescueAlias(w)
  BY <1>3, AddRescueAliasStep, RemoveRescueAliasStep, SetRescueAliasStep
<1>4. CASE \E o \in OutputNames : SelectOutput(o)
  BY <1>4, SelectOutputStep
<1>5. CASE Share
  BY <1>5, ShareStep
<1>6. CASE Cancel
  <2>1. UNCHANGED <<multiple, sources, modeOf, rows>> /\ dialog' = "cancelled"
    BY <1>6 DEF Cancel
  <2>2. TypeInv' /\ VectorsParallel' /\ ModeInv' /\ OneInv'
    BY <2>1 DEF IInv, TypeInv, VectorsParallel, ModeInv, OneInv
  <2>3. dialog' # "shared"
    BY <2>1
  <2>4. SharedAsShown'
    BY <2>3 DEF SharedAsShown
  <2> QED BY <2>2, <2>4 DEF IInv
<1>7. CASE UNCHANGED vars
  BY <1>7 DEF vars, IInv, TypeInv, VectorsParallel, ModeInv, OneInv, SharedAsShown, RowsOf, IsEmpty
<1> QED BY <1>1, <1>2, <1>3, <1>4, <1>5, <1>6, <1>7 DEF Next

\* The inductive invariant: types, and the four properties, with every selected window in the map of
\* modes and a dialog without multiple holding one window, one output or nothing.
THEOREM PickerInvariant == Spec => []IInv
BY InitHolds, StepHolds, PTL DEF Spec

\* The vectors stay parallel, without repetitions.
THEOREM VectorsStayParallel == Spec => []VectorsParallel
<1>1. IInv => VectorsParallel
  BY DEF IInv
<1> QED BY <1>1, PickerInvariant, PTL

\* The mode shared is the mode shown, whatever selections and radio buttons came in between.
THEOREM ModesStayAsShown == Spec => []ModesAsShown
<1>1. IInv => ModesAsShown
  BY DEF IInv, ModeInv, ModesAsShown
<1> QED BY <1>1, PickerInvariant, PTL

\* Without multiple there is never more than one source, of either kind.
THEOREM SingleStaysOne == Spec => []SingleMeansOne
<1>1. ASSUME IInv, ~ multiple
      PROVE  Cardinality(sources.outputs) + Len(sources.windows) <= 1
  <2>1. CASE sources.outputs = {} /\ Len(sources.windows) <= 1
    <3>1. Cardinality(sources.outputs) = 0
      BY <2>1, FS_EmptySet
    <3>2. Len(sources.windows) \in Nat
      BY <1>1 DEF IInv, TypeInv, Selection
    <3> QED BY <2>1, <3>1, <3>2
  <2>2. CASE sources.windows = <<>> /\ \E o \in OutputNames : sources.outputs = {o}
    <3>1. Cardinality(sources.outputs) = 1
      BY <2>2, FS_Singleton
    <3>2. Len(sources.windows) = 0
      BY <2>2
    <3> QED BY <3>1, <3>2
  <2> QED BY <1>1, <2>1, <2>2 DEF IInv, OneInv
<1>2. IInv => SingleMeansOne
  BY <1>1 DEF SingleMeansOne
<1> QED BY <1>2, PickerInvariant, PTL

\* What is shared is what the dialog shows, rows edited after a refused Share included.
THEOREM SharedStaysAsShown == Spec => []SharedAsShown
<1>1. IInv => SharedAsShown
  BY DEF IInv
<1> QED BY <1>1, PickerInvariant, PTL
==============================================================================
