-------------------------- MODULE ScreencastCallProofs --------------------------
(***************************************************************************)
(* libportal's policy object, for every sequence of setter calls; a label, *)
(* of any length, in the two pickers; and the call that sends both.        *)
(***************************************************************************)
EXTENDS ScreencastCall, SharedProofs

\* Setters keep the object and the requested policy well formed.
THEOREM BuilderTypeCorrect == Spec => []TypeOK
<1>1. Init => TypeOK
  BY DEF Init, TypeOK, NoActions, IsWirePolicy, Known, Prompt
<1>2. TypeOK /\ [Next]_vars => TypeOK'
  <2> SUFFICES ASSUME TypeOK, [Next]_vars PROVE TypeOK'
    OBVIOUS
  <2> USE DEF TypeOK, IsWirePolicy, Known, Prompt, Skip, Error
  <2>1. ASSUME NEW a \in RawActions, SetDefaultAction(a) PROVE TypeOK'
    BY <2>1, BuilderAssumption DEF SetDefaultAction, NormalizeRestoreAction
  <2>2. ASSUME NEW reason \in Reasons, NEW a \in RawActions, SetAction(reason, a)
        PROVE  TypeOK'
    <3>1. reason \in WireReasons /\ a \in Nat
      BY RestoreActionsAssumption, BuilderAssumption
    <3>2. NormalizeRestoreAction(a) \in Known
      BY <3>1 DEF NormalizeRestoreAction
    <3>3. /\ policy'.hasDefault = policy.hasDefault /\ policy'.default = policy.default
          /\ policy'.actions = Insert(policy.actions, reason, NormalizeRestoreAction(a))
          /\ requested'.default = requested.default
          /\ requested'.actions = Insert(requested.actions, reason, a)
      BY <2>2 DEF SetAction
    <3> QED BY <3>1, <3>2, <3>3 DEF Insert
  <2>3. CASE UNCHANGED vars
    BY <2>3 DEF vars
  <2> QED BY <2>1, <2>2, <2>3 DEF Next
<1> QED BY <1>1, <1>2, PTL DEF Spec

\* The three resolvers agree on whatever an application asks for.
THEOREM BuilderResolversAgree == Spec => []ResolversAgree
<1>1. TypeOK => ResolversAgree
  BY ResolversAgreeOnTheWire DEF TypeOK, ResolversAgree
<1> QED BY <1>1, BuilderTypeCorrect, PTL

\* The values a policy object may have.
IsObject(p) ==
  /\ p.default \in Known
  /\ \A reason \in DOMAIN p.actions : p.actions[reason] \in Known

\* What the getters of an object say is what the front end does with the object on the wire.
LEMMA WireMeansObject ==
  ASSUME NEW p, IsObject(p), NEW reason
  PROVE  XdpAction(Wire(p), reason) = GetAction(p, reason)
<1>1. Wire(p).actions = p.actions
  BY DEF Wire
<1>2. CASE reason \in DOMAIN p.actions
  BY <1>1, <1>2 DEF IsObject, XdpAction, GetAction
<1>3. CASE reason \notin DOMAIN p.actions
  <2>1. XdpAction(Wire(p), reason) = IF Wire(p).default \in Known THEN Wire(p).default ELSE Prompt
    BY <1>1, <1>3 DEF XdpAction
  <2>2. Absent \notin Known
    BY RestoreActionsAssumption DEF Known, Prompt, Skip, Error
  <2>3. GetAction(p, reason) = IF p.hasDefault THEN p.default ELSE Prompt
    BY <1>3 DEF GetAction, GetDefaultAction
  <2> QED BY <2>1, <2>2, <2>3 DEF Wire, IsObject
<1> QED BY <1>2, <1>3

\* So it is at every moment of the object's life.
THEOREM WireMeansGetters == Spec => []WireMeansWhatGettersSay
<1>1. TypeOK => WireMeansWhatGettersSay
  BY WireMeansObject DEF TypeOK, IsObject, WireMeansWhatGettersSay
<1> QED BY <1>1, BuilderTypeCorrect, PTL

(***************************************************************************)
(* The call: while it waits it has a copy of the object, which means what  *)
(* the getters said.                                                       *)
(***************************************************************************)
CopyMeansGiven ==
  (call.at = "created" /\ call.policy # Absent) =>
    IsObject(call.policy) /\ \A reason \in Reasons : GetAction(call.policy, reason) = given.says[reason]

CallInv == TypeOK /\ CopyMeansGiven /\ SentAsRead

\* A call only reads the object, so that the object lives as PolicyBuilder says.
LEMMA CallBuilds == CallSpec => Spec
<1>1. CallInit => Init
  BY DEF CallInit
<1>2. [CallNext]_callVars => [Next]_vars
  BY DEF CallNext, callVars, vars, UsePolicy, CreateScreencastSessionFull,
         GetScreencastInterfaceVersion, SelectSources, SourcesSelected, SessionStarted
<1> QED BY <1>1, <1>2, PTL DEF CallSpec, Spec

LEMMA CreateKeepsCall ==
  ASSUME TypeOK, NEW in, NEW withPolicy \in BOOLEAN, CreateScreencastSessionFull(in, withPolicy)
  PROVE  CopyMeansGiven' /\ SentAsRead'
<1>1. CASE Refuse
  BY <1>1 DEF Refuse, CopyMeansGiven, SentAsRead
<1>2. CASE ~ Refuse
  <2>1. call' = [at |-> "created", token |-> in.token, label |-> in.label,
                 policy |-> IF withPolicy THEN policy ELSE Absent]
    BY <1>2 DEF CreateScreencastSessionFull
  <2>2. given'.says = [reason \in Reasons |-> GetAction(policy, reason)]
    BY DEF CreateScreencastSessionFull, GettersSay
  <2>3. IsObject(policy)
    BY DEF TypeOK, IsObject
  <2>4. call'.at = "created" /\ (call'.policy # Absent => call'.policy = policy)
    BY <2>1
  <2>5. SentAsRead'
    BY <2>4 DEF SentAsRead
  <2>6. ASSUME call'.policy # Absent PROVE CopyMeansGiven'
    <3>1. call'.policy = policy
      BY <2>4, <2>6
    <3>2. \A reason \in Reasons : GetAction(call'.policy, reason) = given'.says[reason]
      BY <3>1, <2>2
    <3> QED BY <3>1, <3>2, <2>3 DEF CopyMeansGiven, IsObject, GetAction, GetDefaultAction
  <2>7. ASSUME call'.policy = Absent PROVE CopyMeansGiven'
    BY <2>7 DEF CopyMeansGiven
  <2> QED BY <2>5, <2>6, <2>7
<1> QED BY <1>1, <1>2

\* What goes out means what the copy means.
LEMMA SelectKeepsCall ==
  ASSUME CallInv, SelectSources
  PROVE  CopyMeansGiven' /\ SentAsRead'
<1>1. call.at = "created" /\ call'.at = "selecting" /\ given' = given
  BY DEF SelectSources
<1>2. call'.policy # Absent => call.policy # Absent /\ call'.policy = Wire(call.policy)
  BY DEF SelectSources, SentPolicy
<1>3. CopyMeansGiven'
  BY <1>1 DEF CopyMeansGiven
<1>4. ASSUME call'.policy # Absent, NEW reason \in Reasons
      PROVE  XdpAction(call'.policy, reason) = given'.says[reason]
  BY <1>1, <1>2, <1>4, WireMeansObject DEF CallInv, CopyMeansGiven
<1>5. SentAsRead'
  BY <1>1, <1>4 DEF SentAsRead, XdpAction
<1> QED BY <1>3, <1>5

\* The policy that goes out means what its getters said when the application made the call.
THEOREM SentMeansRead == CallSpec => []SentAsRead
<1>1. CallInit => CopyMeansGiven /\ SentAsRead
  BY DEF CallInit, NoCall, CopyMeansGiven, SentAsRead
<1>2. TypeOK /\ CopyMeansGiven /\ SentAsRead /\ [CallNext]_callVars => CopyMeansGiven' /\ SentAsRead'
  <2> SUFFICES ASSUME CallInv, [CallNext]_callVars PROVE CopyMeansGiven' /\ SentAsRead'
    BY DEF CallInv
  <2>1. ASSUME call' = call, given' = given PROVE CopyMeansGiven' /\ SentAsRead'
    BY <2>1 DEF CallInv, CopyMeansGiven, SentAsRead
  <2>2. CASE UsePolicy
    BY <2>1, <2>2 DEF UsePolicy
  <2>3. ASSUME NEW in \in Inputs, NEW withPolicy \in BOOLEAN,
               CreateScreencastSessionFull(in, withPolicy)
        PROVE  CopyMeansGiven' /\ SentAsRead'
    BY <2>3, CreateKeepsCall DEF CallInv
  <2>4. CASE GetScreencastInterfaceVersion
    BY <2>1, <2>4 DEF GetScreencastInterfaceVersion
  <2>5. CASE SelectSources
    BY <2>5, SelectKeepsCall
  <2>6. ASSUME NEW code \in 0..2, SourcesSelected(code) \/ SessionStarted(code)
        PROVE  CopyMeansGiven' /\ SentAsRead'
    <3>1. call'.at \in {"session", "ended"}
      BY <2>6 DEF SourcesSelected, SessionStarted, Answer
    <3> QED BY <3>1 DEF CopyMeansGiven, SentAsRead
  <2>7. CASE UNCHANGED callVars
    BY <2>1, <2>7 DEF callVars
  <2> QED BY <2>2, <2>3, <2>4, <2>5, <2>6, <2>7 DEF CallNext
<1> QED BY <1>1, <1>2, CallBuilds, BuilderTypeCorrect, PTL DEF CallSpec

(***************************************************************************)
(* The bytes of a label.                                                   *)
(***************************************************************************)
\* Each prefix has the bytes of the one before it and those of its last character.
LEMMA BytesStep ==
  ASSUME NEW label \in Seq(Char)
  PROVE  /\ BytesUpto(label) \in [0..Len(label) -> Nat]
         /\ BytesUpto(label)[0] = 0
         /\ \A n \in 1..Len(label) : BytesUpto(label)[n] = BytesUpto(label)[n - 1] + label[n].bytes
<1> DEFINE N == Len(label)
           Sums(f) == f = [n \in 0..N |-> IF n = 0 THEN 0 ELSE f[n - 1] + label[n].bytes]
           step == [x \in (1..N) \X Nat |-> x[2] + label[x[1]].bytes]
<1>1. N \in Nat /\ \A n \in 1..N : label[n].bytes \in Nat
  <2>1. \A n \in 1..N : label[n] \in Char
    OBVIOUS
  <2>2. \A ch \in Char : ch.bytes \in 1..4
    BY DEF Char
  <2> QED BY <2>1, <2>2
<1>2. step \in [(1..N) \X Nat -> Nat]
  BY <1>1
<1>3. PICK g \in [0..N -> Nat] : IsFold(g, N, 0, step)
  <2> HIDE DEF step, N
  <2> QED BY <1>1, <1>2, FoldExists
<1>4. Sums(g)
  <2>0. g = [n \in 0..N |-> IF n = 0 THEN 0 ELSE step[<<n, g[n - 1]>>]]
    BY <1>3 DEF IsFold
  <2>1. \A n \in 0..N : g[n] = IF n = 0 THEN 0 ELSE g[n - 1] + label[n].bytes
    <3>1. ASSUME NEW n \in 0..N, n # 0 PROVE g[n] = g[n - 1] + label[n].bytes
      <4>1. n \in 1..N /\ g[n - 1] \in Nat /\ <<n, g[n - 1]>> \in (1..N) \X Nat
        BY <1>1, <3>1
      <4>2. g[n] = step[<<n, g[n - 1]>>]
        BY <2>0, <3>1
      <4>3. step[<<n, g[n - 1]>>] = g[n - 1] + label[n].bytes
        BY <4>1
      <4> QED BY <4>2, <4>3
    <3>2. g[0] = 0
      BY <1>1, <2>0
    <3> QED BY <3>1, <3>2
  <2>2. g = [n \in 0..N |-> g[n]]
    OBVIOUS
  <2> HIDE DEF step
  <2> QED BY <2>1, <2>2
<1>5. BytesUpto(label) = CHOOSE f : Sums(f)
  BY DEF BytesUpto
<1> DEFINE sum == BytesUpto(label)
<1>6. Sums(sum)
  <2> HIDE DEF Sums
  <2> QED BY <1>4, <1>5
<1> HIDE DEF sum
<1>7. sum[0] = 0 /\ \A n \in 1..N : sum[n] = sum[n - 1] + label[n].bytes
  <2>1. 0 \in 0..N /\ \A n \in 1..N : n \in 0..N /\ n # 0
    BY <1>1
  <2> QED BY <1>6, <2>1
<1>8. DOMAIN sum = 0..N /\ sum = [n \in 0..N |-> sum[n]]
  BY <1>6
<1>9. \A n \in Nat : n \in {m \in Nat : m <= N => sum[m] \in Nat}
  <2> DEFINE S == {m \in Nat : m <= N => sum[m] \in Nat}
  <2>1. 0 \in S
    BY <1>7
  <2>2. ASSUME NEW n \in Nat, n \in S PROVE n + 1 \in S
    <3> SUFFICES ASSUME n + 1 <= N PROVE sum[n + 1] \in Nat
      OBVIOUS
    <3>1. n + 1 \in 1..N /\ (n + 1) - 1 = n
      BY <1>1
    <3>2. sum[n + 1] = sum[n] + label[n + 1].bytes
      BY <1>7, <3>1
    <3>3. sum[n] \in Nat /\ label[n + 1].bytes \in Nat
      BY <1>1, <2>2, <3>1
    <3> QED BY <3>2, <3>3
  <2> HIDE DEF S
  <2>3. \A n \in Nat : n \in S
    BY <2>1, <2>2, ClosedSetHasAll
  <2> QED BY <2>3 DEF S
<1>10. sum \in [0..N -> Nat]
  BY <1>1, <1>8, <1>9
<1> QED BY <1>7, <1>10 DEF sum

LEMMA BytesCount ==
  ASSUME NEW label \in Seq(Char)
  PROVE  Bytes(label) \in Nat
<1>1. Len(label) \in 0..Len(label)
  OBVIOUS
<1> QED BY <1>1, BytesStep DEF Bytes

\* So a longer prefix has no fewer.
LEMMA BytesGrow ==
  ASSUME NEW label \in Seq(Char), NEW i \in 0..Len(label), NEW j \in 0..Len(label), i <= j
  PROVE  BytesUpto(label)[i] <= BytesUpto(label)[j]
<1> DEFINE sum == BytesUpto(label)
           N   == Len(label)
           S   == {m \in Nat : i + m <= N => sum[i] <= sum[i + m]}
<1>1. /\ N \in Nat /\ \A n \in 0..N : sum[n] \in Nat
      /\ \A n \in 1..N : sum[n] = sum[n - 1] + label[n].bytes /\ label[n].bytes \in Nat
  <2>1. \A n \in 1..N : label[n] \in Char
    OBVIOUS
  <2>2. \A ch \in Char : ch.bytes \in 1..4
    BY DEF Char
  <2>3. \A n \in 1..N : label[n].bytes \in Nat
    BY <2>1, <2>2
  <2>4. N \in Nat
    OBVIOUS
  <2>5. /\ sum \in [0..N -> Nat]
        /\ \A n \in 1..N : sum[n] = sum[n - 1] + label[n].bytes
    BY BytesStep
  <2> HIDE DEF sum, N
  <2> QED BY <2>3, <2>4, <2>5
<1> HIDE DEF sum, N
<1>2. i \in Nat /\ j \in Nat /\ i <= N /\ j <= N
  BY <1>1 DEF N
<1>3. 0 \in S
  BY <1>1, <1>2
<1>4. ASSUME NEW m \in Nat, m \in S PROVE m + 1 \in S
  <2> SUFFICES ASSUME i + (m + 1) <= N PROVE sum[i] <= sum[i + (m + 1)]
    OBVIOUS
  <2> DEFINE k == i + m
  <2>1. k \in 0..N /\ k + 1 \in 1..N /\ k + 1 \in 0..N /\ (k + 1) - 1 = k /\ i + (m + 1) = k + 1
    BY <1>1, <1>2
  <2>2. sum[i] <= sum[k]
    BY <1>1, <1>2, <1>4
  <2> HIDE DEF k
  <2>3. sum[k + 1] = sum[k] + label[k + 1].bytes /\ label[k + 1].bytes \in Nat
    BY <1>1, <2>1
  <2>4. sum[k] \in Nat /\ sum[i] \in Nat
    BY <1>1, <1>2, <2>1
  <2> QED BY <2>1, <2>2, <2>3, <2>4
<1>5. j - i \in S
  <2> HIDE DEF S
  <2>1. j - i \in Nat
    BY <1>2
  <2> QED BY <1>3, <1>4, <2>1, ClosedSetHasAll
<1>6. i + (j - i) = j /\ j <= N
  BY <1>2
<1> QED BY <1>5, <1>6 DEF sum

\* Labels that begin with the same m characters begin with the same bytes.
LEMMA SameBytes ==
  ASSUME NEW s \in Seq(Char), NEW t \in Seq(Char), NEW m \in Nat, m <= Len(s), m <= Len(t),
         \A i \in 1..m : s[i] = t[i]
  PROVE  BytesUpto(s)[m] = BytesUpto(t)[m]
<1> DEFINE a == BytesUpto(s)
           b == BytesUpto(t)
           S == {k \in Nat : k <= m => a[k] = b[k]}
<1>1. /\ a[0] = 0 /\ \A n \in 1..Len(s) : a[n] = a[n - 1] + s[n].bytes
      /\ b[0] = 0 /\ \A n \in 1..Len(t) : b[n] = b[n - 1] + t[n].bytes
  BY BytesStep
<1> HIDE DEF a, b
<1>2. 0 \in S
  BY <1>1
<1>3. ASSUME NEW k \in Nat, k \in S PROVE k + 1 \in S
  <2> SUFFICES ASSUME k + 1 <= m PROVE a[k + 1] = b[k + 1]
    OBVIOUS
  <2>1. k + 1 \in 1..Len(s) /\ k + 1 \in 1..Len(t) /\ k + 1 \in 1..m /\ (k + 1) - 1 = k
    OBVIOUS
  <2>2. a[k] = b[k]
    BY <1>3, <2>1
  <2>3. a[k + 1] = a[k] + s[k + 1].bytes /\ b[k + 1] = b[k] + t[k + 1].bytes
    BY <1>1, <2>1
  <2>4. s[k + 1] = t[k + 1]
    BY <2>1
  <2> QED BY <2>2, <2>3, <2>4
<1>4. m \in S
  <2> HIDE DEF S
  <2> QED BY <1>2, <1>3, ClosedSetHasAll
<1> QED BY <1>4 DEF a, b

LEMMA Prefix ==
  ASSUME NEW label \in Seq(Char), NEW m \in 0..Len(label)
  PROVE  /\ SubSeq(label, 1, m) \in Seq(Char)
         /\ Len(SubSeq(label, 1, m)) = m
         /\ \A i \in 1..m : SubSeq(label, 1, m)[i] = label[i]
         /\ Bytes(SubSeq(label, 1, m)) = BytesUpto(label)[m]
<1> DEFINE cut == SubSeq(label, 1, m)
<1>1. \A i \in 1..m : label[i] \in Char
  OBVIOUS
<1>2. m \in Int /\ 1 \in Int /\ m \in Nat /\ m <= Len(label)
  OBVIOUS
<1>3. /\ cut \in Seq(Char)
      /\ Len(cut) = IF 1 <= m THEN m - 1 + 1 ELSE 0
      /\ \A i \in 1..(m - 1 + 1) : cut[i] = label[1 + i - 1]
  BY <1>1, <1>2, SubSeqProperties
<1> HIDE DEF cut
<1>4. Len(cut) = m
  BY <1>2, <1>3
<1>5. \A i \in 1..m : cut[i] = label[i]
  <2>1. \A i \in 1..m : i \in 1..(m - 1 + 1) /\ 1 + i - 1 = i
    BY <1>2
  <2> QED BY <1>3, <2>1
<1>6. Bytes(cut) = BytesUpto(label)[m]
  BY <1>2, <1>3, <1>4, <1>5, SameBytes DEF Bytes
<1> QED BY <1>3, <1>4, <1>5, <1>6 DEF cut

LEMMA LongerPrefix ==
  ASSUME NEW label \in Seq(Char), NEW m \in Nat, m < Len(label)
  PROVE  Append(SubSeq(label, 1, m), label[m + 1]) = SubSeq(label, 1, m + 1)
<1> DEFINE short == SubSeq(label, 1, m)
           long  == SubSeq(label, 1, m + 1)
           both  == Append(short, label[m + 1])
<1>0. m \in 0..Len(label) /\ m + 1 \in 0..Len(label)
  OBVIOUS
<1>1. short \in Seq(Char) /\ Len(short) = m /\ \A i \in 1..m : short[i] = label[i]
  BY <1>0, Prefix
<1>2. long \in Seq(Char) /\ Len(long) = m + 1 /\ \A i \in 1..(m + 1) : long[i] = label[i]
  BY <1>0, Prefix
<1> HIDE DEF short, long
<1>3. label[m + 1] \in Char
  OBVIOUS
<1>4. /\ both \in Seq(Char) /\ Len(both) = m + 1 /\ both[m + 1] = label[m + 1]
      /\ \A i \in 1..m : both[i] = short[i]
  BY <1>1, <1>3, AppendProperties
<1>5. \A i \in 1..(m + 1) : both[i] = long[i]
  <2>1. \A i \in 1..(m + 1) : i = m + 1 \/ i \in 1..m
    OBVIOUS
  <2> QED BY <1>1, <1>2, <1>4, <2>1
<1> HIDE DEF both
<1>6. both = [i \in 1..(m + 1) |-> both[i]] /\ long = [i \in 1..(m + 1) |-> long[i]]
  BY <1>2, <1>4
<1>7. both = long
  BY <1>5, <1>6
<1> QED BY <1>7 DEF both, short, long

(***************************************************************************)
(* The characters that the cleaning keeps.                                 *)
(***************************************************************************)
Visible(label) == {k \in DOMAIN label : ~ label[k].control}

\* How many of the first n characters are kept.
Kept(label, n) == Cardinality(Below(Visible(label), n + 1))

LEMMA CleanedLabel ==
  ASSUME NEW label \in Seq(Char)
  PROVE  /\ Cleaned(label) \in Seq(Char)
         /\ Kept(label, 0) = 0 /\ Kept(label, Len(label)) = Len(Cleaned(label))
<1> DEFINE S == Visible(label)
           N == Len(label)
           cleaned == Chosen(label, S)
<1>1. S \in SUBSET (1..N) /\ N \in Nat
  BY DEF Visible
<1>2. Cleaned(label) = cleaned
  BY DEF Cleaned, Visible
<1>3. /\ Cardinality(S) \in Nat /\ Len(cleaned) = Cardinality(S)
      /\ DOMAIN cleaned = 1..Cardinality(S)
      /\ \A j \in DOMAIN cleaned : Nth(S, j) \in S /\ cleaned[j] = label[Nth(S, j)]
  BY <1>1, ChosenFrom
<1>4. cleaned = [j \in 1..Cardinality(S) |-> cleaned[j]]
  BY DEF Chosen
<1> HIDE DEF S, cleaned
<1>5. \A k \in S : label[k] \in Char
  BY <1>1
<1>6. \A j \in 1..Cardinality(S) : cleaned[j] \in Char
  BY <1>3, <1>5
<1>7. cleaned \in Seq(Char)
  BY <1>3, <1>4, <1>6
<1>8. \A k \in S : k \in Nat /\ 1 <= k /\ k <= N
  BY <1>1
<1>9. Below(S, 0 + 1) = {} /\ Below(S, N + 1) = S
  <2>1. \A k \in S : ~ (k < 0 + 1) /\ k < N + 1
    BY <1>1, <1>8
  <2> HIDE DEF N
  <2> QED BY <2>1 DEF Below
<1>10. Cardinality(Below(S, 0 + 1)) = 0
  BY <1>9, FS_EmptySet
<1> QED BY <1>2, <1>3, <1>7, <1>9, <1>10 DEF Kept, S

\* The next character is left out, or is the next of the cleaned label.
LEMMA NextKept ==
  ASSUME NEW label \in Seq(Char), NEW n \in 1..Len(label)
  PROVE  /\ Kept(label, n - 1) \in Nat
         /\ label[n].control => Kept(label, n) = Kept(label, n - 1)
         /\ ~ label[n].control => /\ Kept(label, n) = Kept(label, n - 1) + 1
                                  /\ Kept(label, n) \in 1..Len(Cleaned(label))
                                  /\ Cleaned(label)[Kept(label, n)] = label[n]
<1> DEFINE S == Visible(label)
           N == Len(label)
           c == Cardinality(Below(S, n))
<1>1. S \in SUBSET (1..N) /\ N \in Nat /\ n \in Nat /\ (n \in S <=> ~ label[n].control)
  BY DEF Visible
<1>2. Cleaned(label) = Chosen(label, S)
  BY DEF Cleaned, Visible
<1>3. /\ Cardinality(S) \in Nat /\ Len(Chosen(label, S)) = Cardinality(S)
      /\ DOMAIN Chosen(label, S) = 1..Cardinality(S)
      /\ \A j \in DOMAIN Chosen(label, S) : Chosen(label, S)[j] = label[Nth(S, j)]
  BY <1>1, ChosenFrom
<1>4. (n - 1) + 1 = n
  BY <1>1
<1>5. Kept(label, n - 1) = c /\ Kept(label, n) = Cardinality(Below(S, n + 1))
  BY <1>4 DEF Kept
<1> HIDE DEF S
<1>6. /\ c \in Nat
      /\ n \notin S => Cardinality(Below(S, n + 1)) = c
      /\ n \in S => Cardinality(Below(S, n + 1)) = c + 1
  BY <1>1, BelowStep
<1>7. n \in S => c + 1 \in 1..Cardinality(S) /\ Nth(S, c + 1) = n
  BY <1>1, NthIs
<1> HIDE DEF c
<1> QED BY <1>1, <1>2, <1>3, <1>5, <1>6, <1>7

(***************************************************************************)
(* Hyprland's loop over the characters.                                    *)
(***************************************************************************)
Texts == [label : Seq(Char), full : BOOLEAN]

LEMMA TakeCharType ==
  ASSUME NEW text \in Texts, NEW ch \in Char
  PROVE  TakeChar(text, ch) \in Texts
<1>1. Append(text.label, ch) \in Seq(Char)
  BY DEF Texts
<1> QED BY <1>1 DEF TakeChar, Texts

LEMMA TextStep ==
  ASSUME NEW label \in Seq(Char)
  PROVE  /\ TextUpto(label)[0] = EmptyText
         /\ \A n \in 1..Len(label) : TextUpto(label)[n] = TakeChar(TextUpto(label)[n - 1], label[n])
         /\ \A n \in 0..Len(label) : TextUpto(label)[n] \in Texts
<1> DEFINE N == Len(label)
           Loop(f) == f = [n \in 0..N |-> IF n = 0 THEN EmptyText ELSE TakeChar(f[n - 1], label[n])]
           step == [x \in (1..N) \X Texts |-> TakeChar(x[2], label[x[1]])]
<1>1. N \in Nat /\ \A n \in 1..N : label[n] \in Char
  OBVIOUS
<1>2. step \in [(1..N) \X Texts -> Texts]
  BY <1>1, TakeCharType
<1>3. EmptyText \in Texts
  BY DEF EmptyText, Texts
<1>4. PICK g \in [0..N -> Texts] : IsFold(g, N, EmptyText, step)
  <2> HIDE DEF step, N
  <2> QED BY <1>1, <1>2, <1>3, FoldExists
<1>5. Loop(g)
  <2>1. g = [n \in 0..N |-> IF n = 0 THEN EmptyText ELSE step[<<n, g[n - 1]>>]]
    BY <1>4 DEF IsFold
  <2>2. \A n \in 0..N : g[n] = IF n = 0 THEN EmptyText ELSE TakeChar(g[n - 1], label[n])
    <3>1. ASSUME NEW n \in 0..N, n # 0 PROVE g[n] = TakeChar(g[n - 1], label[n])
      <4>1. n \in 1..N /\ g[n - 1] \in Texts /\ <<n, g[n - 1]>> \in (1..N) \X Texts
        BY <1>1, <3>1
      <4>2. g[n] = step[<<n, g[n - 1]>>]
        BY <2>1, <3>1
      <4>3. step[<<n, g[n - 1]>>] = TakeChar(g[n - 1], label[n])
        BY <4>1
      <4> QED BY <4>2, <4>3
    <3>2. g[0] = EmptyText
      BY <1>1, <2>1
    <3> QED BY <3>1, <3>2
  <2>3. g = [n \in 0..N |-> g[n]]
    OBVIOUS
  <2> HIDE DEF step
  <2> QED BY <2>2, <2>3
<1>6. TextUpto(label) = CHOOSE f : Loop(f)
  BY DEF TextUpto
<1> DEFINE text == TextUpto(label)
<1>7. Loop(text)
  <2> HIDE DEF Loop
  <2> QED BY <1>5, <1>6
<1> HIDE DEF text
<1>8. text[0] = EmptyText /\ \A n \in 1..N : text[n] = TakeChar(text[n - 1], label[n])
  <2>1. 0 \in 0..N /\ \A n \in 1..N : n \in 0..N /\ n # 0
    BY <1>1
  <2> QED BY <1>7, <2>1
<1> DEFINE S == {m \in Nat : m <= N => text[m] \in Texts}
<1>9. 0 \in S
  BY <1>3, <1>8
<1>10. ASSUME NEW n \in Nat, n \in S PROVE n + 1 \in S
  <2> SUFFICES ASSUME n + 1 <= N PROVE text[n + 1] \in Texts
    OBVIOUS
  <2>1. n + 1 \in 1..N /\ (n + 1) - 1 = n
    BY <1>1
  <2>2. text[n] \in Texts /\ label[n + 1] \in Char
    BY <1>1, <1>10, <2>1
  <2> QED BY <1>8, <2>1, <2>2, TakeCharType
<1>11. \A n \in Nat : n \in S
  <2> HIDE DEF S
  <2> QED BY <1>9, <1>10, ClosedSetHasAll
<1>12. \A n \in 0..N : text[n] \in Texts
  BY <1>1, <1>11
<1> QED BY <1>8, <1>12 DEF text

\* The text is a prefix of the cleaned label that fits: all that has been kept so far, or all but
\* for a character that does not fit any more.
CutAt(label, text, kept, m) ==
  /\ m \in 0..Len(Cleaned(label))
  /\ text.label = SubSeq(Cleaned(label), 1, m)
  /\ BytesUpto(Cleaned(label))[m] <= MaxLabel
  /\ ~ text.full => m = kept
  /\ text.full => m < Len(Cleaned(label)) /\ BytesUpto(Cleaned(label))[m + 1] > MaxLabel

LEMMA TakeCharCuts ==
  ASSUME NEW label \in Seq(Char), NEW n \in 1..Len(label), NEW text \in Texts,
         NEW m, CutAt(label, text, Kept(label, n - 1), m)
  PROVE  \E k : CutAt(label, TakeChar(text, label[n]), Kept(label, n), k)
<1> DEFINE cleaned == Cleaned(label)
           sum  == BytesUpto(cleaned)
           ch   == label[n]
           next == TakeChar(text, ch)
           room == sum[m] + ch.bytes
<1>1. cleaned \in Seq(Char) /\ Len(cleaned) \in Nat
  BY CleanedLabel
<1>2. m \in 0..Len(cleaned) /\ m \in Nat /\ text.label = SubSeq(cleaned, 1, m) /\ sum[m] <= MaxLabel
  BY <1>1 DEF CutAt
<1>3. Bytes(text.label) = sum[m]
  BY <1>1, <1>2, Prefix
<1>4. CASE text.full
  <2>1. next = text
    BY <1>4 DEF TakeChar
  <2> QED BY <1>4, <2>1 DEF CutAt
<1>5. CASE ~ text.full /\ ch.control
  <2>1. next = text /\ Kept(label, n) = Kept(label, n - 1)
    BY <1>5, NextKept DEF TakeChar
  <2> QED BY <2>1
<1>6. CASE ~ text.full /\ ~ ch.control
  <2>1. /\ m = Kept(label, n - 1) /\ Kept(label, n) = m + 1
        /\ m + 1 \in 1..Len(cleaned) /\ cleaned[m + 1] = ch
    BY <1>6, NextKept DEF CutAt
  <2>2. sum[m + 1] = room
    <3>1. (m + 1) - 1 = m
      BY <1>2
    <3> QED BY <1>1, <2>1, <3>1, BytesStep
  <2>3. /\ next.full = (room > MaxLabel)
        /\ next.label = IF room > MaxLabel THEN text.label ELSE Append(text.label, ch)
    <3>1. next = IF room > MaxLabel THEN [text EXCEPT !.full = TRUE]
                 ELSE [text EXCEPT !.label = Append(@, ch)]
      BY <1>3, <1>6 DEF TakeChar
    <3>2. text.full = FALSE
      BY <1>6 DEF Texts
    <3> HIDE DEF next, room
    <3>3. CASE room > MaxLabel
      BY <3>1, <3>3 DEF Texts
    <3>4. CASE ~ (room > MaxLabel)
      BY <3>1, <3>2, <3>4 DEF Texts
    <3> QED BY <3>3, <3>4
  <2>4. sum[m + 1] \in Nat /\ MaxLabel \in Nat
    BY <1>1, <2>1, BytesStep, SourceLabelAssumption
  <2> HIDE DEF next, room, ch
  <2>5. CASE room > MaxLabel
    <3>1. next.full /\ next.label = SubSeq(cleaned, 1, m)
      BY <1>2, <2>3, <2>5
    <3>2. m < Len(cleaned) /\ sum[m + 1] > MaxLabel
      BY <1>1, <1>2, <2>1, <2>2, <2>5
    <3> QED BY <1>2, <3>1, <3>2 DEF CutAt, next, ch
  <2>6. CASE ~ (room > MaxLabel)
    <3>1. ~ next.full /\ next.label = SubSeq(cleaned, 1, m + 1)
      <4>1. m < Len(cleaned)
        BY <1>1, <1>2, <2>1
      <4>2. Append(SubSeq(cleaned, 1, m), cleaned[m + 1]) = SubSeq(cleaned, 1, m + 1)
        BY <1>1, <1>2, <4>1, LongerPrefix
      <4> QED BY <1>2, <2>1, <2>3, <2>6, <4>2
    <3>2. sum[m + 1] <= MaxLabel
      BY <2>2, <2>4, <2>6
    <3>3. m + 1 \in 0..Len(cleaned)
      BY <2>1
    <3> QED BY <2>1, <3>1, <3>2, <3>3 DEF CutAt, next, ch
  <2> QED BY <2>5, <2>6
<1> QED BY <1>4, <1>5, <1>6

LEMMA TextCuts ==
  ASSUME NEW label \in Seq(Char)
  PROVE  \E m : CutAt(label, TextUpto(label)[Len(label)], Len(Cleaned(label)), m)
<1> DEFINE N == Len(label)
           text == TextUpto(label)
           S == {n \in Nat : n <= N => \E m : CutAt(label, text[n], Kept(label, n), m)}
<1>1. N \in Nat
  OBVIOUS
<1>2. 0 \in S
  <2>1. Cleaned(label) \in Seq(Char) /\ Kept(label, 0) = 0
    BY CleanedLabel
  <2>2. SubSeq(Cleaned(label), 1, 0) = <<>>
    BY <2>1
  <2>3. 0 \in 0..Len(Cleaned(label)) /\ BytesUpto(Cleaned(label))[0] <= MaxLabel
    BY <2>1, BytesStep, SourceLabelAssumption
  <2>4. text[0].label = <<>> /\ text[0].full = FALSE
    BY TextStep DEF EmptyText
  <2>5. CutAt(label, text[0], Kept(label, 0), 0)
    BY <2>1, <2>2, <2>3, <2>4 DEF CutAt
  <2> QED BY <2>5
<1>3. ASSUME NEW n \in Nat, n \in S PROVE n + 1 \in S
  <2> SUFFICES ASSUME n + 1 <= N PROVE \E m : CutAt(label, text[n + 1], Kept(label, n + 1), m)
    OBVIOUS
  <2>1. n + 1 \in 1..N /\ (n + 1) - 1 = n /\ n \in 0..N
    BY <1>1
  <2>2. PICK m : CutAt(label, text[n], Kept(label, n), m)
    BY <1>3, <2>1
  <2>3. text[n] \in Texts /\ text[n + 1] = TakeChar(text[n], label[n + 1])
    BY <2>1, TextStep
  <2> HIDE DEF text
  <2> QED BY <2>1, <2>2, <2>3, TakeCharCuts
<1>4. N \in S
  <2> HIDE DEF S
  <2> QED BY <1>1, <1>2, <1>3, ClosedSetHasAll
<1> QED BY <1>1, <1>4, CleanedLabel

\* What a picker should show: the longest prefix of the cleaned label that fits.
IsLongestCut(label, shown) ==
  \E m \in 0..Len(Cleaned(label)) :
    /\ shown = SubSeq(Cleaned(label), 1, m)
    /\ Bytes(shown) <= MaxLabel
    /\ m < Len(Cleaned(label)) => Bytes(SubSeq(Cleaned(label), 1, m + 1)) > MaxLabel

\* There is one such prefix.
LEMMA LongestCutIsOne ==
  ASSUME NEW label \in Seq(Char), NEW s, NEW t, IsLongestCut(label, s), IsLongestCut(label, t)
  PROVE  s = t
<1> DEFINE cleaned == Cleaned(label)
           sum == BytesUpto(cleaned)
<1>1. cleaned \in Seq(Char) /\ Len(cleaned) \in Nat
  BY CleanedLabel
<1> DEFINE Cut(m, u) == /\ u = SubSeq(cleaned, 1, m)
                        /\ sum[m] <= MaxLabel
                        /\ m < Len(cleaned) => sum[m + 1] > MaxLabel
<1>2. ASSUME NEW u, IsLongestCut(label, u) PROVE \E m \in 0..Len(cleaned) : Cut(m, u)
  <2>1. PICK m \in 0..Len(cleaned) :
          /\ u = SubSeq(cleaned, 1, m)
          /\ Bytes(u) <= MaxLabel
          /\ m < Len(cleaned) => Bytes(SubSeq(cleaned, 1, m + 1)) > MaxLabel
    BY <1>2 DEF IsLongestCut
  <2>2. Bytes(u) = sum[m]
    BY <1>1, <2>1, Prefix
  <2>3. m < Len(cleaned) => Bytes(SubSeq(cleaned, 1, m + 1)) = sum[m + 1]
    <3>1. m < Len(cleaned) => m + 1 \in 0..Len(cleaned)
      BY <1>1
    <3> QED BY <1>1, <3>1, Prefix
  <2> QED BY <2>1, <2>2, <2>3
<1>3. PICK m \in 0..Len(cleaned) : Cut(m, s)
  BY <1>2
<1>4. PICK k \in 0..Len(cleaned) : Cut(k, t)
  BY <1>2
<1>5. ASSUME NEW i \in 0..Len(cleaned), NEW j \in 0..Len(cleaned), NEW u, NEW v,
             Cut(i, u), Cut(j, v), i < j
      PROVE  FALSE
  <2>1. i + 1 \in 0..Len(cleaned) /\ i + 1 <= j /\ i < Len(cleaned)
    BY <1>1, <1>5
  <2>2. sum[i + 1] <= sum[j]
    BY <1>1, <2>1, BytesGrow
  <2>3. sum[i + 1] > MaxLabel /\ sum[j] <= MaxLabel
    BY <1>5, <2>1
  <2>4. sum[i + 1] \in Nat /\ sum[j] \in Nat /\ MaxLabel \in Nat
    BY <1>1, <2>1, BytesStep, SourceLabelAssumption
  <2> HIDE DEF sum
  <2> QED BY <2>2, <2>3, <2>4
<1>6. m = k
  <2>1. ~ (m < k) /\ ~ (k < m)
    <3> HIDE DEF Cut
    <3> QED BY <1>3, <1>4, <1>5
  <2> QED BY <1>1, <2>1
<1> QED BY <1>3, <1>4, <1>6

\* The COSMIC backend, which cuts a cleaned label back to a character boundary, and the Hyprland
\* backend, which takes character after character until one does not fit, show the same text of
\* every label: the longest prefix of the cleaned label that fits.
THEOREM BothCutToTheLongest ==
  ASSUME NEW label \in Seq(Char)
  PROVE  /\ IsLongestCut(label, SanitizeLabel(label))
         /\ SanitizeSourceLabel(label) = SanitizeLabel(label)
<1> DEFINE cleaned == Cleaned(label)
           sum == BytesUpto(cleaned)
<1>1. cleaned \in Seq(Char) /\ Len(cleaned) \in Nat
  BY CleanedLabel
<1>2. ASSUME NEW n \in 0..Len(cleaned) PROVE Bytes(SubSeq(cleaned, 1, n)) = sum[n]
  BY <1>1, Prefix
<1>3. IsLongestCut(label, SanitizeSourceLabel(label))
  <2> DEFINE shown == SanitizeSourceLabel(label)
             text  == TextUpto(label)[Len(label)]
  <2>1. shown = text.label
    BY DEF SanitizeSourceLabel
  <2>2. PICK m : CutAt(label, text, Len(cleaned), m)
    BY TextCuts
  <2>3. /\ m \in 0..Len(cleaned) /\ shown = SubSeq(cleaned, 1, m) /\ sum[m] <= MaxLabel
        /\ m < Len(cleaned) => sum[m + 1] > MaxLabel
    <3>1. m < Len(cleaned) => text.full
      BY <1>1, <2>2 DEF CutAt
    <3> QED BY <2>1, <2>2, <3>1 DEF CutAt
  <2>4. Bytes(shown) <= MaxLabel
    BY <1>2, <2>3
  <2>5. m < Len(cleaned) => Bytes(SubSeq(cleaned, 1, m + 1)) > MaxLabel
    <3>1. m < Len(cleaned) => m + 1 \in 0..Len(cleaned)
      BY <1>1, <2>3
    <3> QED BY <1>2, <2>3, <3>1
  <2> HIDE DEF shown
  <2>6. IsLongestCut(label, shown)
    BY <2>3, <2>4, <2>5 DEF IsLongestCut
  <2> QED BY <2>6 DEF shown
<1>4. IsLongestCut(label, SanitizeLabel(label))
  <2> DEFINE Fits == {n \in 0..Len(cleaned) : Bytes(SubSeq(cleaned, 1, n)) <= MaxLabel}
             m == Max(Fits)
  <2>1. SanitizeLabel(label) = SubSeq(cleaned, 1, m)
    BY DEF SanitizeLabel
  <2>2. PICK k \in Fits : \A n \in Fits : k >= n
    <3>1. PICK k \in 0..Len(cleaned) :
            /\ Bytes(SubSeq(cleaned, 1, k)) <= MaxLabel
            /\ k < Len(cleaned) => Bytes(SubSeq(cleaned, 1, k + 1)) > MaxLabel
      BY <1>3 DEF IsLongestCut
    <3>2. ASSUME NEW n \in Fits, ~ (k >= n) PROVE FALSE
      <4>1. n \in 0..Len(cleaned) /\ k + 1 \in 0..Len(cleaned) /\ k + 1 <= n /\ k < Len(cleaned)
        BY <1>1, <3>1, <3>2
      <4>2. sum[k + 1] <= sum[n]
        BY <1>1, <4>1, BytesGrow
      <4>3. sum[k + 1] > MaxLabel /\ sum[n] <= MaxLabel
        BY <1>2, <3>1, <3>2, <4>1
      <4>4. sum[k + 1] \in Nat /\ sum[n] \in Nat /\ MaxLabel \in Nat
        BY <1>1, <4>1, BytesStep, SourceLabelAssumption
      <4> HIDE DEF sum
      <4> QED BY <4>2, <4>3, <4>4
    <3> QED BY <3>1, <3>2
  <2>3. m \in Fits /\ \A n \in Fits : m >= n
    <3> HIDE DEF Fits
    <3> QED BY <2>2 DEF Max
  <2> HIDE DEF m
  <2>4. m \in 0..Len(cleaned) /\ Bytes(SubSeq(cleaned, 1, m)) <= MaxLabel
    BY <2>3
  <2>5. ASSUME m < Len(cleaned) PROVE Bytes(SubSeq(cleaned, 1, m + 1)) > MaxLabel
    <3>1. m + 1 \in 0..Len(cleaned) /\ ~ (m >= m + 1)
      BY <1>1, <2>4, <2>5
    <3>2. m + 1 \notin Fits
      BY <2>3, <3>1
    <3>3. ~ (Bytes(SubSeq(cleaned, 1, m + 1)) <= MaxLabel)
      BY <3>1, <3>2
    <3>4. Bytes(SubSeq(cleaned, 1, m + 1)) \in Nat /\ MaxLabel \in Nat
      BY <1>1, <1>2, <3>1, BytesStep, SourceLabelAssumption
    <3> QED BY <3>3, <3>4
  <2> QED BY <2>1, <2>4, <2>5 DEF IsLongestCut
<1>5. SanitizeSourceLabel(label) = SanitizeLabel(label)
  BY <1>3, <1>4, LongestCutIsOne
<1> QED BY <1>4, <1>5

\* Cleaning leaves no more bytes.
LEMMA CleanedIsShorter ==
  ASSUME NEW label \in Seq(Char)
  PROVE  Bytes(Cleaned(label)) <= Bytes(label)
<1> DEFINE N == Len(label)
           cleaned == Cleaned(label)
           ours   == BytesUpto(cleaned)
           theirs == BytesUpto(label)
           S == {n \in Nat : n <= N => /\ Kept(label, n) \in 0..Len(cleaned)
                                       /\ ours[Kept(label, n)] <= theirs[n]}
<1>1. /\ cleaned \in Seq(Char) /\ Len(cleaned) \in Nat /\ N \in Nat
      /\ Kept(label, 0) = 0 /\ Kept(label, N) = Len(cleaned)
  BY CleanedLabel
<1>2. /\ ours \in [0..Len(cleaned) -> Nat] /\ ours[0] = 0
      /\ \A n \in 1..Len(cleaned) : ours[n] = ours[n - 1] + cleaned[n].bytes
  BY <1>1, BytesStep
<1>3. /\ theirs \in [0..N -> Nat] /\ theirs[0] = 0
      /\ \A n \in 1..N : theirs[n] = theirs[n - 1] + label[n].bytes
  BY BytesStep
<1>4. \A n \in 1..N : label[n].bytes \in Nat
  <2>1. \A n \in 1..N : label[n] \in Char
    OBVIOUS
  <2>2. \A ch \in Char : ch.bytes \in 1..4
    BY DEF Char
  <2> QED BY <2>1, <2>2
<1>5. 0 \in S
  BY <1>1, <1>2, <1>3
<1>6. ASSUME NEW n \in Nat, n \in S PROVE n + 1 \in S
  <2> DEFINE k == n + 1
             c == Kept(label, n)
             d == Kept(label, k)
  <2> SUFFICES ASSUME k <= N PROVE d \in 0..Len(cleaned) /\ ours[d] <= theirs[k]
    OBVIOUS
  <2>1. k \in 1..N /\ k - 1 = n /\ n \in 0..N
    BY <1>1
  <2>2. c \in 0..Len(cleaned) /\ ours[c] <= theirs[n]
    BY <1>6, <2>1
  <2>3. theirs[k] = theirs[n] + label[k].bytes /\ label[k].bytes \in Nat /\ theirs[n] \in Nat
    BY <1>3, <1>4, <2>1
  <2>4. ours[c] \in Nat
    BY <1>2, <2>2
  <2>5. /\ label[k].control => d = c
        /\ ~ label[k].control => d = c + 1 /\ d \in 1..Len(cleaned) /\ cleaned[d] = label[k]
    BY <2>1, NextKept
  <2> HIDE DEF c, d, ours, theirs, k
  <2>6. CASE label[k].control
    BY <2>2, <2>3, <2>4, <2>5, <2>6
  <2>7. CASE ~ label[k].control
    <3>1. d - 1 = c /\ d \in 0..Len(cleaned)
      BY <2>2, <2>5, <2>7
    <3>2. ours[d] = ours[c] + label[k].bytes
      BY <1>2, <2>5, <2>7, <3>1
    <3> QED BY <2>2, <2>3, <2>4, <3>1, <3>2
  <2> QED BY <2>6, <2>7
<1>7. N \in S
  <2> HIDE DEF S
  <2> QED BY <1>1, <1>5, <1>6, ClosedSetHasAll
<1> QED BY <1>1, <1>7 DEF Bytes

\* A label within the limit reaches the pickers whole but for its control characters.
THEOREM LabelWithinLimitIsWhole ==
  ASSUME NEW label \in Seq(Char), Bytes(label) <= MaxLabel
  PROVE  SanitizeSourceLabel(label) = Cleaned(label) /\ SanitizeLabel(label) = Cleaned(label)
<1> DEFINE cleaned == Cleaned(label)
           N == Len(cleaned)
<1>1. cleaned \in Seq(Char) /\ N \in Nat
  BY CleanedLabel
<1>2. SubSeq(cleaned, 1, N) = cleaned
  BY <1>1
<1>3. Bytes(cleaned) <= MaxLabel
  <2>1. Bytes(cleaned) <= Bytes(label)
    BY CleanedIsShorter
  <2>2. Bytes(cleaned) \in Nat /\ Bytes(label) \in Nat /\ MaxLabel \in Nat
    BY <1>1, BytesCount, SourceLabelAssumption
  <2> QED BY <2>1, <2>2
<1>4. N \in 0..N /\ ~ (N < N)
  BY <1>1
<1>5. IsLongestCut(label, cleaned)
  BY <1>2, <1>3, <1>4 DEF IsLongestCut
<1>6. IsLongestCut(label, SanitizeLabel(label)) /\ SanitizeSourceLabel(label) = SanitizeLabel(label)
  BY BothCutToTheLongest
<1> QED BY <1>5, <1>6, LongestCutIsOne

(***************************************************************************)
(* The label on its way through a call.                                    *)
(***************************************************************************)
LabelInv ==
  /\ given.label \in Seq(Char)
  /\ (call.at = "created" \/ (call.at = "selecting" /\ version >= 6)) =>
       call.label = given.label /\ LibportalAccepts(given.label)

LEMMA LabelInvShows == LabelInv => PickersShowTheLabel
<1> SUFFICES ASSUME LabelInv PROVE PickersShowTheLabel
  OBVIOUS
<1>1. given.label \in Seq(Char)
  BY DEF LabelInv
<1>2. SanitizeLabel(given.label) = SanitizeSourceLabel(given.label)
  BY <1>1, BothCutToTheLongest
<1>3. ASSUME call.at = "selecting", version >= 6
      PROVE  ValidateSourceLabel(call.label) /\ SanitizeSourceLabel(call.label) = Cleaned(given.label)
  <2>1. call.label = given.label /\ Bytes(given.label) <= MaxLabel
    BY <1>3 DEF LabelInv, LibportalAccepts
  <2> QED BY <1>1, <2>1, LabelWithinLimitIsWhole DEF ValidateSourceLabel
<1> QED BY <1>2, <1>3 DEF PickersShowTheLabel

\* Both pickers show the same text of the label that an application gives to a call, and what
\* libportal sends on is accepted by the front end and shown whole.
THEOREM PickersShowAlike == CallSpec => []PickersShowTheLabel
<1>1. CallInit => LabelInv
  BY DEF CallInit, NoCall, LabelInv
<1>2. LabelInv /\ [CallNext]_callVars => LabelInv'
  <2> SUFFICES ASSUME LabelInv, [CallNext]_callVars PROVE LabelInv'
    OBVIOUS
  <2>1. ASSUME call' = call, given' = given, version' = version PROVE LabelInv'
    BY <2>1 DEF LabelInv, LibportalAccepts, Bytes, BytesUpto
  <2>2. CASE UsePolicy
    BY <2>1, <2>2 DEF UsePolicy
  <2>3. ASSUME NEW in \in Inputs, NEW withPolicy \in BOOLEAN,
               CreateScreencastSessionFull(in, withPolicy)
        PROVE  LabelInv'
    <3>1. in.label \in Seq(Char) /\ given'.label = in.label
      BY <2>3, CallAssumption DEF CreateScreencastSessionFull
    <3>2. CASE Refuse
      BY <3>1, <3>2 DEF Refuse, LabelInv
    <3>3. CASE ~ Refuse
      <4>1. LibportalAccepts(in.label) /\ call'.at = "created" /\ call'.label = in.label
        BY <2>3, <3>3 DEF CreateScreencastSessionFull
      <4> QED BY <3>1, <4>1 DEF LabelInv, LibportalAccepts, Bytes, BytesUpto
    <3> QED BY <3>2, <3>3
  <2>4. CASE GetScreencastInterfaceVersion
    <3>1. call.at = "created" /\ call' = call /\ given' = given
      BY <2>4 DEF GetScreencastInterfaceVersion
    <3> QED BY <3>1 DEF LabelInv, LibportalAccepts, Bytes, BytesUpto
  <2>5. CASE SelectSources
    <3>1. call.at = "created" /\ call'.at = "selecting" /\ given' = given /\ version' = version
      BY <2>5 DEF SelectSources
    <3>2. version >= 6 => call'.label = call.label
      BY <2>5 DEF SelectSources
    <3> QED BY <3>1, <3>2 DEF LabelInv, LibportalAccepts, Bytes, BytesUpto
  <2>6. ASSUME NEW code \in 0..2, SourcesSelected(code) \/ SessionStarted(code)
        PROVE  LabelInv'
    <3>1. call'.at \in {"session", "ended"} /\ given' = given
      BY <2>6 DEF SourcesSelected, SessionStarted, Answer
    <3> QED BY <3>1 DEF LabelInv
  <2>7. CASE UNCHANGED callVars
    BY <2>1, <2>7 DEF callVars
  <2> QED BY <2>2, <2>3, <2>4, <2>5, <2>6, <2>7 DEF CallNext
<1> QED BY <1>1, <1>2, LabelInvShows, PTL DEF CallSpec
==============================================================================
