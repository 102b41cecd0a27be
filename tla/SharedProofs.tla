----------------------------- MODULE SharedProofs -----------------------------
(***************************************************************************)
(* What several components rest on: the agreement of the three resolvers,  *)
(* for every policy a client may send; what a filter leaves of a list; and *)
(* two facts that stand in for induction: a set of naturals that is closed *)
(* under successor, and a fold.                                            *)
(***************************************************************************)
EXTENDS RestoreActions, Positions, WellFoundedInduction, FiniteSetTheorems, SequenceTheorems,
        TLAPS

\* For every object the validators let through, the front end, the mock and the COSMIC backend
\* take the same action: unknown values, unknown reasons and a missing default included.
THEOREM ResolversAgreeOnTheWire ==
  ASSUME NEW p, IsWirePolicy(p), NEW reason \in Reasons
  PROVE  /\ XdpAction(p, reason) \in Known
         /\ MockAction(p, reason) = XdpAction(p, reason)
         /\ CosmicAction(p, reason) = XdpAction(p, reason)
<1> USE RestoreActionsAssumption
    DEF IsWirePolicy, Known, Prompt, Skip, Error
<1>1. XdpAction(p, reason) \in Known
  BY DEF XdpAction
<1>2. MockAction(p, reason) = XdpAction(p, reason)
  <2>1. CASE reason \in DOMAIN p.actions /\ p.actions[reason] \in Known
    BY <2>1 DEF MockAction, ActionFor, ParseRestorePolicy, XdpAction
  <2>2. CASE ~ (reason \in DOMAIN p.actions /\ p.actions[reason] \in Known)
    <3>1. reason \notin DOMAIN ParseRestorePolicy(p).actions
      BY <2>2 DEF ParseRestorePolicy
    <3>2. ParseRestorePolicy(p).default
            = IF p.default \in Known THEN p.default ELSE Absent
      BY DEF ParseRestorePolicy
    <3> QED BY <2>2, <3>1, <3>2 DEF MockAction, ActionFor, XdpAction
  <2> QED BY <2>1, <2>2
<1>3. CosmicAction(p, reason) = XdpAction(p, reason)
  BY DEF CosmicAction, FilterAction, XdpAction
<1> QED BY <1>1, <1>2, <1>3

(***************************************************************************)
(* Induction.                                                              *)
(***************************************************************************)
LEMMA LeastNatural ==
  ASSUME NEW S \in SUBSET Nat, S # {}
  PROVE  \E x \in S : \A y \in S : x <= y
<1> DEFINE R == {ss \in Nat \X Nat : ss[1] < ss[2]}
<1>1. IsWellFoundedOn(R, Nat)
  BY NatLessThanWellFounded DEF OpToRel
<1>2. PICK x \in S : \A y \in S : ~ (<<y, x>> \in R)
  BY <1>1, WFMin
<1>3. ASSUME NEW y \in S PROVE x <= y
  <2>1. <<y, x>> \in Nat \X Nat /\ <<y, x>> \notin R
    BY <1>2
  <2> QED BY <2>1
<1> QED BY <1>3

\* A set that has 0, and n + 1 with every n, has all naturals.
LEMMA ClosedSetHasAll ==
  ASSUME NEW S, 0 \in S, \A n \in Nat : n \in S => n + 1 \in S
  PROVE  \A n \in Nat : n \in S
<1> DEFINE missing == Nat \ S
<1> SUFFICES ASSUME missing # {} PROVE FALSE
  OBVIOUS
<1>1. PICK x \in missing : \A y \in missing : x <= y
  BY LeastNatural
<1>2. x # 0 /\ x - 1 \in Nat
  BY <1>1
<1>3. x - 1 \in S
  BY <1>1, <1>2
<1>4. (x - 1) + 1 \in S
  BY <1>2, <1>3
<1> QED BY <1>1, <1>4

IsFold(f, N, first, step) ==
  f = [n \in 0..N |-> IF n = 0 THEN first ELSE step[<<n, f[n - 1]>>]]

\* The values of a fold exist: each follows from the one before it.
LEMMA FoldExists ==
  ASSUME NEW N \in Nat, NEW A, NEW first \in A, NEW step \in [(1..N) \X A -> A]
  PROVE  \E f \in [0..N -> A] : IsFold(f, N, first, step)
<1> DEFINE Upto(m, f) == f[0] = first /\ \A n \in 1..m : f[n] = step[<<n, f[n - 1]>>]
           S == {m \in Nat : m <= N => \E f \in [0..m -> A] : Upto(m, f)}
<1>1. 0 \in S
  <2>1. [n \in 0..0 |-> first] \in [0..0 -> A] /\ Upto(0, [n \in 0..0 |-> first])
    OBVIOUS
  <2> QED BY <2>1
<1>2. ASSUME NEW m \in Nat, m \in S PROVE m + 1 \in S
  <2> SUFFICES ASSUME m + 1 <= N PROVE \E f \in [0..(m + 1) -> A] : Upto(m + 1, f)
    OBVIOUS
  <2>1. PICK f \in [0..m -> A] : Upto(m, f)
    BY <1>2
  <2> DEFINE last == step[<<m + 1, f[m]>>]
             g    == [n \in 0..(m + 1) |-> IF n = m + 1 THEN last ELSE f[n]]
  <2>2. last \in A
    <3>1. f[m] \in A /\ m + 1 \in 1..N
      BY <2>1
    <3> QED BY <3>1
  <2> HIDE DEF last
  <2>3. g \in [0..(m + 1) -> A]
    BY <2>1, <2>2
  <2>4. g[0] = first
    BY <2>1
  <2>5. ASSUME NEW n \in 1..(m + 1) PROVE g[n] = step[<<n, g[n - 1]>>]
    <3>1. n - 1 \in 0..m /\ n - 1 # m + 1 /\ n \in 0..(m + 1) /\ n - 1 \in 0..(m + 1)
      OBVIOUS
    <3>2. g[n - 1] = f[n - 1]
      BY <3>1
    <3>3. CASE n = m + 1
      <4>1. g[n] = last
        BY <3>1, <3>3
      <4>2. n - 1 = m
        BY <3>3
      <4> QED BY <3>2, <3>3, <4>1, <4>2 DEF last
    <3>4. CASE n # m + 1
      <4>1. n \in 1..m
        BY <3>4
      <4> QED BY <2>1, <3>1, <3>2, <3>4, <4>1
    <3> QED BY <3>3, <3>4
  <2> HIDE DEF g
  <2> QED BY <2>3, <2>4, <2>5
<1>3. N \in S
  <2> HIDE DEF S
  <2> QED BY <1>1, <1>2, ClosedSetHasAll
<1>4. PICK f \in [0..N -> A] : Upto(N, f)
  BY <1>3
<1>5. f = [n \in 0..N |-> IF n = 0 THEN first ELSE step[<<n, f[n - 1]>>]]
  <2>1. f = [n \in 0..N |-> f[n]]
    OBVIOUS
  <2>2. ASSUME NEW n \in 0..N PROVE f[n] = IF n = 0 THEN first ELSE step[<<n, f[n - 1]>>]
    BY <1>4
  <2> QED BY <2>1, <2>2
<1> QED BY <1>5 DEF IsFold

(***************************************************************************)
(* A filter: every entry it leaves is one of the list, at a position it    *)
(* selects.                                                                *)
(***************************************************************************)
LEMMA UptoCount ==
  ASSUME NEW n \in Nat
  PROVE  IsFiniteSet(1..n) /\ Cardinality(1..n) = n
<1>1. n \in Int /\ 1 \in Int
  OBVIOUS
<1> QED BY <1>1, FS_Interval

LEMMA PartIsFinite ==
  ASSUME NEW n \in Nat, NEW S \in SUBSET (1..n)
  PROVE  IsFiniteSet(S) /\ Cardinality(S) \in Nat
<1>1. IsFiniteSet(1..n)
  BY FS_Interval
<1>2. S \subseteq 1..n
  OBVIOUS
<1>3. IsFiniteSet(S)
  BY <1>1, <1>2, FS_Subset
<1> QED BY <1>3, FS_CardinalityType

LEMMA NthIn ==
  ASSUME NEW n \in Nat, NEW S \in SUBSET (1..n), NEW j \in 1..Cardinality(S)
  PROVE  Nth(S, j) \in S /\ Cardinality({i \in S : i < Nth(S, j)}) = j - 1
<1> DEFINE Lower(k) == {i \in S : i < k}
           count(k) == Cardinality(Lower(k))
           full     == {k \in 1..(n + 1) : j <= count(k)}
<1>0. \A i \in S : i \in Nat /\ 1 <= i /\ i <= n
  OBVIOUS
<1>1. IsFiniteSet(S) /\ Cardinality(S) \in Nat
  BY PartIsFinite
<1>2. ASSUME NEW k PROVE IsFiniteSet(Lower(k)) /\ count(k) \in Nat
  <2>1. Lower(k) \subseteq S
    OBVIOUS
  <2>2. IsFiniteSet(Lower(k))
    BY <1>1, <2>1, FS_Subset
  <2> QED BY <2>2, FS_CardinalityType
<1>3. count(1) = 0
  <2>1. \A i \in S : ~ (i < 1)
    BY <1>0
  <2>2. Lower(1) = {}
    BY <2>1
  <2> QED BY <2>2, FS_EmptySet
<1>4. n + 1 \in full
  <2>1. \A i \in S : i < n + 1
    BY <1>0
  <2>2. Lower(n + 1) = S
    BY <2>1
  <2> QED BY <1>1, <2>2
<1>5. full \in SUBSET Nat
  OBVIOUS
<1> HIDE DEF count, Lower
<1>6. PICK b \in full : \A k \in full : b <= k
  BY <1>4, <1>5, LeastNatural
<1> DEFINE a == b - 1
<1>7. b \in 1..(n + 1) /\ j <= count(b)
  BY <1>6
<1>8. b # 1
  BY <1>3, <1>7
<1>9. a \in 1..n /\ b = a + 1 /\ a + 1 # a
  BY <1>7, <1>8
<1>10. count(a) < j
  <2>1. a \notin full
    BY <1>5, <1>6, <1>9
  <2>2. a \in 1..(n + 1)
    BY <1>9
  <2> QED BY <1>2, <2>1, <2>2
<1>11. a \in S
  <2>1. ASSUME a \notin S PROVE Lower(b) = Lower(a)
    <3>1. \A i \in S : i < b <=> i < a
      BY <1>0, <1>9, <2>1
    <3> QED BY <3>1 DEF Lower
  <2> QED BY <1>2, <1>7, <1>10, <2>1 DEF count
<1>12. count(b) = count(a) + 1
  <2>1. Lower(b) = Lower(a) \cup {a} /\ a \notin Lower(a)
    <3>1. \A i \in S : i < b <=> i < a \/ i = a
      BY <1>0, <1>9
    <3>2. ~ (a < a) /\ a < b
      BY <1>9
    <3> QED BY <1>11, <3>1, <3>2 DEF Lower
  <2> QED BY <1>2, <2>1, FS_AddElement DEF count
<1>13. count(a) = j - 1
  BY <1>2, <1>7, <1>10, <1>12
<1> DEFINE IsNth(k) == k \in S /\ Cardinality({i \in S : i < k}) = j - 1
<1>14. IsNth(a)
  BY <1>11, <1>13 DEF count, Lower
<1>15. Nth(S, j) = CHOOSE k \in S : Cardinality({i \in S : i < k}) = j - 1
  BY DEF Nth
<1>16. IsNth(Nth(S, j))
  BY <1>14, <1>15
<1> QED BY <1>16

\* The selected positions below one of the list.
Below(S, k) == {i \in S : i < k}

LEMMA BelowStep ==
  ASSUME NEW n \in Nat, NEW S \in SUBSET (1..n), NEW k \in Nat
  PROVE  /\ Cardinality(Below(S, k)) \in Nat
         /\ k \notin S => Cardinality(Below(S, k + 1)) = Cardinality(Below(S, k))
         /\ k \in S => /\ Cardinality(Below(S, k + 1)) = Cardinality(Below(S, k)) + 1
                        /\ Cardinality(Below(S, k + 1)) <= Cardinality(S)
<1>0. \A i \in S : i \in Nat
  OBVIOUS
<1>1. IsFiniteSet(S) /\ Below(S, k) \subseteq S /\ Below(S, k + 1) \subseteq S
  BY PartIsFinite DEF Below
<1>2. IsFiniteSet(Below(S, k)) /\ Cardinality(Below(S, k)) \in Nat
  BY <1>1, FS_Subset, FS_CardinalityType
<1>3. ASSUME k \notin S PROVE Below(S, k + 1) = Below(S, k)
  <2>1. \A i \in S : i < k + 1 <=> i < k
    BY <1>0, <1>3
  <2> QED BY <2>1 DEF Below
<1>4. ASSUME k \in S
      PROVE  Below(S, k + 1) = Below(S, k) \cup {k} /\ k \notin Below(S, k)
  <2>1. \A i \in S : i < k + 1 <=> i < k \/ i = k
    BY <1>0
  <2>2. ~ (k < k)
    OBVIOUS
  <2> QED BY <1>4, <2>1, <2>2 DEF Below
<1>5. ASSUME k \in S PROVE Cardinality(Below(S, k + 1)) = Cardinality(Below(S, k)) + 1
  BY <1>2, <1>4, <1>5, FS_AddElement
<1>6. Cardinality(Below(S, k + 1)) <= Cardinality(S)
  BY <1>1, FS_Subset
<1> QED BY <1>2, <1>3, <1>5, <1>6

\* Of two selected positions the later has more below it.
LEMMA LaterHasMoreBelow ==
  ASSUME NEW n \in Nat, NEW S \in SUBSET (1..n), NEW k \in S, NEW l \in Nat, k < l
  PROVE  Cardinality(Below(S, k)) < Cardinality(Below(S, l))
<1>1. /\ Cardinality(Below(S, k + 1)) = Cardinality(Below(S, k)) + 1
      /\ Cardinality(Below(S, k)) \in Nat /\ Cardinality(Below(S, l)) \in Nat
  <2>1. k \in Nat
    OBVIOUS
  <2> QED BY <2>1, BelowStep
<1>2. IsFiniteSet(Below(S, l))
  <2>1. IsFiniteSet(S) /\ Below(S, l) \subseteq S
    BY PartIsFinite DEF Below
  <2> QED BY <2>1, FS_Subset
<1>3. Below(S, k + 1) \subseteq Below(S, l)
  <2>1. \A i \in S : i < k + 1 => i < l
    OBVIOUS
  <2> QED BY <2>1 DEF Below
<1>4. Cardinality(Below(S, k + 1)) <= Cardinality(Below(S, l))
  BY <1>2, <1>3, FS_Subset
<1> QED BY <1>1, <1>4

\* The position that has j - 1 selected ones below it is the j-th.
LEMMA NthIs ==
  ASSUME NEW n \in Nat, NEW S \in SUBSET (1..n), NEW k \in S
  PROVE  /\ Cardinality(Below(S, k)) + 1 \in 1..Cardinality(S)
         /\ Nth(S, Cardinality(Below(S, k)) + 1) = k
<1> DEFINE c == Cardinality(Below(S, k))
           l == Nth(S, c + 1)
<1>0. k \in Nat /\ \A i \in S : i \in Nat
  OBVIOUS
<1>1. c \in Nat /\ c + 1 \in 1..Cardinality(S)
  <2>1. Cardinality(S) \in Nat
    BY PartIsFinite
  <2>2. c \in Nat /\ Cardinality(Below(S, k + 1)) = c + 1 /\ Cardinality(Below(S, k + 1)) <= Cardinality(S)
    BY <1>0, BelowStep
  <2> HIDE DEF c
  <2> QED BY <2>1, <2>2
<1>2. l \in S /\ Cardinality(Below(S, l)) = (c + 1) - 1
  BY <1>1, NthIn DEF Below
<1> HIDE DEF c, l
<1>3. Cardinality(Below(S, l)) = c
  BY <1>1, <1>2
<1>4. ASSUME l < k PROVE FALSE
  <2>1. Cardinality(Below(S, l)) < Cardinality(Below(S, k))
    BY <1>0, <1>2, <1>4, LaterHasMoreBelow
  <2> QED BY <1>1, <1>3, <2>1 DEF c
<1>5. ASSUME k < l PROVE FALSE
  <2>1. Cardinality(Below(S, k)) < Cardinality(Below(S, l))
    BY <1>0, <1>2, <1>5, LaterHasMoreBelow
  <2> QED BY <1>1, <1>3, <2>1 DEF c
<1>6. l = k
  BY <1>0, <1>2, <1>4, <1>5
<1> QED BY <1>1, <1>6 DEF c, l

LEMMA ChosenFrom ==
  ASSUME NEW n \in Nat, NEW S \in SUBSET (1..n), NEW list
  PROVE  /\ Cardinality(S) \in Nat /\ Len(Chosen(list, S)) = Cardinality(S)
         /\ DOMAIN Chosen(list, S) = 1..Cardinality(S)
         /\ \A j \in DOMAIN Chosen(list, S) : /\ Nth(S, j) \in S
                                              /\ Chosen(list, S)[j] = list[Nth(S, j)]
<1>1. Cardinality(S) \in Nat
  BY PartIsFinite
<1>2. DOMAIN Chosen(list, S) = 1..Cardinality(S)
  BY DEF Chosen
<1>3. Len(Chosen(list, S)) = Cardinality(S)
  BY <1>1, <1>2
<1>4. \A j \in DOMAIN Chosen(list, S) : /\ Nth(S, j) \in S
                                        /\ Chosen(list, S)[j] = list[Nth(S, j)]
  BY <1>2, NthIn DEF Chosen
<1> QED BY <1>1, <1>2, <1>3, <1>4

\* A filter that selects everything leaves the list.
LEMMA ChosenWhole ==
  ASSUME NEW n \in Nat, NEW list, DOMAIN list = 1..n, list = [i \in 1..n |-> list[i]]
  PROVE  Chosen(list, 1..n) = list
<1>1. Cardinality(1..n) = n
  BY UptoCount
<1>2. ASSUME NEW k \in 1..n PROVE Below(1..n, k) = 1..(k - 1)
  BY DEF Below
<1>3. ASSUME NEW k \in 1..n PROVE Cardinality(Below(1..n, k)) + 1 = k
  <2>1. k - 1 \in Nat
    OBVIOUS
  <2>2. Cardinality(1..(k - 1)) = k - 1
    BY <2>1, UptoCount
  <2> QED BY <1>2, <2>2
<1>4. ASSUME NEW k \in 1..n PROVE Nth(1..n, k) = k
  BY <1>3, NthIs
<1> QED BY <1>1, <1>4 DEF Chosen

\* A filter by positions is a filter: every selected entry is left, no other is, and each comes
\* after those that it came after in the list.
THEOREM ChosenKeepsOrder ==
  ASSUME NEW n \in Nat, NEW S \in SUBSET (1..n), NEW list
  PROVE  /\ DOMAIN Chosen(list, S) = 1..Cardinality(S)
         /\ \A j \in 1..Cardinality(S) : Nth(S, j) \in S /\ Chosen(list, S)[j] = list[Nth(S, j)]
         /\ \A k \in S : \E j \in 1..Cardinality(S) : Nth(S, j) = k
         /\ \A i, j \in 1..Cardinality(S) : i < j => Nth(S, i) < Nth(S, j)
<1>1. \A k \in S : \E j \in 1..Cardinality(S) : Nth(S, j) = k
  BY NthIs
<1>2. ASSUME NEW i \in 1..Cardinality(S), NEW j \in 1..Cardinality(S), i < j
      PROVE  Nth(S, i) < Nth(S, j)
  <2> DEFINE k == Nth(S, i)
             l == Nth(S, j)
  <2>1. /\ k \in S /\ Cardinality(Below(S, k)) = i - 1
        /\ l \in S /\ Cardinality(Below(S, l)) = j - 1
    BY NthIn DEF Below
  <2> HIDE DEF k, l
  <2>2. k \in Nat /\ l \in Nat
    BY <2>1
  <2>3. ~ (l < k)
    <3>1. ASSUME l < k PROVE j - 1 < i - 1
      BY <2>1, <2>2, <3>1, LaterHasMoreBelow
    <3>2. Cardinality(S) \in Nat
      BY PartIsFinite
    <3> QED BY <1>2, <3>1, <3>2
  <2>4. l # k
    <3>1. Cardinality(S) \in Nat
      BY PartIsFinite
    <3> QED BY <1>2, <2>1, <3>1
  <2> QED BY <2>2, <2>3, <2>4 DEF k, l
<1> QED BY <1>1, <1>2, ChosenFrom
==============================================================================
