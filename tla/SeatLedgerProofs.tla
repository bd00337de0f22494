-------------------------- MODULE SeatLedgerProofs --------------------------
(***************************************************************************)
(* SeatLedger keeps its promise for every stock and every finite set of    *)
(* people.                                                                 *)
(***************************************************************************)
EXTENDS SeatLedger, FiniteSetTheorems, TLAPS

\* Only people who were granted a seat are counted or excused.
THEOREM LedgerTypeCorrect == LedgerSpec => []LedgerTypeOK
<1>1. LedgerInit => LedgerTypeOK
  BY DEF LedgerInit, LedgerTypeOK
<1>2. LedgerTypeOK /\ [LedgerNext]_ledgerVars => LedgerTypeOK'
  BY DEF LedgerTypeOK, LedgerNext, ledgerVars, Grant, Excuse, Leave, Return
<1>3. QED
  BY <1>1, <1>2, PTL DEF LedgerSpec

\* One more element adds at most one to the cardinality, and a subset has no
\* more elements than the set.
LEMMA SubsetAfterAdd ==
  ASSUME NEW S, IsFiniteSet(S), NEW x, NEW T, T \subseteq S \cup {x},
         NEW n \in Nat, Cardinality(S) < n
  PROVE  IsFiniteSet(T) /\ Cardinality(T) <= n
<1>1. IsFiniteSet(S \cup {x}) /\ Cardinality(S \cup {x}) \in Nat
  BY FS_AddElement, FS_CardinalityType
<1>2. Cardinality(S \cup {x}) <= Cardinality(S) + 1
  BY FS_AddElement, FS_CardinalityType
<1>3. IsFiniteSet(T) /\ Cardinality(T) <= Cardinality(S \cup {x})
  BY <1>1, FS_Subset
<1>4. Cardinality(T) \in Nat /\ Cardinality(S) \in Nat
  BY <1>3, FS_CardinalityType
<1>5. QED
  BY <1>1, <1>2, <1>3, <1>4

\* The seats nobody excused never exceed the stock: only Grant adds one, and
\* it finds fewer than `Stock' seats counted.
THEOREM LedgerSafe ==
  ASSUME IsFiniteSet(Attendees), Stock \in Nat
  PROVE  LedgerSpec => []WithinStock
<1>1. LedgerInit => WithinStock
  <2>1. Cardinality({}) = 0
    BY FS_EmptySet
  <2>2. QED
    BY <2>1 DEF LedgerInit, WithinStock
<1>2. LedgerTypeOK /\ WithinStock /\ [LedgerNext]_ledgerVars => WithinStock'
  <2> SUFFICES ASSUME LedgerTypeOK, WithinStock, [LedgerNext]_ledgerVars
               PROVE  WithinStock'
    OBVIOUS
  <2>1. IsFiniteSet(counted) /\ IsFiniteSet(counted \ excused)
    <3>1. counted \subseteq Attendees /\ counted \ excused \subseteq Attendees
      BY DEF LedgerTypeOK
    <3>2. QED
      BY <3>1, FS_Subset
  <2>2. ASSUME (counted \ excused)' \subseteq counted \ excused
        PROVE  WithinStock'
    <3>1. /\ Cardinality((counted \ excused)') <= Cardinality(counted \ excused)
          /\ IsFiniteSet((counted \ excused)')
      BY <2>1, <2>2, FS_Subset
    <3>2. /\ Cardinality(counted \ excused) \in Nat
          /\ Cardinality((counted \ excused)') \in Nat
      BY <2>1, <3>1, FS_CardinalityType
    <3>3. QED
      BY <3>1, <3>2 DEF WithinStock
  <2>3. ASSUME NEW a \in Attendees, Grant(a)
        PROVE  WithinStock'
    <3>1. (counted \ excused)' \subseteq counted \cup {a}
      BY <2>3 DEF Grant
    <3>2. Cardinality(counted) < Stock
      BY <2>3 DEF Grant
    <3>3. Cardinality((counted \ excused)') <= Stock
      BY <2>1, <3>1, <3>2, SubsetAfterAdd
    <3>4. QED
      BY <3>3 DEF WithinStock
  <2>4. ASSUME NEW a \in Attendees, Excuse(a) \/ Leave(a) \/ Return(a)
        PROVE  WithinStock'
    <3>1. (counted \ excused)' \subseteq counted \ excused
      BY <2>4 DEF Excuse, Leave, Return
    <3>2. QED
      BY <2>2, <3>1
  <2>5. CASE UNCHANGED ledgerVars
    BY <2>5, <2>2 DEF ledgerVars
  <2>6. QED
    BY <2>3, <2>4, <2>5 DEF LedgerNext
<1>3. QED
  BY <1>1, <1>2, LedgerTypeCorrect, PTL DEF LedgerSpec

=============================================================================
