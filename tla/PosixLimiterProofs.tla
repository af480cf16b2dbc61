------------------------- MODULE PosixLimiterProofs --------------------------
(***************************************************************************)
(* Proof that the limiters are exact, for any finite set of threads and    *)
(* any limits.                                                             *)
(***************************************************************************)
EXTENDS PosixLimiter, FiniteSetTheorems, TLAPS

\* The counter of a limiter, and the bound on its permits.
CounterExact(l) ==
    /\ acquires_allowed_[l] = max_acquires_[l] - Cardinality(Permits(l)) - Cardinality(Excess(l))
    /\ Cardinality(Permits(l)) <= max_acquires_[l]

LimiterInv == LimiterTypeOK /\ \A l \in Limiters : CounterExact(l)

\* The sets that are counted are finite.
LEMMA FinitePermits ==
    ASSUME NEW l
    PROVE  /\ IsFiniteSet(Permits(l)) /\ Cardinality(Permits(l)) \in Nat
           /\ IsFiniteSet(Excess(l)) /\ Cardinality(Excess(l)) \in Nat
<1>1. Permits(l) \in SUBSET LimiterThreads /\ Excess(l) \in SUBSET LimiterThreads
  BY DEF Permits, Excess
<1>2. IsFiniteSet(Permits(l)) /\ IsFiniteSet(Excess(l))
  BY <1>1, FS_Subset, LimiterAssumption
<1> QED
  BY <1>2, FS_CardinalityType

\* A thread that is about to give a permit back has one to give.
LEMMA PermitCounted ==
    ASSUME LimiterInv, NEW t \in LimiterThreads, file_pc[t] \in {"undo", "release"}
    PROVE  acquires_allowed_[limiter[t]] < max_acquires_[limiter[t]]
<1> DEFINE l == limiter[t]
<1>1. l \in Limiters /\ max_acquires_[l] \in Nat
  BY LimiterAssumption DEF LimiterInv, LimiterTypeOK
<1>2. Permits(l) # {} \/ Excess(l) # {}
  BY DEF Permits, Excess
<1>3. Cardinality(Permits(l)) + Cardinality(Excess(l)) > 0
  BY <1>2, FinitePermits, FS_EmptySet
<1> QED
  BY <1>1, <1>3, FinitePermits DEF LimiterInv, CounterExact

\* The initial counters are the limits.
LEMMA LimiterInitInv == LimiterInit => LimiterInv
<1> SUFFICES ASSUME LimiterInit PROVE LimiterInv
  OBVIOUS
<1>1. LimiterTypeOK
  BY LimiterAssumption DEF LimiterInit, LimiterTypeOK, PCs
<1>2. ASSUME NEW l \in Limiters PROVE Permits(l) = {} /\ Excess(l) = {}
  BY DEF LimiterInit, Permits, Excess
<1>3. ASSUME NEW l \in Limiters PROVE CounterExact(l)
  <2>1. acquires_allowed_[l] = max_acquires_[l] /\ max_acquires_[l] \in Nat
    BY LimiterAssumption DEF LimiterInit
  <2>2. Cardinality(Permits(l)) = 0 /\ Cardinality(Excess(l)) = 0
    BY <1>2, FS_EmptySet
  <2> QED
    BY <2>1, <2>2 DEF CounterExact
<1> QED
  BY <1>1, <1>3 DEF LimiterInv

\* The counter of a limiter whose sets do not change stays exact.
LEMMA SameSets ==
    ASSUME NEW l, CounterExact(l), acquires_allowed_'[l] = acquires_allowed_[l],
           Permits(l)' = Permits(l), Excess(l)' = Excess(l)
    PROVE  CounterExact(l)'
  BY DEF CounterExact

\* Each atomic operation keeps the invariant.
LEMMA LimiterStep == LimiterInv /\ [LimiterNext]_limiterVars => LimiterInv'
<1> SUFFICES ASSUME LimiterInv, [LimiterNext]_limiterVars PROVE LimiterInv'
  OBVIOUS
<1>t. LimiterTypeOK /\ \A l \in Limiters : CounterExact(l)
  BY DEF LimiterInv
<1>n. \A l \in Limiters : max_acquires_[l] \in Nat
  BY LimiterAssumption
<1> USE DEF GotoPC
<1>1. ASSUME NEW t \in LimiterThreads, OpenFile(t) PROVE LimiterInv'
  <2>1. LimiterTypeOK'
    BY <1>1, <1>t, LimiterAssumption DEF OpenFile, LimiterTypeOK, PCs
  <2>2. ASSUME NEW l \in Limiters PROVE CounterExact(l)'
    <3>1. Permits(l)' = Permits(l) /\ Excess(l)' = Excess(l)
      BY <1>1, <1>t DEF OpenFile, LimiterTypeOK, Permits, Excess
    <3> QED
      BY <1>1, <1>t, <3>1, SameSets DEF OpenFile
  <2> QED
    BY <2>1, <2>2 DEF LimiterInv
<1>2. ASSUME NEW t \in LimiterThreads, FetchSub(t) PROVE LimiterInv'
  <2>l. PICK l \in Limiters : l = limiter[t]
    BY <1>t DEF LimiterTypeOK
  <2>0. acquires_allowed_[l] \in Int
    BY <1>t DEF LimiterTypeOK
  <2>1. LimiterTypeOK'
    BY <1>2, <1>t, <2>l, <2>0 DEF FetchSub, LimiterTypeOK, PCs
  <2>2. ASSUME NEW m \in Limiters, m # l PROVE CounterExact(m)'
    <3>1. Permits(m)' = Permits(m) /\ Excess(m)' = Excess(m)
      BY <1>2, <1>t, <2>l, <2>2 DEF FetchSub, LimiterTypeOK, Permits, Excess
    <3>2. acquires_allowed_'[m] = acquires_allowed_[m]
      BY <1>2, <1>t, <2>l, <2>2 DEF FetchSub, LimiterTypeOK
    <3> QED
      BY <1>t, <3>1, <3>2, SameSets
  <2>3. acquires_allowed_'[l] = acquires_allowed_[l] - 1
    BY <1>2, <1>t, <2>l, <2>0 DEF FetchSub, LimiterTypeOK
  <2>4. t \notin Permits(l) /\ t \notin Excess(l)
    BY <2>l, <1>2 DEF FetchSub, Permits, Excess
  <2>5. CASE acquires_allowed_[l] <= 0
    <3>1. Permits(l)' = Permits(l) /\ Excess(l)' = Excess(l) \cup {t}
      BY <1>2, <1>t, <2>l, <2>5 DEF FetchSub, LimiterTypeOK, Permits, Excess
    <3>2. Cardinality(Excess(l)') = Cardinality(Excess(l)) + 1
      BY <2>4, <3>1, FinitePermits, FS_AddElement
    <3>3. CounterExact(l)'
      BY <1>t, <1>n, <2>0, <2>3, <3>1, <3>2, FinitePermits DEF CounterExact
    <3> QED
      BY <2>1, <2>2, <3>3 DEF LimiterInv
  <2>6. CASE ~(acquires_allowed_[l] <= 0)
    <3>1. Permits(l)' = Permits(l) \cup {t} /\ Excess(l)' = Excess(l)
      BY <1>2, <1>t, <2>l, <2>6 DEF FetchSub, LimiterTypeOK, Permits, Excess
    <3>2. Cardinality(Permits(l)') = Cardinality(Permits(l)) + 1
      BY <2>4, <3>1, FinitePermits, FS_AddElement
    <3>3. CounterExact(l)'
      BY <1>t, <1>n, <2>0, <2>3, <2>6, <3>1, <3>2, FinitePermits DEF CounterExact
    <3> QED
      BY <2>1, <2>2, <3>3 DEF LimiterInv
  <2> QED
    BY <2>5, <2>6
<1>3. ASSUME NEW t \in LimiterThreads, FetchAdd(t) PROVE LimiterInv'
  <2>l. PICK l \in Limiters : l = limiter[t]
    BY <1>t DEF LimiterTypeOK
  <2>0. acquires_allowed_[l] \in Int
    BY <1>t DEF LimiterTypeOK
  <2>1. LimiterTypeOK'
    BY <1>3, <1>t, <2>l, LimiterAssumption DEF FetchAdd, LimiterTypeOK, PCs
  <2>2. ASSUME NEW m \in Limiters, m # l PROVE CounterExact(m)'
    <3>1. Permits(m)' = Permits(m) /\ Excess(m)' = Excess(m)
      BY <1>3, <1>t, <2>l, <2>2 DEF FetchAdd, LimiterTypeOK, Permits, Excess
    <3>2. acquires_allowed_'[m] = acquires_allowed_[m]
      BY <1>3, <1>t, <2>l, <2>2 DEF FetchAdd, LimiterTypeOK
    <3> QED
      BY <1>t, <3>1, <3>2, SameSets
  <2>3. acquires_allowed_'[l] = acquires_allowed_[l] + 1
    BY <1>3, <1>t, <2>l, <2>0 DEF FetchAdd, LimiterTypeOK
  <2>4. t \in Excess(l) /\ Permits(l)' = Permits(l) /\ Excess(l)' = Excess(l) \ {t}
    BY <2>l, <1>3, <1>t DEF FetchAdd, LimiterTypeOK, Permits, Excess
  <2>5. Cardinality(Excess(l)') = Cardinality(Excess(l)) - 1
    BY <2>4, FinitePermits, FS_RemoveElement
  <2>6. CounterExact(l)'
    BY <1>t, <1>n, <2>0, <2>3, <2>4, <2>5, FinitePermits DEF CounterExact
  <2> QED
    BY <2>1, <2>2, <2>6 DEF LimiterInv
<1>4. ASSUME NEW t \in LimiterThreads, Map(t) \/ DeleteFile(t) PROVE LimiterInv'
  <2>1. LimiterTypeOK'
    BY <1>4, <1>t DEF Map, DeleteFile, LimiterTypeOK, PCs
  <2>2. ASSUME NEW l \in Limiters PROVE CounterExact(l)'
    <3>1. Permits(l)' = Permits(l) /\ Excess(l)' = Excess(l)
      BY <1>4, <1>t DEF Map, DeleteFile, LimiterTypeOK, Permits, Excess
    <3>2. acquires_allowed_' = acquires_allowed_
      BY <1>4 DEF Map, DeleteFile
    <3> QED
      BY <1>t, <3>1, <3>2, SameSets
  <2> QED
    BY <2>1, <2>2 DEF LimiterInv
<1>5. ASSUME NEW t \in LimiterThreads, ReleasePermit(t) PROVE LimiterInv'
  <2>l. PICK l \in Limiters : l = limiter[t]
    BY <1>t DEF LimiterTypeOK
  <2>0. acquires_allowed_[l] \in Int
    BY <1>t DEF LimiterTypeOK
  <2>1. LimiterTypeOK'
    BY <1>5, <1>t, <2>l, <2>0 DEF ReleasePermit, LimiterTypeOK, PCs
  <2>2. ASSUME NEW m \in Limiters, m # l PROVE CounterExact(m)'
    <3>1. Permits(m)' = Permits(m) /\ Excess(m)' = Excess(m)
      BY <1>5, <1>t, <2>l, <2>2 DEF ReleasePermit, LimiterTypeOK, Permits, Excess
    <3>2. acquires_allowed_'[m] = acquires_allowed_[m]
      BY <1>5, <1>t, <2>l, <2>2 DEF ReleasePermit, LimiterTypeOK
    <3> QED
      BY <1>t, <3>1, <3>2, SameSets
  <2>3. acquires_allowed_'[l] = acquires_allowed_[l] + 1
    BY <1>5, <1>t, <2>l, <2>0 DEF ReleasePermit, LimiterTypeOK
  <2>4. t \in Permits(l) /\ Permits(l)' = Permits(l) \ {t} /\ Excess(l)' = Excess(l)
    BY <2>l, <1>5, <1>t DEF ReleasePermit, LimiterTypeOK, Permits, Excess
  <2>5. Cardinality(Permits(l)') = Cardinality(Permits(l)) - 1
    BY <2>4, FinitePermits, FS_RemoveElement
  <2>6. CounterExact(l)'
    BY <1>t, <1>n, <2>0, <2>3, <2>4, <2>5, FinitePermits DEF CounterExact
  <2> QED
    BY <2>1, <2>2, <2>6 DEF LimiterInv
<1>6. CASE UNCHANGED limiterVars
  BY <1>6 DEF limiterVars, LimiterInv, LimiterTypeOK, CounterExact, Permits, Excess
<1> QED
  BY <1>1, <1>2, <1>3, <1>4, <1>5, <1>6 DEF LimiterNext

\* However many threads open and delete files, in whatever order, a limiter
\* hands out at most max_acquires_ permits, loses none, and never reaches the
\* state its asserts exclude.
THEOREM LimiterIsExact == LimiterSpec => []LimiterExact
<1>1. LimiterInv => LimiterExact
  BY PermitCounted DEF LimiterInv, CounterExact, LimiterExact
<1> QED
  BY <1>1, LimiterInitInv, LimiterStep, PTL DEF LimiterSpec
=============================================================================
