------------------------ MODULE CbpfOwnershipProofs -------------------------
(* The ownership promise holds for every number of registers, slots and       *)
(* acquisitions.                                                              *)
EXTENDS CbpfOwnership, FiniteSetTheorems, TLAPS

IInv == TypeOK /\ AliasesAreAcquired /\ ConsumedOnce /\ BaselineAccounting

\* Adding and removing a token moves the cardinality of the live set by one.
LEMMA LiveCardinality ==
    ASSUME TypeOK
    PROVE  /\ IsFiniteSet(live) /\ Cardinality(live) \in Nat
           /\ Cardinality({}) = 0
           /\ \A t : t \notin live =>
                Cardinality(live \cup {t}) = Cardinality(live) + 1
           /\ \A t \in live : Cardinality(live \ {t}) = Cardinality(live) - 1
<1>1. IsFiniteSet(1 .. acquired)
  BY CapacityAssumption, FS_Interval DEF TypeOK
<1>2. IsFiniteSet(live)
  BY <1>1, FS_Subset DEF TypeOK
<1> QED
  BY <1>2, FS_EmptySet, FS_AddElement, FS_RemoveElement, FS_CardinalityType

\* Every invocation starts in the invariant.
LEMMA InitInv == Init => IInv
<1> SUFFICES ASSUME Init PROVE IInv
  OBVIOUS
<1> QED
  BY CapacityAssumption, FS_EmptySet
  DEF Init, IInv, TypeOK, AliasesAreAcquired, ConsumedOnce,
      BaselineAccounting, Token, Alias

\* Ending an invocation drops each live right once.
LEMMA TerminateInv ==
    ASSUME IInv, Active,
           NEW reason \in {"exhaustion", "null", "stale", "return"},
           Terminate(reason)
    PROVE  IInv'
<1>1. Cardinality(live) \in Nat /\ Cardinality({}) = 0
  BY LiveCardinality DEF IInv
<1>2. TypeOK'
  BY <1>1 DEF IInv, TypeOK, Terminate, RefcountAtBaseline, Token, aliases
<1>3. AliasesAreAcquired'
  BY DEF IInv, AliasesAreAcquired, Terminate, aliases
<1>4. ConsumedOnce'
  BY CapacityAssumption
  DEF IInv, TypeOK, ConsumedOnce, Terminate, Token
<1>5. BaselineAccounting'
  BY <1>1 DEF IInv, TypeOK, BaselineAccounting, Terminate, RefcountAtBaseline
<1> QED
  BY <1>2, <1>3, <1>4, <1>5 DEF IInv

\* Every operation keeps the invariant: one case per action.
LEMMA StepInv == IInv /\ [Next]_vars => IInv'
<1> SUFFICES ASSUME IInv, [Next]_vars PROVE IInv'
  OBVIOUS
<1> USE CapacityAssumption DEF IInv, TypeOK, AliasesAreAcquired, Active,
        Token, Alias
<1>0. /\ IsFiniteSet(live) /\ Cardinality(live) \in Nat
      /\ Cardinality({}) = 0
      /\ \A t : t \notin live =>
           Cardinality(live \cup {t}) = Cardinality(live) + 1
      /\ \A t \in live : Cardinality(live \ {t}) = Cardinality(live) - 1
  BY LiveCardinality
<1>1. ASSUME NEW d \in Reg, Acquire(d) PROVE IInv'
  <2> USE <1>1 DEF Acquire, HasRoom, FreshToken
  <2>1. TypeOK' /\ AliasesAreAcquired'
    OBVIOUS
  <2>2. ConsumedOnce'
    BY DEF ConsumedOnce
  <2>3. BaselineAccounting'
    BY <1>0 DEF BaselineAccounting
  <2> QED
    BY <2>1, <2>2, <2>3
<1>2. ASSUME NEW d \in Reg, Release(d) PROVE IInv'
  <2> DEFINE t == registers[d]
  <2>0. /\ t \in live /\ t \in Token /\ t <= acquired
        /\ live' = live \ {t}
        /\ explicit' = [explicit EXCEPT ![t] = explicit[t] + 1]
        /\ refcount' = refcount - 1
        /\ UNCHANGED <<acquired, registers, spills, cleanup, terminal>>
    BY <1>2 DEF Release, Victims, aliases
  <2> HIDE DEF t
  <2>1. TypeOK' /\ AliasesAreAcquired'
    <3>1. explicit' \in [Token -> Nat]
      BY <2>0
    <3>2. live' \subseteq 1 .. acquired' /\ refcount' \in Int
      BY <2>0
    <3> QED
      BY <2>0, <3>1, <3>2
  <2>2. ConsumedOnce'
    <3> SUFFICES ASSUME NEW u \in Token
                 PROVE  explicit'[u] + cleanup'[u] =
                          IF u <= acquired' /\ u \notin live' THEN 1 ELSE 0
      BY DEF ConsumedOnce
    <3>1. explicit[u] + cleanup[u] =
            IF u <= acquired /\ u \notin live THEN 1 ELSE 0
      BY DEF ConsumedOnce
    <3>2. explicit[u] \in Nat /\ cleanup[u] \in Nat /\ t \in Nat
      BY <2>0
    <3>3. CASE u = t
      BY <2>0, <3>1, <3>2, <3>3
    <3>4. CASE u # t
      BY <2>0, <3>1, <3>2, <3>4
    <3> QED
      BY <3>3, <3>4
  <2>3. BaselineAccounting'
    <3>1. Cardinality(live') = Cardinality(live) - 1
      BY <1>0, <2>0
    <3>2. refcount' = 1 + Cardinality(live')
      BY <1>0, <2>0, <3>1 DEF BaselineAccounting
    <3> QED
      BY <2>0, <3>2 DEF BaselineAccounting
  <2> QED
    BY <2>1, <2>2, <2>3
<1>3. ASSUME NEW d \in Reg, AcquireNull(d) PROVE IInv'
  BY <1>3 DEF AcquireNull, rights, ConsumedOnce, BaselineAccounting
<1>4. ASSUME NEW d \in Reg, NEW s \in Reg, Copy(d, s) PROVE IInv'
  BY <1>4 DEF Copy, rights, ConsumedOnce, BaselineAccounting
<1>5. ASSUME NEW d \in Reg, NEW s \in Slot, Reload(d, s) PROVE IInv'
  BY <1>5 DEF Reload, rights, ConsumedOnce, BaselineAccounting
<1>6. ASSUME NEW d \in Slot, NEW s \in Reg, Spill(d, s) PROVE IInv'
  BY <1>6 DEF Spill, rights, ConsumedOnce, BaselineAccounting
<1>7. CASE Exhaust
  BY <1>7, TerminateInv DEF Exhaust
<1>8. CASE MisuseNull
  BY <1>8, TerminateInv DEF MisuseNull
<1>9. CASE MisuseStale
  BY <1>9, TerminateInv DEF MisuseStale
<1>10. CASE Finish
  BY <1>10, TerminateInv DEF Finish
<1>11. CASE UNCHANGED vars
  BY <1>11 DEF vars, ConsumedOnce, BaselineAccounting
<1> QED
  BY <1>1, <1>2, <1>3, <1>4, <1>5, <1>6, <1>7, <1>8, <1>9, <1>10, <1>11
  DEF Next

\* The inductive invariant holds throughout every invocation.
THEOREM OwnershipInvariant == Spec => []IInv
BY InitInv, StepInv, PTL DEF Spec

\* Type correctness of the ownership model.
THEOREM OwnershipTypes == Spec => []TypeOK
BY OwnershipInvariant, PTL DEF IInv

\* Every acquisition is consumed exactly once.
THEOREM OwnershipConsumedOnce == Spec => []ConsumedOnce
BY OwnershipInvariant, PTL DEF IInv

\* Aliases never name an acquisition that was not made.
THEOREM OwnershipAliases == Spec => []AliasesAreAcquired
BY OwnershipInvariant, PTL DEF IInv

\* The reference count is the baseline plus the live acquisitions, and is back
\* at the baseline when the invocation has ended.
THEOREM OwnershipBaseline == Spec => []BaselineAccounting
BY OwnershipInvariant, PTL DEF IInv

IndependentStep ==
    /\ terminal' = "active" => \/ live \subseteq live'
                         \/ \E d \in Reg : live' = live \ {registers[d]}
    /\ \A t \in 1 .. acquired : t \notin live => t \notin live'

\* One step takes away at most the right it names, or ends the invocation.
LEMMA StepIndependent == IInv /\ [Next]_vars => IndependentStep
<1> SUFFICES ASSUME IInv, [Next]_vars PROVE IndependentStep
  OBVIOUS
<1>1. CASE \E d \in Reg : Acquire(d)
  BY <1>1, CapacityAssumption
  DEF IInv, TypeOK, Acquire, HasRoom, IndependentStep
<1>2. CASE \E d \in Reg : Release(d)
  BY <1>2 DEF Release, Victims, IndependentStep
<1>3. CASE Exhaust \/ MisuseNull \/ MisuseStale \/ Finish
  BY <1>3 DEF Exhaust, MisuseNull, MisuseStale, Finish, Terminate,
     IndependentStep
<1>4. CASE UNCHANGED live
  BY <1>4 DEF IndependentStep
<1> QED
  BY <1>1, <1>2, <1>3, <1>4
  DEF Next, AcquireNull, Copy, Reload, Spill, rights, vars

\* Consuming one acquisition leaves every other one alone, whatever aliases
\* exist.
THEOREM OwnershipIndependence == Spec => AliasIndependence
<1>1. IInv /\ [Next]_vars => [IndependentStep]_vars
  BY StepIndependent
<1> QED
  BY <1>1, OwnershipInvariant, PTL
  DEF Spec, AliasIndependence, IndependentStep
=============================================================================
