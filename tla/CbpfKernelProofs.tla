-------------------------- MODULE CbpfKernelProofs --------------------------
(* For any finite set of CPUs and any programs: the shared count is conserved *)
(* at every interleaving, verdicts are honest, a refused gate ends the        *)
(* program, and release is atomic at the clearing of the authority.           *)
EXTENDS CbpfKernel, FiniteSetTheorems, TLAPS

InFlight(p) == p \in {"counted", "releasing", "dropping"}

\* What holds of one CPU, whatever the others do.
AccountsOf(c) ==
    /\ inv[c].acquired = inv[c].released + Cardinality(Tagged(c))
          + (IF phase[c] \in {"releasing", "dropping"} THEN 1 ELSE 0)
    /\ inv[c].cleanup <= inv[c].released
    /\ inv[c].reads + inv[c].released - inv[c].cleanup
          + (IF phase[c] = "releasing" THEN 1 ELSE 0) <= calls[c]
    /\ \A i \in CellIndex :
          /\ i < inv[c].acquired <=> inv[c].views[i] = View(i)
          /\ i < inv[c].acquired <=> inv[c].cells[i] # "null"

ControlOf(c) ==
    /\ active[c] <=> phase[c] # "idle"
    /\ inv[c].failed <=> x0[c] = "failure"
    /\ phase[c] \in {"idle", "entry"} => inv[c] = FreshInvocation
    /\ phase[c] \in {"program", "counted", "releasing"} =>
          inv[c].entered /\ ~inv[c].failed
    /\ phase[c] = "gateway" => inv[c].entered
    /\ phase[c] = "counted" =>
          index[c] = inv[c].acquired /\ inv[c].acquired < 2
    /\ phase[c] \in {"releasing", "dropping"} =>
          index[c] < inv[c].acquired
    /\ phase[c] \in {"cleanup", "dropping"} =>
          \A i \in CellIndex : i < index[c] => inv[c].cells[i] # "tagged"
    /\ phase[c] = "dropping" => inv[c].cells[index[c]] # "tagged"

LocalInv(c) == AccountsOf(c) /\ ControlOf(c)

\* The inductive invariant.
IInv ==
    /\ TypeOK
    /\ \A c \in CPU : LocalInv(c)
    /\ RefsConserved
    /\ VerdictHonest

-----------------------------------------------------------------------------
(* Sizes. *)

\* Adding or removing one element moves the size by one.
LEMMA OneElement ==
    ASSUME NEW S, IsFiniteSet(S), NEW e
    PROVE  /\ Cardinality(S) \in Nat
           /\ IsFiniteSet(S \cup {e}) /\ IsFiniteSet(S \ {e})
           /\ e \notin S => Cardinality(S \cup {e}) = Cardinality(S) + 1
           /\ e \in S => Cardinality(S \ {e}) = Cardinality(S) - 1
  BY FS_AddElement, FS_RemoveElement, FS_CardinalityType

\* Both cells exist, and no others.
LEMMA TwoCells ==
    /\ CellIndex = {0, 1} /\ IsFiniteSet(CellIndex)
    /\ Cardinality(CellIndex) = 2
<1>1. CellIndex = {0, 1}
  BY DEF CellIndex
<1>2. Cardinality({0}) = 1 /\ IsFiniteSet({0})
  BY FS_Singleton
<1>3. {0, 1} = {0} \cup {1} /\ 1 \notin {0}
  OBVIOUS
<1> QED
  BY <1>1, <1>2, <1>3, FS_AddElement

\* The tagged cells of a CPU are finitely many.
LEMMA TaggedFinite ==
    ASSUME NEW c
    PROVE  /\ IsFiniteSet(Tagged(c)) /\ Tagged(c) \subseteq CellIndex
           /\ Cardinality(Tagged(c)) \in Nat /\ Cardinality(Tagged(c)) <= 2
<1>1. Tagged(c) \subseteq CellIndex
  BY DEF Tagged
<1> QED
  BY <1>1, TwoCells, FS_Subset, FS_CardinalityType

-----------------------------------------------------------------------------
(* The shapes of steps. *)

\* The step is one of CPU c.
Only(c) ==
    \A d \in CPU : d # c =>
        /\ active'[d] = active[d] /\ inv'[d] = inv[d]
        /\ phase'[d] = phase[d] /\ index'[d] = index[d]
        /\ calls'[d] = calls[d] /\ x0'[d] = x0[d]
        /\ verdict'[d] = verdict[d]

Quiet(c) ==
    /\ refs' = refs /\ Tagged(c)' = Tagged(c)
    /\ InFlight(phase'[c]) <=> InFlight(phase[c])

CountUp(c) ==
    /\ refs' = refs + 1 /\ Tagged(c)' = Tagged(c)
    /\ ~InFlight(phase[c]) /\ InFlight(phase'[c])

CountDown(c) ==
    /\ refs' = refs - 1 /\ Tagged(c)' = Tagged(c)
    /\ InFlight(phase[c]) /\ ~InFlight(phase'[c])

Stored(c, i) ==
    /\ refs' = refs
    /\ i \in CellIndex \ Tagged(c) /\ Tagged(c)' = Tagged(c) \cup {i}
    /\ InFlight(phase[c]) /\ ~InFlight(phase'[c])

Cleared(c, i) ==
    /\ refs' = refs
    /\ i \in Tagged(c) /\ Tagged(c)' = Tagged(c) \ {i}
    /\ ~InFlight(phase[c]) /\ InFlight(phase'[c])

RefStep(c) ==
    \/ Quiet(c) \/ CountUp(c) \/ CountDown(c)
    \/ \E i \in CellIndex : Stored(c, i) \/ Cleared(c, i)

\* Each shape conserves the count.
LEMMA RefStepConserves ==
    ASSUME TypeOK, RefsConserved, NEW c \in CPU, Only(c), RefStep(c)
    PROVE  RefsConserved'
<1>1. IsFiniteSet(CPU) /\ IsFiniteSet(CPU \X CellIndex)
  BY EnvironmentAssumption, TwoCells, FS_Product
<1>2. /\ IsFiniteSet(Rights) /\ IsFiniteSet(Pending)
      /\ Cardinality(Rights) \in Nat /\ Cardinality(Pending) \in Nat
  BY <1>1, FS_Subset, FS_CardinalityType DEF Rights, Pending
<1>3. refs = 1 + Cardinality(Rights) + Cardinality(Pending) /\ refs \in Int
  BY DEF RefsConserved, TypeOK
<1>4. \A d \in CPU : d # c => Tagged(d)' = Tagged(d) /\ phase'[d] = phase[d]
  BY DEF Only, Tagged
<1>5. c \in Pending <=> InFlight(phase[c])
  BY DEF Pending, InFlight
<1>6. Tagged(c)' = Tagged(c) => Rights' = Rights
  BY <1>4 DEF Rights
<1>7. /\ (InFlight(phase'[c]) <=> InFlight(phase[c])) => Pending' = Pending
      /\ InFlight(phase'[c]) => Pending' = Pending \cup {c}
      /\ ~InFlight(phase'[c]) => Pending' = Pending \ {c}
  BY <1>4 DEF Pending, InFlight
<1>8. /\ c \notin Pending =>
            Cardinality(Pending \cup {c}) = Cardinality(Pending) + 1
      /\ c \in Pending => Cardinality(Pending \ {c}) = Cardinality(Pending) - 1
  BY <1>2, OneElement
<1>9. CASE Quiet(c)
  BY <1>9, <1>3, <1>6, <1>7 DEF Quiet, RefsConserved
<1>10. CASE CountUp(c)
  <2>1. c \notin Pending /\ Pending' = Pending \cup {c} /\ Rights' = Rights
    BY <1>10, <1>5, <1>6, <1>7 DEF CountUp
  <2>2. Cardinality(Pending') = Cardinality(Pending) + 1
    BY <2>1, <1>8
  <2> QED
    BY <2>1, <2>2, <1>10, <1>2, <1>3 DEF CountUp, RefsConserved
<1>11. CASE CountDown(c)
  <2>1. c \in Pending /\ Pending' = Pending \ {c} /\ Rights' = Rights
    BY <1>11, <1>5, <1>6, <1>7 DEF CountDown
  <2>2. Cardinality(Pending') = Cardinality(Pending) - 1
    BY <2>1, <1>8
  <2> QED
    BY <2>1, <2>2, <1>11, <1>2, <1>3 DEF CountDown, RefsConserved
<1>12. ASSUME NEW i \in CellIndex, Stored(c, i) PROVE RefsConserved'
  <2>1. Rights' = Rights \cup {<<c, i>>} /\ <<c, i>> \notin Rights
    BY <1>12, <1>4 DEF Stored, Rights
  <2>2. Cardinality(Rights') = Cardinality(Rights) + 1
    BY <2>1, <1>2, OneElement
  <2>3. c \in Pending /\ Pending' = Pending \ {c}
    BY <1>12, <1>5, <1>7 DEF Stored
  <2>4. Cardinality(Pending') = Cardinality(Pending) - 1
    BY <2>3, <1>8
  <2> QED
    BY <2>2, <2>4, <1>12, <1>2, <1>3 DEF Stored, RefsConserved
<1>13. ASSUME NEW i \in CellIndex, Cleared(c, i) PROVE RefsConserved'
  <2>1. Rights' = Rights \ {<<c, i>>} /\ <<c, i>> \in Rights
    BY <1>13, <1>4 DEF Cleared, Rights
  <2>2. Cardinality(Rights') = Cardinality(Rights) - 1
    BY <2>1, <1>2, OneElement
  <2>3. c \notin Pending /\ Pending' = Pending \cup {c}
    BY <1>13, <1>5, <1>7 DEF Cleared
  <2>4. Cardinality(Pending') = Cardinality(Pending) + 1
    BY <2>3, <1>8
  <2> QED
    BY <2>2, <2>4, <1>13, <1>2, <1>3 DEF Cleared, RefsConserved
<1> QED
  BY <1>9, <1>10, <1>11, <1>12, <1>13 DEF RefStep

-----------------------------------------------------------------------------
(* Each step of one CPU keeps what holds of that CPU and has a shape. *)

KeepsLocal(c) ==
    /\ TypeOK' /\ LocalInv(c)'
    /\ Only(c) /\ RefStep(c)

\* Nothing the accounts tell apart has changed, save that a call was made.
SameRights(c) ==
    /\ inv'[c].cells = inv[c].cells /\ inv'[c].views = inv[c].views
    /\ inv'[c].acquired = inv[c].acquired
    /\ inv'[c].released = inv[c].released /\ inv'[c].cleanup = inv[c].cleanup
    /\ inv'[c].reads - inv[c].reads <= calls'[c] - calls[c]

\* The accounts stand as long as rights are not touched.
LEMMA SameAccounts ==
    ASSUME TypeOK, TypeOK', NEW c \in CPU, AccountsOf(c), SameRights(c),
           phase[c] \notin {"releasing", "dropping"},
           phase'[c] \notin {"releasing", "dropping"}
    PROVE  AccountsOf(c)' /\ Tagged(c)' = Tagged(c)
<1>1. Tagged(c)' = Tagged(c)
  BY DEF Tagged, SameRights
<1>2. /\ inv[c].reads \in Int /\ inv[c].released \in Int
      /\ inv[c].cleanup \in Int /\ calls[c] \in Int
      /\ inv'[c].reads \in Int /\ calls'[c] \in Int
  BY EnvironmentAssumption DEF TypeOK, Invocation
<1>3. inv[c].reads + inv[c].released - inv[c].cleanup <= calls[c]
  BY <1>2 DEF AccountsOf
<1>4. inv'[c].reads + inv'[c].released - inv'[c].cleanup + 0 <= calls'[c]
  BY <1>2, <1>3 DEF SameRights
<1>5. inv[c].acquired = inv[c].released + Cardinality(Tagged(c)) + 0
  BY DEF AccountsOf
<1>6. inv'[c].acquired = inv'[c].released + Cardinality(Tagged(c)') + 0
  BY <1>1, <1>5 DEF SameRights
<1>7. inv'[c].cleanup <= inv'[c].released
  BY DEF SameRights, AccountsOf
<1>8. \A i \in CellIndex :
        /\ i < inv'[c].acquired <=> inv'[c].views[i] = View(i)
        /\ i < inv'[c].acquired <=> inv'[c].cells[i] # "null"
  BY DEF SameRights, AccountsOf
<1> QED
  BY <1>1, <1>4, <1>6, <1>7, <1>8 DEF AccountsOf

\* In particular when the invocation is not touched.
LEMMA SameInvocation ==
    ASSUME TypeOK, TypeOK', NEW c \in CPU,
           inv'[c] = inv[c], calls[c] <= calls'[c]
    PROVE  SameRights(c)
<1>1. inv[c].reads \in Int /\ calls[c] \in Int /\ calls'[c] \in Int
  BY EnvironmentAssumption DEF TypeOK, Invocation
<1> QED
  BY <1>1 DEF SameRights

\* No view is a plain value.
LEMMA ViewNotPlain == \A i, v : View(i) # Plain(v)
<1> TAKE i, v
<1>1. View(i).tagged /\ ~Plain(v).tagged
  BY DEF View, Plain
<1> QED
  BY <1>1

\* A fresh invocation's accounts are in order.
LEMMA FreshAccounts ==
    ASSUME NEW c \in CPU, inv'[c] = FreshInvocation, calls'[c] \in Nat,
           phase'[c] \notin {"releasing", "dropping"}
    PROVE  AccountsOf(c)' /\ Tagged(c)' = {}
<1>1. Tagged(c)' = {}
  BY DEF Tagged, FreshInvocation
<1>2. Cardinality(Tagged(c)') = 0
  BY <1>1, FS_EmptySet
<1>3. \A i \in CellIndex :
        /\ FreshInvocation.views[i] # View(i)
        /\ FreshInvocation.cells[i] = "null"
        /\ ~(i < FreshInvocation.acquired)
  BY ViewNotPlain DEF FreshInvocation, CellIndex
<1>4. /\ inv'[c].acquired = 0 /\ inv'[c].released = 0
      /\ inv'[c].cleanup = 0 /\ inv'[c].reads = 0
  BY DEF FreshInvocation
<1>5. \A i \in CellIndex :
        /\ i < inv'[c].acquired <=> inv'[c].views[i] = View(i)
        /\ i < inv'[c].acquired <=> inv'[c].cells[i] # "null"
  BY <1>3
<1> HIDE DEF FreshInvocation
<1> QED
  BY <1>1, <1>2, <1>4, <1>5 DEF AccountsOf

\* FreshInvocation is an invocation.
LEMMA FreshType == FreshInvocation \in Invocation
<1>1. Plain(0) \in Argument
  BY EnvironmentAssumption DEF Argument
<1> QED
  BY <1>1 DEF FreshInvocation, Invocation, CellIndex

\* cbpf_test_invoke starts from a cleared arena.
LEMMA InvokeKeeps ==
    ASSUME IInv, NEW c \in CPU, Invoke(c)
    PROVE  KeepsLocal(c)
<1> USE DEF IInv
<1>1. TypeOK'
  BY FreshType, EnvironmentAssumption DEF TypeOK, Invoke, Phase
<1>2. inv'[c] = FreshInvocation /\ calls'[c] = 0 /\ phase'[c] = "entry"
      /\ active'[c] /\ inv[c] = FreshInvocation /\ x0'[c] = x0[c]
  BY DEF TypeOK, Invoke, LocalInv, ControlOf
<1>3. AccountsOf(c)' /\ Tagged(c)' = {}
  BY <1>2, FreshAccounts
<1>4. Tagged(c) = {}
  BY <1>2 DEF Tagged, FreshInvocation
<1>5. ControlOf(c)'
  BY <1>2 DEF LocalInv, ControlOf, FreshInvocation
<1>6. Only(c)
  BY DEF Only, TypeOK, Invoke
<1>7. RefStep(c)
  BY <1>2, <1>3, <1>4 DEF RefStep, Quiet, InFlight, Invoke
<1> QED
  BY <1>1, <1>3, <1>5, <1>6, <1>7 DEF KeepsLocal, LocalInv

\* A program refused at entry leaves nothing to clean up.
LEMMA EnterRejectedKeeps ==
    ASSUME IInv, NEW c \in CPU, EnterRejected(c)
    PROVE  KeepsLocal(c)
<1> USE DEF IInv
<1>1. TypeOK'
  BY EnvironmentAssumption DEF TypeOK, EnterRejected, LeaveProgram, Phase
<1>2. /\ inv'[c] = inv[c] /\ calls'[c] = calls[c] /\ active'[c] = active[c]
      /\ phase[c] = "entry" /\ phase'[c] = "cleanup" /\ index'[c] = 0
      /\ x0'[c] = x0[c] /\ refs' = refs
  BY DEF TypeOK, EnterRejected, LeaveProgram
<1>3. AccountsOf(c)' /\ Tagged(c)' = Tagged(c)
  <2>1. calls[c] <= calls'[c]
    BY <1>2, EnvironmentAssumption DEF TypeOK
  <2> QED
    BY <2>1, <1>1, <1>2, SameInvocation, SameAccounts DEF LocalInv
<1>4. ControlOf(c)'
  BY <1>2 DEF LocalInv, ControlOf, CellIndex
<1>5. Only(c)
  BY DEF Only, TypeOK, EnterRejected, LeaveProgram
<1>6. RefStep(c)
  BY <1>2, <1>3 DEF RefStep, Quiet, InFlight
<1> QED
  BY <1>1, <1>3, <1>4, <1>5, <1>6 DEF KeepsLocal, LocalInv

\* Entry opens the gates and grants nothing.
LEMMA EnterKeeps ==
    ASSUME IInv, NEW c \in CPU, Enter(c)
    PROVE  KeepsLocal(c)
<1> USE DEF IInv
<1>1. TypeOK'
  <2>1. [inv[c] EXCEPT !.entered = TRUE] \in Invocation
    BY ZenonT(40) DEF TypeOK, Invocation
  <2>2. inv' \in [CPU -> Invocation]
    BY <2>1 DEF TypeOK, Enter
  <2> QED
    BY <2>2, EnvironmentAssumption DEF TypeOK, Enter, Phase
<1>2. /\ inv'[c] = [inv[c] EXCEPT !.entered = TRUE]
      /\ calls'[c] = calls[c] /\ active'[c] = active[c]
      /\ phase[c] = "entry" /\ phase'[c] = "program" /\ index'[c] = index[c]
      /\ x0'[c] = x0[c] /\ refs' = refs /\ inv[c] = FreshInvocation
  BY DEF TypeOK, Enter, LocalInv, ControlOf
<1>3. SameRights(c) /\ inv'[c].entered /\ inv'[c].failed = inv[c].failed
  BY <1>2, EnvironmentAssumption DEF SameRights, FreshInvocation, TypeOK
<1>4. AccountsOf(c)' /\ Tagged(c)' = Tagged(c)
  BY <1>1, <1>2, <1>3, SameAccounts DEF LocalInv
<1>5. ~inv[c].failed
  BY <1>2 DEF FreshInvocation
<1>6. ControlOf(c)'
  BY <1>2, <1>3, <1>5 DEF LocalInv, ControlOf
<1>7. Only(c)
  BY DEF Only, TypeOK, Enter
<1>8. RefStep(c)
  BY <1>2, <1>4 DEF RefStep, Quiet, InFlight
<1> QED
  BY <1>1, <1>4, <1>6, <1>7, <1>8 DEF KeepsLocal, LocalInv

\* cbpf_fail marks the invocation, and grants and ends nothing.
LEMMA RejectKeeps ==
    ASSUME IInv, NEW c \in CPU, NEW op \in Operation, NEW a \in Argument,
           Reject(c, op, a)
    PROVE  KeepsLocal(c)
<1> USE DEF IInv
<1>1. TypeOK'
  <2>1. [inv[c] EXCEPT !.failed = TRUE] \in Invocation
    BY ZenonT(40) DEF TypeOK, Invocation
  <2>2. inv' \in [CPU -> Invocation]
    BY <2>1 DEF TypeOK, Reject
  <2> QED
    BY <2>2, EnvironmentAssumption DEF TypeOK, Reject, Call, Return, Phase
<1>2. /\ inv'[c] = [inv[c] EXCEPT !.failed = TRUE]
      /\ calls'[c] = calls[c] + 1 /\ active'[c] = active[c]
      /\ phase[c] = "program" /\ phase'[c] = "gateway"
      /\ x0'[c] = "failure" /\ refs' = refs
  BY DEF TypeOK, Reject, Call, Return
<1>3. inv[c] \in Invocation /\ calls[c] \in Int
  BY EnvironmentAssumption DEF TypeOK
<1>4. /\ SameRights(c) /\ inv'[c].failed
      /\ inv'[c].entered = inv[c].entered
  BY <1>2, <1>3 DEF SameRights, Invocation
<1>5. AccountsOf(c)' /\ Tagged(c)' = Tagged(c)
  BY <1>1, <1>2, <1>4, SameAccounts DEF LocalInv
<1>6. ControlOf(c)'
  BY <1>2, <1>4 DEF LocalInv, ControlOf
<1>7. Only(c)
  BY DEF Only, TypeOK, Reject, Call, Return
<1>8. RefStep(c)
  BY <1>2, <1>5 DEF RefStep, Quiet, InFlight
<1> QED
  BY <1>1, <1>5, <1>6, <1>7, <1>8 DEF KeepsLocal, LocalInv

\* A read counts itself and touches no right.
LEMMA ReadKeeps ==
    ASSUME IInv, NEW c \in CPU, NEW op \in Operation, NEW a \in Argument,
           Read(c, op, a)
    PROVE  KeepsLocal(c)
<1> USE DEF IInv
<1>1. TypeOK'
  <2>1. inv[c].reads + 1 \in Nat
    BY DEF TypeOK, Invocation
  <2>2. [inv[c] EXCEPT !.reads = inv[c].reads + 1] \in Invocation
    BY <2>1, ZenonT(40) DEF TypeOK, Invocation
  <2>3. inv' \in [CPU -> Invocation]
    BY <2>2 DEF TypeOK, Read
  <2> QED
    BY <2>3, EnvironmentAssumption
       DEF TypeOK, Read, Call, Return, Phase, ValueInX0, Value
<1>2. /\ inv'[c] = [inv[c] EXCEPT !.reads = inv[c].reads + 1]
      /\ calls'[c] = calls[c] + 1 /\ active'[c] = active[c]
      /\ phase[c] = "program" /\ phase'[c] = "gateway"
      /\ x0'[c] = "value" /\ refs' = refs
  BY DEF TypeOK, Read, Call, Return, ValueInX0, Value
<1>3. inv[c] \in Invocation /\ calls[c] \in Int
  BY EnvironmentAssumption DEF TypeOK
<1>4. /\ SameRights(c) /\ inv'[c].failed = inv[c].failed
      /\ inv'[c].entered = inv[c].entered
  BY <1>2, <1>3 DEF SameRights, Invocation
<1>5. AccountsOf(c)' /\ Tagged(c)' = Tagged(c)
  BY <1>1, <1>2, <1>4, SameAccounts DEF LocalInv
<1>6. ControlOf(c)'
  BY <1>2, <1>4 DEF LocalInv, ControlOf
<1>7. Only(c)
  BY DEF Only, TypeOK, Read, Call, Return
<1>8. RefStep(c)
  BY <1>2, <1>5 DEF RefStep, Quiet, InFlight
<1> QED
  BY <1>1, <1>5, <1>6, <1>7, <1>8 DEF KeepsLocal, LocalInv

\* A scenario with no object returns zero and grants nothing.
LEMMA AcquireNullKeeps ==
    ASSUME IInv, NEW c \in CPU, NEW op \in Operation, NEW a \in Argument,
           AcquireNull(c, op, a)
    PROVE  KeepsLocal(c)
<1> USE DEF IInv
<1>1. TypeOK'
  BY EnvironmentAssumption DEF TypeOK, AcquireNull, Call, Return, Phase
<1>2. /\ inv'[c] = inv[c] /\ calls'[c] = calls[c] + 1
      /\ active'[c] = active[c] /\ refs' = refs
      /\ phase[c] = "program" /\ phase'[c] = "gateway" /\ x0'[c] = "zero"
  BY DEF TypeOK, AcquireNull, Call, Return
<1>3. AccountsOf(c)' /\ Tagged(c)' = Tagged(c)
  <2>1. calls[c] <= calls'[c]
    BY <1>2, EnvironmentAssumption DEF TypeOK
  <2> QED
    BY <2>1, <1>1, <1>2, SameInvocation, SameAccounts DEF LocalInv
<1>4. ControlOf(c)'
  BY <1>2 DEF LocalInv, ControlOf
<1>5. Only(c)
  BY DEF Only, TypeOK, AcquireNull, Call, Return
<1>6. RefStep(c)
  BY <1>2, <1>3 DEF RefStep, Quiet, InFlight
<1> QED
  BY <1>1, <1>3, <1>4, <1>5, <1>6 DEF KeepsLocal, LocalInv

\* The gateway goes back only to a program that has not failed.
LEMMA ContinueKeeps ==
    ASSUME IInv, NEW c \in CPU, Continue(c)
    PROVE  KeepsLocal(c)
<1> USE DEF IInv
<1>1. TypeOK'
  BY EnvironmentAssumption DEF TypeOK, Continue, Phase
<1>2. /\ inv'[c] = inv[c] /\ calls'[c] = calls[c]
      /\ active'[c] = active[c] /\ refs' = refs
      /\ phase[c] = "gateway" /\ phase'[c] = "program"
      /\ x0'[c] = x0[c] /\ x0[c] # "failure"
  BY DEF TypeOK, Continue
<1>3. AccountsOf(c)' /\ Tagged(c)' = Tagged(c)
  <2>1. calls[c] <= calls'[c]
    BY <1>2, EnvironmentAssumption DEF TypeOK
  <2> QED
    BY <2>1, <1>1, <1>2, SameInvocation, SameAccounts DEF LocalInv
<1>4. ControlOf(c)'
  BY <1>2 DEF LocalInv, ControlOf
<1>5. Only(c)
  BY DEF Only, TypeOK, Continue
<1>6. RefStep(c)
  BY <1>2, <1>3 DEF RefStep, Quiet, InFlight
<1> QED
  BY <1>1, <1>3, <1>4, <1>5, <1>6 DEF KeepsLocal, LocalInv

\* The gateway leaves a failed program for the cleanup loop.
LEMMA AbortKeeps ==
    ASSUME IInv, NEW c \in CPU, Abort(c)
    PROVE  KeepsLocal(c)
<1> USE DEF IInv
<1>1. TypeOK'
  BY EnvironmentAssumption DEF TypeOK, Abort, LeaveProgram, Phase
<1>2. /\ inv'[c] = inv[c] /\ calls'[c] = calls[c]
      /\ active'[c] = active[c] /\ refs' = refs
      /\ phase[c] = "gateway" /\ phase'[c] = "cleanup"
      /\ x0'[c] = x0[c] /\ index'[c] = 0
  BY DEF TypeOK, Abort, LeaveProgram
<1>3. AccountsOf(c)' /\ Tagged(c)' = Tagged(c)
  <2>1. calls[c] <= calls'[c]
    BY <1>2, EnvironmentAssumption DEF TypeOK
  <2> QED
    BY <2>1, <1>1, <1>2, SameInvocation, SameAccounts DEF LocalInv
<1>4. ControlOf(c)'
  BY <1>2 DEF LocalInv, ControlOf, CellIndex
<1>5. Only(c)
  BY DEF Only, TypeOK, Abort, LeaveProgram
<1>6. RefStep(c)
  BY <1>2, <1>3 DEF RefStep, Quiet, InFlight
<1> QED
  BY <1>1, <1>3, <1>4, <1>5, <1>6 DEF KeepsLocal, LocalInv

\* The program's own exit goes to the cleanup loop.
LEMMA ExitKeeps ==
    ASSUME IInv, NEW c \in CPU, Exit(c)
    PROVE  KeepsLocal(c)
<1> USE DEF IInv
<1>1. TypeOK'
  BY EnvironmentAssumption DEF TypeOK, Exit, LeaveProgram, Phase
<1>2. /\ inv'[c] = inv[c] /\ calls'[c] = calls[c]
      /\ active'[c] = active[c] /\ refs' = refs
      /\ phase[c] = "program" /\ phase'[c] = "cleanup"
      /\ x0'[c] = "zero" /\ index'[c] = 0
  BY DEF TypeOK, Exit, LeaveProgram
<1>3. AccountsOf(c)' /\ Tagged(c)' = Tagged(c)
  <2>1. calls[c] <= calls'[c]
    BY <1>2, EnvironmentAssumption DEF TypeOK
  <2> QED
    BY <2>1, <1>1, <1>2, SameInvocation, SameAccounts DEF LocalInv
<1>4. ControlOf(c)'
  BY <1>2 DEF LocalInv, ControlOf, CellIndex
<1>5. Only(c)
  BY DEF Only, TypeOK, Exit, LeaveProgram
<1>6. RefStep(c)
  BY <1>2, <1>3 DEF RefStep, Quiet, InFlight
<1> QED
  BY <1>1, <1>3, <1>4, <1>5, <1>6 DEF KeepsLocal, LocalInv

\* The cleanup loop passes over a consumed cell.
LEMMA CleanupSkipKeeps ==
    ASSUME IInv, NEW c \in CPU, CleanupSkip(c)
    PROVE  KeepsLocal(c)
<1> USE DEF IInv
<1>1. TypeOK'
  <2>1. inv[c].acquired \in 0 .. 2 /\ index[c] \in 0 .. 2
    BY DEF TypeOK, Invocation
  <2>2. index[c] + 1 \in 0 .. 2
    BY <2>1 DEF CleanupSkip
  <2> QED
    BY <2>2 DEF TypeOK, CleanupSkip
<1>2. /\ inv'[c] = inv[c] /\ calls'[c] = calls[c]
      /\ active'[c] = active[c] /\ refs' = refs
      /\ phase[c] = "cleanup" /\ phase'[c] = "cleanup" /\ x0'[c] = x0[c]
      /\ index'[c] = index[c] + 1 /\ inv[c].cells[index[c]] # "tagged"
      /\ index[c] < inv[c].acquired
  BY DEF TypeOK, CleanupSkip
<1>3. AccountsOf(c)' /\ Tagged(c)' = Tagged(c)
  <2>1. calls[c] <= calls'[c]
    BY <1>2, EnvironmentAssumption DEF TypeOK
  <2> QED
    BY <2>1, <1>1, <1>2, SameInvocation, SameAccounts DEF LocalInv
<1>4. ControlOf(c)'
  <2>1. \A i \in CellIndex : i < index'[c] => i < index[c] \/ i = index[c]
    BY <1>2 DEF CellIndex, TypeOK
  <2> QED
    BY <1>2, <2>1 DEF LocalInv, ControlOf
<1>5. Only(c)
  BY DEF Only, TypeOK, CleanupSkip
<1>6. RefStep(c)
  BY <1>2, <1>3 DEF RefStep, Quiet, InFlight
<1> QED
  BY <1>1, <1>3, <1>4, <1>5, <1>6 DEF KeepsLocal, LocalInv

-----------------------------------------------------------------------------
(* The steps that touch the count or the authority. *)

\* refcount_inc comes first, with a cell left to store into.
LEMMA AcquireCountKeeps ==
    ASSUME IInv, NEW c \in CPU, NEW op \in Operation, NEW a \in Argument,
           AcquireCount(c, op, a)
    PROVE  KeepsLocal(c)
<1> USE DEF IInv
<1>1. inv[c].acquired \in 0 .. 2 /\ inv[c].acquired # 2
  BY TwoCells DEF TypeOK, Invocation, AcquireCount, Refused, Full
<1>2. TypeOK'
  BY <1>1, EnvironmentAssumption DEF TypeOK, AcquireCount, Call, Phase
<1>3. /\ inv'[c] = inv[c] /\ calls'[c] = calls[c] + 1
      /\ active'[c] = active[c] /\ refs' = refs + 1
      /\ phase[c] = "program" /\ phase'[c] = "counted" /\ x0'[c] = x0[c]
      /\ index'[c] = inv[c].acquired
  BY DEF TypeOK, AcquireCount, Call
<1>4. AccountsOf(c)' /\ Tagged(c)' = Tagged(c)
  <2>1. calls[c] <= calls'[c]
    BY <1>3, EnvironmentAssumption DEF TypeOK
  <2> QED
    BY <2>1, <1>2, <1>3, SameInvocation, SameAccounts DEF LocalInv
<1>5. ControlOf(c)'
  BY <1>1, <1>3 DEF LocalInv, ControlOf
<1>6. Only(c)
  BY DEF Only, TypeOK, AcquireCount, Call
<1>7. RefStep(c)
  BY <1>3, <1>4 DEF RefStep, CountUp, InFlight
<1> QED
  BY <1>2, <1>4, <1>5, <1>6, <1>7 DEF KeepsLocal, LocalInv

\* The authority is stored into the first unused cell.
LEMMA AcquireStoreKeeps ==
    ASSUME IInv, NEW c \in CPU, AcquireStore(c)
    PROVE  /\ KeepsLocal(c) /\ Stored(c, inv[c].acquired)
           /\ inv'[c].acquired = inv[c].acquired + 1
<1> USE DEF IInv
<1> DEFINE s == inv[c]
           n == s.acquired
           t == [s EXCEPT !.cells[n] = "tagged", !.views[n] = View(n),
                          !.acquired = n + 1]
<1>1. /\ s \in Invocation /\ n \in {0, 1} /\ index[c] = n
      /\ s.entered /\ ~s.failed
  BY DEF TypeOK, Invocation, AcquireStore, LocalInv, ControlOf
<1>2. /\ t.cells = [s.cells EXCEPT ![n] = "tagged"]
      /\ t.views = [s.views EXCEPT ![n] = View(n)]
      /\ t.acquired = n + 1 /\ t.released = s.released
      /\ t.reads = s.reads /\ t.cleanup = s.cleanup
      /\ t.entered = s.entered /\ t.failed = s.failed
  BY <1>1 DEF Invocation
<1>3. t \in Invocation
  <2>1. n \in CellIndex /\ View(n) \in Argument
    BY <1>1 DEF CellIndex, Argument
  <2>2. t.cells \in [CellIndex -> {"null", "tagged", "cleared"}]
    BY <1>1, <1>2, <2>1 DEF Invocation
  <2>3. t.views \in [CellIndex -> Argument]
    BY <1>1, <1>2, <2>1 DEF Invocation
  <2>4. t.acquired \in 0 .. 2
    BY <1>1, <1>2
  <2> QED
    BY <1>1, <2>2, <2>3, <2>4 DEF Invocation
<1>4. inv' = [inv EXCEPT ![c] = t]
  BY <1>1 DEF AcquireStore, TypeOK, Invocation
<1> HIDE DEF t
<1>5. TypeOK'
  <2>1. inv' \in [CPU -> Invocation]
    BY <1>3, <1>4 DEF TypeOK
  <2> QED
    BY <2>1 DEF TypeOK, AcquireStore, Return, Phase
<1>6. /\ inv'[c] = t /\ calls'[c] = calls[c]
      /\ active'[c] = active[c] /\ refs' = refs
      /\ phase[c] = "counted" /\ phase'[c] = "gateway"
      /\ x0'[c] = "view"
  BY <1>4 DEF TypeOK, AcquireStore, Return
<1>7. n \in CellIndex \ Tagged(c) /\ Tagged(c)' = Tagged(c) \cup {n}
  <2>1. n \in CellIndex /\ s.cells[n] = "null"
    BY <1>1 DEF LocalInv, AccountsOf, CellIndex
  <2> QED
    BY <1>1, <1>2, <1>6, <2>1 DEF Tagged, Invocation
<1>8. AccountsOf(c)'
  <2>1. Cardinality(Tagged(c)') = Cardinality(Tagged(c)) + 1
    BY <1>7, TaggedFinite, OneElement
  <2>2. /\ s.released \in Int /\ s.cleanup \in Int /\ s.reads \in Int
        /\ Cardinality(Tagged(c)) \in Int /\ calls[c] \in Int /\ n \in Int
    BY <1>1, TaggedFinite, EnvironmentAssumption DEF Invocation, TypeOK
  <2>3. /\ n = s.released + Cardinality(Tagged(c)) + 0
        /\ s.cleanup <= s.released
        /\ s.reads + s.released - s.cleanup + 0 <= calls[c]
    BY <1>6 DEF LocalInv, AccountsOf
  <2>4. /\ t.acquired = t.released + Cardinality(Tagged(c)') + 0
        /\ t.cleanup <= t.released
        /\ t.reads + t.released - t.cleanup + 0 <= calls'[c]
    BY <1>2, <1>6, <2>1, <2>2, <2>3
  <2>5. \A i \in CellIndex :
          /\ i < t.acquired <=> t.views[i] = View(i)
          /\ i < t.acquired <=> t.cells[i] # "null"
    <3> TAKE i \in CellIndex
    <3>1. /\ i < n <=> s.views[i] = View(i)
          /\ i < n <=> s.cells[i] # "null"
      BY DEF LocalInv, AccountsOf
    <3>2. CASE i = n
      BY <3>2, <1>1, <1>2 DEF Invocation, CellIndex
    <3>3. CASE i # n
      <4>1. t.views[i] = s.views[i] /\ t.cells[i] = s.cells[i]
        BY <3>3, <1>1, <1>2 DEF Invocation
      <4>2. i < t.acquired <=> i < n
        BY <3>3, <1>1, <1>2 DEF CellIndex
      <4> QED
        BY <3>1, <4>1, <4>2
    <3> QED
      BY <3>2, <3>3
  <2> QED
    BY <1>6, <2>4, <2>5 DEF AccountsOf
<1>9. ControlOf(c)'
  BY <1>1, <1>2, <1>6 DEF LocalInv, ControlOf
<1>10. Only(c)
  BY <1>4 DEF Only, TypeOK, AcquireStore, Return
<1>11. Stored(c, n)
  BY <1>6, <1>7 DEF Stored, InFlight
<1>12. RefStep(c)
  BY <1>7, <1>11 DEF RefStep
<1> QED
  BY <1>2, <1>5, <1>6, <1>8, <1>9, <1>10, <1>11, <1>12
     DEF KeepsLocal, LocalInv

\* Clearing one cell of an invocation: what both halves of cbpf_consume need.
LEMMA ClearKeeps ==
    ASSUME IInv, NEW c \in CPU, NEW i \in CellIndex,
           inv[c].cells[i] = "tagged",
           NEW where \in {"releasing", "dropping"},
           Clear(c, i, where)
    PROVE  /\ inv' \in [CPU -> Invocation] /\ phase' \in [CPU -> Phase]
           /\ index' \in [CPU -> 0 .. 2]
           /\ i \in Tagged(c) /\ Tagged(c)' = Tagged(c) \ {i}
           /\ Cardinality(Tagged(c)') + 1 = Cardinality(Tagged(c))
           /\ inv'[c] = [inv[c] EXCEPT !.cells[i] = "cleared"]
           /\ i < inv[c].acquired
           /\ \A j \in CellIndex :
                 /\ j < inv[c].acquired <=> inv[c].views[j] = View(j)
                 /\ j < inv[c].acquired <=> inv'[c].cells[j] # "null"
<1> USE DEF IInv
<1> DEFINE s == inv[c]
           t == [s EXCEPT !.cells[i] = "cleared"]
<1>1. s \in Invocation /\ i \in 0 .. 2
  BY DEF TypeOK, CellIndex
<1>2. /\ t.cells = [s.cells EXCEPT ![i] = "cleared"] /\ t \in Invocation
  BY <1>1 DEF Invocation
<1>3. inv' = [inv EXCEPT ![c] = t]
  BY <1>1 DEF Clear, TagCleared, TypeOK, Invocation
<1>4. \A j \in CellIndex :
        /\ j < s.acquired <=> s.views[j] = View(j)
        /\ j < s.acquired <=> s.cells[j] # "null"
  BY DEF LocalInv, AccountsOf
<1>5. i < s.acquired
  BY <1>4
<1>6. \A j \in CellIndex : t.cells[j] = IF j = i THEN "cleared" ELSE s.cells[j]
  BY <1>1, <1>2 DEF Invocation
<1>7. inv'[c] = t
  BY <1>3 DEF TypeOK
<1> HIDE DEF t
<1>8. i \in Tagged(c) /\ Tagged(c)' = Tagged(c) \ {i}
  BY <1>6, <1>7 DEF Tagged
<1>9. Cardinality(Tagged(c)') + 1 = Cardinality(Tagged(c))
  BY <1>8, TaggedFinite, OneElement
<1>10. \A j \in CellIndex : j < s.acquired <=> t.cells[j] # "null"
  BY <1>4, <1>6
<1>11. inv' \in [CPU -> Invocation]
  BY <1>2, <1>3 DEF TypeOK
<1>12. phase' \in [CPU -> Phase] /\ index' \in [CPU -> 0 .. 2]
  BY <1>1 DEF Clear, TypeOK, Phase
<1> QED
  BY <1>4, <1>5, <1>7, <1>8, <1>9, <1>10, <1>11, <1>12 DEF t

\* A release clears a live cell before it counts.
LEMMA ReleaseKeeps ==
    ASSUME IInv, NEW c \in CPU, NEW op \in Operation, NEW a \in Argument,
           Release(c, op, a)
    PROVE  KeepsLocal(c)
<1> USE DEF IInv
<1>1. PICK i \in CellIndex :
        inv[c].cells[i] = "tagged" /\ Clear(c, i, "releasing")
  BY DEF Release, Usable
<1>2. /\ inv' \in [CPU -> Invocation] /\ phase' \in [CPU -> Phase]
      /\ index' \in [CPU -> 0 .. 2]
      /\ i \in Tagged(c) /\ Tagged(c)' = Tagged(c) \ {i}
      /\ Cardinality(Tagged(c)') + 1 = Cardinality(Tagged(c))
      /\ inv'[c] = [inv[c] EXCEPT !.cells[i] = "cleared"]
      /\ i < inv[c].acquired
      /\ \A j \in CellIndex :
            /\ j < inv[c].acquired <=> inv[c].views[j] = View(j)
            /\ j < inv[c].acquired <=> inv'[c].cells[j] # "null"
  BY <1>1, ClearKeeps
<1>3. TypeOK'
  <2>1. calls' \in [CPU -> 0 .. MaxCalls]
    BY EnvironmentAssumption DEF TypeOK, Release, Call
  <2>2. UNCHANGED <<refs, active, x0, result, verdict>>
    BY DEF Release, Call
  <2> QED
    BY <1>2, <2>1, <2>2 DEF TypeOK
<1>4. /\ calls'[c] = calls[c] + 1 /\ active'[c] = active[c] /\ refs' = refs
      /\ phase[c] = "program" /\ phase'[c] = "releasing"
      /\ index'[c] = i /\ x0'[c] = x0[c]
  BY <1>1 DEF TypeOK, Release, Call, Clear
<1>5. /\ inv'[c].views = inv[c].views /\ inv'[c].acquired = inv[c].acquired
      /\ inv'[c].released = inv[c].released
      /\ inv'[c].cleanup = inv[c].cleanup /\ inv'[c].reads = inv[c].reads
      /\ inv'[c].entered = inv[c].entered /\ inv'[c].failed = inv[c].failed
      /\ inv'[c].cells = [inv[c].cells EXCEPT ![i] = "cleared"]
  BY <1>2 DEF TypeOK, Invocation
<1>6. AccountsOf(c)'
  <2>1. /\ inv[c].released \in Int /\ inv[c].cleanup \in Int
        /\ inv[c].reads \in Int /\ calls[c] \in Int
        /\ Cardinality(Tagged(c)) \in Int /\ Cardinality(Tagged(c)') \in Int
    <3>1. Cardinality(Tagged(c)') \in Int
      BY <1>2, TaggedFinite, OneElement, SMTT(30)
    <3> QED
      BY <3>1, TaggedFinite, EnvironmentAssumption DEF Invocation, TypeOK
  <2>2. /\ inv[c].acquired = inv[c].released + Cardinality(Tagged(c)) + 0
        /\ inv[c].cleanup <= inv[c].released
        /\ inv[c].reads + inv[c].released - inv[c].cleanup + 0 <= calls[c]
    BY <1>4 DEF LocalInv, AccountsOf
  <2>3. /\ inv'[c].acquired
              = inv'[c].released + Cardinality(Tagged(c)') + 1
        /\ inv'[c].cleanup <= inv'[c].released
        /\ inv'[c].reads + inv'[c].released - inv'[c].cleanup
              + 1 <= calls'[c]
    BY <1>2, <1>4, <1>5, <2>1, <2>2
  <2>4. \A j \in CellIndex :
          /\ j < inv'[c].acquired <=> inv'[c].views[j] = View(j)
          /\ j < inv'[c].acquired <=> inv'[c].cells[j] # "null"
    BY <1>2, <1>5
  <2> QED
    BY <1>4, <2>3, <2>4 DEF AccountsOf
<1>7. ControlOf(c)'
  BY <1>2, <1>4, <1>5 DEF LocalInv, ControlOf
<1>8. Only(c)
  BY <1>1 DEF Only, TypeOK, Release, Clear, Call
<1>9. RefStep(c)
  BY <1>2, <1>4 DEF RefStep, Cleared, InFlight
<1> QED
  BY <1>3, <1>6, <1>7, <1>8, <1>9 DEF KeepsLocal, LocalInv

\* The cleanup loop clears the live cell it stands at.
LEMMA CleanupClearKeeps ==
    ASSUME IInv, NEW c \in CPU, CleanupClear(c)
    PROVE  KeepsLocal(c)
<1> USE DEF IInv
<1>1. PICK i \in CellIndex :
        inv[c].cells[i] = "tagged" /\ Clear(c, i, "dropping")
        /\ i = index[c]
  <2>1. index[c] \in CellIndex
    <3>1. inv[c].acquired \in 0 .. 2 /\ index[c] \in 0 .. 2
      BY DEF TypeOK, Invocation
    <3> QED
      BY <3>1 DEF CleanupClear, CellIndex
  <2> QED
    BY <2>1 DEF CleanupClear
<1>2. /\ inv' \in [CPU -> Invocation] /\ phase' \in [CPU -> Phase]
      /\ index' \in [CPU -> 0 .. 2]
      /\ i \in Tagged(c) /\ Tagged(c)' = Tagged(c) \ {i}
      /\ Cardinality(Tagged(c)') + 1 = Cardinality(Tagged(c))
      /\ inv'[c] = [inv[c] EXCEPT !.cells[i] = "cleared"]
      /\ i < inv[c].acquired
      /\ \A j \in CellIndex :
            /\ j < inv[c].acquired <=> inv[c].views[j] = View(j)
            /\ j < inv[c].acquired <=> inv'[c].cells[j] # "null"
  BY <1>1, ClearKeeps
<1>3. TypeOK'
  BY <1>2, EnvironmentAssumption DEF TypeOK, CleanupClear
<1>4. /\ calls'[c] = calls[c] /\ active'[c] = active[c] /\ refs' = refs
      /\ phase[c] = "cleanup" /\ phase'[c] = "dropping"
      /\ index'[c] = i /\ x0'[c] = x0[c]
  BY <1>1 DEF TypeOK, CleanupClear, Clear
<1>5. /\ inv'[c].views = inv[c].views /\ inv'[c].acquired = inv[c].acquired
      /\ inv'[c].released = inv[c].released
      /\ inv'[c].cleanup = inv[c].cleanup /\ inv'[c].reads = inv[c].reads
      /\ inv'[c].entered = inv[c].entered /\ inv'[c].failed = inv[c].failed
      /\ inv'[c].cells = [inv[c].cells EXCEPT ![i] = "cleared"]
  BY <1>2 DEF TypeOK, Invocation
<1>6. AccountsOf(c)'
  <2>1. /\ inv[c].released \in Int /\ inv[c].cleanup \in Int
        /\ inv[c].reads \in Int /\ calls[c] \in Int
        /\ Cardinality(Tagged(c)) \in Int /\ Cardinality(Tagged(c)') \in Int
    <3>1. Cardinality(Tagged(c)') \in Int
      BY <1>2, TaggedFinite, OneElement
    <3> QED
      BY <3>1, TaggedFinite, EnvironmentAssumption DEF Invocation, TypeOK
  <2>2. /\ inv[c].acquired = inv[c].released + Cardinality(Tagged(c)) + 0
        /\ inv[c].cleanup <= inv[c].released
        /\ inv[c].reads + inv[c].released - inv[c].cleanup + 0 <= calls[c]
    BY <1>4 DEF LocalInv, AccountsOf
  <2>3. /\ inv'[c].acquired
              = inv'[c].released + Cardinality(Tagged(c)') + 1
        /\ inv'[c].cleanup <= inv'[c].released
        /\ inv'[c].reads + inv'[c].released - inv'[c].cleanup
              + 0 <= calls'[c]
    BY <1>2, <1>4, <1>5, <2>1, <2>2
  <2>4. \A j \in CellIndex :
          /\ j < inv'[c].acquired <=> inv'[c].views[j] = View(j)
          /\ j < inv'[c].acquired <=> inv'[c].cells[j] # "null"
    BY <1>2, <1>5
  <2> QED
    BY <1>4, <2>3, <2>4 DEF AccountsOf
<1>7. ControlOf(c)'
  <2>1. \A j \in CellIndex : j < i => inv'[c].cells[j] # "tagged"
    BY <1>1, <1>4, <1>5 DEF LocalInv, ControlOf, TypeOK, Invocation
  <2>2. inv'[c].cells[i] # "tagged"
    BY <1>5 DEF TypeOK, Invocation
  <2> QED
    BY <1>2, <1>4, <1>5, <2>1, <2>2 DEF LocalInv, ControlOf
<1>8. Only(c)
  BY <1>1 DEF Only, TypeOK, CleanupClear, Clear
<1>9. RefStep(c)
  BY <1>2, <1>4 DEF RefStep, Cleared, InFlight
<1> QED
  BY <1>3, <1>6, <1>7, <1>8, <1>9 DEF KeepsLocal, LocalInv

\* refcount_dec follows the program's release.
LEMMA ReleaseCountKeeps ==
    ASSUME IInv, NEW c \in CPU, ReleaseCount(c)
    PROVE  KeepsLocal(c)
<1> USE DEF IInv
<1> DEFINE s == inv[c]
           t == [s EXCEPT !.released = s.released + 1]
<1>1. /\ s \in Invocation /\ phase[c] = "releasing" /\ index[c] < s.acquired
      /\ s.released \in Int /\ s.cleanup \in Int /\ s.reads \in Int
      /\ calls[c] \in Int /\ Cardinality(Tagged(c)) \in Nat
      /\ s.acquired \in 0 .. 2 /\ index[c] \in 0 .. 2
  BY TaggedFinite, EnvironmentAssumption
     DEF TypeOK, Invocation, ReleaseCount, LocalInv, ControlOf
<1>2. /\ s.acquired = s.released + Cardinality(Tagged(c)) + 1
      /\ s.cleanup <= s.released
      /\ s.reads + s.released - s.cleanup + 1 <= calls[c]
  BY <1>1 DEF LocalInv, AccountsOf
<1>3. /\ t.released = s.released + 1 /\ t.cleanup = s.cleanup
      /\ t.cells = s.cells /\ t.views = s.views /\ t.acquired = s.acquired
      /\ t.reads = s.reads /\ t.entered = s.entered /\ t.failed = s.failed
  BY <1>1 DEF Invocation
<1>4. t \in Invocation
  <2>1. s.released \in 0 .. 2 /\ s.cleanup \in 0 .. 2
    BY <1>1 DEF Invocation
  <2>2. s.released + 1 \in 0 .. 2 /\ s.cleanup \in 0 .. 2
    BY <1>1, <1>2, <2>1
  <2> QED
    BY <1>1, <2>2 DEF Invocation
<1>5. inv' = [inv EXCEPT ![c] = t]
  BY <1>1 DEF ReleaseCount, TypeOK, Invocation
<1> HIDE DEF t
<1>6. TypeOK'
  <2>1. inv' \in [CPU -> Invocation]
    BY <1>4, <1>5 DEF TypeOK
  <2>2. refs' \in Int
    BY DEF TypeOK, ReleaseCount
  <2> QED
    BY <2>1, <2>2 DEF TypeOK, ReleaseCount, Return, Phase
<1>7. /\ inv'[c] = t /\ calls'[c] = calls[c] /\ active'[c] = active[c]
      /\ refs' = refs - 1 /\ phase'[c] = "gateway"
      /\ index'[c] = index[c] /\ x0'[c] = "zero"
  BY <1>5 DEF TypeOK, ReleaseCount, Return
<1>8. Tagged(c)' = Tagged(c)
  BY <1>3, <1>7 DEF Tagged
<1>9. AccountsOf(c)'
  <2>1. /\ t.acquired = t.released + Cardinality(Tagged(c)') + 0
        /\ t.cleanup <= t.released
        /\ t.reads + t.released - t.cleanup + 0 <= calls'[c]
    BY <1>1, <1>2, <1>3, <1>7, <1>8
  <2>2. \A j \in CellIndex :
          /\ j < t.acquired <=> t.views[j] = View(j)
          /\ j < t.acquired <=> t.cells[j] # "null"
    BY <1>3 DEF LocalInv, AccountsOf
  <2> QED
    BY <1>7, <2>1, <2>2 DEF AccountsOf
<1>10. ControlOf(c)'
  BY <1>1, <1>3, <1>7 DEF LocalInv, ControlOf
<1>11. Only(c)
  BY <1>5 DEF Only, TypeOK, ReleaseCount, Return
<1>12. RefStep(c)
  BY <1>1, <1>7, <1>8 DEF RefStep, CountDown, InFlight
<1> QED
  BY <1>6, <1>9, <1>10, <1>11, <1>12 DEF KeepsLocal, LocalInv

\* refcount_dec follows the cleanup loop's release.
LEMMA CleanupCountKeeps ==
    ASSUME IInv, NEW c \in CPU, CleanupCount(c)
    PROVE  KeepsLocal(c)
<1> USE DEF IInv
<1> DEFINE s == inv[c]
           t == [s EXCEPT !.released = s.released + 1, !.cleanup = s.cleanup + 1]
<1>1. /\ s \in Invocation /\ phase[c] = "dropping" /\ index[c] < s.acquired
      /\ s.released \in Int /\ s.cleanup \in Int /\ s.reads \in Int
      /\ calls[c] \in Int /\ Cardinality(Tagged(c)) \in Nat
      /\ s.acquired \in 0 .. 2 /\ index[c] \in 0 .. 2
  BY TaggedFinite, EnvironmentAssumption
     DEF TypeOK, Invocation, CleanupCount, LocalInv, ControlOf
<1>2. /\ s.acquired = s.released + Cardinality(Tagged(c)) + 1
      /\ s.cleanup <= s.released
      /\ s.reads + s.released - s.cleanup + 0 <= calls[c]
  BY <1>1 DEF LocalInv, AccountsOf
<1>3. /\ t.released = s.released + 1 /\ t.cleanup = s.cleanup + 1
      /\ t.cells = s.cells /\ t.views = s.views /\ t.acquired = s.acquired
      /\ t.reads = s.reads /\ t.entered = s.entered /\ t.failed = s.failed
  BY <1>1 DEF Invocation
<1>4. t \in Invocation
  <2>1. s.released \in 0 .. 2 /\ s.cleanup \in 0 .. 2
    BY <1>1 DEF Invocation
  <2>2. s.released + 1 \in 0 .. 2 /\ s.cleanup + 1 \in 0 .. 2
    BY <1>1, <1>2, <2>1
  <2> QED
    BY <1>1, <2>2 DEF Invocation
<1>5. inv' = [inv EXCEPT ![c] = t]
  BY <1>1 DEF CleanupCount, TypeOK, Invocation
<1> HIDE DEF t
<1>6. TypeOK'
  <2>1. inv' \in [CPU -> Invocation]
    BY <1>4, <1>5 DEF TypeOK
  <2>2. refs' \in Int
    BY DEF TypeOK, CleanupCount
  <2>3. index[c] + 1 \in 0 .. 2
    BY <1>1
  <2> QED
    BY <2>1, <2>2, <2>3 DEF TypeOK, CleanupCount, Phase
<1>7. /\ inv'[c] = t /\ calls'[c] = calls[c] /\ active'[c] = active[c]
      /\ refs' = refs - 1 /\ phase'[c] = "cleanup"
      /\ index'[c] = index[c] + 1 /\ x0'[c] = x0[c]
  BY <1>5 DEF TypeOK, CleanupCount
<1>8. Tagged(c)' = Tagged(c)
  BY <1>3, <1>7 DEF Tagged
<1>9. AccountsOf(c)'
  <2>1. /\ t.acquired = t.released + Cardinality(Tagged(c)') + 0
        /\ t.cleanup <= t.released
        /\ t.reads + t.released - t.cleanup + 0 <= calls'[c]
    BY <1>1, <1>2, <1>3, <1>7, <1>8
  <2>2. \A j \in CellIndex :
          /\ j < t.acquired <=> t.views[j] = View(j)
          /\ j < t.acquired <=> t.cells[j] # "null"
    BY <1>3 DEF LocalInv, AccountsOf
  <2> QED
    BY <1>7, <2>1, <2>2 DEF AccountsOf
<1>10. ControlOf(c)'
  <2>1. \A j \in CellIndex : j < index'[c] => j < index[c] \/ j = index[c]
    BY <1>1, <1>7 DEF CellIndex
  <2> QED
    BY <1>1, <1>3, <1>7, <2>1 DEF LocalInv, ControlOf
<1>11. Only(c)
  BY <1>5 DEF Only, TypeOK, CleanupCount
<1>12. RefStep(c)
  BY <1>1, <1>7, <1>8 DEF RefStep, CountDown, InFlight
<1> QED
  BY <1>6, <1>9, <1>10, <1>11, <1>12 DEF KeepsLocal, LocalInv

-----------------------------------------------------------------------------
(* The end of an invocation. *)

\* When the cleanup loop is over nothing is owned, so acquired # released can
\* no longer be what makes the invocation a failure.
LEMMA CleanedUp ==
    ASSUME IInv, NEW c \in CPU,
           phase[c] = "cleanup", index[c] >= inv[c].acquired
    PROVE  Tagged(c) = {} /\ inv[c].acquired = inv[c].released
<1> USE DEF IInv
<1>1. /\ inv[c].acquired \in 0 .. 2 /\ index[c] \in 0 .. 2
      /\ inv[c].released \in Int
  BY DEF TypeOK, Invocation
<1>2. ASSUME NEW i \in CellIndex PROVE inv[c].cells[i] # "tagged"
  <2>1. CASE i < index[c]
    BY <2>1 DEF LocalInv, ControlOf
  <2>2. CASE ~(i < index[c])
    <3>1. ~(i < inv[c].acquired)
      BY <2>2, <1>1 DEF CellIndex
    <3> QED
      BY <3>1 DEF LocalInv, AccountsOf
  <2> QED
    BY <2>1, <2>2
<1>3. Tagged(c) = {}
  BY <1>2 DEF Tagged
<1>4. Cardinality(Tagged(c)) = 0
  BY <1>3, FS_EmptySet
<1>5. inv[c].acquired = inv[c].released + Cardinality(Tagged(c)) + 0
  BY DEF LocalInv, AccountsOf
<1> QED
  BY <1>1, <1>3, <1>4, <1>5

\* An invocation ends with nothing owned and an honest verdict.
LEMMA FinishKeeps ==
    ASSUME IInv, NEW c \in CPU, Finish(c)
    PROVE  KeepsLocal(c) /\ VerdictHonest'
<1> USE DEF IInv
<1> DEFINE s == inv[c]
           v == [entered |-> s.entered,
                 aborted |-> s.entered /\ x0[c] = "failure",
                 failed  |-> Failed(s),
                 value   |-> IF Failed(s) THEN 0 ELSE result[c]]
<1>1. Tagged(c) = {} /\ s.acquired = s.released /\ phase[c] = "cleanup"
  BY CleanedUp DEF Finish
<1>2. /\ s.failed \in BOOLEAN /\ s.entered \in BOOLEAN
      /\ result[c] \in Result /\ calls[c] \in Nat
      /\ (s.failed <=> x0[c] = "failure")
  BY EnvironmentAssumption DEF TypeOK, Invocation, LocalInv, ControlOf
<1>3. Failed(s) <=> s.failed \/ ~s.entered
  BY <1>1 DEF Failed
<1>4. v \in Verdict
  BY <1>2, EnvironmentAssumption DEF Verdict, Failed
<1>5. /\ v.failed <=> ~v.entered \/ v.aborted
      /\ v.failed => v.value = 0
  BY <1>2, <1>3
<1>6. verdict' = [verdict EXCEPT ![c] = v]
  BY DEF Finish
<1> HIDE DEF v
<1>7. TypeOK'
  BY <1>4, <1>6, FreshType DEF TypeOK, Finish, Phase
<1>8. VerdictHonest'
  BY <1>5, <1>6 DEF VerdictHonest, TypeOK
<1>9. /\ inv'[c] = FreshInvocation /\ calls'[c] = calls[c] /\ ~active'[c]
      /\ refs' = refs /\ phase'[c] = "idle" /\ x0'[c] = "zero"
  BY DEF TypeOK, Finish
<1>10. AccountsOf(c)' /\ Tagged(c)' = {}
  BY <1>2, <1>9, FreshAccounts
<1>11. ControlOf(c)'
  BY <1>9 DEF ControlOf, FreshInvocation
<1>12. Only(c)
  BY <1>6 DEF Only, TypeOK, Finish
<1>13. RefStep(c)
  BY <1>1, <1>9, <1>10 DEF RefStep, Quiet, InFlight
<1> QED
  BY <1>7, <1>8, <1>10, <1>11, <1>12, <1>13 DEF KeepsLocal, LocalInv

-----------------------------------------------------------------------------
(* The invariant. *)

\* Every step is one CPU's, keeps what holds of it, and has a shape.
LEMMA StepKeeps ==
    ASSUME IInv, NEW c \in CPU, Invoke(c) \/ Run(c)
    PROVE  KeepsLocal(c) /\ VerdictHonest'
<1>1. CASE Finish(c)
  BY <1>1, FinishKeeps
<1>2. CASE ~Finish(c)
  <2>1. KeepsLocal(c)
    BY <1>2, InvokeKeeps, EnterRejectedKeeps, EnterKeeps, RejectKeeps,
       AcquireNullKeeps, AcquireCountKeeps, AcquireStoreKeeps, ReadKeeps,
       ReleaseKeeps, ReleaseCountKeeps, ContinueKeeps, AbortKeeps, ExitKeeps,
       CleanupClearKeeps, CleanupCountKeeps, CleanupSkipKeeps
       DEF Run, Gate
  <2>2. verdict' = verdict
    BY <1>2 DEF Run, Gate, Invoke, EnterRejected, Enter, Reject, AcquireNull,
       AcquireCount, AcquireStore, Read, Release, ReleaseCount, Continue,
       Abort, Exit, CleanupClear, CleanupCount, CleanupSkip, Call
  <2> QED
    BY <2>1, <2>2 DEF IInv, VerdictHonest
<1> QED
  BY <1>1, <1>2

\* Another CPU's step leaves what holds of this one alone.
LEMMA Unaffected ==
    ASSUME NEW c \in CPU, Only(c), NEW d \in CPU, d # c, LocalInv(d)
    PROVE  LocalInv(d)'
<1>1. /\ active'[d] = active[d] /\ inv'[d] = inv[d] /\ phase'[d] = phase[d]
      /\ index'[d] = index[d] /\ calls'[d] = calls[d] /\ x0'[d] = x0[d]
  BY DEF Only
<1>2. Tagged(d)' = Tagged(d)
  BY <1>1 DEF Tagged
<1> QED
  BY <1>1, <1>2 DEF LocalInv, AccountsOf, ControlOf

\* IInv holds at boot.
LEMMA InitIInv == Init => IInv
<1> SUFFICES ASSUME Init PROVE IInv
  OBVIOUS
<1>1. TypeOK
  BY FreshType, EnvironmentAssumption
     DEF Init, TypeOK, Phase, NoVerdict, Verdict
<1>2. \A c \in CPU : inv[c] = FreshInvocation /\ Tagged(c) = {}
  BY DEF Init, Tagged, FreshInvocation
<1>3. ASSUME NEW c \in CPU PROVE LocalInv(c)
  <2>1. Cardinality(Tagged(c)) = 0
    BY <1>2, FS_EmptySet
  <2>2. \A i \in CellIndex :
          /\ FreshInvocation.views[i] # View(i)
          /\ FreshInvocation.cells[i] = "null"
          /\ ~(i < FreshInvocation.acquired)
    BY ViewNotPlain DEF FreshInvocation, CellIndex
  <2>3. /\ inv[c].acquired = 0 /\ inv[c].released = 0
        /\ inv[c].cleanup = 0 /\ inv[c].reads = 0 /\ ~inv[c].failed
    BY <1>2 DEF FreshInvocation
  <2>4. /\ phase[c] = "idle" /\ ~active[c] /\ calls[c] = 0
        /\ x0[c] = "zero" /\ index[c] = 0
    BY DEF Init
  <2>5. \A i \in CellIndex :
          /\ i < inv[c].acquired <=> inv[c].views[i] = View(i)
          /\ i < inv[c].acquired <=> inv[c].cells[i] # "null"
    BY <1>2, <2>2
  <2>6. AccountsOf(c)
    BY <2>1, <2>3, <2>4, <2>5 DEF AccountsOf
  <2>7. ControlOf(c)
    BY <1>2, <2>3, <2>4 DEF ControlOf
  <2> QED
    BY <2>6, <2>7 DEF LocalInv
<1>4. Rights = {} /\ Pending = {}
  BY <1>2 DEF Rights, Pending, Init
<1>5. RefsConserved
  BY <1>4, FS_EmptySet DEF RefsConserved, Init
<1>6. VerdictHonest
  BY DEF Init, VerdictHonest, NoVerdict
<1> QED
  BY <1>1, <1>3, <1>5, <1>6 DEF IInv

\* A state in which nothing changed is as good as the one before.
LEMMA StutterIInv == IInv /\ UNCHANGED vars => IInv'
<1> SUFFICES ASSUME IInv, UNCHANGED vars PROVE IInv'
  OBVIOUS
<1> USE DEF vars
<1>1. \A c : Tagged(c)' = Tagged(c)
  BY DEF Tagged
<1>2. \A c : LocalInv(c)' <=> LocalInv(c)
  BY <1>1 DEF LocalInv, AccountsOf, ControlOf
<1>3. Rights' = Rights /\ Pending' = Pending
  BY <1>1 DEF Rights, Pending
<1>4. TypeOK' /\ VerdictHonest'
  BY DEF IInv, TypeOK, VerdictHonest
<1>5. RefsConserved'
  BY <1>3 DEF IInv, RefsConserved
<1> QED
  BY <1>2, <1>4, <1>5 DEF IInv

\* IInv is kept by every step of every CPU.
LEMMA StepIInv == IInv /\ [Next]_vars => IInv'
<1>1. ASSUME IInv, NEW c \in CPU, Invoke(c) \/ Run(c) PROVE IInv'
  <2>1. KeepsLocal(c) /\ VerdictHonest'
    BY <1>1, StepKeeps
  <2>2. TypeOK' /\ LocalInv(c)' /\ Only(c) /\ RefStep(c)
    BY <2>1 DEF KeepsLocal
  <2>3. \A d \in CPU : LocalInv(d)'
    BY <1>1, <2>2, Unaffected DEF IInv
  <2>4. RefsConserved'
    BY <1>1, <2>2, RefStepConserves DEF IInv
  <2> QED
    BY <2>1, <2>2, <2>3, <2>4 DEF IInv
<1> QED
  BY <1>1, StutterIInv DEF Next

\* IInv holds throughout every run.
THEOREM KernelInvariant == Spec => []IInv
  BY InitIInv, StepIInv, PTL DEF Spec

\* Every variable keeps its type.
THEOREM KernelTypes == Spec => []TypeOK
  BY KernelInvariant, PTL DEF IInv

\* The shared count is the baseline, the rights and the CPUs in between, for
\* any number of CPUs (refcount_inc and refcount_dec of cbpf_object.refs).
THEOREM KernelRefsConserved == Spec => []RefsConserved
  BY KernelInvariant, PTL DEF IInv

\* An invocation's counters agree with its cells, whatever its program does
\* (cbpf_gate_impl, cbpf_consume and the cleanup loop).
THEOREM KernelAccountsMatch == Spec => []AccountsMatch
<1>1. IInv => AccountsMatch
  <2> SUFFICES ASSUME IInv, NEW c \in CPU
               PROVE  /\ AccountsOf(c)
                      /\ inv[c].reads + inv[c].released - inv[c].cleanup
                            <= calls[c]
    BY DEF AccountsMatch, AccountsOf
  <2>1. AccountsOf(c)
    BY DEF IInv, LocalInv
  <2>2. /\ inv[c].reads \in Int /\ inv[c].released \in Int
        /\ inv[c].cleanup \in Int /\ calls[c] \in Int
    BY EnvironmentAssumption DEF IInv, TypeOK, Invocation
  <2> QED
    BY <2>1, <2>2 DEF AccountsOf
<1> QED
  BY <1>1, KernelInvariant, PTL

\* A caller is told of a failure exactly when the program did not run to its
\* own exit (cbpf_test_invoke's failed and its return value).
THEOREM KernelVerdictHonest == Spec => []VerdictHonest
  BY KernelInvariant, PTL DEF IInv

-----------------------------------------------------------------------------
(* What a step may never do. *)

\* A step of the CPU after a refused gate call is cleanup, or ends it.
LEMMA FailedStep ==
    ASSUME IInv, NEW c \in CPU, Invoke(c) \/ Run(c),
           inv[c].failed, inv'[c].failed
    PROVE  OnlyCleanupAfter(c)
<1> USE DEF IInv
<1>1. phase[c] \in {"gateway", "cleanup", "dropping"} /\ x0[c] = "failure"
  BY DEF LocalInv, ControlOf, FreshInvocation, TypeOK, Phase
<1>2. \/ Abort(c) \/ CleanupClear(c) \/ CleanupCount(c)
      \/ CleanupSkip(c) \/ Finish(c)
  BY <1>1 DEF Run, Gate, Invoke, EnterRejected, Enter, Reject, AcquireNull,
     AcquireCount, AcquireStore, Read, Release, ReleaseCount, Continue, Exit,
     Call
<1>3. inv[c] \in Invocation
  BY DEF TypeOK
<1>4. ~Finish(c)
  BY DEF Finish, TypeOK, FreshInvocation
<1>5. calls'[c] = calls[c]
  BY <1>2, <1>4 DEF Abort, CleanupClear, CleanupCount, CleanupSkip
<1>6. CASE Abort(c) \/ CleanupSkip(c)
  <2>1. inv'[c] = inv[c]
    BY <1>6 DEF Abort, CleanupSkip
  <2>2. inv[c].released \in Int /\ inv[c].cleanup \in Int
    BY <1>3 DEF Invocation
  <2> QED
    BY <1>5, <2>1, <2>2 DEF OnlyCleanupAfter
<1>7. CASE CleanupClear(c)
  <2>1. inv'[c] = [inv[c] EXCEPT !.cells[index[c]] = "cleared"]
    BY <1>7 DEF CleanupClear, Clear, TagCleared, TypeOK, Invocation
  <2>2. /\ inv'[c].acquired = inv[c].acquired
        /\ inv'[c].reads = inv[c].reads /\ inv'[c].views = inv[c].views
        /\ inv'[c].released = inv[c].released
        /\ inv'[c].cleanup = inv[c].cleanup
        /\ inv[c].released \in Int /\ inv[c].cleanup \in Int
    BY <1>3, <2>1 DEF Invocation
  <2> QED
    BY <1>5, <2>2 DEF OnlyCleanupAfter
<1>8. CASE CleanupCount(c)
  <2>1. inv'[c] = [inv[c] EXCEPT !.released = inv[c].released + 1,
                                 !.cleanup = inv[c].cleanup + 1]
    BY <1>8 DEF CleanupCount, TypeOK, Invocation
  <2>2. /\ inv'[c].acquired = inv[c].acquired
        /\ inv'[c].reads = inv[c].reads /\ inv'[c].views = inv[c].views
        /\ inv'[c].released = inv[c].released + 1
        /\ inv'[c].cleanup = inv[c].cleanup + 1
        /\ inv[c].released \in Int /\ inv[c].cleanup \in Int
    BY <1>3, <2>1 DEF Invocation
  <2> QED
    BY <1>5, <2>2 DEF OnlyCleanupAfter
<1> QED
  BY <1>2, <1>4, <1>6, <1>7, <1>8

\* Another CPU's step does nothing to this one's invocation.
LEMMA FailedElsewhere ==
    ASSUME IInv, NEW c \in CPU, Only(c), NEW d \in CPU, d # c
    PROVE  OnlyCleanupAfter(d)
<1>1. inv'[d] = inv[d] /\ calls'[d] = calls[d]
  BY DEF Only
<1>2. inv[d].released \in Int /\ inv[d].cleanup \in Int
  BY SMTT(30) DEF IInv, TypeOK, Invocation
<1> QED
  BY <1>1, <1>2 DEF OnlyCleanupAfter

\* After a refused gate call the program does nothing more (cbpf_fail and the
\* gateway's cmn x0, #1).
THEOREM KernelFailureIsTerminal == Spec => FailureIsTerminal
<1> DEFINE Terminal == \A c \in CPU :
              inv[c].failed /\ inv'[c].failed => OnlyCleanupAfter(c)
<1>1. IInv /\ [Next]_vars => [Terminal]_vars
  <2> SUFFICES ASSUME IInv, NEW c \in CPU, Invoke(c) \/ Run(c)
               PROVE  Terminal
    BY DEF Next
  <2>1. Only(c)
    BY StepKeeps DEF KeepsLocal
  <2> QED
    BY <2>1, FailedStep, FailedElsewhere
<1> QED
  BY <1>1, KernelInvariant, PTL DEF Spec, FailureIsTerminal

-----------------------------------------------------------------------------
(* Refinement of the ledger. *)

Granted == [c \in CPU |-> { i \in CellIndex : i < inv[c].acquired }]
Owned == [c \in CPU |-> Tagged(c)]
References == refs - Cardinality(Pending)

\* What the ledger sees of the count is the baseline and the rights.
LEMMA ReferencesCount ==
    ASSUME IInv
    PROVE  /\ References = 1 + Cardinality(Rights)
           /\ Cardinality(Rights) \in Nat /\ IsFiniteSet(Rights)
<1>1. IsFiniteSet(CPU) /\ IsFiniteSet(CPU \X CellIndex)
  BY EnvironmentAssumption, TwoCells, FS_Product
<1>2. /\ Cardinality(Rights) \in Nat /\ Cardinality(Pending) \in Nat
      /\ IsFiniteSet(Rights)
  BY <1>1, FS_Subset, FS_CardinalityType DEF Rights, Pending
<1> QED
  BY <1>2 DEF IInv, RefsConserved, References

\* The same of the state after a step.
LEMMA ReferencesCountNext ==
    ASSUME IInv'
    PROVE  /\ References' = 1 + Cardinality(Rights')
           /\ Cardinality(Rights') \in Nat
<1>1. IsFiniteSet(CPU) /\ IsFiniteSet(CPU \X CellIndex)
  BY EnvironmentAssumption, TwoCells, FS_Product
<1>2. Cardinality(Rights') \in Nat /\ Cardinality(Pending') \in Nat
  BY <1>1, FS_Subset, FS_CardinalityType DEF Rights, Pending
<1> QED
  BY <1>2 DEF IInv, RefsConserved, References

\* Which steps the ledger sees as acquisitions, and which it does not.
LEMMA StepAcquired ==
    ASSUME IInv, NEW c \in CPU, Invoke(c) \/ Run(c),
           ~AcquireStore(c), ~Finish(c)
    PROVE  /\ inv'[c].acquired = inv[c].acquired
           /\ \A i : ~Stored(c, i)
<1> USE DEF IInv
<1>1. inv[c] \in Invocation /\ refs \in Int
  BY DEF TypeOK
<1>2. InFlight(phase[c]) => refs' = refs - 1
  BY DEF InFlight, Run, Gate, Invoke, EnterRejected, Enter, Reject,
     AcquireNull, AcquireCount, AcquireStore, Read, Release, ReleaseCount,
     Continue, Abort, Exit, CleanupClear, CleanupCount, CleanupSkip, Call
<1>3. \A i : ~Stored(c, i)
  BY <1>1, <1>2 DEF Stored
<1>4. ASSUME NEW i, NEW where, Clear(c, i, where)
      PROVE  inv'[c].acquired = inv[c].acquired
  BY <1>1, <1>4 DEF Clear, TypeOK, Invocation
<1>5. CASE Invoke(c)
  <2>1. inv'[c] = FreshInvocation /\ inv[c] = FreshInvocation
    BY <1>5 DEF TypeOK, Invoke, LocalInv, ControlOf
  <2> QED
    BY <1>3, <2>1
<1>6. CASE Gate(c)
  <2>1. inv'[c].acquired = inv[c].acquired
    BY <1>1, <1>4, <1>6 DEF Gate, Reject, AcquireNull, AcquireCount, Read,
       Release, TypeOK, Invocation
  <2> QED
    BY <1>3, <2>1
<1>7. CASE Enter(c) \/ ReleaseCount(c) \/ CleanupCount(c)
  BY <1>1, <1>3, <1>7 DEF Enter, ReleaseCount, CleanupCount, TypeOK, Invocation
<1>8. CASE EnterRejected(c) \/ Continue(c) \/ Abort(c) \/ Exit(c)
           \/ CleanupSkip(c)
  BY <1>3, <1>8 DEF EnterRejected, Continue, Abort, Exit, CleanupSkip
<1>9. CASE CleanupClear(c)
  BY <1>3, <1>4, <1>9 DEF CleanupClear
<1> QED
  BY <1>5, <1>6, <1>7, <1>8, <1>9 DEF Run

\* Seen by the ledger, every step is one of its own or nothing.
LEMMA LedgerStep ==
    ASSUME IInv, IInv', NEW c \in CPU, Invoke(c) \/ Run(c)
    PROVE  \/ \E i \in CellIndex : Ledger!Acquire(c, i) \/ Ledger!Release(c, i)
           \/ Ledger!End(c)
           \/ UNCHANGED <<Granted, Owned, References>>
<1>1. Only(c) /\ RefStep(c)
  BY StepKeeps DEF KeepsLocal
<1>2. \A d \in CPU : d # c => Tagged(d)' = Tagged(d) /\ inv'[d] = inv[d]
  BY <1>1 DEF Only, Tagged
<1>3. Tagged(c)' = Tagged(c) => Rights' = Rights /\ Owned' = Owned
  BY <1>2 DEF Rights, Owned
<1>4. Rights' = Rights => References' = References
  BY ReferencesCount, ReferencesCountNext
<1>5. inv'[c].acquired = inv[c].acquired => Granted' = Granted
  BY <1>2 DEF Granted
<1>6. CASE AcquireStore(c)
  <2>1. PICK n \in CellIndex :
          /\ Stored(c, n) /\ n = inv[c].acquired
          /\ inv'[c].acquired = n + 1
    BY <1>6, AcquireStoreKeeps DEF Stored
  <2>2. Rights' = Rights \cup {<<c, n>>} /\ <<c, n>> \notin Rights
    BY <2>1, <1>2 DEF Stored, Rights
  <2>3. Cardinality(Rights') = Cardinality(Rights) + 1
    BY <2>2, ReferencesCount, OneElement
  <2>4. References' = References + 1
    BY <2>3, ReferencesCount, ReferencesCountNext
  <2>5. Owned' = [Owned EXCEPT ![c] = Owned[c] \cup {n}]
    BY <2>1, <1>2 DEF Owned, Stored
  <2>6. { i \in CellIndex : i < n + 1 } = { i \in CellIndex : i < n } \cup {n}
    BY <2>1 DEF CellIndex
  <2>7. Granted' = [Granted EXCEPT ![c] = Granted[c] \cup {n}]
    BY <2>1, <2>6, <1>2, ZenonT(40) DEF Granted
  <2>8. n \in CellIndex \ Granted[c]
    BY <2>1 DEF Granted, CellIndex
  <2>9. Ledger!Acquire(c, n)
    BY <2>4, <2>5, <2>7, <2>8 DEF Ledger!Acquire, Granted, Owned, References
  <2> QED
    BY <2>9
<1>7. CASE Finish(c)
  <2>1. Tagged(c) = {}
    BY <1>7, CleanedUp DEF Finish
  <2>2. inv'[c] = FreshInvocation
    BY <1>7 DEF Finish, IInv, TypeOK
  <2>3. Tagged(c)' = {}
    BY <2>2 DEF Tagged, FreshInvocation
  <2>4. { i \in CellIndex : i < FreshInvocation.acquired } = {}
    BY DEF FreshInvocation, CellIndex
  <2>5. Granted' = [Granted EXCEPT ![c] = {}]
    BY <2>2, <2>4, <1>2 DEF Granted
  <2>6. Owned' = Owned /\ References' = References /\ Owned[c] = {}
    BY <2>1, <2>3, <1>3, <1>4 DEF Owned
  <2> QED
    BY <2>5, <2>6 DEF Ledger!End, Granted, Owned, References
<1>8. CASE ~AcquireStore(c) /\ ~Finish(c)
  <2>1. Granted' = Granted /\ \A i : ~Stored(c, i)
    BY <1>8, <1>5, StepAcquired
  <2>2. CASE Quiet(c) \/ CountUp(c) \/ CountDown(c)
    BY <2>1, <2>2, <1>3, <1>4 DEF Quiet, CountUp, CountDown
  <2>3. ASSUME NEW i \in CellIndex, Cleared(c, i)
        PROVE  Ledger!Release(c, i)
    <3>1. Rights' = Rights \ {<<c, i>>} /\ <<c, i>> \in Rights
      BY <2>3, <1>2 DEF Cleared, Rights
    <3>2. Cardinality(Rights') = Cardinality(Rights) - 1
      BY <3>1, ReferencesCount, OneElement
    <3>3. References' = References - 1
      BY <3>2, ReferencesCount, ReferencesCountNext
    <3>4. Owned' = [Owned EXCEPT ![c] = Owned[c] \ {i}] /\ i \in Owned[c]
      BY <2>3, <1>2 DEF Owned, Cleared
    <3> QED
      BY <2>1, <3>3, <3>4 DEF Ledger!Release, Granted, Owned, References
  <2> QED
    BY <2>1, <2>2, <2>3, <1>1 DEF RefStep
<1> QED
  BY <1>6, <1>7, <1>8

\* Every run of the runtime is a run of the ledger: acquisition takes effect
\* where the authority is stored and release where it is cleared
\* (cbpf_runtime.c:80, "the release linearization point").
THEOREM KernelImplementsRights == Spec => ImplementsRights
<1>1. Init => Ledger!Init
  <2> SUFFICES ASSUME Init PROVE Ledger!Init
    OBVIOUS
  <2>1. Rights = {} /\ \A c \in CPU : Tagged(c) = {}
    BY DEF Init, Rights, Tagged, FreshInvocation
  <2>2. References = 1
    BY <2>1, InitIInv, ReferencesCount, FS_EmptySet
  <2>3. \A c \in CPU : { i \in CellIndex : i < inv[c].acquired } = {}
    BY DEF Init, FreshInvocation, CellIndex
  <2> QED
    BY <2>1, <2>2, <2>3 DEF Ledger!Init, References
<1>2. IInv /\ IInv' /\ [Next]_vars => [Ledger!Next]_Ledger!vars
  <2>1. ASSUME IInv, IInv', NEW c \in CPU, Invoke(c) \/ Run(c)
        PROVE  [Ledger!Next]_Ledger!vars
    BY <2>1, LedgerStep DEF Ledger!Next, Ledger!vars, Granted, Owned, References
  <2>2. ASSUME UNCHANGED vars PROVE UNCHANGED Ledger!vars
    BY <2>2 DEF vars, Ledger!vars, Tagged, Pending
  <2> QED
    BY <2>1, <2>2 DEF Next
<1> QED
  BY <1>1, <1>2, KernelInvariant, PTL DEF Spec, ImplementsRights, Ledger!Spec
=============================================================================
