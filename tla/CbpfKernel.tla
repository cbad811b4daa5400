----------------------------- MODULE CbpfKernel -----------------------------
(* linux/ownership/cbpf_runtime.c after boot: synchronous test-run            *)
(* invocations, one at most per CPU, whose programs call the gates, all of    *)
(* them counting references to the one cbpf_object.  Bottom halves are        *)
(* disabled throughout, so an invocation stays on its CPU and is not nested;  *)
(* everything but the count is private to it, so the steps below break only   *)
(* where the count is touched: between refcount_inc and the store of the      *)
(* authority, and between the clearing of the authority and refcount_dec.     *)
(*                                                                            *)
(* The program is restricted native code; here it may call any gate with any  *)
(* scalar and any capability it holds, which includes what the compiler's     *)
(* admission would have refused.                                              *)
EXTENDS Integers, FiniteSets

CONSTANTS
    CPU,
    Operation,          \* values x4 may hold at the gateway
    Scalar,             \* values an untagged argument may hold
    Result,             \* values a program may return
    MaxCalls            \* gate calls of one program: control is forward-only

CellIndex == 0 .. 1                 \* struct cbpf_cell cells[2]

ASSUME EnvironmentAssumption ==
    /\ IsFiniteSet(CPU)
    /\ {1, 2, 3} \subseteq Operation
    /\ {0, 1} \subseteq Scalar /\ Scalar \subseteq Nat
    /\ 0 \in Result
    /\ MaxCalls \in Nat

VARIABLES
    refs,       \* cbpf_object.refs
    active,     \* per CPU: cbpf_active is not NULL
    inv,        \* per CPU: the struct cbpf_invocation it points to
    phase,      \* per CPU: place in the code
    index,      \* per CPU: the local of the gate or of the cleanup loop
    calls,      \* per CPU: gate calls made, at most MaxCalls
    x0,         \* per CPU: what cbpf_gate_impl returned
    result,     \* per CPU: what bpf_prog_run returned
    verdict     \* per CPU: how the last invocation ended, for the properties

vars == <<refs, active, inv, phase, index, calls, x0, result, verdict>>

\* The view of cell i is a tagged capability; -1 is any other the program has.
View(i) == [tagged |-> TRUE, value |-> i]
Plain(v) == [tagged |-> FALSE, value |-> v]

Argument == { Plain(v) : v \in Scalar } \cup { View(i) : i \in CellIndex \cup {-1} }

FreshInvocation ==
    [cells |-> [i \in CellIndex |-> "null"],
     views |-> [i \in CellIndex |-> Plain(0)],
     acquired |-> 0, released |-> 0, reads |-> 0, cleanup |-> 0,
     entered |-> FALSE, failed |-> FALSE]

NoVerdict == [entered |-> FALSE, aborted |-> FALSE, failed |-> TRUE, value |-> 0]

Init ==
    /\ refs = 1
    /\ active = [c \in CPU |-> FALSE]
    /\ inv = [c \in CPU |-> FreshInvocation]
    /\ phase = [c \in CPU |-> "idle"]
    /\ index = [c \in CPU |-> 0]
    /\ calls = [c \in CPU |-> 0]
    /\ x0 = [c \in CPU |-> "zero"]
    /\ result = [c \in CPU |-> 0]
    /\ verdict = [c \in CPU |-> NoVerdict]

-----------------------------------------------------------------------------
\* cbpf_test_invoke up to bpf_prog_run.  An invocation never finds active set.
Invoke(c) ==
    /\ phase[c] = "idle" /\ ~active[c]
    /\ active' = [active EXCEPT ![c] = TRUE]
    /\ inv' = [inv EXCEPT ![c] = FreshInvocation]
    /\ phase' = [phase EXCEPT ![c] = "entry"]
    /\ calls' = [calls EXCEPT ![c] = 0]
    /\ UNCHANGED <<refs, index, x0, result, verdict>>

\* bpf_prog_run is over: the cleanup loop starts.
LeaveProgram(c, value) ==
    /\ result' = [result EXCEPT ![c] = value]
    /\ phase' = [phase EXCEPT ![c] = "cleanup"]
    /\ index' = [index EXCEPT ![c] = 0]

\* cbpf_enter refuses (some bounds cannot be made exact): the program's code
\* goes straight to its executive exit and returns 0.
EnterRejected(c) ==
    /\ phase[c] = "entry"
    /\ LeaveProgram(c, 0)
    /\ UNCHANGED <<refs, active, inv, calls, x0, verdict>>

Enter(c) ==
    /\ phase[c] = "entry"
    /\ inv' = [inv EXCEPT ![c].entered = TRUE]
    /\ phase' = [phase EXCEPT ![c] = "program"]
    /\ UNCHANGED <<refs, active, index, calls, x0, result, verdict>>

-----------------------------------------------------------------------------
\* The program calls the gateway.
Call(c) ==
    /\ phase[c] = "program" /\ calls[c] < MaxCalls
    /\ calls' = [calls EXCEPT ![c] = @ + 1]
    /\ UNCHANGED <<active, result, verdict>>

\* cbpf_gate_impl returns v to the gateway.
Return(c, v) ==
    /\ x0' = [x0 EXCEPT ![c] = v]
    /\ phase' = [phase EXCEPT ![c] = "gateway"]

\* The first canonical view equal to the argument.
Found(c, a, i) ==
    /\ i < inv[c].acquired /\ inv[c].views[i] = a
    /\ \A j \in 0 .. i - 1 : inv[c].views[j] # a

\* BUG: a consumed cell is not told from a live one.
UsableAnyway(c, a, i) == Found(c, a, i)

Usable(c, a, i) == Found(c, a, i) /\ inv[c].cells[i] = "tagged"

\* cbpf_exact of the cell or of the object may fail: which addresses have
\* exact bounds is left open.
Inexact(op, a) == op = 1 /\ a = Plain(0)

Full(c) == inv[c].acquired = Cardinality(CellIndex)

Refused(c, op, a) ==
    \/ ~inv[c].entered \/ inv[c].failed
    \/ op \notin {1, 2, 3}
    \/ op = 1 /\ (a.tagged \/ a.value > 1)
    \/ op = 1 /\ a.value = 0 /\ Full(c)
    \/ op \in {2, 3} /\ ~\E i \in CellIndex : Usable(c, a, i)

\* cbpf_fail.
Reject(c, op, a) ==
    /\ Call(c)
    /\ Refused(c, op, a) \/ Inexact(op, a)
    /\ inv' = [inv EXCEPT ![c].failed = TRUE]
    /\ Return(c, "failure")
    /\ UNCHANGED <<refs, index>>

AcquireNull(c, op, a) ==
    /\ Call(c)
    /\ ~Refused(c, op, a)
    /\ op = 1 /\ a.value = 1
    /\ Return(c, "zero")
    /\ UNCHANGED <<refs, inv, index>>

\* Every representability check is over before the provider effect.
AcquireCount(c, op, a) ==
    /\ Call(c)
    /\ ~Refused(c, op, a)
    /\ op = 1 /\ a.value = 0
    /\ refs' = refs + 1
    /\ index' = [index EXCEPT ![c] = inv[c].acquired]
    /\ phase' = [phase EXCEPT ![c] = "counted"]
    /\ UNCHANGED <<inv, x0>>

AcquireStore(c) ==
    /\ phase[c] = "counted"
    /\ inv' = [inv EXCEPT ![c].cells[index[c]] = "tagged",
                          ![c].views[index[c]] = View(index[c]),
                          ![c].acquired = @ + 1]
    /\ Return(c, "view")
    /\ UNCHANGED <<refs, active, index, calls, result, verdict>>

\* BUG: a field value of -1.
FailureValue == -1

Value == 42                         \* cbpf_object.value

\* Only x0 tells the gateway of a failure: CBPF_FAILURE is -1.
ValueInX0 == IF Value = -1 THEN "failure" ELSE "value"

Read(c, op, a) ==
    /\ Call(c)
    /\ ~Refused(c, op, a)
    /\ op = 2
    /\ inv' = [inv EXCEPT ![c].reads = @ + 1]
    /\ Return(c, ValueInX0)
    /\ UNCHANGED <<refs, index>>

\* BUG: the authority stays in the cell.
TagKept(i, object) == object

\* Stored-authority invalidation, the release linearization point.
TagCleared(i, object) == "cleared"

\* cbpf_consume, first half; where says who called it.
Clear(c, i, where) ==
    /\ inv' = [inv EXCEPT ![c].cells[i] = TagCleared(i, @)]
    /\ index' = [index EXCEPT ![c] = i]
    /\ phase' = [phase EXCEPT ![c] = where]

Release(c, op, a) ==
    /\ Call(c)
    /\ ~Refused(c, op, a)
    /\ op = 3
    /\ \E i \in CellIndex : Usable(c, a, i) /\ Clear(c, i, "releasing")
    /\ UNCHANGED <<refs, x0>>

\* cbpf_consume, second half.
ReleaseCount(c) ==
    /\ phase[c] = "releasing"
    /\ refs' = refs - 1
    /\ inv' = [inv EXCEPT ![c].released = @ + 1]
    /\ Return(c, "zero")
    /\ UNCHANGED <<active, index, calls, result, verdict>>

\* cmn x0, #1: back to the program, or past it to its fixed epilogue.
Continue(c) ==
    /\ phase[c] = "gateway" /\ x0[c] # "failure"
    /\ phase' = [phase EXCEPT ![c] = "program"]
    /\ UNCHANGED <<refs, active, inv, index, calls, x0, result, verdict>>

\* BUG: the gateway returns to the program whatever the gate said.
AbortIgnored(c) ==
    /\ phase[c] = "gateway" /\ x0[c] = "failure"
    /\ phase' = [phase EXCEPT ![c] = "program"]
    /\ UNCHANGED <<refs, active, inv, index, calls, x0, result, verdict>>

Abort(c) ==
    /\ phase[c] = "gateway" /\ x0[c] = "failure"
    /\ LeaveProgram(c, 0)
    /\ UNCHANGED <<refs, active, inv, calls, x0, verdict>>

Exit(c) ==
    /\ phase[c] = "program"
    /\ \E value \in Result : LeaveProgram(c, value)
    /\ x0' = [x0 EXCEPT ![c] = "zero"]
    /\ UNCHANGED <<refs, active, inv, calls, verdict>>

-----------------------------------------------------------------------------
\* cbpf_test_invoke after bpf_prog_run: end what the program left.
CleanupClear(c) ==
    /\ phase[c] = "cleanup" /\ index[c] < inv[c].acquired
    /\ inv[c].cells[index[c]] = "tagged"
    /\ Clear(c, index[c], "dropping")
    /\ UNCHANGED <<refs, active, calls, x0, result, verdict>>

\* BUG: only the program's own releases are counted as released.
CleanupCountShort(c) ==
    /\ phase[c] = "dropping"
    /\ refs' = refs - 1
    /\ inv' = [inv EXCEPT ![c].cleanup = @ + 1]
    /\ index' = [index EXCEPT ![c] = @ + 1]
    /\ phase' = [phase EXCEPT ![c] = "cleanup"]
    /\ UNCHANGED <<active, calls, x0, result, verdict>>

CleanupCount(c) ==
    /\ phase[c] = "dropping"
    /\ refs' = refs - 1
    /\ inv' = [inv EXCEPT ![c].released = @ + 1, ![c].cleanup = @ + 1]
    /\ index' = [index EXCEPT ![c] = @ + 1]
    /\ phase' = [phase EXCEPT ![c] = "cleanup"]
    /\ UNCHANGED <<active, calls, x0, result, verdict>>

\* BUG: a cell the program consumed is not passed over.
CleanupSkipStuck(c) ==
    /\ phase[c] = "cleanup" /\ index[c] < inv[c].acquired
    /\ inv[c].cells[index[c]] # "tagged"
    /\ UNCHANGED vars

CleanupSkip(c) ==
    /\ phase[c] = "cleanup" /\ index[c] < inv[c].acquired
    /\ inv[c].cells[index[c]] # "tagged"
    /\ index' = [index EXCEPT ![c] = @ + 1]
    /\ UNCHANGED <<refs, active, inv, phase, calls, x0, result, verdict>>

Failed(s) == s.failed \/ ~s.entered \/ s.acquired # s.released

\* The arena is scrubbed with the stack frame it lives in.
Finish(c) ==
    /\ phase[c] = "cleanup" /\ index[c] >= inv[c].acquired
    /\ verdict' = [verdict EXCEPT ![c] =
          [entered |-> inv[c].entered,
           aborted |-> inv[c].entered /\ x0[c] = "failure",
           failed  |-> Failed(inv[c]),
           value   |-> IF Failed(inv[c]) THEN 0 ELSE result[c]]]
    /\ inv' = [inv EXCEPT ![c] = FreshInvocation]
    /\ active' = [active EXCEPT ![c] = FALSE]
    /\ phase' = [phase EXCEPT ![c] = "idle"]
    /\ x0' = [x0 EXCEPT ![c] = "zero"]
    /\ UNCHANGED <<refs, index, calls, result>>

Gate(c) ==
    \E op \in Operation, a \in Argument :
        \/ Reject(c, op, a) \/ AcquireNull(c, op, a) \/ AcquireCount(c, op, a)
        \/ Read(c, op, a) \/ Release(c, op, a)

\* The steps an invocation that has begun takes.
Run(c) ==
    \/ EnterRejected(c) \/ Enter(c)
    \/ Gate(c) \/ AcquireStore(c) \/ ReleaseCount(c)
    \/ Continue(c) \/ Abort(c) \/ Exit(c)
    \/ CleanupClear(c) \/ CleanupCount(c) \/ CleanupSkip(c) \/ Finish(c)

Next == \E c \in CPU : Invoke(c) \/ Run(c)

Spec == Init /\ [][Next]_vars

\* An invocation runs with bottom halves off on a CPU of its own, so it is
\* never held up by another; nobody has to start one.
FairSpec == Spec /\ \A c \in CPU : WF_vars(Run(c))

-----------------------------------------------------------------------------
Phase == {"idle", "entry", "program", "counted", "releasing", "gateway",
          "cleanup", "dropping"}

Invocation ==
    [cells : [CellIndex -> {"null", "tagged", "cleared"}],
     views : [CellIndex -> Argument],
     acquired : 0 .. 2, released : 0 .. 2, reads : Nat, cleanup : 0 .. 2,
     entered : BOOLEAN, failed : BOOLEAN]

Verdict == [entered : BOOLEAN, aborted : BOOLEAN, failed : BOOLEAN,
            value : Result]

TypeOK ==
    /\ refs \in Int
    /\ active \in [CPU -> BOOLEAN]
    /\ inv \in [CPU -> Invocation]
    /\ phase \in [CPU -> Phase]
    /\ index \in [CPU -> 0 .. 2]
    /\ calls \in [CPU -> 0 .. MaxCalls]
    /\ x0 \in [CPU -> {"failure", "zero", "view", "value"}]
    /\ result \in [CPU -> Result]
    /\ verdict \in [CPU -> Verdict]

Tagged(c) == { i \in CellIndex : inv[c].cells[i] = "tagged" }

Rights == { p \in CPU \X CellIndex : p[2] \in Tagged(p[1]) }

\* CPUs between a change of authority and the change of the count.
Pending == { c \in CPU : phase[c] \in {"counted", "releasing", "dropping"} }

\* Whatever the CPUs are in the middle of, the shared count is the permanent
\* baseline, the authority stored in all private cells, and one for each CPU
\* caught between the two; so it never falls to zero, and it is back at one
\* when every invocation has ended (cbpf_runtime.c:80-84, 120-123, 395-397).
RefsConserved == refs = 1 + Cardinality(Rights) + Cardinality(Pending)

\* An invocation's counters and its cells tell the same story, on which
\* acquired # released is decided (cbpf_runtime.c:398): every acquisition is
\* stored, consumed, or being consumed, and views are canonical exactly below
\* acquired.
AccountsMatch ==
    \A c \in CPU :
        /\ inv[c].acquired = inv[c].released + Cardinality(Tagged(c))
              + (IF phase[c] \in {"releasing", "dropping"} THEN 1 ELSE 0)
        /\ inv[c].cleanup <= inv[c].released
        /\ inv[c].reads + inv[c].released - inv[c].cleanup <= calls[c]
        /\ \A i \in CellIndex :
              /\ i < inv[c].acquired <=> inv[c].views[i] = View(i)
              /\ i < inv[c].acquired <=> inv[c].cells[i] # "null"

\* The caller of cbpf_test_invoke is told of a failure exactly when the
\* program was never entered or was cut short at a gate, so no truncated run
\* passes for a complete one; and then the value is 0 (cbpf_runtime.c:412,
\* 448-453).
VerdictHonest ==
    \A c \in CPU :
        /\ verdict[c].failed <=> ~verdict[c].entered \/ verdict[c].aborted
        /\ verdict[c].failed => verdict[c].value = 0

\* "Failure skips the restricted continuation": after a refused gate call the
\* program makes no other call and nothing but cleanup follows
\* (cbpf_runtime.c:450).
OnlyCleanupAfter(c) ==
    /\ calls'[c] = calls[c]
    /\ \A f \in {"acquired", "reads", "views"} : inv'[c][f] = inv[c][f]
    /\ inv'[c].released - inv[c].released = inv'[c].cleanup - inv[c].cleanup

FailureIsTerminal ==
    [][\A c \in CPU :
          inv[c].failed /\ inv'[c].failed => OnlyCleanupAfter(c)]_vars

\* Every invocation comes back to its caller: control is forward-only and
\* cleanup is bounded (cbpf_runtime.c:395).
Completes == \A c \in CPU : phase[c] # "idle" ~> phase[c] = "idle"

-----------------------------------------------------------------------------
\* "Stored-authority invalidation is the release linearization point"
\* (cbpf_runtime.c:80): seen at the moment the tag is cleared, and at the
\* moment the authority is stored, rights are granted and ended atomically,
\* each once, and the object's count follows.
Ledger == INSTANCE CbpfRights WITH
    Invoker <- CPU,
    Right <- CellIndex,
    granted <- [c \in CPU |-> { i \in CellIndex : i < inv[c].acquired }],
    owned <- [c \in CPU |-> Tagged(c)],
    references <- refs - Cardinality(Pending)

ImplementsRights == Ledger!Spec
=============================================================================
