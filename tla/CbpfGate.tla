------------------------------ MODULE CbpfGate ------------------------------
(* cbpf_gate_run (src/gate.c): the interpreter whose aliases are handles.  A  *)
(* handle is a view of one cell; the cell holds the authority over the        *)
(* object, and only the gates resolve a handle to its cell.  In a purecap     *)
(* build a consumed cell keeps an untagged capability, on the host a NULL.    *)
EXTENDS CbpfIR, FiniteSets

CONSTANT Layouts    \* sets of cells whose exact bounds no capability can hold

CellIndex == 0 .. CBPF_CELLS - 1

ASSUME LayoutsAssumption == Layouts \subseteq SUBSET CellIndex

VARIABLES
    purecap,        \* which build this is
    inexact,        \* cells whose views cannot be represented where they lie
    n, phase, pc, cell, r,      \* as in CbpfMachine
    regs, spills,   \* handles
    cells,          \* state.cells[i].object
    views,          \* state.views
    references,     \* state.object.references
    m               \* the caller's struct cbpf_gate_metrics

gate == <<cells, views, references>>
handles == <<regs, spills>>
vars == <<purecap, inexact, n, phase, pc, cell, r, handles, gate, m>>

NullHandle == -1                    \* a handle is the cell it is a view of
Handle == CellIndex \cup {NullHandle}
Object == {"null", "object", "untagged"}

FreshMetrics ==
    [acquisitions |-> 0, reads |-> 0, releases |-> 0, cleanups |-> 0,
     restricted_handles |-> 0, tag_clears |-> 0, representation_errors |-> 0]

Init ==
    /\ purecap \in BOOLEAN
    /\ inexact \in Layouts
    /\ n \in 0 .. CBPF_MAX_INSNS + 1
    /\ phase = "validate"
    /\ pc = 0
    /\ cell = 0
    /\ r = FreshResult
    /\ regs = [d \in Reg |-> NullHandle]
    /\ spills = [s \in Slot |-> NullHandle]
    /\ cells = [c \in CellIndex |-> "null"]
    /\ views = [c \in CellIndex |-> NullHandle]
    /\ references = 1
    /\ m = FreshMetrics

-----------------------------------------------------------------------------
\* Bounds of a view are exact or the view is untagged; the host always has one.
ViewPrepared(c) == purecap => c \notin inexact

\* BUG: a consumed cell no longer answers for its handle.
MatchingLive(h) ==
    { c \in CellIndex : c < r.acquired /\ views[c] = h /\ cells[c] = "object" }

\* The acquired cells whose recorded view is exactly this handle.
Matching(h) == { c \in CellIndex : c < r.acquired /\ views[c] = h }

\* identify: NULL is token 0, otherwise the first cell with this view.
Known(h) == h = NullHandle \/ Matching(h) # {}

TokenOf(h) ==
    IF h = NullHandle THEN NoToken
    ELSE 1 + CHOOSE c \in Matching(h) : \A e \in Matching(h) : c <= e

\* BUG: the host's NULL test on a capability whose cursor stays nonzero.
ObjectIsNonNull(o) == o # "null"

ObjectIsLive(o) == o = "object"

LiveToken(h) ==
    TokenOf(h) # NoToken /\ ObjectIsLive(cells[TokenOf(h) - 1])

Cleared == IF purecap THEN "untagged" ELSE "null"

\* BUG: the provider's count drops but the cell keeps its authority.
ConsumedKept(c) == cells

\* What consume of a live cell leaves of the cells. The provider's count drops in
\* the same step, as nothing looks at either before consume returns.
Consumed(c) == [cells EXCEPT ![c] = Cleared]

CountTagClear(metrics) ==
    IF purecap THEN [metrics EXCEPT !.tag_clears = @ + 1] ELSE metrics

CountHandle(metrics) ==
    IF purecap THEN [metrics EXCEPT !.restricted_handles = @ + 1] ELSE metrics

-----------------------------------------------------------------------------
Loadable == n \in 1 .. CBPF_MAX_INSNS

Reject ==
    /\ phase = "validate"
    /\ \E bad_pc \in IF Loadable THEN 0 .. n - 1 ELSE {0} :
         r' = [r EXCEPT !.status = "INVALID", !.pc = bad_pc]
    /\ phase' = "done"
    /\ UNCHANGED <<purecap, inexact, n, pc, cell, handles, gate, m>>

Accept ==
    /\ phase = "validate"
    /\ Loadable
    /\ phase' = "run"
    /\ UNCHANGED <<purecap, inexact, n, pc, cell, r, handles, gate, m>>

Fetch(x) == phase = "run" /\ pc < n /\ ValidAt(x, pc, n)

\* The handle an instruction other than ACQUIRE asks identify about.
HandleUsed(x) ==
    CASE x.op \in {"COPY", "SPILL"} -> regs[x.src]
      [] x.op = "RELOAD"            -> spills[x.src]
      [] OTHER                      -> regs[x.dst]

Full == r.acquired = CBPF_CELLS

\* cells are never reused.
NextCell == r.acquired

\* GATE_REPRESENTATION: no exact view of the next cell, or an alias that no
\* recorded view matches.
Unidentified(x) ==
    CASE x.op = "ACQUIRE" -> x.imm # 0 /\ ~Full /\ ~ViewPrepared(NextCell)
      [] x.op = "RETURN"  -> FALSE
      [] OTHER            -> ~Known(HandleUsed(x))

\* BUG: only successful uses are counted.
AttemptedLive(x) ==
    CASE x.op = "ACQUIRE" -> [m EXCEPT !.acquisitions = @ + 1]
      [] x.op = "READ" /\ LiveToken(regs[x.dst]) -> [m EXCEPT !.reads = @ + 1]
      [] x.op = "RELEASE" /\ LiveToken(regs[x.dst]) -> [m EXCEPT !.releases = @ + 1]
      [] OTHER -> m

\* Each gate counts the attempt before anything can fail.
Attempted(x) ==
    CASE x.op = "ACQUIRE" -> [m EXCEPT !.acquisitions = @ + 1]
      [] x.op = "READ"    -> [m EXCEPT !.reads = @ + 1]
      [] x.op = "RELEASE" -> [m EXCEPT !.releases = @ + 1]
      [] OTHER            -> m

\* Alias instructions write their destination before identify looks at it.
Assign(x) ==
    /\ regs' = IF x.op = "COPY" THEN [regs EXCEPT ![x.dst] = regs[x.src]]
               ELSE IF x.op = "RELOAD" THEN [regs EXCEPT ![x.dst] = spills[x.src]]
               ELSE regs
    /\ spills' = IF x.op = "SPILL" THEN [spills EXCEPT ![x.dst] = regs[x.src]]
                 ELSE spills

\* BUG: the object is referenced before its view is prepared.
ReferencedBeforePrepared(x) ==
    /\ Fetch(x)
    /\ Unidentified(x)
    /\ Assign(x)
    /\ cells' = [cells EXCEPT ![NextCell] = "object"]
    /\ references' = references + 1
    /\ m' = [Attempted(x) EXCEPT !.representation_errors = @ + 1]
    /\ r' = [r EXCEPT !.pc = pc, !.status = "INVALID",
                      !.object_refs = references']
    /\ phase' = "cleanup"
    /\ UNCHANGED <<purecap, inexact, n, pc, cell, views>>

RepresentationError(x) ==
    /\ Fetch(x)
    /\ Unidentified(x)
    /\ Assign(x)
    /\ m' = [Attempted(x) EXCEPT !.representation_errors = @ + 1]
    /\ r' = [r EXCEPT !.pc = pc, !.status = "INVALID"]
    /\ phase' = "cleanup"
    /\ UNCHANGED <<purecap, inexact, n, pc, cell, gate>>

\* The ways the loop body ends.
Continue(res, x, token, next) ==
    /\ r' = Record([res EXCEPT !.pc = pc], "STEP", x.op, pc, token)
    /\ pc' = next
    /\ UNCHANGED <<purecap, inexact, n, phase, cell>>

Trap(reason, x, token) ==
    /\ r' = Record([r EXCEPT !.pc = pc, !.trap = reason, !.status = "TRAPPED"],
                   "TRAP_EVENT", x.op, pc, token)
    /\ m' = Attempted(x)
    /\ phase' = "cleanup"
    /\ UNCHANGED <<purecap, inexact, n, pc, cell, handles, gate>>

AcquireNull(x) ==
    /\ Fetch(x) /\ x.op = "ACQUIRE" /\ x.imm = 0
    /\ regs' = [regs EXCEPT ![x.dst] = NullHandle]
    /\ m' = Attempted(x)
    /\ Continue(r, x, NoToken, pc + 1)
    /\ UNCHANGED <<spills, gate>>

\* The view is prepared before the first effect.
Acquire(x) ==
    /\ Fetch(x) /\ x.op = "ACQUIRE" /\ x.imm # 0
    /\ ~Full /\ ~Unidentified(x)
    /\ LET c == NextCell
       IN  /\ cells' = [cells EXCEPT ![c] = "object"]
           /\ views' = [views EXCEPT ![c] = c]
           /\ regs' = [regs EXCEPT ![x.dst] = c]
           /\ references' = references + 1
           /\ Continue([r EXCEPT !.acquired = @ + 1,
                                 !.object_refs = references'], x, c + 1, pc + 1)
    /\ m' = CountHandle(Attempted(x))
    /\ UNCHANGED spills

AcquireExhausted(x) ==
    /\ Fetch(x) /\ x.op = "ACQUIRE" /\ x.imm # 0
    /\ Full
    /\ Trap("EXHAUSTED", x, NoToken)

MoveAlias(x) ==
    /\ Fetch(x) /\ x.op \in {"COPY", "SPILL", "RELOAD"}
    /\ ~Unidentified(x)
    /\ Assign(x)
    /\ Continue(r, x, TokenOf(HandleUsed(x)), pc + 1)
    /\ UNCHANGED <<gate, m>>

UseNull(x) ==
    /\ Fetch(x) /\ x.op \in {"READ", "RELEASE"}
    /\ ~Unidentified(x)
    /\ TokenOf(regs[x.dst]) = NoToken
    /\ Trap("NULL", x, NoToken)

UseStale(x) ==
    /\ Fetch(x) /\ x.op \in {"READ", "RELEASE"}
    /\ ~Unidentified(x)
    /\ TokenOf(regs[x.dst]) # NoToken /\ ~LiveToken(regs[x.dst])
    /\ Trap("STALE", x, TokenOf(regs[x.dst]))

Read(x) ==
    /\ Fetch(x) /\ x.op = "READ"
    /\ ~Unidentified(x)
    /\ LiveToken(regs[x.dst])
    /\ Continue([r EXCEPT !.reads = @ + 1, !.last_read = FieldValue],
                x, TokenOf(regs[x.dst]), pc + 1)
    /\ m' = Attempted(x)
    /\ UNCHANGED <<handles, gate>>

Release(x) ==
    /\ Fetch(x) /\ x.op = "RELEASE"
    /\ ~Unidentified(x)
    /\ LiveToken(regs[x.dst])
    /\ LET token == TokenOf(regs[x.dst])
       IN  /\ cells' = Consumed(token - 1)
           /\ references' = references - 1
           /\ Continue([r EXCEPT !.object_refs = references',
                                 !.explicit_releases = @ + 1,
                                 !.explicit_by_cell[token] = @ + 1],
                       x, token, pc + 1)
    /\ m' = CountTagClear(Attempted(x))
    /\ UNCHANGED <<handles, views>>

BranchNull(x) ==
    /\ Fetch(x) /\ x.op = "BR_NULL"
    /\ ~Unidentified(x)
    /\ LET token == TokenOf(regs[x.dst])
       IN  Continue(r, x, token, IF token = NoToken THEN x.imm ELSE pc + 1)
    /\ UNCHANGED <<handles, gate, m>>

Return(x) ==
    /\ Fetch(x) /\ x.op = "RETURN"
    /\ r' = Record([r EXCEPT !.pc = pc, !.returned = x.imm,
                             !.status = "RETURNED"], "STEP", x.op, pc, NoToken)
    /\ phase' = "cleanup"
    /\ UNCHANGED <<purecap, inexact, n, pc, cell, handles, gate, m>>

-----------------------------------------------------------------------------
\* finish: consume what is still live; a cell consumed before is passed over.
CleanupCell ==
    /\ phase = "cleanup" /\ cell < r.acquired
    /\ ObjectIsLive(cells[cell])
    /\ cells' = Consumed(cell)
    /\ references' = references - 1
    /\ m' = [CountTagClear(m) EXCEPT !.cleanups = @ + 1]
    /\ r' = Record([r EXCEPT !.object_refs = references',
                             !.cleanup_releases = @ + 1,
                             !.cleanup_by_cell[cell + 1] = @ + 1],
                   "CLEANUP", "RELEASE", r.pc, cell + 1)
    /\ cell' = cell + 1
    /\ UNCHANGED <<purecap, inexact, n, phase, pc, handles, views>>

CleanupSkip ==
    /\ phase = "cleanup" /\ cell < r.acquired
    /\ ~ObjectIsLive(cells[cell])
    /\ cell' = cell + 1
    /\ UNCHANGED <<purecap, inexact, n, phase, pc, r, handles, gate, m>>

Finish ==
    /\ phase = "cleanup" /\ cell >= r.acquired
    /\ phase' = "done"
    /\ UNCHANGED <<purecap, inexact, n, pc, cell, r, handles, gate, m>>

Execute(x) ==
    \/ AcquireNull(x) \/ Acquire(x) \/ AcquireExhausted(x)
    \/ MoveAlias(x) \/ UseNull(x) \/ UseStale(x)
    \/ Read(x) \/ Release(x) \/ BranchNull(x) \/ Return(x)

Progress ==
    \/ Reject \/ Accept
    \/ \E x \in Insn : Execute(x) \/ RepresentationError(x)
    \/ CleanupCell \/ CleanupSkip \/ Finish

\* The function has returned; anything else that cannot move is a deadlock.
Returned == phase = "done" /\ UNCHANGED vars

Next == Progress \/ Returned

Spec == Init /\ [][Next]_vars

-----------------------------------------------------------------------------
LiveCells == { c \in CellIndex : ObjectIsLive(cells[c]) }

\* Every alias the program can hold, consumed ones included, names exactly
\* one acquired cell, so identify fails only on a forged handle (gate.c:79).
HandlesResolve ==
    \A h \in { regs[d] : d \in Reg } \cup { spills[s] : s \in Slot } :
        h # NullHandle => Cardinality(Matching(h)) = 1

\* The provider's count, what the caller is told and the authority stored in
\* the cells never disagree; no cell outside the acquired ones holds any, and
\* a build only ever leaves its own kind of dead cell (gate.c:140-146).
AuthorityMatchesReferences ==
    /\ references = 1 + Cardinality({ c \in CellIndex : cells[c] = "object" })
    /\ r.object_refs = references
    /\ \A c \in CellIndex :
          /\ (cells[c] = "object" => c < r.acquired)
          /\ (cells[c] = "untagged" => purecap)

\* The metrics against the result: one capability operation per acquisition
\* and per consumed cell in purecap and none on the host, and one more
\* attempted use than was performed exactly when the run trapped on that use
\* (gate.h:9-13).
MetricsAgree ==
    /\ m.cleanups = r.cleanup_releases
    /\ m.tag_clears = IF purecap THEN r.explicit_releases + r.cleanup_releases
                      ELSE 0
    /\ m.restricted_handles = IF purecap THEN r.acquired ELSE 0
    /\ m.reads + m.releases =
          r.reads + r.explicit_releases
            + (IF r.trap \in {"NULL", "STALE"} THEN 1 ELSE 0)
    /\ m.acquisitions >=
          r.acquired + m.representation_errors
            + (IF r.trap = "EXHAUSTED" THEN 1 ELSE 0)

\* "A capability-representation failure returns INVALID after cleaning up any
\* earlier acquisitions ... It is not an IR trap" (gate.h:22), and the failed
\* acquisition has had no effect (gate.c:103).
FailureLeavesNothing ==
    /\ m.representation_errors \in {0, 1}
    /\ m.representation_errors = 1 =>
          /\ purecap /\ r.status = "INVALID" /\ r.trap = "NO_TRAP"
          /\ phase \in {"cleanup", "done"}
          /\ r.event.kind # "TRAP_EVENT"
          /\ \A c \in CellIndex : c >= r.acquired =>
                cells[c] = "null" /\ views[c] = NullHandle
    /\ phase = "done" =>
          /\ references = 1 /\ LiveCells = {}
          /\ r.explicit_releases + r.cleanup_releases = r.acquired

-----------------------------------------------------------------------------
\* Aliases read as tokens and cells as live acquisitions, this interpreter is
\* the reference interpreter step for step, on the host and, as long as every
\* view can be represented, in purecap.
Tokens(handle) == [i \in DOMAIN handle |-> TokenOf(handle[i])]

Reference == INSTANCE CbpfMachine WITH
    regs <- Tokens(regs),
    spills <- Tokens(spills),
    live <- { t \in Token : ObjectIsLive(cells[t - 1]) }

\* "Same structurally checked IR, result observations ... as cbpf_run"
\* (gate.h:18).
ImplementsReference == Reference!Spec
=============================================================================
