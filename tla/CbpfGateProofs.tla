--------------------------- MODULE CbpfGateProofs ----------------------------
(* The trusted gate interpreter, in both builds, for every program, every     *)
(* number of registers, slots and cells and every layout: aliases resolve,    *)
(* authority and references agree, the metrics add up, no ending leaves       *)
(* anything, and as long as views can be represented it is the reference      *)
(* interpreter. Then the two programs that judge such runs: the ownership     *)
(* guest with all programs of its table, and cheri_demo with its child.       *)
EXTENDS MCCbpfPrograms, FiniteSetTheorems, SequenceTheorems, TLAPS

MetricsType ==
    [acquisitions : Nat, reads : Nat, releases : Nat, cleanups : Nat,
     restricted_handles : Nat, tag_clears : Nat, representation_errors : Nat]

TypeInv ==
    /\ purecap \in BOOLEAN
    /\ n \in Nat /\ pc \in Nat /\ cell \in Nat
    /\ phase \in {"validate", "run", "cleanup", "done"}
    /\ r \in ResultType
    /\ cells \in [CellIndex -> Object]
    /\ references \in Int
    /\ m \in MetricsType

\* A handle is an acquired cell, whose recorded view is that cell's.
ShapeInv ==
    /\ views = [c \in CellIndex |-> IF c < r.acquired THEN c ELSE NullHandle]
    /\ regs \in [Reg -> Handle] /\ \A d \in Reg : regs[d] < r.acquired
    /\ spills \in [Slot -> Handle] /\ \A s \in Slot : spills[s] < r.acquired

\* What is not live among the acquired cells was consumed.
CellsInv ==
    \A c \in CellIndex : /\ cells[c] # "null" => c < r.acquired
                         /\ cells[c] = "untagged" => purecap

AuthorityInv ==
    /\ references = 1 + Cardinality(LiveCells)
    /\ r.object_refs = references
    /\ r.explicit_releases + r.cleanup_releases + Cardinality(LiveCells) = r.acquired
    /\ CellsInv

\* Where control is: nothing has failed while the program runs, and cleanup
\* leaves no authority behind its cursor.
PhaseInv ==
    /\ phase = "validate" => r.acquired = 0
    /\ phase \in {"validate", "run"} =>
          /\ cell = 0
          /\ m.representation_errors = 0 /\ r.trap = "NO_TRAP"
          /\ r.event.kind # "TRAP_EVENT"
    /\ phase = "cleanup" => \A c \in CellIndex : c < cell => cells[c] # "object"
    /\ phase = "done" => LiveCells = {}
    /\ m.representation_errors \in {0, 1}
    /\ m.representation_errors = 1 =>
          /\ purecap /\ r.status = "INVALID" /\ r.trap = "NO_TRAP"
          /\ r.event.kind # "TRAP_EVENT"

IInv == TypeInv /\ ShapeInv /\ AuthorityInv /\ MetricsAgree /\ PhaseInv

-----------------------------------------------------------------------------
(* The records.                                                               *)

\* What r and m say of a run.
Says(q, res) ==
    /\ q \in ResultType
    /\ q.acquired = res.acquired /\ q.reads = res.reads
    /\ q.explicit_releases = res.explicit_releases
    /\ q.cleanup_releases = res.cleanup_releases
    /\ q.object_refs = res.object_refs
    /\ q.status = res.status /\ q.trap = res.trap

\* Recording an event changes the event fields and nothing else.
LEMMA RecordSays ==
    ASSUME NEW res \in ResultType, NEW kind \in EventKind, NEW op \in Opcode,
           NEW place \in Nat, NEW token \in Alias
    PROVE  /\ Says(Record(res, kind, op, place, token), res)
           /\ Record(res, kind, op, place, token).event.kind = kind
<1> DEFINE e == [kind |-> kind, op |-> op, pc |-> place, token |-> token,
                 object_refs |-> res.object_refs]
           k == res.event_count + 1
           q == [res EXCEPT !.event_count = k, !.event = e]
<1>1. e \in EventType /\ k \in Nat /\ e.kind = kind
  BY DEF EventType, ResultType
<1>2. Record(res, kind, op, place, token) = q
  BY DEF Record
<1> HIDE DEF e, k
<1>3. q \in ResultType /\ q.event = e
  BY <1>1 DEF ResultType
<1>4. /\ q.acquired = res.acquired /\ q.reads = res.reads
      /\ q.explicit_releases = res.explicit_releases
      /\ q.cleanup_releases = res.cleanup_releases
      /\ q.object_refs = res.object_refs
      /\ q.status = res.status /\ q.trap = res.trap
  BY DEF ResultType
<1> HIDE DEF q
<1> QED
  BY <1>1, <1>2, <1>3, <1>4 DEF Says

\* The zeroed result record.
LEMMA FreshResultFacts ==
    /\ FreshResult \in ResultType
    /\ FreshResult.acquired = 0 /\ FreshResult.reads = 0
    /\ FreshResult.explicit_releases = 0 /\ FreshResult.cleanup_releases = 0
    /\ FreshResult.object_refs = 1 /\ FreshResult.trap = "NO_TRAP"
    /\ FreshResult.event.kind = "none"
<1>1. NoEvent \in EventType /\ NoEvent.kind = "none"
  BY DEF NoEvent, EventType, EventKind, Alias, NoToken
<1> DEFINE zeros == [t \in Token |-> 0]
<1>2. zeros \in ByCell /\ 0 \in 0 .. CBPF_CELLS
  BY SizesAssumption DEF ByCell
<1> HIDE DEF zeros
<1>3. FreshResult =
        [status |-> "RETURNED", trap |-> "NO_TRAP", pc |-> 0, returned |-> 0,
         acquired |-> 0, reads |-> 0, last_read |-> 0,
         explicit_releases |-> 0, cleanup_releases |-> 0, object_refs |-> 1,
         explicit_by_cell |-> zeros, cleanup_by_cell |-> zeros,
         event_count |-> 0, event |-> NoEvent]
  BY DEF FreshResult, zeros
<1>4. "RETURNED" \in Status /\ "NO_TRAP" \in TrapReason
  BY DEF Status, TrapReason
<1>5. FreshResult \in ResultType
  BY <1>1, <1>2, <1>3, <1>4 DEF ResultType, FieldValue
<1> QED
  BY <1>1, <1>3, <1>5

\* What an attempt counts, and what an instruction asks identify about.
LEMMA InsnFacts ==
    ASSUME NEW x
    PROVE  /\ x.op = "ACQUIRE" =>
                /\ Attempted(x) = [m EXCEPT !.acquisitions = @ + 1]
                /\ Unidentified(x) = (x.imm # 0 /\ ~Full /\ ~ViewPrepared(NextCell))
           /\ x.op = "READ" => Attempted(x) = [m EXCEPT !.reads = @ + 1]
           /\ x.op = "RELEASE" => Attempted(x) = [m EXCEPT !.releases = @ + 1]
           /\ x.op = "RETURN" => ~Unidentified(x)
           /\ x.op \notin {"ACQUIRE", "RETURN"} =>
                Unidentified(x) = ~Known(HandleUsed(x))
           /\ x.op \in {"COPY", "SPILL"} => HandleUsed(x) = regs[x.src]
           /\ x.op = "RELOAD" => HandleUsed(x) = spills[x.src]
           /\ x.op \in {"READ", "RELEASE", "BR_NULL"} => HandleUsed(x) = regs[x.dst]
<1>1. x.op = "ACQUIRE" =>
                /\ Attempted(x) = [m EXCEPT !.acquisitions = @ + 1]
                /\ Unidentified(x) = (x.imm # 0 /\ ~Full /\ ~ViewPrepared(NextCell))
  BY DEF Attempted, Unidentified
<1>2. /\ x.op = "READ" => Attempted(x) = [m EXCEPT !.reads = @ + 1]
      /\ x.op = "RELEASE" => Attempted(x) = [m EXCEPT !.releases = @ + 1]
  BY DEF Attempted
<1>3. /\ x.op = "RETURN" => ~Unidentified(x)
      /\ x.op \notin {"ACQUIRE", "RETURN"} => Unidentified(x) = ~Known(HandleUsed(x))
  BY DEF Unidentified
<1>4. /\ x.op \in {"COPY", "SPILL"} => HandleUsed(x) = regs[x.src]
      /\ x.op = "RELOAD" => HandleUsed(x) = spills[x.src]
  BY DEF HandleUsed
<1>5. x.op \in {"READ", "RELEASE", "BR_NULL"} => HandleUsed(x) = regs[x.dst]
  BY DEF HandleUsed
<1> QED
  BY <1>1, <1>2, <1>3, <1>4, <1>5

-----------------------------------------------------------------------------
(* Handles and cells.                                                         *)

\* A handle in range has one view, and identify finds it.
LEMMA HandleFacts ==
    ASSUME TypeInv, ShapeInv, NEW h \in Handle, h < r.acquired
    PROVE  /\ Known(h)
           /\ h # NullHandle => Matching(h) = {h} /\ TokenOf(h) = h + 1
           /\ h = NullHandle => TokenOf(h) = NoToken
           /\ TokenOf(h) \in Alias
           /\ LiveToken(h) <=> h # NullHandle /\ cells[h] = "object"
<1>1. r.acquired \in Nat /\ r.acquired <= CBPF_CELLS /\ CBPF_CELLS \in Nat
  BY SizesAssumption DEF TypeInv, ResultType
<1>2. ASSUME h # NullHandle
      PROVE  Matching(h) = {h} /\ TokenOf(h) = h + 1 /\ h \in CellIndex
  <2>1. h \in CellIndex /\ h \in Nat
    BY <1>2 DEF Handle, CellIndex
  <2>2. Matching(h) = {h}
    BY <2>1, <1>1 DEF ShapeInv, Matching, CellIndex, NullHandle
  <2>3. (CHOOSE c \in {h} : \A e \in {h} : c <= e) = h
    BY <2>1
  <2> QED BY <1>2, <2>1, <2>2, <2>3 DEF TokenOf
<1>3. h = NullHandle => TokenOf(h) = NoToken
  BY DEF TokenOf
<1>4. Known(h)
  BY <1>2 DEF Known
<1>5. TokenOf(h) \in Alias
  BY <1>1, <1>2, <1>3 DEF Alias, Token, NoToken, CellIndex
<1>6. LiveToken(h) <=> h # NullHandle /\ cells[h] = "object"
  <2>1. CASE h = NullHandle
    BY <2>1, <1>3 DEF LiveToken
  <2>2. CASE h # NullHandle
    <3>1. TokenOf(h) = h + 1 /\ h \in Nat
      BY <1>2, <2>2 DEF CellIndex
    <3>2. TokenOf(h) # NoToken /\ TokenOf(h) - 1 = h
      BY <3>1 DEF NoToken
    <3> QED BY <2>2, <3>2 DEF LiveToken, ObjectIsLive
  <2> QED BY <2>1, <2>2
<1> QED
  BY <1>2, <1>3, <1>4, <1>5, <1>6

\* One cell more or one less among the live ones.
LEMMA LiveFacts ==
    /\ IsFiniteSet(LiveCells) /\ Cardinality(LiveCells) \in Nat
    /\ \A c : c \notin LiveCells => Cardinality(LiveCells \cup {c}) = Cardinality(LiveCells) + 1
    /\ \A c \in LiveCells : Cardinality(LiveCells \ {c}) = Cardinality(LiveCells) - 1
    /\ Cardinality(LiveCells) = 0 <=> LiveCells = {}
<1>1. IsFiniteSet(CellIndex)
  BY SizesAssumption, FS_Interval DEF CellIndex
<1>2. LiveCells \subseteq CellIndex
  BY DEF LiveCells
<1>3. IsFiniteSet(LiveCells)
  BY <1>1, <1>2, FS_Subset
<1> QED
  BY <1>3, FS_AddElement, FS_RemoveElement, FS_CardinalityType, FS_EmptySet
-----------------------------------------------------------------------------
(* What a step does to the two records.                                       *)

\* Metrics that count so many acquisitions, uses and so on.
Sums(q, acquisitions, uses, cleanups, restricted, clears, errors) ==
    /\ q \in MetricsType
    /\ q.acquisitions = acquisitions /\ q.reads + q.releases = uses
    /\ q.cleanups = cleanups /\ q.restricted_handles = restricted
    /\ q.tag_clears = clears /\ q.representation_errors = errors

One(condition) == IF condition THEN 1 ELSE 0

\* Each counter the interpreter raises.
LEMMA CountFacts ==
    ASSUME NEW q \in MetricsType
    PROVE  LET is(s, a, u, c, h, t, e) ==
                 Sums(s, q.acquisitions + a, q.reads + q.releases + u, q.cleanups + c,
                      q.restricted_handles + h, q.tag_clears + t,
                      q.representation_errors + e)
           IN  /\ is(q, 0, 0, 0, 0, 0, 0)
               /\ is([q EXCEPT !.acquisitions = @ + 1], 1, 0, 0, 0, 0, 0)
               /\ is([q EXCEPT !.reads = @ + 1], 0, 1, 0, 0, 0, 0)
               /\ is([q EXCEPT !.releases = @ + 1], 0, 1, 0, 0, 0, 0)
               /\ is([q EXCEPT !.cleanups = @ + 1], 0, 0, 1, 0, 0, 0)
               /\ is([q EXCEPT !.restricted_handles = @ + 1], 0, 0, 0, 1, 0, 0)
               /\ is([q EXCEPT !.tag_clears = @ + 1], 0, 0, 0, 0, 1, 0)
               /\ is([q EXCEPT !.representation_errors = @ + 1], 0, 0, 0, 0, 0, 1)
<1> USE DEF MetricsType, Sums
<1>1. /\ q.acquisitions + 1 \in Nat /\ q.reads + 1 \in Nat /\ q.releases + 1 \in Nat
      /\ q.cleanups + 1 \in Nat /\ q.restricted_handles + 1 \in Nat
      /\ q.tag_clears + 1 \in Nat /\ q.representation_errors + 1 \in Nat
  OBVIOUS
<1> QED
  BY <1>1

\* Counting a handle, or a cleared tag, is for the purecap build.
LEMMA PurecapCounts ==
    ASSUME NEW q \in MetricsType
    PROVE  /\ Sums(CountHandle(q), q.acquisitions, q.reads + q.releases, q.cleanups,
                   q.restricted_handles + One(purecap), q.tag_clears,
                   q.representation_errors)
           /\ Sums(CountTagClear(q), q.acquisitions, q.reads + q.releases, q.cleanups,
                   q.restricted_handles, q.tag_clears + One(purecap),
                   q.representation_errors)
<1>1. CASE purecap
  BY <1>1, CountFacts DEF CountHandle, CountTagClear, One, Sums, MetricsType
<1>2. CASE ~purecap
  BY <1>2, CountFacts DEF CountHandle, CountTagClear, One, Sums, MetricsType
<1> QED
  BY <1>1, <1>2

\* An instruction counts the acquisition, or the use, that it attempts.
LEMMA AttemptFacts ==
    ASSUME m \in MetricsType, NEW x
    PROVE  /\ x.op = "ACQUIRE" =>
                Sums(Attempted(x), m.acquisitions + 1, m.reads + m.releases, m.cleanups,
                     m.restricted_handles, m.tag_clears, m.representation_errors)
           /\ x.op \in {"READ", "RELEASE"} =>
                Sums(Attempted(x), m.acquisitions, m.reads + m.releases + 1, m.cleanups,
                     m.restricted_handles, m.tag_clears, m.representation_errors)
<1>1. CASE x.op = "ACQUIRE"
  BY <1>1, InsnFacts, CountFacts DEF Sums, MetricsType
<1>2. CASE x.op = "READ"
  BY <1>2, InsnFacts, CountFacts DEF Sums, MetricsType
<1>3. CASE x.op = "RELEASE"
  BY <1>3, InsnFacts, CountFacts DEF Sums, MetricsType
<1> QED
  BY <1>1, <1>2, <1>3

\* An instruction fetched is one the validator accepted where it stands.
LEMMA FetchFacts ==
    ASSUME TypeInv, NEW x \in Insn, Fetch(x)
    PROVE  /\ x.op \in Opcode /\ x.imm \in Immediate /\ x.imm \in Int
           /\ phase = "run" /\ pc \in Nat /\ pc + 1 \in Nat
           /\ x.op = "BR_NULL" => x.imm \in Nat
           /\ x.op \in {"ACQUIRE", "COPY", "RELOAD", "READ", "RELEASE",
                        "BR_NULL"} => x.dst \in Reg
           /\ x.op \in {"COPY", "SPILL"} => x.src \in Reg
           /\ x.op = "SPILL" => x.dst \in Slot
           /\ x.op = "RELOAD" => x.src \in Slot
<1>1. x.op \in Opcode \cup {"OTHER"} /\ x.imm \in Immediate /\ x.imm \in Int
  BY FieldsAssumption DEF Insn
<1>2. n \in Nat /\ pc \in Nat /\ phase = "run" /\ OperandsOk(x, pc, n)
  BY DEF TypeInv, Fetch, ValidAt
<1>3. x.op = "BR_NULL" => x.imm \in Nat
  BY <1>1, <1>2 DEF OperandsOk, BranchForward
<1> QED
  BY <1>1, <1>2, <1>3 DEF OperandsOk, Opcode

\* The event of a step that goes on says nothing of a trap.
LEMMA ContinueSays ==
    ASSUME TypeInv, NEW x \in Insn, Fetch(x), NEW res \in ResultType,
           NEW token \in Alias, NEW next \in Nat, Continue(res, x, token, next)
    PROVE  /\ Says(r', res) /\ r'.event.kind = "STEP" /\ pc' \in Nat
           /\ UNCHANGED <<purecap, n, phase, cell>>
<1> DEFINE q == [res EXCEPT !.pc = pc]
<1>1. pc \in Nat /\ x.op \in Opcode /\ "STEP" \in EventKind
  BY FetchFacts DEF EventKind
<1>2. Says(q, res)
  BY <1>1 DEF ResultType, Says
<1>3. r' = Record(q, "STEP", x.op, pc, token) /\ pc' = next
      /\ UNCHANGED <<purecap, n, phase, cell>>
  BY DEF Continue
<1> HIDE DEF q
<1>4. Says(r', q) /\ r'.event.kind = "STEP"
  BY <1>1, <1>2, <1>3, RecordSays DEF Says
<1> QED
  BY <1>2, <1>3, <1>4 DEF Says
\* r' has the accounts of r, and so many reads.
Accounts(reads) ==
    /\ r' \in ResultType
    /\ r'.acquired = r.acquired /\ r'.reads = reads
    /\ r'.explicit_releases = r.explicit_releases
    /\ r'.cleanup_releases = r.cleanup_releases
    /\ r'.object_refs = r.object_refs

Goes == phase = "run" /\ phase' = "run" /\ cell' = cell /\ purecap' = purecap
        /\ n' = n /\ pc' \in Nat /\ r'.trap = r.trap /\ r'.event.kind = "STEP"

Ends == phase = "run" /\ phase' = "cleanup" /\ UNCHANGED <<purecap, n, pc, cell>>

\* A trap.
LEMMA TrapSays ==
    ASSUME TypeInv, NEW x \in Insn, Fetch(x), NEW reason \in TrapReason,
           NEW token \in Alias, Trap(reason, x, token)
    PROVE  /\ Ends /\ Accounts(r.reads) /\ r'.trap = reason
           /\ m' = Attempted(x) /\ UNCHANGED <<handles, gate>>
<1> DEFINE q == [r EXCEPT !.pc = pc, !.trap = reason, !.status = "TRAPPED"]
<1>1. /\ pc \in Nat /\ x.op \in Opcode /\ "TRAP_EVENT" \in EventKind
      /\ phase = "run" /\ "TRAPPED" \in Status
  BY FetchFacts DEF EventKind, Status
<1>2. /\ q \in ResultType /\ q.acquired = r.acquired /\ q.reads = r.reads
      /\ q.explicit_releases = r.explicit_releases
      /\ q.cleanup_releases = r.cleanup_releases
      /\ q.object_refs = r.object_refs /\ q.trap = reason
  BY <1>1 DEF TypeInv, ResultType
<1>3. r' = Record(q, "TRAP_EVENT", x.op, pc, token) /\ phase' = "cleanup"
      /\ UNCHANGED <<purecap, n, pc, cell>>
      /\ m' = Attempted(x) /\ UNCHANGED <<handles, gate>>
  BY DEF Trap
<1> HIDE DEF q
<1>4. Says(r', q)
  BY <1>1, <1>2, <1>3, RecordSays
<1> QED
  BY <1>1, <1>2, <1>3, <1>4 DEF Ends, Accounts, Says

\* RETURN.
LEMMA ReturnSays ==
    ASSUME TypeInv, NEW x \in Insn, Return(x)
    PROVE  /\ Ends /\ Accounts(r.reads) /\ r'.trap = r.trap
           /\ m' = m /\ UNCHANGED <<handles, gate>>
<1> DEFINE q == [r EXCEPT !.pc = pc, !.returned = x.imm, !.status = "RETURNED"]
<1>1. /\ pc \in Nat /\ x.op \in Opcode /\ "STEP" \in EventKind /\ NoToken \in Alias
      /\ phase = "run" /\ "RETURNED" \in Status /\ x.imm \in Immediate
  BY FetchFacts DEF EventKind, Status, Return, Alias
<1>2. /\ q \in ResultType /\ q.acquired = r.acquired /\ q.reads = r.reads
      /\ q.explicit_releases = r.explicit_releases
      /\ q.cleanup_releases = r.cleanup_releases
      /\ q.object_refs = r.object_refs /\ q.trap = r.trap
  BY <1>1 DEF TypeInv, ResultType
<1>3. r' = Record(q, "STEP", x.op, pc, NoToken) /\ phase' = "cleanup"
      /\ UNCHANGED <<purecap, n, pc, cell>>
      /\ m' = m /\ UNCHANGED <<handles, gate>>
  BY DEF Return
<1> HIDE DEF q
<1>4. Says(r', q)
  BY <1>1, <1>2, <1>3, RecordSays
<1> QED
  BY <1>1, <1>2, <1>3, <1>4 DEF Ends, Accounts, Says

-----------------------------------------------------------------------------
(* The parts of the invariant.                                                *)

\* A step that leaves the cells and the accounts alone.
LEMMA GateKeeps ==
    ASSUME IInv, NEW reads, Accounts(reads), UNCHANGED <<purecap, gate>>,
           regs' \in [Reg -> Handle], \A d \in Reg : regs'[d] < r.acquired,
           spills' \in [Slot -> Handle], \A s \in Slot : spills'[s] < r.acquired
    PROVE  ShapeInv' /\ AuthorityInv' /\ LiveCells' = LiveCells
<1>1. LiveCells' = LiveCells /\ UNCHANGED <<cells, views, references>>
  BY DEF LiveCells, gate
<1>2. AuthorityInv'
  BY <1>1 DEF IInv, AuthorityInv, CellsInv, Accounts
<1>3. ShapeInv'
  BY <1>1 DEF IInv, ShapeInv, Accounts
<1> QED
  BY <1>1, <1>2, <1>3

\* The same when no handle changes either.
LEMMA HandlesKeep ==
    ASSUME IInv, NEW reads, Accounts(reads), UNCHANGED <<purecap, gate, handles>>
    PROVE  ShapeInv' /\ AuthorityInv' /\ LiveCells' = LiveCells
  BY GateKeeps DEF IInv, ShapeInv, handles

\* Going on.
LEMMA GoesPhase ==
    ASSUME IInv, Goes, m'.representation_errors = m.representation_errors
    PROVE  PhaseInv'
  BY DEF IInv, PhaseInv, Goes

\* Ending without a failed representation.
LEMMA EndsPhase ==
    ASSUME IInv, Ends, m'.representation_errors = m.representation_errors
    PROVE  PhaseInv'
<1>1. cell' = 0 /\ m'.representation_errors = 0 /\ phase' = "cleanup"
  BY DEF IInv, PhaseInv, Ends
<1>2. \A c \in CellIndex : ~(c < cell')
  BY <1>1 DEF CellIndex
<1> QED
  BY <1>1, <1>2 DEF PhaseInv

\* Types, when the cells stay.
LEMMA QuietTypes ==
    ASSUME IInv, Goes \/ Ends, NEW reads, Accounts(reads), UNCHANGED gate,
           m' \in MetricsType
    PROVE  TypeInv'
  BY DEF IInv, TypeInv, Goes, Ends, Accounts, gate

\* The metrics, of a step that acquires and consumes nothing.
LEMMA QuietMetrics ==
    ASSUME IInv, phase = "run", purecap' = purecap,
           NEW reads \in Nat, Accounts(reads), NEW a \in Nat, NEW u \in Nat,
           Sums(m', m.acquisitions + a, m.reads + m.releases + u, m.cleanups,
                m.restricted_handles, m.tag_clears, m.representation_errors),
           reads + One(r'.trap \in {"NULL", "STALE"}) = r.reads + u,
           One(r'.trap = "EXHAUSTED") <= a
    PROVE  MetricsAgree'
<1>1. r.trap = "NO_TRAP"
  BY DEF IInv, PhaseInv
<1>2. /\ r \in ResultType /\ m \in MetricsType
      /\ r.acquired \in Nat /\ r.reads \in Nat /\ r.explicit_releases \in Nat
      /\ r.cleanup_releases \in Nat
      /\ m.acquisitions \in Nat /\ m.reads \in Nat /\ m.releases \in Nat
      /\ m.representation_errors \in Nat
  BY SizesAssumption DEF IInv, TypeInv, ResultType, MetricsType
<1>3. /\ m.cleanups = r.cleanup_releases
      /\ m.tag_clears = IF purecap THEN r.explicit_releases + r.cleanup_releases ELSE 0
      /\ m.restricted_handles = IF purecap THEN r.acquired ELSE 0
      /\ m.reads + m.releases = r.reads + r.explicit_releases
      /\ m.acquisitions >= r.acquired + m.representation_errors
  BY <1>1, <1>2 DEF IInv, MetricsAgree
<1> QED
  BY <1>2, <1>3 DEF MetricsAgree, Accounts, Sums, One
-----------------------------------------------------------------------------
(* The steps.                                                                 *)

\* An instruction that goes on and leaves the cells alone.
LEMMA QuietGoes ==
    ASSUME IInv, NEW x \in Insn, Fetch(x), NEW token \in Alias, NEW next \in Nat,
           NEW res \in ResultType, Continue(res, x, token, next),
           res.acquired = r.acquired, res.explicit_releases = r.explicit_releases,
           res.cleanup_releases = r.cleanup_releases, res.object_refs = r.object_refs,
           res.trap = r.trap, UNCHANGED gate,
           regs' \in [Reg -> Handle], \A d \in Reg : regs'[d] < r.acquired,
           spills' \in [Slot -> Handle], \A s \in Slot : spills'[s] < r.acquired,
           NEW a \in Nat, NEW u \in Nat, res.reads = r.reads + u,
           Sums(m', m.acquisitions + a, m.reads + m.releases + u, m.cleanups,
                m.restricted_handles, m.tag_clears, m.representation_errors)
    PROVE  IInv'
<1>1. phase = "run" /\ TypeInv /\ r.trap = "NO_TRAP"
  BY FetchFacts DEF IInv, PhaseInv
<1>2. Says(r', res) /\ r'.event.kind = "STEP" /\ pc' \in Nat
      /\ UNCHANGED <<purecap, n, phase, cell>>
  BY <1>1, ContinueSays
<1>3. Goes /\ Accounts(res.reads) /\ r'.trap = "NO_TRAP" /\ res.reads \in Nat
  BY <1>1, <1>2 DEF Goes, Says, Accounts, ResultType
<1>4. ShapeInv' /\ AuthorityInv'
  BY <1>2, <1>3, GateKeeps
<1>5. TypeInv'
  BY <1>3, QuietTypes DEF Sums
<1>6. PhaseInv'
  BY <1>3, GoesPhase DEF Sums
<1>7. MetricsAgree'
  <2>1. One(r'.trap \in {"NULL", "STALE"}) = 0 /\ One(r'.trap = "EXHAUSTED") = 0
    BY <1>3 DEF One
  <2> QED BY <1>1, <1>2, <1>3, <2>1, QuietMetrics
<1> QED
  BY <1>4, <1>5, <1>6, <1>7 DEF IInv

\* An instruction that ends the program.
LEMMA QuietEnds ==
    ASSUME IInv, Ends, Accounts(r.reads), UNCHANGED <<handles, gate>>,
           NEW a \in Nat, NEW u \in Nat,
           Sums(m', m.acquisitions + a, m.reads + m.releases + u, m.cleanups,
                m.restricted_handles, m.tag_clears, m.representation_errors),
           One(r'.trap \in {"NULL", "STALE"}) = u, One(r'.trap = "EXHAUSTED") <= a
    PROVE  IInv'
<1>1. ShapeInv' /\ AuthorityInv'
  BY HandlesKeep DEF Ends
<1>2. TypeInv'
  BY QuietTypes DEF Sums
<1>3. PhaseInv'
  BY EndsPhase DEF Sums
<1>4. MetricsAgree'
  <2>1. r.reads \in Nat /\ phase = "run" /\ purecap' = purecap
    BY DEF IInv, TypeInv, ResultType, Ends
  <2> QED BY <2>1, QuietMetrics
<1> QED
  BY <1>1, <1>2, <1>3, <1>4 DEF IInv

\* m says what it says.
LEMMA MetricsSame ==
    ASSUME TypeInv
    PROVE  Sums(m, m.acquisitions + 0, m.reads + m.releases + 0, m.cleanups,
                m.restricted_handles, m.tag_clears, m.representation_errors)
  BY DEF TypeInv, Sums, MetricsType

\* ACQUIRE of the null object.
LEMMA AcquireNullKeeps ==
    ASSUME IInv, NEW x \in Insn, AcquireNull(x)
    PROVE  IInv'
<1>1. /\ Fetch(x) /\ x.op = "ACQUIRE" /\ UNCHANGED <<spills, gate>>
      /\ regs' = [regs EXCEPT ![x.dst] = NullHandle]
      /\ m' = Attempted(x) /\ Continue(r, x, NoToken, pc + 1)
  BY DEF AcquireNull
<1>2. x.dst \in Reg /\ pc + 1 \in Nat /\ NoToken \in Alias
  BY <1>1, FetchFacts DEF IInv, Alias
<1>3. r \in ResultType /\ r.acquired \in Nat /\ r.reads \in Nat /\ m \in MetricsType
  BY SizesAssumption DEF IInv, TypeInv, ResultType
<1>4. /\ regs' \in [Reg -> Handle] /\ \A d \in Reg : regs'[d] < r.acquired
      /\ spills' \in [Slot -> Handle] /\ \A s \in Slot : spills'[s] < r.acquired
  BY <1>1, <1>2, <1>3 DEF IInv, ShapeInv, Handle, NullHandle
<1>5. Sums(m', m.acquisitions + 1, m.reads + m.releases + 0, m.cleanups,
           m.restricted_handles, m.tag_clears, m.representation_errors)
  BY <1>1, <1>3, AttemptFacts DEF Sums, MetricsType
<1>6. r.reads = r.reads + 0 /\ 0 \in Nat /\ 1 \in Nat
  BY <1>3
<1> QED
  BY <1>1, <1>2, <1>3, <1>4, <1>5, <1>6, QuietGoes

\* What an alias instruction, a use or a branch asks about is in range.
LEMMA UsedFacts ==
    ASSUME IInv, NEW x \in Insn, Fetch(x), x.op \notin {"ACQUIRE", "RETURN"}
    PROVE  /\ HandleUsed(x) \in Handle /\ HandleUsed(x) < r.acquired
           /\ ~Unidentified(x) /\ TokenOf(HandleUsed(x)) \in Alias
<1>1. HandleUsed(x) \in Handle /\ HandleUsed(x) < r.acquired
  <2> USE FetchFacts, InsnFacts DEF IInv, ShapeInv
  <2>1. CASE x.op \in {"COPY", "SPILL"}
    BY <2>1
  <2>2. CASE x.op = "RELOAD"
    BY <2>2
  <2>3. CASE x.op \in {"READ", "RELEASE", "BR_NULL"}
    BY <2>3
  <2>4. x.op \in Opcode
    OBVIOUS
  <2> QED BY <2>1, <2>2, <2>3, <2>4 DEF Opcode
<1>2. Known(HandleUsed(x)) /\ TokenOf(HandleUsed(x)) \in Alias
  BY <1>1, HandleFacts DEF IInv
<1> QED
  BY <1>1, <1>2, InsnFacts

\* COPY, SPILL, RELOAD and BR_NULL.
LEMMA MoveAliasKeeps ==
    ASSUME IInv, NEW x \in Insn, MoveAlias(x)
    PROVE  IInv'
<1> DEFINE token == TokenOf(HandleUsed(x))
<1>1. /\ Fetch(x) /\ x.op \in {"COPY", "SPILL", "RELOAD"} /\ UNCHANGED <<gate, m>>
      /\ Assign(x) /\ Continue(r, x, token, pc + 1)
  BY DEF MoveAlias
<1>2. /\ pc + 1 \in Nat
      /\ x.op # "SPILL" => x.dst \in Reg
      /\ x.op = "SPILL" => x.dst \in Slot
      /\ x.op \in {"COPY", "SPILL"} => x.src \in Reg
      /\ x.op = "RELOAD" => x.src \in Slot
  BY <1>1, FetchFacts DEF IInv
<1>3. token \in Alias
  BY <1>1, UsedFacts
<1> HIDE DEF token
<1>4. /\ regs' \in [Reg -> Handle] /\ \A d \in Reg : regs'[d] < r.acquired
      /\ spills' \in [Slot -> Handle] /\ \A s \in Slot : spills'[s] < r.acquired
  <2> USE <1>1, <1>2 DEF IInv, ShapeInv, Assign
  <2>1. CASE x.op = "COPY"
    BY <2>1
  <2>2. CASE x.op = "SPILL"
    BY <2>2
  <2>3. CASE x.op = "RELOAD"
    BY <2>3
  <2> QED BY <2>1, <2>2, <2>3
<1>5. r \in ResultType /\ r.reads = r.reads + 0 /\ 0 \in Nat
  BY DEF IInv, TypeInv, ResultType
<1>6. Sums(m', m.acquisitions + 0, m.reads + m.releases + 0, m.cleanups,
           m.restricted_handles, m.tag_clears, m.representation_errors)
  BY <1>1, MetricsSame DEF IInv
<1>7. Fetch(x) /\ UNCHANGED gate /\ pc + 1 \in Nat /\ Continue(r, x, token, pc + 1)
  BY <1>1, <1>2
<1> QED
  BY <1>3, <1>4, <1>5, <1>6, <1>7, QuietGoes

\* BR_NULL goes to its target or to the next instruction.
LEMMA BranchNullKeeps ==
    ASSUME IInv, NEW x \in Insn, BranchNull(x)
    PROVE  IInv'
<1> DEFINE token == TokenOf(regs[x.dst])
           next == IF token = NoToken THEN x.imm ELSE pc + 1
<1>1. /\ Fetch(x) /\ x.op = "BR_NULL" /\ UNCHANGED <<handles, gate, m>>
      /\ Continue(r, x, token, next)
  BY DEF BranchNull
<1>2. token \in Alias /\ next \in Nat
  BY <1>1, UsedFacts, FetchFacts, InsnFacts DEF IInv
<1> HIDE DEF token, next
<1>3. /\ regs' \in [Reg -> Handle] /\ \A d \in Reg : regs'[d] < r.acquired
      /\ spills' \in [Slot -> Handle] /\ \A s \in Slot : spills'[s] < r.acquired
  BY <1>1 DEF IInv, ShapeInv, handles
<1>4. r \in ResultType /\ r.reads = r.reads + 0 /\ 0 \in Nat
  BY DEF IInv, TypeInv, ResultType
<1>5. Sums(m', m.acquisitions + 0, m.reads + m.releases + 0, m.cleanups,
           m.restricted_handles, m.tag_clears, m.representation_errors)
  BY <1>1, MetricsSame DEF IInv
<1> QED
  BY <1>1, <1>2, <1>3, <1>4, <1>5, QuietGoes

\* READ of a live cell.
LEMMA ReadKeeps ==
    ASSUME IInv, NEW x \in Insn, Read(x)
    PROVE  IInv'
<1> DEFINE k == r.reads + 1
           res == [r EXCEPT !.reads = k, !.last_read = FieldValue]
           token == TokenOf(regs[x.dst])
<1>1. /\ Fetch(x) /\ x.op = "READ" /\ UNCHANGED <<handles, gate>>
      /\ m' = Attempted(x) /\ Continue(res, x, token, pc + 1)
  BY DEF Read
<1>2. token \in Alias /\ pc + 1 \in Nat
  BY <1>1, UsedFacts, FetchFacts, InsnFacts DEF IInv
<1>3. k \in Nat
  BY DEF IInv, TypeInv, ResultType
<1> HIDE DEF k, token
<1>4. /\ res \in ResultType /\ res.acquired = r.acquired
      /\ res.explicit_releases = r.explicit_releases
      /\ res.cleanup_releases = r.cleanup_releases
      /\ res.object_refs = r.object_refs /\ res.trap = r.trap /\ res.reads = k
  BY <1>3 DEF IInv, TypeInv, ResultType
<1> HIDE DEF res
<1>5. /\ regs' \in [Reg -> Handle] /\ \A d \in Reg : regs'[d] < r.acquired
      /\ spills' \in [Slot -> Handle] /\ \A s \in Slot : spills'[s] < r.acquired
  BY <1>1 DEF IInv, ShapeInv, handles
<1>6. Sums(m', m.acquisitions + 0, m.reads + m.releases + 1, m.cleanups,
           m.restricted_handles, m.tag_clears, m.representation_errors)
  BY <1>1, AttemptFacts DEF IInv, TypeInv, Sums, MetricsType
<1>7. res.reads = r.reads + 1 /\ 0 \in Nat /\ 1 \in Nat
  BY <1>4 DEF k
<1> QED
  BY <1>1, <1>2, <1>4, <1>5, <1>6, <1>7, QuietGoes

\* The traps and RETURN.
LEMMA EndsKeep ==
    ASSUME IInv, NEW x \in Insn,
           AcquireExhausted(x) \/ UseNull(x) \/ UseStale(x) \/ Return(x)
    PROVE  IInv'
<1> USE DEF IInv
<1>1. 0 \in Nat /\ 1 \in Nat /\ NoToken \in Alias
      /\ {"NULL", "STALE", "EXHAUSTED"} \subseteq TrapReason
  BY DEF Alias, TrapReason
<1>2. CASE AcquireExhausted(x)
  <2>1. Fetch(x) /\ x.op = "ACQUIRE" /\ Trap("EXHAUSTED", x, NoToken)
    BY <1>2 DEF AcquireExhausted
  <2>2. /\ Ends /\ Accounts(r.reads) /\ r'.trap = "EXHAUSTED"
        /\ m' = Attempted(x) /\ UNCHANGED <<handles, gate>>
    BY <1>1, <2>1, TrapSays
  <2>3. Sums(m', m.acquisitions + 1, m.reads + m.releases + 0, m.cleanups,
             m.restricted_handles, m.tag_clears, m.representation_errors)
    BY <2>1, <2>2, AttemptFacts DEF TypeInv, Sums, MetricsType
  <2>4. One(r'.trap \in {"NULL", "STALE"}) = 0 /\ One(r'.trap = "EXHAUSTED") <= 1
    BY <2>2 DEF One
  <2> QED BY <1>1, <2>2, <2>3, <2>4, QuietEnds
<1>3. ASSUME NEW reason \in {"NULL", "STALE"}, NEW token \in Alias, Fetch(x),
             x.op \in {"READ", "RELEASE"}, Trap(reason, x, token)
      PROVE  IInv'
  <2>1. /\ Ends /\ Accounts(r.reads) /\ r'.trap = reason
        /\ m' = Attempted(x) /\ UNCHANGED <<handles, gate>>
    BY <1>1, <1>3, TrapSays
  <2>2. Sums(m', m.acquisitions + 0, m.reads + m.releases + 1, m.cleanups,
             m.restricted_handles, m.tag_clears, m.representation_errors)
    BY <1>3, <2>1, AttemptFacts DEF TypeInv, Sums, MetricsType
  <2>3. One(r'.trap \in {"NULL", "STALE"}) = 1 /\ One(r'.trap = "EXHAUSTED") <= 0
    BY <2>1 DEF One
  <2> QED BY <1>1, <2>1, <2>2, <2>3, QuietEnds
<1>4. CASE UseNull(x)
  BY <1>1, <1>3, <1>4 DEF UseNull
<1>5. CASE UseStale(x)
  <2>1. Fetch(x) /\ x.op \in {"READ", "RELEASE"} /\ Trap("STALE", x, TokenOf(regs[x.dst]))
    BY <1>5 DEF UseStale
  <2>2. TokenOf(regs[x.dst]) \in Alias
    BY <2>1, UsedFacts, InsnFacts
  <2> QED BY <1>3, <2>1, <2>2
<1>6. CASE Return(x)
  <2>1. /\ Ends /\ Accounts(r.reads) /\ r'.trap = r.trap
        /\ m' = m /\ UNCHANGED <<handles, gate>>
    BY <1>6, ReturnSays
  <2>2. r.trap = "NO_TRAP"
    BY <2>1 DEF PhaseInv, Ends
  <2>3. Sums(m', m.acquisitions + 0, m.reads + m.releases + 0, m.cleanups,
             m.restricted_handles, m.tag_clears, m.representation_errors)
    BY <2>1, MetricsSame
  <2>4. One(r'.trap \in {"NULL", "STALE"}) = 0 /\ One(r'.trap = "EXHAUSTED") <= 0
    BY <2>1, <2>2 DEF One
  <2> QED BY <1>1, <2>1, <2>3, <2>4, QuietEnds
<1> QED
  BY <1>2, <1>4, <1>5, <1>6
\* A failed representation: only a new acquisition can have it.
LEMMA RepresentationErrorKeeps ==
    ASSUME IInv, NEW x \in Insn, RepresentationError(x)
    PROVE  IInv'
<1> DEFINE q == [r EXCEPT !.pc = pc, !.status = "INVALID"]
           k == [Attempted(x) EXCEPT !.representation_errors = @ + 1]
<1>1. /\ Fetch(x) /\ Unidentified(x) /\ Assign(x) /\ m' = k /\ r' = q
      /\ phase' = "cleanup" /\ UNCHANGED <<purecap, n, pc, cell, gate>>
  BY DEF RepresentationError
<1>2. phase = "run" /\ pc \in Nat /\ x.op \in Opcode
  BY <1>1, FetchFacts DEF IInv
<1>3. x.op = "ACQUIRE"
  BY <1>1, UsedFacts, InsnFacts
<1>4. purecap
  BY <1>1, <1>3, InsnFacts DEF ViewPrepared
<1>5. /\ q \in ResultType /\ q.acquired = r.acquired /\ q.reads = r.reads
      /\ q.explicit_releases = r.explicit_releases
      /\ q.cleanup_releases = r.cleanup_releases
      /\ q.object_refs = r.object_refs /\ q.trap = r.trap
      /\ q.status = "INVALID" /\ q.event = r.event
  BY <1>2 DEF IInv, TypeInv, ResultType, Status
<1>6. /\ cell = 0 /\ m.representation_errors = 0 /\ r.trap = "NO_TRAP"
      /\ r.event.kind # "TRAP_EVENT"
  BY <1>2 DEF IInv, PhaseInv
<1>7. Sums(k, m.acquisitions + 1, m.reads + m.releases, m.cleanups,
           m.restricted_handles, m.tag_clears, 1)
  <2> DEFINE place == Attempted(x)
  <2>1. Sums(place, m.acquisitions + 1, m.reads + m.releases, m.cleanups,
             m.restricted_handles, m.tag_clears, 0)
    BY <1>3, <1>6, AttemptFacts DEF IInv, TypeInv, Sums
  <2> HIDE DEF place
  <2> DEFINE kk == [place EXCEPT !.representation_errors = @ + 1]
  <2>2. Sums(kk, m.acquisitions + 1, m.reads + m.releases, m.cleanups,
             m.restricted_handles, m.tag_clears, 1)
    BY <2>1, CountFacts DEF Sums, MetricsType
  <2> QED BY <2>2 DEF place
<1> HIDE DEF q, k
<1>8. Accounts(r.reads)
  BY <1>1, <1>5 DEF Accounts
<1>9. UNCHANGED handles
  BY <1>1, <1>3 DEF Assign, handles
<1>10. ShapeInv' /\ AuthorityInv'
  BY <1>1, <1>8, <1>9, HandlesKeep
<1>11. TypeInv'
  BY <1>1, <1>5, <1>7 DEF IInv, TypeInv, gate, Sums
<1>12. PhaseInv'
  <2>1. \A c \in CellIndex : ~(c < cell')
    BY <1>1, <1>6 DEF CellIndex
  <2> QED BY <1>1, <1>4, <1>5, <1>6, <1>7, <2>1 DEF PhaseInv, Sums
<1>13. MetricsAgree'
  <2>1. /\ m.acquisitions \in Nat /\ r.acquired \in Nat
        /\ m.acquisitions >= r.acquired
    BY <1>6, SizesAssumption DEF IInv, TypeInv, ResultType, MetricsType, MetricsAgree
  <2>2. /\ m.cleanups = r.cleanup_releases
        /\ m.tag_clears = IF purecap THEN r.explicit_releases + r.cleanup_releases ELSE 0
        /\ m.restricted_handles = IF purecap THEN r.acquired ELSE 0
        /\ m.reads + m.releases = r.reads + r.explicit_releases + 0
    BY <1>6 DEF IInv, MetricsAgree
  <2>3. r.reads \in Nat /\ r.explicit_releases \in Nat
    BY DEF IInv, TypeInv, ResultType
  <2> QED BY <1>1, <1>5, <1>6, <1>7, <2>1, <2>2, <2>3 DEF MetricsAgree, Sums
<1> QED
  BY <1>10, <1>11, <1>12, <1>13 DEF IInv

-----------------------------------------------------------------------------
\* ACQUIRE: the next cell, its view, its reference and its handle.
LEMMA AcquireKeeps ==
    ASSUME IInv, NEW x \in Insn, Acquire(x)
    PROVE  IInv'
<1> DEFINE k == r.acquired
           a == r.acquired + 1
           o == references + 1
           res == [r EXCEPT !.acquired = a, !.object_refs = o]
<1>1. /\ Fetch(x) /\ x.op = "ACQUIRE" /\ ~Full /\ spills' = spills
      /\ cells' = [cells EXCEPT ![k] = "object"] /\ views' = [views EXCEPT ![k] = k]
      /\ regs' = [regs EXCEPT ![x.dst] = k]
      /\ references' = o /\ Continue(res, x, k + 1, pc + 1)
      /\ m' = CountHandle(Attempted(x))
  BY DEF Acquire, NextCell
<1>2. /\ r \in ResultType /\ r.acquired \in 0 .. CBPF_CELLS /\ CBPF_CELLS \in Nat
      /\ r.acquired # CBPF_CELLS /\ references \in Int /\ o \in Int
  BY <1>1, SizesAssumption DEF IInv, TypeInv, ResultType, Full
<1>3. /\ k \in CellIndex /\ k \in Handle /\ k \in Nat /\ a \in 0 .. CBPF_CELLS
      /\ k + 1 \in Alias /\ a = k + 1
  BY <1>2 DEF CellIndex, Handle, Alias, Token
<1>4. x.dst \in Reg /\ pc + 1 \in Nat /\ phase = "run" /\ pc \in Nat
  BY <1>1, FetchFacts DEF IInv
<1>5. /\ res \in ResultType /\ res.acquired = a /\ res.object_refs = o
      /\ res.reads = r.reads /\ res.trap = r.trap
      /\ res.explicit_releases = r.explicit_releases
      /\ res.cleanup_releases = r.cleanup_releases
  BY <1>2, <1>3 DEF ResultType
<1> HIDE DEF res
<1>6. /\ Says(r', res) /\ r'.event.kind = "STEP" /\ pc' \in Nat
      /\ UNCHANGED <<purecap, n, phase, cell>>
  BY <1>1, <1>3, <1>4, <1>5, ContinueSays DEF IInv
<1>7. /\ r' \in ResultType /\ r'.acquired = a /\ r'.object_refs = o
      /\ r'.reads = r.reads /\ r'.trap = r.trap
      /\ r'.explicit_releases = r.explicit_releases
      /\ r'.cleanup_releases = r.cleanup_releases
  BY <1>5, <1>6 DEF Says
<1>8. cells \in [CellIndex -> Object] /\ cells[k] = "null"
  <2>1. ~(k < r.acquired)
    BY <1>3
  <2> QED BY <1>3, <2>1 DEF IInv, TypeInv, AuthorityInv, CellsInv
<1>9. Sums(m', m.acquisitions + 1, m.reads + m.releases, m.cleanups,
           m.restricted_handles + One(purecap), m.tag_clears, m.representation_errors)
  BY <1>1, AttemptFacts, PurecapCounts DEF IInv, TypeInv, Sums
<1>10. LiveCells' = LiveCells \cup {k} /\ k \notin LiveCells
  BY <1>1, <1>3, <1>8 DEF LiveCells, ObjectIsLive
<1>11. Cardinality(LiveCells') = Cardinality(LiveCells) + 1 /\ Cardinality(LiveCells) \in Nat
  BY <1>10, LiveFacts
<1>12. TypeInv'
  BY <1>1, <1>2, <1>3, <1>4, <1>6, <1>7, <1>8, <1>9
  DEF IInv, TypeInv, Sums, Object
<1>13. ShapeInv'
  <2>1. views' = [d \in CellIndex |-> IF d < a THEN d ELSE NullHandle]
    <3>1. \A d \in CellIndex : d < a <=> d < r.acquired \/ d = k
      BY <1>2 DEF CellIndex
    <3>2. views = [d \in CellIndex |-> IF d < r.acquired THEN d ELSE NullHandle]
      BY DEF IInv, ShapeInv
    <3> QED BY <1>1, <1>3, <3>1, <3>2
  <2>2. regs' \in [Reg -> Handle] /\ \A d \in Reg : regs'[d] < a
    <3>1. \A d \in Reg : regs[d] < r.acquired /\ regs[d] \in Int
      BY <1>2 DEF IInv, ShapeInv, Handle, CellIndex, NullHandle
    <3>2. \A d \in Reg : regs[d] < a
      BY <3>1, <1>2
    <3>3. k < a
      BY <1>2
    <3>4. regs \in [Reg -> Handle]
      BY DEF IInv, ShapeInv
    <3> HIDE DEF k, a
    <3> QED BY <1>1, <1>3, <1>4, <3>2, <3>3, <3>4
  <2>3. spills' \in [Slot -> Handle] /\ \A s \in Slot : spills'[s] < a
    <3>1. \A s \in Slot : spills[s] < r.acquired /\ spills[s] \in Int
      BY <1>2 DEF IInv, ShapeInv, Handle, CellIndex, NullHandle
    <3> QED BY <1>1, <1>2, <3>1 DEF IInv, ShapeInv
  <2> QED BY <1>7, <2>1, <2>2, <2>3 DEF ShapeInv
<1>14. AuthorityInv'
  <2>1. references' = 1 + Cardinality(LiveCells')
    BY <1>1, <1>2, <1>11 DEF IInv, AuthorityInv
  <2>2. r'.explicit_releases + r'.cleanup_releases + Cardinality(LiveCells') = r'.acquired
    <3>1. r.explicit_releases \in Nat /\ r.cleanup_releases \in Nat
      BY <1>2 DEF ResultType
    <3> QED BY <1>2, <1>7, <1>11, <3>1 DEF IInv, AuthorityInv
  <2>3. \A d \in CellIndex : /\ cells'[d] # "null" => d < a
                             /\ cells'[d] = "untagged" => purecap
    <3> TAKE d \in CellIndex
    <3>1. CASE d = k
      BY <1>1, <1>2, <1>8, <3>1
    <3>2. CASE d # k
      <4>1. cells'[d] = cells[d] /\ d \in Nat
        BY <1>1, <1>8, <3>2 DEF CellIndex
      <4> QED BY <4>1, <1>2 DEF IInv, AuthorityInv, CellsInv
    <3> QED BY <3>1, <3>2
  <2>4. r'.object_refs = references' /\ r'.acquired = a /\ purecap' = purecap
    BY <1>1, <1>6, <1>7
  <2> HIDE DEF a, k, o
  <2>5. \A d \in CellIndex : /\ cells'[d] # "null" => d < r'.acquired
                             /\ cells'[d] = "untagged" => purecap'
    BY <2>3, <2>4, Zenon
  <2>6. r'.object_refs = references'
    BY <2>4
  <2>7. CellsInv'
    BY <2>5 DEF CellsInv
  <2> QED BY <2>1, <2>2, <2>6, <2>7 DEF AuthorityInv
<1>15. PhaseInv'
  <2>1. Goes
    BY <1>4, <1>6, <1>7 DEF Goes
  <2> QED BY <1>9, <2>1, GoesPhase DEF Sums
<1>16. MetricsAgree'
  <2>1. r.trap = "NO_TRAP"
    BY <1>4 DEF IInv, PhaseInv
  <2>2. /\ r.acquired \in Nat /\ r.reads \in Nat /\ r.explicit_releases \in Nat
        /\ m.acquisitions \in Nat /\ m.representation_errors \in Nat
    BY <1>2 DEF ResultType, IInv, TypeInv, MetricsType
  <2>3. /\ m.cleanups = r.cleanup_releases
        /\ m.tag_clears = IF purecap THEN r.explicit_releases + r.cleanup_releases ELSE 0
        /\ m.restricted_handles = IF purecap THEN r.acquired ELSE 0
        /\ m.reads + m.releases = r.reads + r.explicit_releases
        /\ m.acquisitions >= r.acquired + m.representation_errors
    BY <2>1, <2>2 DEF IInv, MetricsAgree
  <2> QED BY <1>6, <1>7, <1>9, <2>1, <2>2, <2>3 DEF MetricsAgree, Sums, One
<1> QED
  BY <1>12, <1>13, <1>14, <1>15, <1>16 DEF IInv
-----------------------------------------------------------------------------
(* Consuming a cell, by a release and by cleanup.                             *)

\* The cell's authority and the provider's reference go together.
Consumes(k) ==
    /\ cells' = Consumed(k) /\ references' = references - 1
    /\ UNCHANGED <<purecap, handles, views>>
    /\ r' \in ResultType /\ r'.acquired = r.acquired /\ r'.trap = r.trap
    /\ r'.object_refs = references' /\ r'.reads = r.reads

\* One consumption more is one live cell less.
LEMMA ConsumedFacts ==
    ASSUME IInv, NEW k \in CellIndex, cells[k] = "object", Consumes(k),
           r'.explicit_releases + r'.cleanup_releases =
               r.explicit_releases + r.cleanup_releases + 1
    PROVE  /\ ShapeInv' /\ AuthorityInv' /\ LiveCells' = LiveCells \ {k}
           /\ cells' \in [CellIndex -> Object] /\ references' \in Int
           /\ cells'[k] # "object"
           /\ \A d \in CellIndex : d # k => cells'[d] = cells[d]
<1>1. cells \in [CellIndex -> Object] /\ references \in Int /\ purecap \in BOOLEAN
  BY DEF IInv, TypeInv
<1>2. /\ Cleared \in Object /\ Cleared # "object"
      /\ Cleared # "null" => purecap
  BY DEF Cleared, Object
<1>3. cells' = [cells EXCEPT ![k] = Cleared]
  BY DEF Consumes, Consumed
<1>4. /\ cells' \in [CellIndex -> Object] /\ cells'[k] = Cleared
      /\ \A d \in CellIndex : d # k => cells'[d] = cells[d]
  BY <1>1, <1>2, <1>3
<1>5. LiveCells' = LiveCells \ {k} /\ k \in LiveCells
  BY <1>2, <1>4 DEF LiveCells, ObjectIsLive
<1>6. /\ Cardinality(LiveCells') = Cardinality(LiveCells) - 1
      /\ Cardinality(LiveCells) \in Nat
  BY <1>5, LiveFacts
<1>7. ShapeInv'
  BY DEF IInv, ShapeInv, Consumes, handles
<1>8. CellsInv'
  <2>1. k < r.acquired
    BY DEF IInv, AuthorityInv, CellsInv
  <2> SUFFICES ASSUME NEW d \in CellIndex
               PROVE  /\ cells'[d] # "null" => d < r'.acquired
                      /\ cells'[d] = "untagged" => purecap'
    BY DEF CellsInv
  <2>2. r'.acquired = r.acquired /\ (purecap <=> purecap')
    BY DEF Consumes
  <2>3. CASE d = k
    <3>1. cells'[d] = "untagged" => purecap
      BY <1>2, <1>4, <2>3
    <3> QED BY <2>1, <2>2, <2>3, <3>1
  <2>4. CASE d # k
    <3>1. cells[d] # "null" => d < r.acquired
      BY DEF IInv, AuthorityInv, CellsInv
    <3>2. cells[d] = "untagged" => purecap
      BY DEF IInv, AuthorityInv, CellsInv
    <3> QED BY <1>4, <2>2, <2>4, <3>1, <3>2
  <2> QED BY <2>3, <2>4
<1>9. AuthorityInv'
  <2>1. references' = 1 + Cardinality(LiveCells')
    BY <1>1, <1>6 DEF IInv, AuthorityInv, Consumes
  <2>2. /\ r.explicit_releases \in Nat /\ r.cleanup_releases \in Nat
        /\ r'.explicit_releases \in Nat /\ r'.cleanup_releases \in Nat
        /\ r'.acquired = r.acquired
        /\ r.explicit_releases + r.cleanup_releases + Cardinality(LiveCells) = r.acquired
    BY DEF IInv, TypeInv, AuthorityInv, Consumes, ResultType
  <2>3. r'.explicit_releases + r'.cleanup_releases + Cardinality(LiveCells') = r'.acquired
    BY <1>6, <2>2
  <2> QED BY <1>8, <2>1, <2>3 DEF AuthorityInv, Consumes
<1> QED
  BY <1>1, <1>2, <1>4, <1>5, <1>7, <1>9 DEF Consumes

\* The metrics of a step that consumes one cell.
LEMMA ConsumedMetrics ==
    ASSUME IInv, NEW k, Consumes(k), NEW u \in {0, 1},
           r'.explicit_releases = r.explicit_releases + u,
           r'.cleanup_releases = r.cleanup_releases + (1 - u),
           Sums(m', m.acquisitions, m.reads + m.releases + u, m.cleanups + (1 - u),
                m.restricted_handles, m.tag_clears + One(purecap),
                m.representation_errors)
    PROVE  MetricsAgree'
<1>1. /\ r.acquired \in Nat /\ r.reads \in Nat /\ r.explicit_releases \in Nat
      /\ r.cleanup_releases \in Nat /\ m.cleanups \in Nat
      /\ m.acquisitions \in Nat /\ m.reads \in Nat /\ m.releases \in Nat
      /\ m.representation_errors \in Nat /\ m.tag_clears \in Nat
  BY SizesAssumption DEF IInv, TypeInv, ResultType, MetricsType
<1>2. /\ m.cleanups = r.cleanup_releases
      /\ m.tag_clears = IF purecap THEN r.explicit_releases + r.cleanup_releases ELSE 0
      /\ m.restricted_handles = IF purecap THEN r.acquired ELSE 0
      /\ m.reads + m.releases = r.reads + r.explicit_releases
                                  + One(r.trap \in {"NULL", "STALE"})
      /\ m.acquisitions >= r.acquired + m.representation_errors
                             + One(r.trap = "EXHAUSTED")
  BY DEF IInv, MetricsAgree, One
<1>3. One(r.trap \in {"NULL", "STALE"}) \in Nat /\ One(r.trap = "EXHAUSTED") \in Nat
  BY DEF One
<1>4. /\ purecap' = purecap /\ r'.acquired = r.acquired /\ r'.reads = r.reads
      /\ r'.trap = r.trap
  BY DEF Consumes
<1>5. m'.tag_clears = IF purecap THEN r'.explicit_releases + r'.cleanup_releases ELSE 0
  BY <1>1, <1>2 DEF Sums, One
<1>6. m'.cleanups = r'.cleanup_releases /\ m'.restricted_handles = m.restricted_handles
  BY <1>1, <1>2 DEF Sums
<1>7. /\ m'.reads + m'.releases = r'.reads + r'.explicit_releases
                                    + One(r.trap \in {"NULL", "STALE"})
      /\ m'.acquisitions >= r'.acquired + m'.representation_errors
                              + One(r.trap = "EXHAUSTED")
  BY <1>1, <1>2, <1>3, <1>4 DEF Sums
<1> QED
  BY <1>2, <1>4, <1>5, <1>6, <1>7 DEF MetricsAgree, One

\* RELEASE of a live cell.
LEMMA ReleaseKeeps ==
    ASSUME IInv, NEW x \in Insn, Release(x)
    PROVE  IInv'
<1> DEFINE k == regs[x.dst]
           o == references - 1
           e == r.explicit_releases + 1
           token == TokenOf(k)
           by == [r.explicit_by_cell EXCEPT ![token] = @ + 1]
           res == [r EXCEPT !.object_refs = o, !.explicit_releases = e,
                            !.explicit_by_cell = by]
<1>1. /\ Fetch(x) /\ x.op = "RELEASE" /\ LiveToken(k) /\ UNCHANGED <<handles, views>>
      /\ cells' = Consumed(token - 1) /\ references' = o
      /\ m' = CountTagClear(Attempted(x))
  BY DEF Release
<1>2. Continue(res, x, token, pc + 1)
  BY DEF Release
<1>3. k \in Handle /\ k < r.acquired
  BY <1>1, UsedFacts, InsnFacts
<1>4. k \in CellIndex /\ cells[k] = "object" /\ token = k + 1 /\ token \in Alias
  BY <1>1, <1>3, HandleFacts DEF IInv, Handle
<1>5. token \in Token /\ token - 1 = k
  BY <1>4, SizesAssumption DEF CellIndex, Token
<1>6. o \in Int /\ e \in Nat /\ by \in ByCell /\ r \in ResultType
  BY <1>5 DEF IInv, TypeInv, ResultType, ByCell
<1>7. pc + 1 \in Nat /\ phase = "run"
  BY <1>1, FetchFacts DEF IInv
<1> HIDE DEF k, o, e, by, token
<1>8. /\ res \in ResultType /\ res.acquired = r.acquired /\ res.object_refs = o
      /\ res.reads = r.reads /\ res.trap = r.trap /\ res.explicit_releases = e
      /\ res.cleanup_releases = r.cleanup_releases
  BY <1>6 DEF ResultType
<1> HIDE DEF res
<1>9. /\ Says(r', res) /\ r'.event.kind = "STEP" /\ pc' \in Nat
      /\ UNCHANGED <<purecap, n, phase, cell>>
  BY <1>1, <1>2, <1>4, <1>7, <1>8, ContinueSays DEF IInv
<1>10. /\ Consumes(k) /\ r'.explicit_releases = r.explicit_releases + 1
       /\ r'.cleanup_releases = r.cleanup_releases
  BY <1>1, <1>5, <1>8, <1>9 DEF Consumes, Says, e, o
<1>11. Sums(m', m.acquisitions, m.reads + m.releases + 1, m.cleanups,
            m.restricted_handles, m.tag_clears + One(purecap), m.representation_errors)
  BY <1>1, AttemptFacts, PurecapCounts DEF IInv, TypeInv, Sums
<1>12. r.explicit_releases \in Nat /\ r.cleanup_releases \in Nat /\ m.cleanups \in Nat
  BY DEF IInv, TypeInv, ResultType, MetricsType
<1>13. /\ ShapeInv' /\ AuthorityInv'
       /\ cells' \in [CellIndex -> Object] /\ references' \in Int
  BY <1>4, <1>10, <1>12, ConsumedFacts
<1>14. TypeInv'
  BY <1>9, <1>11, <1>13 DEF IInv, TypeInv, Says, Sums
<1>15. PhaseInv'
  <2>1. Goes
    BY <1>7, <1>9, <1>10 DEF Goes, Consumes
  <2> QED BY <1>11, <2>1, GoesPhase DEF Sums
<1>16. MetricsAgree'
  <2>1. /\ r'.cleanup_releases = r.cleanup_releases + (1 - 1)
        /\ m.cleanups = m.cleanups + (1 - 1)
    BY <1>10, <1>12
  <2>2. Sums(m', m.acquisitions, m.reads + m.releases + 1, m.cleanups + (1 - 1),
             m.restricted_handles, m.tag_clears + One(purecap), m.representation_errors)
    BY <1>11, <2>1
  <2> QED BY <1>10, <2>1, <2>2, ConsumedMetrics
<1> QED
  BY <1>13, <1>14, <1>15, <1>16 DEF IInv

\* The cleanup loop consumes the cell under its cursor.
LEMMA CleanupCellKeeps ==
    ASSUME IInv, CleanupCell
    PROVE  IInv'
<1> DEFINE o == references - 1
           e == r.cleanup_releases + 1
           by == [r.cleanup_by_cell EXCEPT ![cell + 1] = @ + 1]
           res == [r EXCEPT !.object_refs = o, !.cleanup_releases = e,
                            !.cleanup_by_cell = by]
           count == CountTagClear(m)
           metrics == [count EXCEPT !.cleanups = @ + 1]
<1>1. /\ phase = "cleanup" /\ cell < r.acquired /\ cells[cell] = "object"
      /\ cells' = Consumed(cell) /\ references' = o /\ cell' = cell + 1
      /\ UNCHANGED <<purecap, n, phase, pc, handles, views>>
  BY DEF CleanupCell, ObjectIsLive
<1>2. m' = metrics
  BY DEF CleanupCell
<1>3. r' = Record(res, "CLEANUP", "RELEASE", r.pc, cell + 1)
  BY DEF CleanupCell
<1>4. /\ cell \in CellIndex /\ cell \in Nat /\ cell + 1 \in Token /\ cell + 1 \in Alias
      /\ r \in ResultType
  BY <1>1, SizesAssumption DEF IInv, TypeInv, ResultType, CellIndex, Token, Alias
<1>5. o \in Int /\ e \in Nat /\ by \in ByCell
  BY <1>4 DEF IInv, TypeInv, ResultType, ByCell
<1> HIDE DEF o, e, by
<1>6. /\ res \in ResultType /\ res.acquired = r.acquired /\ res.object_refs = o
      /\ res.reads = r.reads /\ res.trap = r.trap /\ res.cleanup_releases = e
      /\ res.explicit_releases = r.explicit_releases /\ res.status = r.status
  BY <1>4, <1>5 DEF ResultType
<1> HIDE DEF res
<1>7. "CLEANUP" \in EventKind /\ "RELEASE" \in Opcode /\ r.pc \in Nat
  BY <1>4 DEF EventKind, Opcode, ResultType
<1>8. Says(r', res) /\ r'.event.kind = "CLEANUP"
  BY <1>3, <1>4, <1>6, <1>7, RecordSays
<1>9. /\ Consumes(cell) /\ r'.explicit_releases = r.explicit_releases
      /\ r'.cleanup_releases = r.cleanup_releases + 1 /\ r'.status = r.status
  BY <1>1, <1>6, <1>8 DEF Consumes, Says, e, o
<1>10. /\ r.explicit_releases \in Nat /\ r.cleanup_releases \in Nat
       /\ m.reads \in Nat /\ m.releases \in Nat /\ m \in MetricsType
  BY DEF IInv, TypeInv, ResultType, MetricsType
<1>11. Sums(m', m.acquisitions, m.reads + m.releases, m.cleanups + 1,
            m.restricted_handles, m.tag_clears + One(purecap), m.representation_errors)
  <2>1. Sums(count, m.acquisitions, m.reads + m.releases, m.cleanups,
             m.restricted_handles, m.tag_clears + One(purecap), m.representation_errors)
    BY <1>10, PurecapCounts
  <2> HIDE DEF count
  <2>2. Sums(metrics, m.acquisitions, m.reads + m.releases, m.cleanups + 1,
             m.restricted_handles, m.tag_clears + One(purecap), m.representation_errors)
    BY <2>1, CountFacts DEF Sums, MetricsType
  <2> QED BY <1>2, <2>2
<1>12. /\ ShapeInv' /\ AuthorityInv' /\ cells'[cell] # "object"
       /\ cells' \in [CellIndex -> Object] /\ references' \in Int
       /\ \A d \in CellIndex : d # cell => cells'[d] = cells[d]
  BY <1>1, <1>4, <1>9, <1>10, ConsumedFacts
<1>13. TypeInv'
  BY <1>1, <1>4, <1>8, <1>11, <1>12 DEF IInv, TypeInv, Says, Sums
<1>14. PhaseInv'
  <2>1. \A d \in CellIndex : d < cell' => d < cell \/ d = cell
    BY <1>1, <1>4 DEF CellIndex
  <2>2. \A d \in CellIndex : d < cell' => cells'[d] # "object"
    BY <1>1, <1>12, <2>1 DEF IInv, PhaseInv
  <2>3. m'.representation_errors = m.representation_errors
    BY <1>11 DEF Sums
  <2>4. /\ m'.representation_errors \in {0, 1}
        /\ m'.representation_errors = 1 =>
              purecap' /\ r'.status = "INVALID" /\ r'.trap = "NO_TRAP"
    BY <1>1, <1>9, <2>3 DEF IInv, PhaseInv, Consumes
  <2> QED BY <1>1, <1>8, <2>2, <2>4 DEF PhaseInv
<1>15. MetricsAgree'
  <2>1. /\ r'.explicit_releases = r.explicit_releases + 0
        /\ r'.cleanup_releases = r.cleanup_releases + (1 - 0)
        /\ m.cleanups + (1 - 0) = m.cleanups + 1
        /\ m.reads + m.releases = m.reads + m.releases + 0
    BY <1>9, <1>10
  <2>2. Sums(m', m.acquisitions, m.reads + m.releases + 0, m.cleanups + (1 - 0),
             m.restricted_handles, m.tag_clears + One(purecap), m.representation_errors)
    BY <1>11, <2>1
  <2> QED BY <1>9, <2>1, <2>2, ConsumedMetrics
<1> QED
  BY <1>12, <1>13, <1>14, <1>15 DEF IInv
-----------------------------------------------------------------------------
(* Validation, the end of cleanup, and the theorems.                          *)

\* Every call starts in the invariant.
LEMMA GateInit == Init => IInv
<1> SUFFICES ASSUME Init PROVE IInv
  OBVIOUS
<1>1. /\ r = FreshResult /\ m = FreshMetrics /\ references = 1 /\ cell = 0 /\ pc = 0
      /\ phase = "validate" /\ purecap \in BOOLEAN
  BY DEF Init
<1>2. cells \in [CellIndex -> Object] /\ \A c \in CellIndex : cells[c] = "null"
  BY DEF Init, Object
<1>3. /\ m \in MetricsType /\ m.acquisitions = 0 /\ m.reads = 0 /\ m.releases = 0
      /\ m.cleanups = 0 /\ m.restricted_handles = 0 /\ m.tag_clears = 0
      /\ m.representation_errors = 0
  BY <1>1 DEF FreshMetrics, MetricsType
<1>4. n \in Nat
  BY SizesAssumption DEF Init
<1>5. TypeInv
  BY <1>1, <1>2, <1>3, <1>4, FreshResultFacts DEF TypeInv
<1>6. r.acquired = 0
  BY <1>1, FreshResultFacts
<1>7. ShapeInv
  <2>1. \A c \in CellIndex : ~(c < 0)
    BY DEF CellIndex
  <2>2. views = [c \in CellIndex |-> IF c < r.acquired THEN c ELSE NullHandle]
    BY <1>6, <2>1 DEF Init
  <2>3. NullHandle \in Handle /\ NullHandle < 0
    BY DEF Handle, NullHandle
  <2> QED BY <1>6, <2>2, <2>3 DEF Init, ShapeInv
<1>8. LiveCells = {} /\ Cardinality(LiveCells) = 0
  BY <1>2, LiveFacts DEF LiveCells, ObjectIsLive
<1>9. AuthorityInv
  BY <1>1, <1>2, <1>8, FreshResultFacts DEF AuthorityInv, CellsInv
<1>10. MetricsAgree
  BY <1>1, <1>3, FreshResultFacts DEF MetricsAgree
<1>11. PhaseInv
  BY <1>1, <1>3, FreshResultFacts DEF PhaseInv
<1> QED
  BY <1>5, <1>7, <1>9, <1>10, <1>11 DEF IInv

\* A cell that was not acquired is not live.
LEMMA NoneLive ==
    ASSUME IInv, \A c \in CellIndex : c < r.acquired => cells[c] # "object"
    PROVE  LiveCells = {}
  BY DEF IInv, AuthorityInv, CellsInv, LiveCells, ObjectIsLive

\* The verdict of validation, a cell passed over, and the end.
LEMMA ControlKeeps ==
    ASSUME IInv, Reject \/ Accept \/ CleanupSkip \/ Finish
    PROVE  IInv'
<1>1. CASE Reject
  <2>1. PICK bad_pc \in IF Loadable THEN 0 .. n - 1 ELSE {0} :
             r' = [r EXCEPT !.status = "INVALID", !.pc = bad_pc]
    BY <1>1 DEF Reject
  <2>2. bad_pc \in Nat
    BY DEF IInv, TypeInv, Loadable
  <2>3. /\ phase = "validate" /\ phase' = "done"
        /\ UNCHANGED <<purecap, n, pc, cell, handles, gate, m>>
    BY <1>1 DEF Reject
  <2>4. Accounts(r.reads) /\ r'.trap = r.trap /\ r'.event = r.event
        /\ r'.status = "INVALID"
    BY <2>1, <2>2 DEF IInv, TypeInv, ResultType, Status, Accounts
  <2>5. ShapeInv' /\ AuthorityInv' /\ LiveCells' = LiveCells
    BY <2>3, <2>4, HandlesKeep
  <2>6. LiveCells = {}
    <3>1. \A c \in CellIndex : ~(c < r.acquired)
      BY <2>3 DEF IInv, PhaseInv, CellIndex
    <3> QED BY <3>1, NoneLive
  <2>7. TypeInv'
    BY <2>3, <2>4 DEF IInv, TypeInv, gate, Accounts
  <2>8. PhaseInv'
    BY <2>3, <2>4, <2>5, <2>6 DEF IInv, PhaseInv
  <2>9. MetricsAgree'
    BY <2>3, <2>4 DEF IInv, MetricsAgree, Accounts
  <2> QED BY <2>5, <2>7, <2>8, <2>9 DEF IInv
<1>2. ASSUME UNCHANGED <<purecap, n, pc, r, handles, gate, m>>,
             cell' \in Nat, phase' \in {"run", "cleanup", "done"}, PhaseInv'
      PROVE  IInv'
  <2>1. UNCHANGED <<purecap, n, pc, r, regs, spills, cells, views, references, m>>
    BY <1>2 DEF handles, gate
  <2>2. TypeInv' /\ ShapeInv' /\ MetricsAgree'
    BY <1>2, <2>1 DEF IInv, TypeInv, ShapeInv, MetricsAgree
  <2>3. LiveCells' = LiveCells /\ CellsInv'
    BY <2>1 DEF IInv, AuthorityInv, CellsInv, LiveCells
  <2>4. AuthorityInv'
    BY <2>1, <2>3 DEF IInv, AuthorityInv
  <2> QED BY <1>2, <2>2, <2>4 DEF IInv
<1>3. CASE Accept
  <2>1. /\ phase = "validate" /\ phase' = "run" /\ cell' = cell
        /\ UNCHANGED <<purecap, n, pc, r, handles, gate, m>>
    BY <1>3 DEF Accept
  <2>2. PhaseInv' /\ cell' \in Nat
    BY <2>1 DEF IInv, TypeInv, PhaseInv
  <2> QED BY <1>2, <2>1, <2>2
<1>4. CASE CleanupSkip
  <2>1. /\ phase = "cleanup" /\ phase' = "cleanup" /\ cell' = cell + 1
        /\ cells[cell] # "object" /\ UNCHANGED <<purecap, n, pc, r, handles, gate, m>>
    BY <1>4 DEF CleanupSkip, ObjectIsLive
  <2>2. cell \in Nat /\ \A c \in CellIndex : c < cell' => c < cell \/ c = cell
    BY <2>1 DEF IInv, TypeInv, CellIndex
  <2>3. PhaseInv'
    BY <2>1, <2>2 DEF IInv, PhaseInv, gate
  <2> QED BY <1>2, <2>1, <2>2, <2>3
<1>5. CASE Finish
  <2>1. /\ phase = "cleanup" /\ phase' = "done" /\ cell' = cell /\ cell >= r.acquired
        /\ UNCHANGED <<purecap, n, pc, r, handles, gate, m>>
    BY <1>5 DEF Finish
  <2>2. LiveCells = {}
    <3>1. r.acquired \in Int /\ cell \in Nat
      BY DEF IInv, TypeInv, ResultType
    <3>2. \A c \in CellIndex : c < r.acquired => c < cell
      BY <2>1, <3>1 DEF CellIndex
    <3> QED BY <2>1, <3>2, NoneLive DEF IInv, PhaseInv
  <2>3. LiveCells' = LiveCells
    BY <2>1 DEF LiveCells, gate
  <2>4. PhaseInv' /\ cell' \in Nat
    BY <2>1, <2>2, <2>3 DEF IInv, TypeInv, PhaseInv
  <2> QED BY <1>2, <2>1, <2>4
<1> QED
  BY <1>1, <1>3, <1>4, <1>5

\* No step breaks the invariant.
LEMMA GateStep == IInv /\ [Next]_vars => IInv'
<1> SUFFICES ASSUME IInv, [Next]_vars PROVE IInv'
  OBVIOUS
<1>1. ASSUME NEW x \in Insn, Execute(x) PROVE IInv'
  BY <1>1, AcquireNullKeeps, AcquireKeeps, MoveAliasKeeps, ReadKeeps, ReleaseKeeps,
     BranchNullKeeps, EndsKeep
  DEF Execute
<1>2. ASSUME NEW x \in Insn, RepresentationError(x) PROVE IInv'
  BY <1>2, RepresentationErrorKeeps
<1>3. CASE UNCHANGED vars
  <2>1. UNCHANGED <<purecap, n, phase, pc, cell, r, regs, spills, cells, views,
                    references, m>>
    BY <1>3 DEF vars, handles, gate
  <2>2. TypeInv' /\ ShapeInv' /\ MetricsAgree'
    BY <2>1 DEF IInv, TypeInv, ShapeInv, MetricsAgree
  <2>3. LiveCells' = LiveCells /\ CellsInv'
    BY <2>1 DEF IInv, AuthorityInv, CellsInv, LiveCells
  <2>4. AuthorityInv' /\ PhaseInv'
    BY <2>1, <2>3 DEF IInv, AuthorityInv, PhaseInv
  <2> QED BY <2>2, <2>4 DEF IInv
<1> QED
  BY <1>1, <1>2, <1>3, CleanupCellKeeps, ControlKeeps DEF Next, Progress, Returned

\* identify fails on no handle a program can hold (gate.c:79).
THEOREM GateHandlesResolve == Spec => []HandlesResolve
<1>1. IInv => HandlesResolve
  <2> SUFFICES ASSUME IInv,
                      NEW h \in { regs[d] : d \in Reg } \cup { spills[s] : s \in Slot },
                      h # NullHandle
               PROVE  Cardinality(Matching(h)) = 1
    BY DEF HandlesResolve
  <2>1. h \in Handle /\ h < r.acquired
    BY DEF IInv, ShapeInv
  <2>2. Matching(h) = {h}
    BY <2>1, HandleFacts DEF IInv
  <2> QED BY <2>2, FS_Singleton
<1> QED
  BY <1>1, GateInit, GateStep, PTL DEF Spec

\* The provider's count and the authority in the cells agree (gate.c:140-146).
THEOREM GateAuthority == Spec => []AuthorityMatchesReferences
<1>1. IInv => AuthorityMatchesReferences
  <2> SUFFICES ASSUME IInv PROVE AuthorityMatchesReferences
    OBVIOUS
  <2>1. LiveCells = { c \in CellIndex : cells[c] = "object" }
    BY DEF LiveCells, ObjectIsLive
  <2>2. \A c \in CellIndex : /\ (cells[c] = "object" => c < r.acquired)
                             /\ (cells[c] = "untagged" => purecap)
    BY DEF IInv, AuthorityInv, CellsInv
  <2> QED BY <2>1, <2>2 DEF AuthorityMatchesReferences, IInv, AuthorityInv
<1> QED
  BY <1>1, GateInit, GateStep, PTL DEF Spec

\* The metrics say what the result says (gate.h:9-13).
THEOREM GateMetrics == Spec => []MetricsAgree
<1>1. IInv => MetricsAgree
  BY DEF IInv
<1> QED
  BY <1>1, GateInit, GateStep, PTL DEF Spec

\* No ending, a failed representation included, leaves a reference or a cell
\* with authority (gate.h:22, gate.c:103).
THEOREM GateFailureLeavesNothing == Spec => []FailureLeavesNothing
<1>1. IInv => FailureLeavesNothing
  <2> SUFFICES ASSUME IInv PROVE FailureLeavesNothing
    OBVIOUS
  <2>1. ASSUME NEW c \in CellIndex, c >= r.acquired
        PROVE  cells[c] = "null" /\ views[c] = NullHandle
    <3>1. ~(c < r.acquired)
      BY <2>1 DEF CellIndex, IInv, TypeInv, ResultType
    <3> QED BY <3>1 DEF IInv, AuthorityInv, CellsInv, ShapeInv
  <2>2. m.representation_errors = 1 => phase \in {"cleanup", "done"}
    BY DEF IInv, PhaseInv, TypeInv
  <2>3. ASSUME phase = "done"
        PROVE  /\ references = 1 /\ LiveCells = {}
               /\ r.explicit_releases + r.cleanup_releases = r.acquired
    <3>1. LiveCells = {} /\ Cardinality(LiveCells) = 0
      BY <2>3, LiveFacts DEF IInv, PhaseInv
    <3>2. r.explicit_releases \in Nat /\ r.cleanup_releases \in Nat
      BY DEF IInv, TypeInv, ResultType
    <3> QED BY <3>1, <3>2 DEF IInv, AuthorityInv
  <2> QED BY <2>1, <2>2, <2>3 DEF FailureLeavesNothing, IInv, PhaseInv
<1> QED
  BY <1>1, GateInit, GateStep, PTL DEF Spec

-----------------------------------------------------------------------------
(* The interpreter implements the reference interpreter.                      *)

\* The reference interpreter's live set, read from the cells.
Live == { t \in Token : ObjectIsLive(cells[t - 1]) }

\* No view of the run that began will fail: on the host none can.
Exact == purecap => inexact = {}

\* An alias is the next number after the cell it names, NULL being -1 and 0.
NumbersTokens ==
    /\ Tokens(regs) = [d \in Reg |-> regs[d] + 1]
    /\ Tokens(spills) = [s \in Slot |-> spills[s] + 1]
    /\ regs \in [Reg -> Handle] /\ spills \in [Slot -> Handle]

\* In every state of the invariant tokens are numbered so.
LEMMA View == IInv => NumbersTokens
<1> SUFFICES ASSUME IInv PROVE NumbersTokens
  OBVIOUS
<1>1. ASSUME NEW h \in Handle, h < r.acquired PROVE TokenOf(h) = h + 1
  BY <1>1, HandleFacts DEF IInv, NullHandle, NoToken
<1>2. /\ regs \in [Reg -> Handle] /\ \A d \in Reg : TokenOf(regs[d]) = regs[d] + 1
      /\ spills \in [Slot -> Handle] /\ \A s \in Slot : TokenOf(spills[s]) = spills[s] + 1
  BY <1>1 DEF IInv, ShapeInv
<1> QED
  BY <1>2 DEF Tokens, NumbersTokens

\* And so in the next one.
LEMMA NextView == IInv' => NumbersTokens'
BY View, PTL

\* Both interpreters read the same instructions and write the same record.
LEMMA SameIR ==
    /\ Reference!Insn = Insn /\ Reference!NoToken = NoToken
    /\ Reference!FreshResult = FreshResult /\ Reference!FieldValue = FieldValue
    /\ Reference!Reg = Reg /\ Reference!Slot = Slot
    /\ \A res, kind, op, place, token :
          Reference!Record(res, kind, op, place, token) = Record(res, kind, op, place, token)
<1>1. /\ Reference!Insn = Insn /\ Reference!NoToken = NoToken
      /\ Reference!FieldValue = FieldValue
      /\ Reference!Reg = Reg /\ Reference!Slot = Slot
  BY DEF Reference!Insn, Insn, Reference!Opcode, Opcode, Reference!NoToken, NoToken,
         Reference!FieldValue, FieldValue, Reference!Reg, Reg, Reference!Slot, Slot
<1>2. Reference!FreshResult = FreshResult
  BY DEF Reference!FreshResult, FreshResult, Reference!NoEvent, NoEvent,
         Reference!Token, Token
<1>3. \A res, kind, op, place, token :
          Reference!Record(res, kind, op, place, token) = Record(res, kind, op, place, token)
  BY DEF Reference!Record, Record
<1> QED
  BY <1>1, <1>2, <1>3

\* What validation admits here it admits there.
LEMMA SameFetch == ASSUME NEW x, Fetch(x) PROVE Reference!Fetch(x)
BY DEF Fetch, Reference!Fetch, ValidAt, Reference!ValidAt, OperandsOk,
       Reference!OperandsOk, BranchForward, Reference!BranchForward,
       Reg, Reference!Reg, Slot, Reference!Slot

\* The ways a step ends.
LEMMA SameEnds ==
    ASSUME NEW x
    PROVE  /\ \A res, token, next :
                 Continue(res, x, token, next) => Reference!Continue(res, x, token, next)
           /\ \A reason, token :
                 /\ Trap(reason, x, token)
                 /\ UNCHANGED <<Tokens(regs), Tokens(spills), Live>>
                 => Reference!Trap(reason, x, token)
<1>1. \A res, token, next :
          Continue(res, x, token, next) => Reference!Continue(res, x, token, next)
  BY SameIR DEF Continue, Reference!Continue
<1>2. \A reason, token :
          /\ Trap(reason, x, token)
          /\ UNCHANGED <<Tokens(regs), Tokens(spills), Live>>
          => Reference!Trap(reason, x, token)
  BY SameIR DEF Trap, Reference!Trap, Reference!locals, Live
<1> QED
  BY <1>1, <1>2

\* A step that leaves the handles and the cells leaves the tokens.
LEMMA SameView ==
    ASSUME IInv, IInv', UNCHANGED <<handles, cells>>
    PROVE  UNCHANGED <<Tokens(regs), Tokens(spills), Live>>
<1>1. regs' = regs /\ spills' = spills /\ cells' = cells
  BY DEF handles
<1>2. Tokens(regs)' = Tokens(regs) /\ Tokens(spills)' = Tokens(spills)
  BY <1>1, View, NextView DEF NumbersTokens
<1>3. Live' = Live
  BY <1>1 DEF Live
<1> QED
  BY <1>2, <1>3

\* The token of a register is live exactly when its cell is.
LEMMA LiveTokens ==
    ASSUME IInv, NEW d \in Reg
    PROVE  /\ TokenOf(regs[d]) = Tokens(regs)[d]
           /\ LiveToken(regs[d]) <=> Tokens(regs)[d] \in Live
           /\ LiveToken(regs[d]) => regs[d] \in CellIndex /\ Tokens(regs)[d] = regs[d] + 1
<1>1. regs[d] \in Handle /\ regs[d] < r.acquired /\ Tokens(regs)[d] = regs[d] + 1
  BY View DEF IInv, ShapeInv, NumbersTokens
<1>2. TokenOf(regs[d]) = Tokens(regs)[d]
  BY <1>1, HandleFacts DEF IInv, NullHandle, NoToken
<1>3. LiveToken(regs[d]) <=> regs[d] # NullHandle /\ cells[regs[d]] = "object"
  BY <1>1, HandleFacts DEF IInv
<1>4. CASE regs[d] = NullHandle
  BY <1>1, <1>2, <1>3, <1>4 DEF Live, Token, NullHandle
<1>5. CASE regs[d] # NullHandle
  <2>1. regs[d] \in CellIndex /\ regs[d] \in Int /\ regs[d] + 1 \in Token
        /\ (regs[d] + 1) - 1 = regs[d]
    BY <1>1, <1>5, SizesAssumption DEF Handle, CellIndex, Token
  <2> QED BY <1>1, <1>2, <1>3, <1>5, <2>1 DEF Live, ObjectIsLive
<1> QED
  BY <1>2, <1>4, <1>5

-----------------------------------------------------------------------------
\* COPY, SPILL and RELOAD.
LEMMA MoveAliasRefines ==
    ASSUME IInv, IInv', NEW x \in Insn, MoveAlias(x)
    PROVE  Reference!Copy(x) \/ Reference!Spill(x) \/ Reference!Reload(x)
<1>1. /\ Fetch(x) /\ x.op \in {"COPY", "SPILL", "RELOAD"} /\ Assign(x)
      /\ Continue(r, x, TokenOf(HandleUsed(x)), pc + 1) /\ cells' = cells
  BY DEF MoveAlias, gate
<1>2. /\ Reference!Fetch(x) /\ Live' = Live
      /\ Reference!Continue(r, x, TokenOf(HandleUsed(x)), pc + 1)
  BY <1>1, SameFetch, SameEnds DEF Live
<1>3. /\ x.op # "SPILL" => x.dst \in Reg
      /\ x.op = "SPILL" => x.dst \in Slot
      /\ x.op \in {"COPY", "SPILL"} => x.src \in Reg
      /\ x.op = "RELOAD" => x.src \in Slot
  BY <1>1, FetchFacts DEF IInv
<1>4. HandleUsed(x) \in Handle /\ TokenOf(HandleUsed(x)) = HandleUsed(x) + 1
  <2>1. HandleUsed(x) \in Handle /\ HandleUsed(x) < r.acquired
    BY <1>1, UsedFacts
  <2> QED BY <2>1, HandleFacts DEF IInv, NullHandle, NoToken
<1>5. CASE x.op = "COPY"
  <2>1. /\ regs' = [regs EXCEPT ![x.dst] = regs[x.src]] /\ spills' = spills
        /\ HandleUsed(x) = regs[x.src]
    BY <1>1, <1>5, InsnFacts DEF Assign
  <2>2. /\ Tokens(regs)' = [Tokens(regs) EXCEPT ![x.dst] = Tokens(regs)[x.src]]
        /\ Tokens(spills)' = Tokens(spills)
        /\ TokenOf(HandleUsed(x)) = Tokens(regs)[x.src]
    BY <1>3, <1>4, <1>5, <2>1, View, NextView, ZenonT(40) DEF NumbersTokens
  <2> QED BY <1>2, <1>5, <2>2 DEF Reference!Copy, Live
<1>6. CASE x.op = "SPILL"
  <2>1. /\ spills' = [spills EXCEPT ![x.dst] = regs[x.src]] /\ regs' = regs
        /\ HandleUsed(x) = regs[x.src]
    BY <1>1, <1>6, InsnFacts DEF Assign
  <2>2. /\ Tokens(spills)' = [Tokens(spills) EXCEPT ![x.dst] = Tokens(regs)[x.src]]
        /\ Tokens(regs)' = Tokens(regs)
        /\ TokenOf(HandleUsed(x)) = Tokens(regs)[x.src]
    BY <1>3, <1>4, <1>6, <2>1, View, NextView, ZenonT(40) DEF NumbersTokens
  <2> QED BY <1>2, <1>6, <2>2 DEF Reference!Spill, Live
<1>7. CASE x.op = "RELOAD"
  <2>1. /\ regs' = [regs EXCEPT ![x.dst] = spills[x.src]] /\ spills' = spills
        /\ HandleUsed(x) = spills[x.src]
    BY <1>1, <1>7, InsnFacts DEF Assign
  <2>2. /\ Tokens(regs)' = [Tokens(regs) EXCEPT ![x.dst] = Tokens(spills)[x.src]]
        /\ Tokens(spills)' = Tokens(spills)
        /\ TokenOf(HandleUsed(x)) = Tokens(spills)[x.src]
    BY <1>3, <1>4, <1>7, <2>1, View, NextView, ZenonT(40) DEF NumbersTokens
  <2> QED BY <1>2, <1>7, <2>2 DEF Reference!Reload, Live
<1> QED
  BY <1>1, <1>5, <1>6, <1>7

\* ACQUIRE, of the object or of none.
LEMMA AcquireRefines ==
    ASSUME IInv, IInv', NEW x \in Insn, Acquire(x) \/ AcquireNull(x)
    PROVE  Reference!Acquire(x) \/ Reference!AcquireNull(x)
<1>1. Fetch(x) /\ x.op = "ACQUIRE" /\ spills' = spills
  BY DEF Acquire, AcquireNull
<1>2. Reference!Fetch(x) /\ x.dst \in Reg /\ Tokens(spills)' = Tokens(spills)
  BY <1>1, SameFetch, FetchFacts, View, NextView DEF IInv, NumbersTokens
<1>3. CASE AcquireNull(x)
  <2>1. /\ x.imm = 0 /\ regs' = [regs EXCEPT ![x.dst] = NullHandle] /\ cells' = cells
        /\ Continue(r, x, NoToken, pc + 1)
    BY <1>3 DEF AcquireNull, gate
  <2>2. Tokens(regs)' = [Tokens(regs) EXCEPT ![x.dst] = Reference!NoToken]
    <3>1. Reference!NoToken = 0 /\ NullHandle + 1 = 0 /\ NullHandle \in Handle
      BY DEF Reference!NoToken, NullHandle, Handle
    <3>2. ASSUME NEW d \in Reg
          PROVE  regs'[d] + 1 = IF d = x.dst THEN 0 ELSE Tokens(regs)[d]
      BY <1>2, <2>1, <3>1, View DEF NumbersTokens
    <3> QED BY <1>2, <3>1, <3>2, View, NextView DEF NumbersTokens
  <2>3. Live' = Live /\ Reference!Continue(r, x, Reference!NoToken, pc + 1)
    BY <2>1, SameEnds, SameIR DEF Live
  <2> QED BY <1>1, <1>2, <2>1, <2>2, <2>3 DEF Reference!AcquireNull, Live
<1>4. CASE Acquire(x)
  <2> DEFINE k == r.acquired
             res == [r EXCEPT !.acquired = r.acquired + 1, !.object_refs = references']
  <2>1. /\ x.imm # 0 /\ ~Full /\ cells' = [cells EXCEPT ![k] = "object"]
        /\ regs' = [regs EXCEPT ![x.dst] = k] /\ references' = references + 1
        /\ Continue(res, x, k + 1, pc + 1)
    BY <1>4 DEF Acquire, NextCell
  <2>2. /\ k \in CellIndex /\ k + 1 \in Token /\ cells \in [CellIndex -> Object]
    <3>1. /\ k \in 0 .. CBPF_CELLS /\ k # CBPF_CELLS /\ CBPF_CELLS \in Nat
          /\ cells \in [CellIndex -> Object]
      BY <2>1, SizesAssumption DEF IInv, TypeInv, ResultType, Full
    <3> HIDE DEF k
    <3> QED BY <3>1 DEF CellIndex, Token
  <2>3. Tokens(regs)' = [Tokens(regs) EXCEPT ![x.dst] = k + 1]
    BY <1>2, <2>1, View, NextView DEF NumbersTokens
  <2>4. Live' = Live \cup {k + 1}
    <3>1. ASSUME NEW t \in Token
          PROVE  t - 1 \in CellIndex /\ (t - 1 = k <=> t = k + 1)
      BY <2>2, SizesAssumption DEF Token, CellIndex
    <3> QED BY <2>1, <2>2, <3>1 DEF Live, ObjectIsLive
  <2>5. res = [r EXCEPT !.acquired = @ + 1, !.object_refs = @ + 1]
    BY <2>1 DEF IInv, AuthorityInv
  <2>6. Reference!Continue([r EXCEPT !.acquired = @ + 1, !.object_refs = @ + 1],
                           x, k + 1, pc + 1)
    BY <2>1, <2>5, SameEnds
  <2>7. ~Reference!Full /\ Reference!FreshToken = k + 1
    BY <2>1 DEF Full, Reference!Full, Reference!FreshToken
  <2> QED BY <1>1, <1>2, <2>1, <2>3, <2>4, <2>6, <2>7 DEF Reference!Acquire, Live
<1> QED
  BY <1>3, <1>4

\* A use of a dead alias traps there as here, and RETURN and BR_NULL leave the
\* aliases alone.
LEMMA QuietRefines ==
    ASSUME IInv, IInv', NEW x \in Insn,
           \/ AcquireExhausted(x) \/ UseNull(x) \/ UseStale(x) \/ Read(x)
           \/ BranchNull(x) \/ Return(x)
    PROVE  \/ Reference!AcquireExhausted(x) \/ Reference!UseNull(x)
           \/ Reference!UseStale(x) \/ Reference!Read(x)
           \/ Reference!BranchNull(x) \/ Reference!Return(x)
<1>1. Fetch(x) /\ UNCHANGED <<handles, cells>>
  BY DEF AcquireExhausted, UseNull, UseStale, Read, BranchNull, Return, Trap, gate
<1>2. /\ Reference!Fetch(x)
      /\ UNCHANGED <<Tokens(regs), Tokens(spills), Live>>
  BY <1>1, SameFetch, SameView
<1>3. Reference!NoToken = NoToken
  BY SameIR
<1>4. CASE AcquireExhausted(x)
  <2>1. x.op = "ACQUIRE" /\ x.imm # 0 /\ Full /\ Trap("EXHAUSTED", x, NoToken)
    BY <1>4 DEF AcquireExhausted
  <2>2. Reference!Trap("EXHAUSTED", x, NoToken)
    BY <1>2, <2>1, SameEnds
  <2> QED BY <1>2, <1>3, <2>1, <2>2 DEF Reference!AcquireExhausted, Full, Reference!Full
<1>5. CASE UseNull(x) \/ UseStale(x) \/ Read(x) \/ BranchNull(x)
  <2> DEFINE token == Tokens(regs)[x.dst]
  <2>1. /\ x.dst \in Reg /\ x.op \in {"READ", "RELEASE", "BR_NULL"}
        /\ TokenOf(regs[x.dst]) = token /\ (LiveToken(regs[x.dst]) <=> token \in Live)
    <3>1. x.op \in {"READ", "RELEASE", "BR_NULL"}
      BY <1>5 DEF UseNull, UseStale, Read, BranchNull
    <3>2. x.dst \in Reg
      BY <1>1, <3>1, FetchFacts DEF IInv
    <3> QED BY <3>1, <3>2, LiveTokens
  <2>2. CASE UseNull(x)
    <3>1. token = NoToken /\ x.op \in {"READ", "RELEASE"} /\ Trap("NULL", x, NoToken)
      BY <2>1, <2>2 DEF UseNull
    <3>2. Reference!Trap("NULL", x, NoToken)
      BY <1>2, <3>1, SameEnds
    <3> QED BY <1>2, <1>3, <3>1, <3>2 DEF Reference!UseNull
  <2>3. CASE UseStale(x)
    <3>1. /\ token # NoToken /\ token \notin Live /\ x.op \in {"READ", "RELEASE"}
          /\ Trap("STALE", x, token)
      BY <2>1, <2>3 DEF UseStale
    <3>2. Reference!Trap("STALE", x, token)
      BY <1>2, <3>1, SameEnds
    <3> QED BY <1>2, <1>3, <3>1, <3>2 DEF Reference!UseStale, Live
  <2>4. CASE Read(x)
    <3> DEFINE res == [r EXCEPT !.reads = @ + 1, !.last_read = FieldValue]
    <3>1. token \in Live /\ x.op = "READ" /\ Continue(res, x, token, pc + 1)
      BY <2>1, <2>4 DEF Read
    <3>2. /\ Reference!Continue(res, x, token, pc + 1)
          /\ res = [r EXCEPT !.reads = @ + 1, !.last_read = Reference!FieldValue]
      BY <3>1, SameEnds, SameIR
    <3> HIDE DEF res
    <3> QED BY <1>2, <3>1, <3>2 DEF Reference!Read, Live
  <2>5. CASE BranchNull(x)
    <3>1. /\ x.op = "BR_NULL"
          /\ Continue(r, x, token, IF token = NoToken THEN x.imm ELSE pc + 1)
      BY <2>1, <2>5 DEF BranchNull
    <3>2. Reference!Continue(r, x, token, IF token = NoToken THEN x.imm ELSE pc + 1)
      BY <3>1, SameEnds
    <3> QED BY <1>2, <1>3, <3>1, <3>2 DEF Reference!BranchNull, Live
  <2> QED BY <1>5, <2>2, <2>3, <2>4, <2>5
<1>6. CASE Return(x)
  <2>1. /\ x.op = "RETURN" /\ phase' = "cleanup" /\ UNCHANGED <<n, pc, cell>>
        /\ r' = Record([r EXCEPT !.pc = pc, !.returned = x.imm, !.status = "RETURNED"],
                       "STEP", x.op, pc, NoToken)
    BY <1>6 DEF Return
  <2> QED BY <1>2, <1>3, <2>1, SameIR DEF Reference!Return, Reference!locals, Live
<1> QED
  BY <1>4, <1>5, <1>6

\* Consuming a live cell takes its token from the live ones.
LEMMA ConsumedToken ==
    ASSUME IInv, NEW k \in CellIndex, cells[k] = "object", cells' = Consumed(k)
    PROVE  k + 1 \in Live /\ Live' = Live \ {k + 1}
<1>1. cells \in [CellIndex -> Object] /\ cells' = [cells EXCEPT ![k] = Cleared]
  BY DEF IInv, TypeInv, Consumed
<1>2. Cleared # "object"
  BY DEF Cleared
<1>3. k + 1 \in Token /\ (k + 1) - 1 = k
  BY SizesAssumption DEF CellIndex, Token
<1>4. ASSUME NEW t \in Token
      PROVE  t - 1 \in CellIndex /\ (t - 1 = k <=> t = k + 1)
  BY SizesAssumption DEF Token, CellIndex
<1> QED
  BY <1>1, <1>2, <1>3, <1>4 DEF Live, ObjectIsLive

\* RELEASE of a live cell.
LEMMA ReleaseRefines ==
    ASSUME IInv, IInv', NEW x \in Insn, Release(x)
    PROVE  Reference!Release(x)
<1> DEFINE k == regs[x.dst]
           token == Tokens(regs)[x.dst]
<1>1. Fetch(x) /\ x.op = "RELEASE" /\ LiveToken(k) /\ UNCHANGED handles
      /\ references' = references - 1
  BY DEF Release
<1>2. x.dst \in Reg /\ Reference!Fetch(x)
  BY <1>1, SameFetch, FetchFacts DEF IInv
<1>3. /\ TokenOf(k) = token /\ token \in Live /\ k \in CellIndex /\ token = k + 1
  BY <1>1, <1>2, LiveTokens
<1>4. cells[k] = "object" /\ token - 1 = k
  BY <1>3 DEF Live, ObjectIsLive, CellIndex
<1>5. /\ cells' = Consumed(k)
      /\ Continue([r EXCEPT !.object_refs = references', !.explicit_releases = @ + 1,
                            !.explicit_by_cell[token] = @ + 1], x, token, pc + 1)
  BY <1>3, <1>4 DEF Release
<1>6. Live' = Live \ {token}
  BY <1>3, <1>4, <1>5, ConsumedToken
<1>7. Tokens(regs)' = Tokens(regs) /\ Tokens(spills)' = Tokens(spills)
  BY <1>1, View, NextView DEF handles, NumbersTokens
<1>8. references' = r.object_refs - 1
  BY <1>1 DEF IInv, AuthorityInv
<1>9. Reference!Continue([r EXCEPT !.object_refs = @ - 1, !.explicit_releases = @ + 1,
                            !.explicit_by_cell[token] = @ + 1], x, token, pc + 1)
  BY <1>5, <1>8, SameEnds
<1> QED
  BY <1>1, <1>2, <1>3, <1>6, <1>7, <1>9 DEF Reference!Release, Live

\* The cleanup loop drops the same cells.
LEMMA CleanupRefines ==
    ASSUME IInv, IInv', CleanupCell \/ CleanupSkip
    PROVE  Reference!CleanupCell \/ Reference!CleanupSkip
<1>1. /\ phase = "cleanup" /\ cell < r.acquired /\ cell' = cell + 1
      /\ UNCHANGED <<n, phase, pc, handles>>
  BY DEF CleanupCell, CleanupSkip
<1>2. Tokens(regs)' = Tokens(regs) /\ Tokens(spills)' = Tokens(spills)
  BY <1>1, View, NextView DEF handles, NumbersTokens
<1>3. cell \in CellIndex /\ cell + 1 \in Token /\ (cell + 1) - 1 = cell
  <2>1. cell \in Nat /\ r.acquired \in 0 .. CBPF_CELLS /\ CBPF_CELLS \in Nat
    BY SizesAssumption DEF IInv, TypeInv, ResultType
  <2> QED BY <1>1, <2>1 DEF CellIndex, Token
<1>4. CASE CleanupCell
  <2>1. /\ cells[cell] = "object" /\ cells' = Consumed(cell)
        /\ references' = references - 1
        /\ r' = Record([r EXCEPT !.object_refs = references', !.cleanup_releases = @ + 1,
                                 !.cleanup_by_cell[cell + 1] = @ + 1],
                       "CLEANUP", "RELEASE", r.pc, cell + 1)
    BY <1>4 DEF CleanupCell, ObjectIsLive
  <2>2. cell + 1 \in Live /\ Live' = Live \ {cell + 1}
    BY <1>3, <2>1, ConsumedToken
  <2>3. references' = r.object_refs - 1
    BY <2>1 DEF IInv, AuthorityInv
  <2>4. r' = Reference!Record(Reference!Drop(cell + 1), "CLEANUP", "RELEASE", r.pc, cell + 1)
    BY <2>1, <2>3, SameIR DEF Reference!Drop
  <2> QED BY <1>1, <1>2, <2>2, <2>4 DEF Reference!CleanupCell, Live
<1>5. CASE CleanupSkip
  <2>1. ~ObjectIsLive(cells[cell]) /\ cells' = cells /\ r' = r
    BY <1>5 DEF CleanupSkip, gate
  <2>2. cell + 1 \notin Live /\ Live' = Live
    BY <1>3, <2>1 DEF Live
  <2> QED BY <1>1, <1>2, <2>1, <2>2 DEF Reference!CleanupSkip, Live
<1> QED
  BY <1>4, <1>5

\* Validation and the end.
LEMMA ControlRefines ==
    ASSUME IInv, IInv', Reject \/ Accept \/ Finish
    PROVE  Reference!Reject \/ Reference!Accept \/ Reference!Finish
<1>1. UNCHANGED <<n, pc, cell, handles, cells>>
  BY DEF Reject, Accept, Finish, gate
<1>2. /\ UNCHANGED <<Tokens(regs), Tokens(spills), Live>>
      /\ Loadable = Reference!Loadable
  BY <1>1, SameView DEF Loadable, Reference!Loadable
<1>3. CASE Reject
  BY <1>1, <1>2, <1>3 DEF Reject, Reference!Reject, Reference!locals, Live
<1>4. CASE Accept
  BY <1>1, <1>2, <1>4 DEF Accept, Reference!Accept, Reference!locals, Live
<1>5. CASE Finish
  BY <1>1, <1>2, <1>5 DEF Finish, Reference!Finish, Reference!locals, Live
<1> QED
  BY <1>3, <1>4, <1>5

\* When every view is exact, no handle is without its cell.
LEMMA NeverUnidentified ==
    ASSUME IInv, Exact, NEW x \in Insn
    PROVE  ~RepresentationError(x)
<1> SUFFICES ASSUME RepresentationError(x) PROVE FALSE
  OBVIOUS
<1>1. Fetch(x) /\ Unidentified(x)
  BY DEF RepresentationError
<1>2. CASE x.op = "ACQUIRE"
  BY <1>1, <1>2, InsnFacts DEF Exact, ViewPrepared
<1>3. CASE x.op # "ACQUIRE"
  BY <1>1, <1>3, InsnFacts, UsedFacts
<1> QED
  BY <1>2, <1>3

\* The zeroed result, no alias and no live cell.
LEMMA InitRefines == Init => Reference!Init
<1> SUFFICES ASSUME Init PROVE Reference!Init
  OBVIOUS
<1>1. Tokens(regs) = [d \in Reg |-> 0] /\ Tokens(spills) = [s \in Slot |-> 0]
  <2>1. NullHandle + 1 = 0
    BY DEF NullHandle
  <2> QED BY <2>1, GateInit, View DEF NumbersTokens, Init
<1>2. Live = {}
  <2>1. ASSUME NEW t \in Token PROVE t - 1 \in CellIndex
    BY SizesAssumption DEF Token, CellIndex
  <2> QED BY <2>1 DEF Init, Live, ObjectIsLive
<1>3. /\ Reference!FreshResult = FreshResult /\ Reference!NoToken = 0
      /\ Reference!Reg = Reg /\ Reference!Slot = Slot
  BY SameIR DEF NoToken
<1> QED
  BY <1>1, <1>2, <1>3 DEF Init, Reference!Init, Live

\* Every step is the reference interpreter's.
LEMMA StepRefines ==
    IInv /\ Exact /\ [Next]_vars => Exact' /\ [Reference!Next]_(Reference!vars)
<1> SUFFICES ASSUME IInv, Exact, [Next]_vars
             PROVE  Exact' /\ [Reference!Next]_(Reference!vars)
  OBVIOUS
<1>1. IInv'
  BY GateStep
<1>2. Exact'
  <2>1. UNCHANGED <<purecap, inexact>>
    <3>1. ASSUME NEW x \in Insn, Execute(x) PROVE UNCHANGED <<purecap, inexact>>
      BY <3>1 DEF Execute, AcquireNull, Acquire, AcquireExhausted, MoveAlias, UseNull,
                  UseStale, Read, Release, BranchNull, Return, Continue, Trap
    <3>2. CASE Reject \/ Accept \/ CleanupCell \/ CleanupSkip \/ Finish
      BY <3>2 DEF Reject, Accept, CleanupCell, CleanupSkip, Finish
    <3>3. ASSUME NEW x \in Insn, RepresentationError(x)
          PROVE  UNCHANGED <<purecap, inexact>>
      BY <3>3 DEF RepresentationError
    <3> QED BY <3>1, <3>2, <3>3 DEF Next, Progress, Returned, vars
  <2> QED BY <2>1 DEF Exact
<1>3. ASSUME NEW x \in Insn, Execute(x)
      PROVE  Reference!Execute(x)
  BY <1>1, <1>3, MoveAliasRefines, AcquireRefines, QuietRefines, ReleaseRefines
  DEF Execute, Reference!Execute
<1>4. CASE Progress
  <2>1. Reference!Progress
    BY <1>1, <1>3, <1>4, NeverUnidentified, CleanupRefines, ControlRefines, SameIR
    DEF Progress, Reference!Progress
  <2> QED BY <1>2, <2>1 DEF Reference!Next
<1>5. CASE UNCHANGED vars
  <2>1. UNCHANGED <<n, phase, pc, cell, r, handles, cells>>
    BY <1>5 DEF vars, gate
  <2>2. UNCHANGED <<Tokens(regs), Tokens(spills), Live>>
    BY <1>1, <2>1, SameView
  <2> QED BY <1>2, <2>1, <2>2 DEF Reference!vars, Reference!locals, Live
<1> QED
  BY <1>4, <1>5 DEF Next, Returned

\* On the host, and in purecap when every view can be represented, every
\* behaviour of cbpf_gate_run is one of cbpf_run, result for result (gate.h:18).
THEOREM GateImplementsReference == Spec /\ Exact => ImplementsReference
BY GateInit, GateStep, InitRefines, StepRefines, PTL
DEF Spec, ImplementsReference, Reference!Spec

-----------------------------------------------------------------------------
(* The guest's programs (linux/kfunc/guest.c).                                *)

\* An instruction of the guest's programs: a copy, a constant, a call or exit,
Operations ==
    {"MOV_X", "MOV_K", "LDX", "STX", "JEQ", "EXIT", "acquire", "read", "release"}
Instructions == [op : Operations, dst : Int, src : Int, imm : Int]
AnInsn(o, d, s, i) == [op |-> o, dst |-> d, src |-> s, imm |-> i]
Mov(d, s) == AnInsn("MOV_X", d, s, 0)
Imm(d, v) == AnInsn("MOV_K", d, 0, v)
Op(o) == AnInsn(o, 0, 0, 0)
Jump(k) == AnInsn("JEQ", 0, 0, k)

\* A piece of k instructions, and a program t that has piece s at instruction q.
Piece(s, k) == s \in Seq(Instructions) /\ Len(s) = k
Has(t, q, s) == \A i \in 1 .. Len(s) : t[q + i - 1] = s[i]

\* Pieces are put together.
LEMMA PiecesJoin ==
    ASSUME NEW s, NEW t, NEW k \in Nat, NEW l \in Nat, Piece(s, k), Piece(t, l),
           NEW u, NEW q \in Nat
    PROVE  /\ Piece(s \o t, k + l)
           /\ Has(u, q, s \o t) => Has(u, q, s) /\ Has(u, q + k, t)
<1>1. /\ s \o t \in Seq(Instructions) /\ Len(s \o t) = k + l
      /\ \A i \in 1 .. k + l : (s \o t)[i] = IF i <= k THEN s[i] ELSE t[i - k]
  BY ConcatProperties DEF Piece
<1> PICK w : w = s \o t
  OBVIOUS
<1>2. ASSUME Has(u, q, w) PROVE Has(u, q, s) /\ Has(u, q + k, t)
  <2>1. \A i \in 1 .. k + l : u[q + i - 1] = IF i <= k THEN s[i] ELSE t[i - k]
    BY <1>1, <1>2 DEF Has
  <2>2. ASSUME NEW i \in 1 .. k PROVE u[q + i - 1] = s[i]
    <3>1. i \in 1 .. k + l /\ i <= k
      OBVIOUS
    <3> QED BY <3>1, <2>1
  <2>3. ASSUME NEW i \in 1 .. l PROVE u[q + k + i - 1] = t[i]
    <3> PICK j : j = k + i
      OBVIOUS
    <3>1. j \in 1 .. k + l /\ ~(j <= k) /\ j - k = i /\ q + k + i - 1 = q + j - 1
      OBVIOUS
    <3>2. u[q + j - 1] = t[j - k]
      BY <3>1, <2>1
    <3> QED BY <3>1, <3>2
  <2> QED BY <2>2, <2>3 DEF Has, Piece
<1> QED BY <1>1, <1>2 DEF Piece

\* Three pieces,
LEMMA ThreeJoin ==
    ASSUME NEW s1, NEW s2, NEW s3, NEW k1 \in Nat, NEW k2 \in Nat, NEW k3 \in Nat,
           Piece(s1, k1), Piece(s2, k2), Piece(s3, k3), NEW u, NEW q \in Nat
    PROVE  /\ Piece(s1 \o s2 \o s3, k1 + k2 + k3)
           /\ Has(u, q, s1 \o s2 \o s3) =>
                 Has(u, q, s1) /\ Has(u, q + k1, s2) /\ Has(u, q + k1 + k2, s3)
<1> PICK s : s = s1 \o s2
  OBVIOUS
<1>1. k1 + k2 \in Nat /\ q + (k1 + k2) = q + k1 + k2
  OBVIOUS
<1>2. Piece(s, k1 + k2) /\ (Has(u, q, s) => Has(u, q, s1) /\ Has(u, q + k1, s2))
  BY PiecesJoin
<1>3. /\ Piece(s \o s3, k1 + k2 + k3)
      /\ Has(u, q, s \o s3) => Has(u, q, s) /\ Has(u, q + (k1 + k2), s3)
  BY <1>1, <1>2, PiecesJoin
<1> QED
  BY <1>1, <1>2, <1>3

\* four,
FourFit(s1, s2, s3, s4, k1, k2, k3, k4, u, q) ==
    /\ Piece(s1 \o s2 \o s3 \o s4, k1 + k2 + k3 + k4)
    /\ Has(u, q, s1 \o s2 \o s3 \o s4) =>
          /\ Has(u, q, s1) /\ Has(u, q + k1, s2) /\ Has(u, q + k1 + k2, s3)
          /\ Has(u, q + k1 + k2 + k3, s4)

\* Four texts one after the other: each is at the sum of the lengths before it.
LEMMA FourJoin ==
    ASSUME NEW s1, NEW s2, NEW s3, NEW s4,
           NEW k1 \in Nat, NEW k2 \in Nat, NEW k3 \in Nat, NEW k4 \in Nat,
           Piece(s1, k1), Piece(s2, k2), Piece(s3, k3), Piece(s4, k4), NEW u, NEW q \in Nat
    PROVE  FourFit(s1, s2, s3, s4, k1, k2, k3, k4, u, q)
<1> PICK s : s = s1 \o s2 \o s3
  OBVIOUS
<1>1. k1 + k2 + k3 \in Nat /\ q + (k1 + k2 + k3) = q + k1 + k2 + k3
  OBVIOUS
<1>2. /\ Piece(s, k1 + k2 + k3)
      /\ Has(u, q, s) => Has(u, q, s1) /\ Has(u, q + k1, s2) /\ Has(u, q + k1 + k2, s3)
  BY ThreeJoin
<1>3. /\ Piece(s \o s4, k1 + k2 + k3 + k4)
      /\ Has(u, q, s \o s4) => Has(u, q, s) /\ Has(u, q + (k1 + k2 + k3), s4)
  BY <1>1, <1>2, PiecesJoin
<1> QED
  BY <1>1, <1>2, <1>3 DEF FourFit

\* and five.
FiveFit(s1, s2, s3, s4, s5, k1, k2, k3, k4, k5, u, q) ==
    /\ Piece(s1 \o s2 \o s3 \o s4 \o s5, k1 + k2 + k3 + k4 + k5)
    /\ Has(u, q, s1 \o s2 \o s3 \o s4 \o s5) =>
          /\ Has(u, q, s1) /\ Has(u, q + k1, s2) /\ Has(u, q + k1 + k2, s3)
          /\ Has(u, q + k1 + k2 + k3, s4) /\ Has(u, q + k1 + k2 + k3 + k4, s5)

\* Five texts one after the other.
LEMMA FiveJoin ==
    ASSUME NEW s1, NEW s2, NEW s3, NEW s4, NEW s5,
           NEW k1 \in Nat, NEW k2 \in Nat, NEW k3 \in Nat, NEW k4 \in Nat, NEW k5 \in Nat,
           Piece(s1, k1), Piece(s2, k2), Piece(s3, k3), Piece(s4, k4), Piece(s5, k5),
           NEW u, NEW q \in Nat
    PROVE  FiveFit(s1, s2, s3, s4, s5, k1, k2, k3, k4, k5, u, q)
<1> PICK s : s = s1 \o s2 \o s3
  OBVIOUS
<1>1. /\ k1 + k2 + k3 \in Nat /\ q + (k1 + k2 + k3) = q + k1 + k2 + k3
      /\ q + (k1 + k2 + k3) + k4 = q + k1 + k2 + k3 + k4
  OBVIOUS
<1>2. /\ Piece(s, k1 + k2 + k3)
      /\ Has(u, q, s) => Has(u, q, s1) /\ Has(u, q + k1, s2) /\ Has(u, q + k1 + k2, s3)
  BY ThreeJoin
<1>3. /\ Piece(s \o s4 \o s5, k1 + k2 + k3 + k4 + k5)
      /\ Has(u, q, s \o s4 \o s5) => /\ Has(u, q, s) /\ Has(u, q + (k1 + k2 + k3), s4)
                                     /\ Has(u, q + (k1 + k2 + k3) + k4, s5)
  BY <1>1, <1>2, ThreeJoin
<1> QED
  BY <1>1, <1>2, <1>3 DEF FiveFit

\* One instruction makes a piece.
Makes(s, x) == Piece(s, 1) /\ \A u : \A q \in Nat : Has(u, q, s) => u[q] = x

\* `ins` makes the one instruction it is given the fields of.
LEMMA InsMakes ==
    ASSUME NEW o \in Operations, NEW d \in Int, NEW s \in Int, NEW v \in Int
    PROVE  Makes(Guest!Ins(o, d, s, v), AnInsn(o, d, s, v))
<1> PICK x : x = AnInsn(o, d, s, v)
  OBVIOUS
<1>1. x \in Instructions /\ Guest!Ins(o, d, s, v) = <<x>>
  BY DEF Guest!Ins, AnInsn, Instructions
<1>2. <<x>> \in Seq(Instructions) /\ Len(<<x>>) = 1 /\ <<x>>[1] = x
  BY <1>1
<1>3. ASSUME NEW u, NEW q \in Nat, Has(u, q, <<x>>) PROVE u[q] = x
  <2>1. u[q + 1 - 1] = <<x>>[1]
    BY <1>2, <1>3 DEF Has
  <2> QED BY <2>1, <1>2
<1> QED
  BY <1>1, <1>2, <1>3 DEF Makes, Piece

\* What `mov`, `imm`, `call` and `EXIT` make.
LEMMA OnesMake ==
    /\ \A d \in 0 .. 10, s \in 0 .. 10 : Makes(Guest!mov(d, s), Mov(d, s))
    /\ \A d \in 0 .. 10, v \in Int : Makes(Guest!imm(d, v), Imm(d, v))
    /\ \A o \in {"acquire", "read", "release"} : Makes(Guest!call(o), Op(o))
    /\ Makes(Guest!exit, Op("EXIT"))
<1>1. \A d \in 0 .. 10 : d \in Int
  OBVIOUS
<1>2. {"MOV_X", "MOV_K", "EXIT", "acquire", "read", "release"} \subseteq Operations
  BY DEF Operations
<1>3. 0 \in Int
  OBVIOUS
<1>4. ASSUME NEW d \in 0 .. 10, NEW s \in 0 .. 10 PROVE Makes(Guest!mov(d, s), Mov(d, s))
  BY InsMakes, <1>1, <1>2, <1>3 DEF Guest!mov, Mov
<1>5. ASSUME NEW d \in 0 .. 10, NEW v \in Int PROVE Makes(Guest!imm(d, v), Imm(d, v))
  BY InsMakes, <1>1, <1>2, <1>3 DEF Guest!imm, Imm
<1>6. ASSUME NEW o \in {"acquire", "read", "release"} PROVE Makes(Guest!call(o), Op(o))
  BY InsMakes, <1>2, <1>3 DEF Guest!call, Op
<1>7. Makes(Guest!exit, Op("EXIT"))
  BY InsMakes, <1>2, <1>3 DEF Guest!exit, Op
<1> QED
  BY <1>4, <1>5, <1>6, <1>7

\* What an alias in a spill slot costs: one instruction more to get it back.
Costs(spill, e) == e = IF spill = 0 THEN 0 ELSE 1
Keep(a, spill) == IF spill = 0 THEN Mov(8, a) ELSE AnInsn("STX", 10, a, spill)
Reload(spill) == AnInsn("LDX", 8, 10, spill)

\* The pieces that the guest puts its programs together from: two instructions,
LEMMA TwoMake ==
    ASSUME NEW s, NEW t, NEW x, NEW y, Makes(s, x), Makes(t, y), NEW u, NEW q \in Nat
    PROVE  Piece(s \o t, 2) /\ (Has(u, q, s \o t) => u[q] = x /\ u[q + 1] = y)
<1>1. Piece(s, 1) /\ Piece(t, 1) /\ 1 \in Nat /\ q + 1 \in Nat /\ 1 + 1 = 2
  BY DEF Makes
<1>2. Piece(s \o t, 1 + 1) /\ (Has(u, q, s \o t) => Has(u, q, s) /\ Has(u, q + 1, t))
  BY <1>1, PiecesJoin
<1> QED
  BY <1>1, <1>2 DEF Makes

\* an acquisition, an exit,
LEMMA AcquireText ==
    ASSUME NEW w \in Int, NEW u, NEW q \in Nat
    PROVE  /\ Piece(Guest!acquire(w), 2)
           /\ Has(u, q, Guest!acquire(w)) => u[q] = Imm(1, w) /\ u[q + 1] = Op("acquire")
<1>1. Makes(Guest!imm(1, w), Imm(1, w)) /\ Makes(Guest!call("acquire"), Op("acquire"))
  BY OnesMake
<1> QED
  BY <1>1, TwoMake DEF Guest!acquire

\* `finish` is a constant and an exit.
LEMMA FinishText ==
    ASSUME NEW v \in Int, NEW u, NEW q \in Nat
    PROVE  /\ Piece(Guest!finish(v), 2)
           /\ Has(u, q, Guest!finish(v)) => u[q] = Imm(0, v) /\ u[q + 1] = Op("EXIT")
<1>1. Makes(Guest!imm(0, v), Imm(0, v)) /\ Makes(Guest!exit, Op("EXIT"))
  BY OnesMake
<1> QED
  BY <1>1, TwoMake DEF Guest!finish

\* a branch past a piece, and an alias that is kept.
LEMMA BranchMakes ==
    ASSUME NEW s, NEW k \in Nat, Piece(s, k)
    PROVE  Makes(Guest!null_branch(s), Jump(k))
<1>1. k \in Int /\ Len(s) = k /\ 0 \in Int /\ "JEQ" \in Operations
  BY DEF Piece, Operations
<1>2. Makes(Guest!Ins("JEQ", 0, 0, k), AnInsn("JEQ", 0, 0, k))
  BY <1>1, InsMakes
<1> QED
  BY <1>1, <1>2 DEF Guest!null_branch, Jump

\* `save_alias` keeps the handle in a register, or in a spill slot.
LEMMA KeepMakes ==
    ASSUME NEW a \in 6 .. 8, NEW spill \in {0, -8, -16}
    PROVE  Makes(Guest!save_alias(a, spill), Keep(a, spill))
<1>1. /\ a \in Int /\ spill \in Int /\ a \in 0 .. 10 /\ 8 \in 0 .. 10 /\ 10 \in Int
      /\ "STX" \in Operations
  BY DEF Operations
<1>2. Makes(Guest!Ins("STX", 10, a, spill), AnInsn("STX", 10, a, spill))
  BY <1>1, InsMakes
<1>3. Makes(Guest!mov(8, a), Mov(8, a))
  BY <1>1, OnesMake
<1> QED
  BY <1>2, <1>3 DEF Guest!save_alias, Keep

\* The alias is handed over,
LEMMA AliasArgument ==
    ASSUME NEW u, NEW q \in Nat, NEW spill \in {0, -8, -16}, NEW e \in 0 .. 1, Costs(spill, e)
    PROVE  /\ Piece(Guest!alias_arg(spill), 1 + e)
           /\ Has(u, q, Guest!alias_arg(spill)) =>
                 /\ spill # 0 => u[q] = Reload(spill)
                 /\ u[q + e] = Mov(1, 8)
<1>1. Makes(Guest!mov(1, 8), Mov(1, 8))
  <2>1. 1 \in 0 .. 10 /\ 8 \in 0 .. 10
    OBVIOUS
  <2> QED BY <2>1, OnesMake
<1>2. CASE spill = 0
  <2>1. Guest!alias_arg(spill) = <<>> \o Guest!mov(1, 8)
    BY <1>2 DEF Guest!alias_arg
  <2>2. Piece(<<>>, 0) /\ 0 \in Nat /\ 1 \in Nat /\ 0 + 1 = 1 /\ q + 0 = q
    BY DEF Piece
  <2>3. Piece(Guest!mov(1, 8), 1)
    BY <1>1 DEF Makes
  <2>4. /\ Piece(<<>> \o Guest!mov(1, 8), 0 + 1)
        /\ Has(u, q, <<>> \o Guest!mov(1, 8)) => Has(u, q + 0, Guest!mov(1, 8))
    BY <2>2, <2>3, PiecesJoin
  <2>5. e = 0 /\ 1 + 0 = 1
    BY <1>2 DEF Costs
  <2> QED
    BY <1>1, <1>2, <2>1, <2>2, <2>4, <2>5 DEF Makes
<1>3. CASE spill # 0
  <2>1. Guest!alias_arg(spill) = Guest!Ins("LDX", 8, 10, spill) \o Guest!mov(1, 8)
    BY <1>3 DEF Guest!alias_arg
  <2>2. "LDX" \in Operations /\ 8 \in Int /\ 10 \in Int /\ spill \in Int
    BY DEF Operations
  <2>3. Makes(Guest!Ins("LDX", 8, 10, spill), Reload(spill))
    BY <2>2, InsMakes DEF Reload
  <2>4. Piece(Guest!mov(1, 8), 1) /\ Piece(Guest!Ins("LDX", 8, 10, spill), 1)
    BY <1>1, <2>3 DEF Makes
  <2> PICK s : s = Guest!Ins("LDX", 8, 10, spill)
    OBVIOUS
  <2>5. 1 \in Nat /\ q + 1 \in Nat
    OBVIOUS
  <2>6. /\ Piece(s \o Guest!mov(1, 8), 1 + 1)
        /\ Has(u, q, s \o Guest!mov(1, 8)) => Has(u, q, s) /\ Has(u, q + 1, Guest!mov(1, 8))
    BY <2>4, <2>5, PiecesJoin
  <2>7. e = 1
    BY <1>3 DEF Costs
  <2> QED
    BY <1>1, <2>1, <2>3, <2>5, <2>6, <2>7 DEF Makes
<1> QED
  BY <1>2, <1>3

\* and released, where there is no second acquisition.
LEMMA OnlyAText ==
    ASSUME NEW u, NEW q \in Nat, NEW spill \in {0, -8, -16}, NEW e \in 0 .. 1, Costs(spill, e)
    PROVE  /\ Piece(Guest!OnlyA(spill), 4 + e)
           /\ Has(u, q, Guest!OnlyA(spill)) =>
                 /\ spill # 0 => u[q] = Reload(spill)
                 /\ u[q + e] = Mov(1, 8) /\ u[q + 1 + e] = Op("release")
                 /\ u[q + 2 + e] = Imm(0, 7) /\ u[q + 3 + e] = Op("EXIT")
<1> PICK s1 : s1 = Guest!alias_arg(spill)
  OBVIOUS
<1> PICK s2 : s2 = Guest!call("release")
  OBVIOUS
<1> PICK s3 : s3 = Guest!finish(7)
  OBVIOUS
<1>1. /\ e \in Nat /\ 1 + e \in Nat /\ 1 \in Nat /\ 2 \in Nat /\ q + (1 + e) + 1 \in Nat
      /\ q + (1 + e) = q + 1 + e /\ q + (1 + e) + 1 = q + 2 + e /\ q + 1 + e \in Nat
      /\ q + 2 + e + 1 = q + 3 + e /\ q + 2 + e \in Nat /\ (1 + e) + 1 + 2 = 4 + e
  OBVIOUS
<1>2. /\ Piece(s1, 1 + e)
      /\ Has(u, q, s1) => (spill # 0 => u[q] = Reload(spill)) /\ u[q + e] = Mov(1, 8)
  BY AliasArgument
<1>3. Makes(s2, Op("release"))
  BY OnesMake
<1>4. 7 \in Int
  OBVIOUS
<1>5. /\ Piece(s3, 2)
      /\ Has(u, q + 2 + e, s3) => u[q + 2 + e] = Imm(0, 7) /\ u[q + 2 + e + 1] = Op("EXIT")
  BY <1>1, <1>4, FinishText
<1>6. Piece(s2, 1) /\ (Has(u, q + 1 + e, s2) => u[q + 1 + e] = Op("release"))
  BY <1>1, <1>3 DEF Makes
<1>7. /\ Piece(s1 \o s2 \o s3, (1 + e) + 1 + 2)
      /\ Has(u, q, s1 \o s2 \o s3) =>
            Has(u, q, s1) /\ Has(u, q + (1 + e), s2) /\ Has(u, q + (1 + e) + 1, s3)
  BY <1>1, <1>2, <1>5, <1>6, ThreeJoin
<1> QED
  BY <1>1, <1>2, <1>5, <1>6, <1>7 DEF Guest!OnlyA

\* Ten pieces, of which two are used twice.
TenFit(s1, s2, s3, s4, s5, s6, s7, s8, e, u, q) ==
    LET s == s1 \o s2 \o s3 \o s4 \o s5 \o s6 \o s4 \o s3 \o s7 \o s8
    IN  /\ Piece(s, 10 + e)
        /\ Has(u, q, s) =>
              /\ Has(u, q, s1) /\ Has(u, q + 1, s2) /\ Has(u, q + 2 + e, s3)
              /\ Has(u, q + 3 + e, s4) /\ Has(u, q + 4 + e, s5)
              /\ Has(u, q + 5 + e, s6) /\ Has(u, q + 6 + e, s4)
              /\ Has(u, q + 7 + e, s3) /\ Has(u, q + 8 + e, s7)
              /\ Has(u, q + 9 + e, s8)

\* Ten instructions, the second of them a reload when the handle is spilled.
LEMMA TenJoin ==
    ASSUME NEW s1, NEW s2, NEW s3, NEW s4, NEW s5, NEW s6, NEW s7, NEW s8, NEW e \in 0 .. 1,
           Piece(s1, 1), Piece(s2, 1 + e), Piece(s3, 1), Piece(s4, 1), Piece(s5, 1),
           Piece(s6, 1), Piece(s7, 1), Piece(s8, 1), NEW u, NEW q \in Nat
    PROVE  TenFit(s1, s2, s3, s4, s5, s6, s7, s8, e, u, q)
<1>1. q + 1 \in Nat /\ 1 + e \in Nat /\ 1 \in Nat /\ 5 + e \in Nat /\ 9 + e \in Nat /\ e \in Nat
  OBVIOUS
<1>2. /\ Piece(s1 \o s2 \o s3 \o s4 \o s5, 1 + (1 + e) + 1 + 1 + 1)
      /\ Has(u, q, s1 \o s2 \o s3 \o s4 \o s5) =>
            /\ Has(u, q, s1) /\ Has(u, q + 1, s2) /\ Has(u, q + 1 + (1 + e), s3)
            /\ Has(u, q + 1 + (1 + e) + 1, s4) /\ Has(u, q + 1 + (1 + e) + 1 + 1, s5)
  <2>1. FiveFit(s1, s2, s3, s4, s5, 1, 1 + e, 1, 1, 1, u, q)
    BY <1>1, FiveJoin
  <2> QED
    BY <2>1 DEF FiveFit
<1> DEFINE t1 == s1 \o s2 \o s3 \o s4 \o s5
<1>3. /\ 1 + (1 + e) + 1 + 1 + 1 = 5 + e /\ q + 1 + (1 + e) = q + 2 + e
      /\ q + 1 + (1 + e) + 1 = q + 3 + e /\ q + 1 + (1 + e) + 1 + 1 = q + 4 + e
  OBVIOUS
<1>4. /\ Piece(t1, 5 + e)
      /\ Has(u, q, t1) => /\ Has(u, q, s1) /\ Has(u, q + 1, s2) /\ Has(u, q + 2 + e, s3)
                          /\ Has(u, q + 3 + e, s4) /\ Has(u, q + 4 + e, s5)
  BY <1>2, <1>3
<1> HIDE DEF t1
<1>5. /\ Piece(t1 \o s6 \o s4 \o s3 \o s7, (5 + e) + 1 + 1 + 1 + 1)
      /\ Has(u, q, t1 \o s6 \o s4 \o s3 \o s7) =>
            /\ Has(u, q, t1) /\ Has(u, q + (5 + e), s6) /\ Has(u, q + (5 + e) + 1, s4)
            /\ Has(u, q + (5 + e) + 1 + 1, s3) /\ Has(u, q + (5 + e) + 1 + 1 + 1, s7)
  <2>1. FiveFit(t1, s6, s4, s3, s7, 5 + e, 1, 1, 1, 1, u, q)
    BY <1>1, <1>4, FiveJoin
  <2> QED
    BY <2>1 DEF FiveFit
<1> DEFINE t2 == t1 \o s6 \o s4 \o s3 \o s7
<1>6. /\ (5 + e) + 1 + 1 + 1 + 1 = 9 + e /\ q + (5 + e) = q + 5 + e
      /\ q + (5 + e) + 1 = q + 6 + e /\ q + (5 + e) + 1 + 1 = q + 7 + e
      /\ q + (5 + e) + 1 + 1 + 1 = q + 8 + e
  OBVIOUS
<1>7. /\ Piece(t2, 9 + e)
      /\ Has(u, q, t2) => /\ Has(u, q, t1) /\ Has(u, q + 5 + e, s6) /\ Has(u, q + 6 + e, s4)
                          /\ Has(u, q + 7 + e, s3) /\ Has(u, q + 8 + e, s7)
  BY <1>5, <1>6
<1> HIDE DEF t2
<1>8. /\ Piece(t2 \o s8, (9 + e) + 1)
      /\ Has(u, q, t2 \o s8) => Has(u, q, t2) /\ Has(u, q + (9 + e), s8)
  BY <1>1, <1>7, PiecesJoin
<1>9. (9 + e) + 1 = 10 + e /\ q + (9 + e) = q + 9 + e
  OBVIOUS
<1> QED
  BY <1>4, <1>7, <1>8, <1>9 DEF t1, t2, TenFit

\* Both acquisitions succeeded.
Both(b, spill) ==
    Guest!mov(b, 0) \o Guest!alias_arg(spill) \o Guest!call("release")
    \o Guest!mov(1, b) \o Guest!call("read") \o Guest!mov(9, 0)
    \o Guest!mov(1, b) \o Guest!call("release") \o Guest!mov(0, 9) \o Guest!exit

\* The end of `valid_ab` that both handles reach: release a, read b, release b.
LEMMA BothText ==
    ASSUME NEW u, NEW q \in Nat, NEW spill \in {0, -8, -16}, NEW e \in 0 .. 1,
           Costs(spill, e), NEW b \in 6 .. 7
    PROVE  /\ Piece(Both(b, spill), 10 + e)
           /\ Has(u, q, Both(b, spill)) =>
                 /\ u[q] = Mov(b, 0) /\ (spill # 0 => u[q + 1] = Reload(spill))
                 /\ u[q + 1 + e] = Mov(1, 8) /\ u[q + 2 + e] = Op("release")
                 /\ u[q + 3 + e] = Mov(1, b) /\ u[q + 4 + e] = Op("read")
                 /\ u[q + 5 + e] = Mov(9, 0) /\ u[q + 6 + e] = Mov(1, b)
                 /\ u[q + 7 + e] = Op("release") /\ u[q + 8 + e] = Mov(0, 9)
                 /\ u[q + 9 + e] = Op("EXIT")
<1> DEFINE s1 == Guest!mov(b, 0)
           s2 == Guest!alias_arg(spill)
           s3 == Guest!call("release")
           s4 == Guest!mov(1, b)
           s5 == Guest!call("read")
           s6 == Guest!mov(9, 0)
           s7 == Guest!mov(0, 9)
           s8 == Guest!exit
<1>1. 0 \in 0 .. 10 /\ 1 \in 0 .. 10 /\ 8 \in 0 .. 10 /\ 9 \in 0 .. 10 /\ b \in 0 .. 10
  OBVIOUS
<1>2. /\ Makes(s1, Mov(b, 0)) /\ Makes(s3, Op("release")) /\ Makes(s4, Mov(1, b))
      /\ Makes(s5, Op("read")) /\ Makes(s6, Mov(9, 0)) /\ Makes(s7, Mov(0, 9))
      /\ Makes(s8, Op("EXIT"))
  BY <1>1, OnesMake
<1>3. \A s, x : \A w \in Nat : Makes(s, x) => Piece(s, 1) /\ (Has(u, w, s) => u[w] = x)
  BY DEF Makes
<1>4. q + 1 \in Nat /\ q + 1 + e = q + 1 + e
  OBVIOUS
<1>5. /\ Piece(s2, 1 + e)
      /\ Has(u, q + 1, s2) =>
            (spill # 0 => u[q + 1] = Reload(spill)) /\ u[q + 1 + e] = Mov(1, 8)
  BY <1>4, AliasArgument
<1> DEFINE s == s1 \o s2 \o s3 \o s4 \o s5 \o s6 \o s4 \o s3 \o s7 \o s8
<1>6. Both(b, spill) = s
  BY DEF Both
<1> HIDE DEF s1, s2, s3, s4, s5, s6, s7, s8
<1>7. /\ Piece(s1, 1) /\ Piece(s3, 1) /\ Piece(s4, 1) /\ Piece(s5, 1) /\ Piece(s6, 1)
      /\ Piece(s7, 1) /\ Piece(s8, 1)
  BY <1>2 DEF Makes
<1>8. /\ Piece(s, 10 + e)
      /\ Has(u, q, s) =>
            /\ Has(u, q, s1) /\ Has(u, q + 1, s2) /\ Has(u, q + 2 + e, s3)
            /\ Has(u, q + 3 + e, s4) /\ Has(u, q + 4 + e, s5) /\ Has(u, q + 5 + e, s6)
            /\ Has(u, q + 6 + e, s4) /\ Has(u, q + 7 + e, s3) /\ Has(u, q + 8 + e, s7)
            /\ Has(u, q + 9 + e, s8)
  <2>1. TenFit(s1, s2, s3, s4, s5, s6, s7, s8, e, u, q)
    BY <1>5, <1>7, TenJoin
  <2> QED
    BY <2>1 DEF TenFit
<1> HIDE DEF s
<1>9. /\ q + 2 + e \in Nat /\ q + 3 + e \in Nat /\ q + 4 + e \in Nat /\ q + 5 + e \in Nat
      /\ q + 6 + e \in Nat /\ q + 7 + e \in Nat /\ q + 8 + e \in Nat /\ q + 9 + e \in Nat
  OBVIOUS
<1>10. ASSUME Has(u, q, s)
       PROVE  /\ u[q] = Mov(b, 0) /\ u[q + 2 + e] = Op("release")
              /\ u[q + 3 + e] = Mov(1, b) /\ u[q + 4 + e] = Op("read")
  BY <1>2, <1>3, <1>8, <1>9, <1>10
<1>11. ASSUME Has(u, q, s)
       PROVE  /\ u[q + 5 + e] = Mov(9, 0) /\ u[q + 6 + e] = Mov(1, b)
              /\ u[q + 7 + e] = Op("release")
              /\ u[q + 8 + e] = Mov(0, 9) /\ u[q + 9 + e] = Op("EXIT")
  BY <1>2, <1>3, <1>8, <1>9, <1>11
<1> QED
  BY <1>5, <1>6, <1>8, <1>10, <1>11

\* A program has its own text from its first instruction on.
LEMMA HasSelf == ASSUME NEW s, NEW k \in Nat, Piece(s, k) PROVE Has(s, 1, s)
<1>1. ASSUME NEW i \in 1 .. Len(s) PROVE s[1 + i - 1] = s[i]
  <2>1. Len(s) = k /\ 1 + i - 1 = i
    BY DEF Piece
  <2> QED BY <2>1
<1> QED
  BY <1>1 DEF Has

\* A program that uses two acquisitions, with the second one NULL or not.
ValidText(u, a, spill, w, e) ==
    /\ u[1] = Imm(1, 0) /\ u[2] = Op("acquire") /\ u[3] = Jump(19 + 2 * e)
    /\ u[4] = Mov(a, 0) /\ u[5] = Keep(a, spill)
    /\ u[6] = Imm(1, w) /\ u[7] = Op("acquire") /\ u[8] = Jump(10 + e)
    /\ u[9] = Mov(13 - a, 0) /\ (spill # 0 => u[10] = Reload(spill))
    /\ u[10 + e] = Mov(1, 8) /\ u[11 + e] = Op("release")
    /\ u[12 + e] = Mov(1, 13 - a) /\ u[13 + e] = Op("read") /\ u[14 + e] = Mov(9, 0)
    /\ u[15 + e] = Mov(1, 13 - a) /\ u[16 + e] = Op("release")
    /\ u[17 + e] = Mov(0, 9) /\ u[18 + e] = Op("EXIT")
    /\ (spill # 0 => u[19 + e] = Reload(spill)) /\ u[19 + 2 * e] = Mov(1, 8)
    /\ u[20 + 2 * e] = Op("release") /\ u[21 + 2 * e] = Imm(0, 7)
    /\ u[22 + 2 * e] = Op("EXIT")
    /\ u[23 + 2 * e] = Imm(0, 0) /\ u[24 + 2 * e] = Op("EXIT")

\* `valid_ab` is the text ValidText spells out, for both registers, all spills
\* and both wrong results.
LEMMA ValidTextHolds ==
    ASSUME NEW a \in 6 .. 7, NEW spill \in {0, -8, -16}, NEW w \in 0 .. 1,
           NEW e \in 0 .. 1, Costs(spill, e)
    PROVE  ValidText(Guest!valid_ab(a, spill, w), a, spill, w, e)
<1> DEFINE b == IF a = 6 THEN 7 ELSE 6
           both == Both(b, spill)
           s1 == Guest!mov(a, 0)
           s2 == Guest!save_alias(a, spill)
           s3 == Guest!acquire(w)
           s4 == Guest!null_branch(both)
           s6 == Guest!OnlyA(spill)
           second == s1 \o s2 \o s3 \o s4 \o both \o s6
           t1 == Guest!acquire(0)
           t2 == Guest!null_branch(second)
           t4 == Guest!finish(0)
           all == t1 \o t2 \o second \o t4
<1> PICK u : u = Guest!valid_ab(a, spill, w)
  BY Zenon
<1>1. u = all
  BY DEF Guest!valid_ab, Both
<1>2. b = 13 - a /\ b \in 6 .. 7
  OBVIOUS
<1>3. /\ 0 \in 0 .. 10 /\ a \in 0 .. 10 /\ a \in 6 .. 8 /\ w \in Int /\ 0 \in Int
      /\ 10 + e \in Nat /\ 4 + e \in Nat /\ 1 \in Nat /\ 2 \in Nat /\ 4 \in Nat /\ 9 \in Nat
      /\ 19 + e \in Nat /\ 15 + e \in Nat /\ 19 + 2 * e \in Nat /\ 22 + 2 * e \in Nat
      /\ 23 + 2 * e \in Nat /\ 3 \in Nat /\ 5 \in Nat /\ 6 \in Nat /\ 8 \in Nat
  OBVIOUS
<1>4. /\ Piece(both, 10 + e)
      /\ Has(u, 9, both) =>
            /\ u[9] = Mov(b, 0) /\ (spill # 0 => u[9 + 1] = Reload(spill))
            /\ u[9 + 1 + e] = Mov(1, 8) /\ u[9 + 2 + e] = Op("release")
            /\ u[9 + 3 + e] = Mov(1, b) /\ u[9 + 4 + e] = Op("read")
            /\ u[9 + 5 + e] = Mov(9, 0) /\ u[9 + 6 + e] = Mov(1, b)
            /\ u[9 + 7 + e] = Op("release") /\ u[9 + 8 + e] = Mov(0, 9)
            /\ u[9 + 9 + e] = Op("EXIT")
  BY <1>2, <1>3, BothText
<1>5. /\ Piece(s6, 4 + e)
      /\ Has(u, 19 + e, s6) =>
            /\ spill # 0 => u[19 + e] = Reload(spill)
            /\ u[19 + e + e] = Mov(1, 8) /\ u[19 + e + 1 + e] = Op("release")
            /\ u[19 + e + 2 + e] = Imm(0, 7) /\ u[19 + e + 3 + e] = Op("EXIT")
  BY <1>3, OnlyAText
<1>6. Makes(s1, Mov(a, 0)) /\ Makes(s2, Keep(a, spill))
  <2>1. Makes(s1, Mov(a, 0))
    BY <1>3, OnesMake
  <2>2. Makes(s2, Keep(a, spill))
    <3>1. a \in 6 .. 8
      OBVIOUS
    <3>2. Makes(Guest!save_alias(a, spill), Keep(a, spill))
      BY <3>1, KeepMakes
    <3> QED
      BY <3>2
  <2> QED
    BY <2>1, <2>2
<1>7. /\ Piece(s3, 2)
      /\ Has(u, 6, s3) => u[6] = Imm(1, w) /\ u[6 + 1] = Op("acquire")
  <2>1. w \in Int /\ 6 \in Nat
    OBVIOUS
  <2> QED
    BY <2>1, AcquireText
<1>8. /\ Piece(t1, 2)
      /\ Has(u, 1, t1) => u[1] = Imm(1, 0) /\ u[1 + 1] = Op("acquire")
  <2>1. 0 \in Int /\ 1 \in Nat
    OBVIOUS
  <2> QED
    BY <2>1, AcquireText
<1>9. /\ Piece(t4, 2)
      /\ Has(u, 23 + 2 * e, t4) =>
            u[23 + 2 * e] = Imm(0, 0) /\ u[23 + 2 * e + 1] = Op("EXIT")
  <2>1. 0 \in Int /\ 23 + 2 * e \in Nat
    OBVIOUS
  <2> QED
    BY <2>1, FinishText
<1>10. Makes(s4, Jump(10 + e))
  BY <1>3, <1>4, BranchMakes
<1> HIDE DEF b, both, s1, s2, s3, s4, s6, t1, t4
<1>11. Piece(s1, 1) /\ Piece(s2, 1) /\ Piece(s4, 1)
  BY <1>6, <1>10 DEF Makes
<1> DEFINE five == s1 \o s2 \o s3 \o s4 \o both
<1>12. /\ Piece(five, 15 + e)
       /\ Has(u, 4, five) => /\ Has(u, 4, s1) /\ Has(u, 5, s2) /\ Has(u, 6, s3)
                               /\ Has(u, 8, s4) /\ Has(u, 9, both)
  <2> HIDE DEF all
  <2>1. FiveFit(s1, s2, s3, s4, both, 1, 1, 2, 1, 10 + e, u, 4)
    BY <1>3, <1>4, <1>7, <1>11, FiveJoin
  <2>2. /\ 1 + 1 + 2 + 1 + (10 + e) = 15 + e /\ 4 + 1 = 5 /\ 4 + 1 + 1 = 6
        /\ 4 + 1 + 1 + 2 = 8 /\ 4 + 1 + 1 + 2 + 1 = 9
    OBVIOUS
  <2> HIDE DEF five
  <2>3. five = s1 \o s2 \o s3 \o s4 \o both
    BY DEF five
  <2> QED
    BY <2>1, <2>2, <2>3 DEF FiveFit
<1>13. /\ Piece(second, 19 + 2 * e)
       /\ Has(u, 4, second) => Has(u, 4, five) /\ Has(u, 19 + e, s6)
  <2>1. second = five \o s6
    OBVIOUS
  <2> HIDE DEF all, second, five
  <2>2. /\ Piece(five \o s6, (15 + e) + (4 + e))
        /\ Has(u, 4, five \o s6) => Has(u, 4, five) /\ Has(u, 4 + (15 + e), s6)
    BY <1>3, <1>5, <1>12, PiecesJoin
  <2>3. (15 + e) + (4 + e) = 19 + 2 * e /\ 4 + (15 + e) = 19 + e
    OBVIOUS
  <2> QED
    BY <2>1, <2>2, <2>3
<1>14. Makes(t2, Jump(19 + 2 * e))
  <2> HIDE DEF second
  <2> QED
    BY <1>3, <1>13, BranchMakes
<1>15. /\ Piece(all, 24 + 2 * e)
       /\ Has(u, 1, all) => /\ Has(u, 1, t1) /\ Has(u, 3, t2) /\ Has(u, 4, second)
                              /\ Has(u, 23 + 2 * e, t4)
  <2> DEFINE three == t1 \o t2 \o second
  <2>1. all = three \o t4
    OBVIOUS
  <2>2. Piece(t2, 1)
    BY <1>14 DEF Makes
  <2> HIDE DEF all, second, t2
  <2>3. /\ Piece(three, 2 + 1 + (19 + 2 * e))
        /\ Has(u, 1, three) =>
              Has(u, 1, t1) /\ Has(u, 1 + 2, t2) /\ Has(u, 1 + 2 + 1, second)
    BY <1>3, <1>8, <1>13, <2>2, ThreeJoin
  <2> HIDE DEF three
  <2>4. 2 + 1 + (19 + 2 * e) = 22 + 2 * e /\ 1 + 2 = 3 /\ 1 + 2 + 1 = 4
    OBVIOUS
  <2>5. /\ Piece(three, 22 + 2 * e)
        /\ Has(u, 1, three) => Has(u, 1, t1) /\ Has(u, 3, t2) /\ Has(u, 4, second)
    BY <2>3, <2>4
  <2>6. /\ Piece(three \o t4, (22 + 2 * e) + 2)
        /\ Has(u, 1, three \o t4) => Has(u, 1, three) /\ Has(u, 1 + (22 + 2 * e), t4)
    BY <1>3, <1>9, <2>5, PiecesJoin
  <2>7. (22 + 2 * e) + 2 = 24 + 2 * e /\ 1 + (22 + 2 * e) = 23 + 2 * e
    OBVIOUS
  <2> QED
    BY <2>1, <2>5, <2>6, <2>7
<1> HIDE DEF all, second, five, t2
<1>16. Has(u, 1, all)
  <2>1. 24 + 2 * e \in Nat
    OBVIOUS
  <2> QED
    BY <1>1, <2>1, <1>15, HasSelf
<1>17. /\ Has(u, 1, t1) /\ Has(u, 3, t2) /\ Has(u, 4, s1) /\ Has(u, 5, s2)
       /\ Has(u, 6, s3) /\ Has(u, 8, s4) /\ Has(u, 9, both) /\ Has(u, 19 + e, s6)
       /\ Has(u, 23 + 2 * e, t4)
  BY <1>12, <1>13, <1>15, <1>16
<1>18. /\ u[3] = Jump(19 + 2 * e) /\ u[4] = Mov(a, 0) /\ u[5] = Keep(a, spill)
       /\ u[8] = Jump(10 + e)
  BY <1>3, <1>6, <1>10, <1>14, <1>17 DEF Makes
<1>19. /\ 1 + 1 = 2 /\ 6 + 1 = 7 /\ 9 + 1 = 10 /\ 9 + 1 + e = 10 + e /\ 9 + 2 + e = 11 + e
       /\ 9 + 3 + e = 12 + e /\ 9 + 4 + e = 13 + e /\ 9 + 5 + e = 14 + e
       /\ 9 + 6 + e = 15 + e /\ 9 + 7 + e = 16 + e /\ 9 + 8 + e = 17 + e
       /\ 9 + 9 + e = 18 + e /\ 19 + e + e = 19 + 2 * e /\ 19 + e + 1 + e = 20 + 2 * e
       /\ 19 + e + 2 + e = 21 + 2 * e /\ 19 + e + 3 + e = 22 + 2 * e
       /\ 23 + 2 * e + 1 = 24 + 2 * e
  OBVIOUS
<1> QED
  BY <1>1, <1>2, <1>4, <1>5, <1>7, <1>8, <1>9, <1>17, <1>18, <1>19 DEF ValidText

\* A program that asks for NULL and gets it.
NullText(u) ==
    /\ u[1] = Imm(1, 1) /\ u[2] = Op("acquire") /\ u[3] = Jump(4)
    /\ u[4] = Mov(1, 0) /\ u[5] = Op("release") /\ u[6] = Imm(0, 13) /\ u[7] = Op("EXIT")
    /\ u[8] = Imm(0, 0) /\ u[9] = Op("EXIT")

\* `valid_null` is the text NullText spells out.
LEMMA NullTextHolds == NullText(Guest!valid_null)
<1> DEFINE s1 == Guest!mov(1, 0)
           s2 == Guest!call("release")
           s3 == Guest!finish(13)
           other == s1 \o s2 \o s3
           t1 == Guest!acquire(1)
           t2 == Guest!null_branch(other)
           t4 == Guest!finish(0)
           all == t1 \o t2 \o other \o t4
<1> PICK u : u = Guest!valid_null
  OBVIOUS
<1>1. u = all
  BY DEF Guest!valid_null
<1>2. /\ 0 \in 0 .. 10 /\ 1 \in 0 .. 10 /\ 0 \in Int /\ 1 \in Int /\ 13 \in Int
      /\ 1 \in Nat /\ 2 \in Nat /\ 4 \in Nat /\ 6 \in Nat /\ 8 \in Nat
  OBVIOUS
<1>3. Makes(s1, Mov(1, 0)) /\ Makes(s2, Op("release"))
  BY <1>2, OnesMake
<1>4. Piece(s3, 2) /\ (Has(u, 6, s3) => u[6] = Imm(0, 13) /\ u[6 + 1] = Op("EXIT"))
  BY <1>2, FinishText
<1>5. Piece(t1, 2) /\ (Has(u, 1, t1) => u[1] = Imm(1, 1) /\ u[1 + 1] = Op("acquire"))
  BY <1>2, AcquireText
<1>6. Piece(t4, 2) /\ (Has(u, 8, t4) => u[8] = Imm(0, 0) /\ u[8 + 1] = Op("EXIT"))
  BY <1>2, FinishText
<1> HIDE DEF s1, s2, s3, t1, t4
<1>7. Piece(s1, 1) /\ Piece(s2, 1)
  BY <1>3 DEF Makes
<1>8. /\ Piece(other, 4)
      /\ Has(u, 4, other) => Has(u, 4, s1) /\ Has(u, 5, s2) /\ Has(u, 6, s3)
  <2>1. /\ Piece(s1 \o s2 \o s3, 1 + 1 + 2)
        /\ Has(u, 4, s1 \o s2 \o s3) =>
              Has(u, 4, s1) /\ Has(u, 4 + 1, s2) /\ Has(u, 4 + 1 + 1, s3)
    BY <1>2, <1>4, <1>7, ThreeJoin
  <2>2. 1 + 1 + 2 = 4 /\ 4 + 1 = 5 /\ 4 + 1 + 1 = 6
    OBVIOUS
  <2> QED
    BY <2>1, <2>2
<1> HIDE DEF other
<1>9. Makes(t2, Jump(4))
  BY <1>2, <1>8, BranchMakes
<1> HIDE DEF t2
<1>10. /\ Piece(all, 9)
       /\ Has(u, 1, all) => /\ Has(u, 1, t1) /\ Has(u, 3, t2) /\ Has(u, 4, other)
                            /\ Has(u, 8, t4)
  <2>1. Piece(t2, 1)
    BY <1>9 DEF Makes
  <2>2. FourFit(t1, t2, other, t4, 2, 1, 4, 2, u, 1)
    BY <1>2, <1>5, <1>6, <1>8, <2>1, FourJoin
  <2>3. 2 + 1 + 4 + 2 = 9 /\ 1 + 2 = 3 /\ 1 + 2 + 1 = 4 /\ 1 + 2 + 1 + 4 = 8
    OBVIOUS
  <2> QED
    BY <2>2, <2>3 DEF FourFit
<1> HIDE DEF all
<1>11. 9 \in Nat /\ 3 \in Nat /\ 4 \in Nat /\ 5 \in Nat /\ 1 + 1 = 2 /\ 6 + 1 = 7 /\ 8 + 1 = 9
  OBVIOUS
<1>12. Has(u, 1, u)
  BY <1>1, <1>10, <1>11, HasSelf
<1>13. /\ Has(u, 1, t1) /\ Has(u, 3, t2) /\ Has(u, 4, s1) /\ Has(u, 5, s2)
       /\ Has(u, 6, s3) /\ Has(u, 8, t4)
  BY <1>1, <1>8, <1>10, <1>12
<1>14. u[3] = Jump(4) /\ u[4] = Mov(1, 0) /\ u[5] = Op("release")
  BY <1>3, <1>9, <1>11, <1>13 DEF Makes
<1> QED
  BY <1>4, <1>5, <1>6, <1>11, <1>13, <1>14 DEF NullText

\* The probes that use an alias of what they released.
Aliased == {"stale_copy", "stale_spill", "double_release"}
ProbeSlot(kind) == IF kind = "stale_spill" THEN -8 ELSE 0
LastUse(kind) == IF kind = "double_release" THEN "release" ELSE "read"

AliasedText(u, kind, e) ==
    /\ u[1] = Imm(1, 0) /\ u[2] = Op("acquire") /\ u[3] = Jump(6 + e)
    /\ u[4] = Mov(6, 0) /\ u[5] = Keep(6, ProbeSlot(kind))
    /\ u[6] = Mov(1, 6) /\ u[7] = Op("release")
    /\ (ProbeSlot(kind) # 0 => u[8] = Reload(ProbeSlot(kind))) /\ u[8 + e] = Mov(1, 8)
    /\ u[9 + e] = Op(LastUse(kind)) /\ u[10 + e] = Imm(0, 0) /\ u[11 + e] = Op("EXIT")

\* The probes that use a stale copy, a stale spill or release twice.
LEMMA AliasedTextHolds ==
    ASSUME NEW kind \in Aliased, NEW e \in 0 .. 1, Costs(ProbeSlot(kind), e)
    PROVE  AliasedText(Guest!rejected_program(kind), kind, e)
<1> DEFINE spill == ProbeSlot(kind)
           s1 == Guest!save_alias(6, spill)
           s2 == Guest!mov(1, 6)
           s3 == Guest!call("release")
           s4 == Guest!alias_arg(spill)
           s5 == Guest!call(LastUse(kind))
           arm == s1 \o s2 \o s3 \o s4 \o s5
           head == Guest!mov(6, 0)
           body == head \o arm
           t1 == Guest!acquire(0)
           t2 == Guest!null_branch(body)
           t4 == Guest!finish(0)
           all == t1 \o t2 \o body \o t4
<1> PICK u : u = Guest!rejected_program(kind)
  BY Zenon
<1>1. u = all
  BY DEF Guest!rejected_program, Guest!ProbeAcquire, Aliased, ProbeSlot, LastUse
<1>2. /\ 0 \in 0 .. 10 /\ 1 \in 0 .. 10 /\ 6 \in 0 .. 10 /\ 0 \in Int /\ 6 \in 6 .. 8
      /\ spill \in {0, -8, -16} /\ LastUse(kind) \in {"acquire", "read", "release"}
  BY DEF ProbeSlot, LastUse
<1>3. /\ 1 \in Nat /\ 2 \in Nat /\ 4 \in Nat /\ 5 \in Nat /\ 8 \in Nat /\ 10 + e \in Nat
      /\ 1 + e \in Nat /\ 5 + e \in Nat /\ 6 + e \in Nat /\ 11 + e \in Nat /\ 3 \in Nat
      /\ 6 \in Nat /\ 7 \in Nat /\ 9 + e \in Nat
  OBVIOUS
<1>4. Makes(head, Mov(6, 0)) /\ Makes(s2, Mov(1, 6))
  BY <1>2, OnesMake
<1>5. Makes(s3, Op("release")) /\ Makes(s5, Op(LastUse(kind)))
  BY <1>2, OnesMake
<1>6. Makes(s1, Keep(6, spill))
  BY <1>2, KeepMakes
<1>7. /\ Piece(s4, 1 + e)
      /\ Has(u, 8, s4) => (spill # 0 => u[8] = Reload(spill)) /\ u[8 + e] = Mov(1, 8)
  BY <1>2, <1>3, AliasArgument
<1>8. Piece(t1, 2) /\ (Has(u, 1, t1) => u[1] = Imm(1, 0) /\ u[1 + 1] = Op("acquire"))
  BY <1>2, <1>3, AcquireText, ZenonT(30)
<1>9. /\ Piece(t4, 2)
      /\ Has(u, 10 + e, t4) => u[10 + e] = Imm(0, 0) /\ u[10 + e + 1] = Op("EXIT")
  BY <1>2, <1>3, FinishText
<1> HIDE DEF spill, s1, s2, s3, s4, s5, head, t1, t4
<1>10. Piece(head, 1) /\ Piece(s1, 1) /\ Piece(s2, 1) /\ Piece(s3, 1) /\ Piece(s5, 1)
  BY <1>4, <1>5, <1>6 DEF Makes
<1>11. /\ Piece(arm, 5 + e)
       /\ Has(u, 5, arm) => /\ Has(u, 5, s1) /\ Has(u, 6, s2) /\ Has(u, 7, s3)
                            /\ Has(u, 8, s4) /\ Has(u, 9 + e, s5)
  <2>1. FiveFit(s1, s2, s3, s4, s5, 1, 1, 1, 1 + e, 1, u, 5)
    BY <1>3, <1>7, <1>10, FiveJoin
  <2>2. /\ 1 + 1 + 1 + (1 + e) + 1 = 5 + e /\ 5 + 1 = 6 /\ 5 + 1 + 1 = 7
        /\ 5 + 1 + 1 + 1 = 8 /\ 5 + 1 + 1 + 1 + (1 + e) = 9 + e
    OBVIOUS
  <2> QED
    BY <2>1, <2>2 DEF FiveFit
<1> HIDE DEF arm
<1>12. Piece(body, 6 + e) /\ (Has(u, 4, body) => Has(u, 4, head) /\ Has(u, 5, arm))
  <2>1. /\ Piece(head \o arm, 1 + (5 + e))
        /\ Has(u, 4, head \o arm) => Has(u, 4, head) /\ Has(u, 4 + 1, arm)
    BY <1>3, <1>10, <1>11, PiecesJoin, SMTT(30)
  <2>2. 1 + (5 + e) = 6 + e /\ 4 + 1 = 5
    OBVIOUS
  <2> QED
    BY <2>1, <2>2
<1> HIDE DEF body
<1>13. Makes(t2, Jump(6 + e))
  BY <1>3, <1>12, BranchMakes
<1> HIDE DEF t2
<1>14. /\ Piece(all, 11 + e)
       /\ Has(u, 1, all) => /\ Has(u, 1, t1) /\ Has(u, 3, t2) /\ Has(u, 4, body)
                            /\ Has(u, 10 + e, t4)
  <2>1. Piece(t2, 1)
    BY <1>13 DEF Makes
  <2>2. FourFit(t1, t2, body, t4, 2, 1, 6 + e, 2, u, 1)
    BY <1>3, <1>8, <1>9, <1>12, <2>1, FourJoin
  <2>3. /\ 2 + 1 + (6 + e) + 2 = 11 + e /\ 1 + 2 = 3 /\ 1 + 2 + 1 = 4
        /\ 1 + 2 + 1 + (6 + e) = 10 + e
    OBVIOUS
  <2> QED
    BY <2>2, <2>3 DEF FourFit
<1> HIDE DEF all
<1>15. 1 + 1 = 2 /\ 10 + e + 1 = 11 + e
  OBVIOUS
<1>16. Has(u, 1, u)
  BY <1>1, <1>3, <1>14, HasSelf
<1>17. /\ Has(u, 1, t1) /\ Has(u, 3, t2) /\ Has(u, 4, head) /\ Has(u, 5, s1)
       /\ Has(u, 6, s2) /\ Has(u, 7, s3) /\ Has(u, 8, s4) /\ Has(u, 9 + e, s5)
       /\ Has(u, 10 + e, t4)
  BY <1>1, <1>11, <1>12, <1>14, <1>16
<1>18. u[3] = Jump(6 + e) /\ u[4] = Mov(6, 0) /\ u[5] = Keep(6, spill)
  BY <1>3, <1>4, <1>6, <1>13, <1>17 DEF Makes
<1>19. u[6] = Mov(1, 6) /\ u[7] = Op("release") /\ u[9 + e] = Op(LastUse(kind))
  BY <1>3, <1>4, <1>5, <1>17 DEF Makes
<1> QED
  BY <1>7, <1>8, <1>9, <1>15, <1>17, <1>18, <1>19 DEF AliasedText, spill

\* The probe that does not look for NULL, and
UntestedText(u) ==
    /\ u[1] = Imm(1, 0) /\ u[2] = Op("acquire") /\ u[3] = Mov(6, 0)
    /\ u[4] = Mov(1, 6) /\ u[5] = Op("read") /\ u[6] = Mov(1, 6) /\ u[7] = Op("release")
    /\ u[8] = Imm(0, 0) /\ u[9] = Op("EXIT")

\* The probe that uses a handle it never tested.
LEMMA UntestedTextHolds == UntestedText(Guest!rejected_program("missing_null"))
<1> DEFINE s1 == Guest!mov(1, 6)
           s2 == Guest!call("read")
           s3 == Guest!call("release")
           arm == s1 \o s2 \o s1 \o s3
           head == Guest!mov(6, 0)
           body == head \o arm
           t1 == Guest!acquire(0)
           t2 == <<>>
           t4 == Guest!finish(0)
           all == t1 \o t2 \o body \o t4
<1> PICK u : u = Guest!rejected_program("missing_null")
  BY Zenon
<1>1. u = all
  BY DEF Guest!rejected_program, Guest!ProbeAcquire
<1>2. /\ 0 \in 0 .. 10 /\ 1 \in 0 .. 10 /\ 6 \in 0 .. 10 /\ 0 \in Int /\ 0 \in Nat
      /\ 1 \in Nat /\ 2 \in Nat /\ 3 \in Nat /\ 4 \in Nat /\ 5 \in Nat /\ 6 \in Nat
      /\ 7 \in Nat /\ 8 \in Nat /\ 9 \in Nat
  OBVIOUS
<1>3. Makes(head, Mov(6, 0)) /\ Makes(s1, Mov(1, 6))
  BY <1>2, OnesMake
<1>4. Makes(s2, Op("read")) /\ Makes(s3, Op("release"))
  BY <1>2, OnesMake
<1>5. Piece(t1, 2) /\ (Has(u, 1, t1) => u[1] = Imm(1, 0) /\ u[1 + 1] = Op("acquire"))
  BY <1>2, AcquireText, ZenonT(30)
<1>6. Piece(t4, 2) /\ (Has(u, 8, t4) => u[8] = Imm(0, 0) /\ u[8 + 1] = Op("EXIT"))
  BY <1>2, FinishText, ZenonT(30)
<1>7. Piece(t2, 0)
  BY DEF Piece
<1> HIDE DEF s1, s2, s3, head, t1, t2, t4
<1>8. Piece(head, 1) /\ Piece(s1, 1) /\ Piece(s2, 1) /\ Piece(s3, 1)
  BY <1>3, <1>4 DEF Makes
<1>9. /\ Piece(arm, 4)
      /\ Has(u, 4, arm) => /\ Has(u, 4, s1) /\ Has(u, 5, s2) /\ Has(u, 6, s1)
                           /\ Has(u, 7, s3)
  <2>1. FourFit(s1, s2, s1, s3, 1, 1, 1, 1, u, 4)
    BY <1>2, <1>8, FourJoin
  <2>2. 1 + 1 + 1 + 1 = 4 /\ 4 + 1 = 5 /\ 4 + 1 + 1 = 6 /\ 4 + 1 + 1 + 1 = 7
    OBVIOUS
  <2> QED
    BY <2>1, <2>2 DEF FourFit
<1> HIDE DEF arm
<1>10. Piece(body, 5) /\ (Has(u, 3, body) => Has(u, 3, head) /\ Has(u, 4, arm))
  <2>1. /\ Piece(head \o arm, 1 + 4)
        /\ Has(u, 3, head \o arm) => Has(u, 3, head) /\ Has(u, 3 + 1, arm)
    BY <1>2, <1>8, <1>9, PiecesJoin
  <2>2. 1 + 4 = 5 /\ 3 + 1 = 4
    OBVIOUS
  <2> QED
    BY <2>1, <2>2
<1> HIDE DEF body
<1>11. /\ Piece(all, 9)
       /\ Has(u, 1, all) => Has(u, 1, t1) /\ Has(u, 3, body) /\ Has(u, 8, t4)
  <2>1. FourFit(t1, t2, body, t4, 2, 0, 5, 2, u, 1)
    BY <1>2, <1>5, <1>6, <1>7, <1>10, FourJoin
  <2>2. 2 + 0 + 5 + 2 = 9 /\ 1 + 2 + 0 = 3 /\ 1 + 2 + 0 + 5 = 8
    OBVIOUS
  <2> QED
    BY <2>1, <2>2 DEF FourFit
<1> HIDE DEF all
<1>12. Has(u, 1, u)
  BY <1>1, <1>2, <1>11, HasSelf
<1>13. /\ Has(u, 1, t1) /\ Has(u, 3, head) /\ Has(u, 4, s1) /\ Has(u, 5, s2)
       /\ Has(u, 6, s1) /\ Has(u, 7, s3) /\ Has(u, 8, t4)
  BY <1>1, <1>9, <1>10, <1>11, <1>12
<1>14. u[3] = Mov(6, 0) /\ u[4] = Mov(1, 6) /\ u[6] = Mov(1, 6)
  BY <1>2, <1>3, <1>13 DEF Makes
<1>15. u[5] = Op("read") /\ u[7] = Op("release")
  BY <1>2, <1>4, <1>13 DEF Makes
<1>16. 1 + 1 = 2 /\ 8 + 1 = 9
  OBVIOUS
<1> QED
  BY <1>5, <1>6, <1>13, <1>14, <1>15, <1>16 DEF UntestedText

\* the one that keeps its acquisition.
LeakedText(u) ==
    /\ u[1] = Imm(1, 0) /\ u[2] = Op("acquire") /\ u[3] = Jump(1) /\ u[4] = Mov(6, 0)
    /\ u[5] = Imm(0, 0) /\ u[6] = Op("EXIT")

\* The probe that ends with its reference.
LEMMA LeakedTextHolds == LeakedText(Guest!rejected_program("leaked_ref"))
<1> DEFINE head == Guest!mov(6, 0)
           arm == <<>>
           body == head \o arm
           t1 == Guest!acquire(0)
           t2 == Guest!null_branch(body)
           t4 == Guest!finish(0)
           all == t1 \o t2 \o body \o t4
<1> PICK u : u = Guest!rejected_program("leaked_ref")
  BY Zenon
<1>1. u = all
  BY DEF Guest!rejected_program, Guest!ProbeAcquire
<1>2. /\ 0 \in 0 .. 10 /\ 6 \in 0 .. 10 /\ 0 \in Int /\ 0 \in Nat
      /\ 1 \in Nat /\ 2 \in Nat /\ 3 \in Nat /\ 4 \in Nat /\ 5 \in Nat /\ 6 \in Nat
  OBVIOUS
<1>3. Makes(head, Mov(6, 0))
  BY <1>2, OnesMake
<1>4. Piece(t1, 2) /\ (Has(u, 1, t1) => u[1] = Imm(1, 0) /\ u[1 + 1] = Op("acquire"))
  BY <1>2, AcquireText
<1>5. Piece(t4, 2) /\ (Has(u, 5, t4) => u[5] = Imm(0, 0) /\ u[5 + 1] = Op("EXIT"))
  BY <1>2, FinishText, ZenonT(30)
<1>6. Piece(arm, 0)
  BY DEF Piece
<1> HIDE DEF head, arm, t1, t4
<1>7. Piece(head, 1)
  BY <1>3 DEF Makes
<1>8. Piece(body, 1) /\ (Has(u, 4, body) => Has(u, 4, head))
  <2>1. /\ Piece(head \o arm, 1 + 0)
        /\ Has(u, 4, head \o arm) => Has(u, 4, head) /\ Has(u, 4 + 1, arm)
    BY <1>2, <1>6, <1>7, PiecesJoin
  <2>2. 1 + 0 = 1
    OBVIOUS
  <2> QED
    BY <2>1, <2>2
<1> HIDE DEF body
<1>9. Makes(t2, Jump(1))
  BY <1>2, <1>8, BranchMakes
<1> HIDE DEF t2
<1>10. /\ Piece(all, 6)
       /\ Has(u, 1, all) => /\ Has(u, 1, t1) /\ Has(u, 3, t2) /\ Has(u, 4, body)
                            /\ Has(u, 5, t4)
  <2>1. Piece(t2, 1)
    BY <1>9 DEF Makes
  <2>2. FourFit(t1, t2, body, t4, 2, 1, 1, 2, u, 1)
    BY <1>2, <1>4, <1>5, <1>8, <2>1, FourJoin
  <2>3. 2 + 1 + 1 + 2 = 6 /\ 1 + 2 = 3 /\ 1 + 2 + 1 = 4 /\ 1 + 2 + 1 + 1 = 5
    OBVIOUS
  <2> QED
    BY <2>2, <2>3 DEF FourFit
<1> HIDE DEF all
<1>11. Has(u, 1, u)
  BY <1>1, <1>2, <1>10, HasSelf
<1>12. Has(u, 1, t1) /\ Has(u, 3, t2) /\ Has(u, 4, head) /\ Has(u, 5, t4)
  BY <1>1, <1>8, <1>10, <1>11
<1>13. u[3] = Jump(1) /\ u[4] = Mov(6, 0) /\ 1 + 1 = 2 /\ 5 + 1 = 6
  BY <1>2, <1>3, <1>9, <1>12 DEF Makes
<1> QED
  BY <1>4, <1>5, <1>12, <1>13 DEF LeakedText

-----------------------------------------------------------------------------
\* The cases.
Table(w, s, t) ==
    /\ Len(w) = 19 /\ DOMAIN w = 1 .. 19
    /\ \A c \in 1 .. 12 : w[c] = s[c]
    /\ \A c \in 1 .. 7 : w[12 + c] = t[c]

\* Twelve entries and seven more are a table of nineteen.
LEMMA TableJoin ==
    ASSUME NEW S, NEW s \in [1 .. 12 -> S], NEW t \in Seq(S), Len(t) = 7, NEW w, w = s \o t
    PROVE  Table(w, s, t)
<1>1. s \in Seq(S) /\ Len(s) = 12
  <2>1. s \in Seq(S)
    <3>1. 12 \in Nat
      OBVIOUS
    <3>2. [1 .. 12 -> S] \in { [1 .. d -> S] : d \in Nat }
      BY <3>1, Zenon
    <3>3. Seq(S) = UNION { [1 .. d -> S] : d \in Nat }
      BY SeqDef
    <3> QED
      BY <3>2, <3>3, Zenon
  <2>2. DOMAIN s = 1 .. 12 /\ DOMAIN s = 1 .. Len(s) /\ Len(s) \in Nat
    BY <2>1, LenProperties
  <2> QED
    BY <2>1, <2>2
<1>2. /\ s \o t \in Seq(S) /\ Len(s \o t) = Len(s) + Len(t)
      /\ \A c \in 1 .. Len(s) + Len(t) :
            (s \o t)[c] = IF c <= Len(s) THEN s[c] ELSE t[c - Len(s)]
  BY <1>1, ConcatProperties
<1>3. 12 + 7 = 19
  OBVIOUS
<1>4. /\ w \in Seq(S) /\ Len(w) = 19
      /\ \A c \in 1 .. 19 : w[c] = IF c <= 12 THEN s[c] ELSE t[c - 12]
  BY <1>1, <1>2, <1>3
<1>5. ASSUME NEW c \in 1 .. 12 PROVE w[c] = s[c]
  <2>1. c \in 1 .. 19 /\ c <= 12
    OBVIOUS
  <2> QED
    BY <1>4, <2>1
<1>6. ASSUME NEW c \in 1 .. 7 PROVE w[12 + c] = t[c]
  <2> PICK k : k = 12 + c
    OBVIOUS
  <2>1. k \in 1 .. 19 /\ ~(k <= 12) /\ k - 12 = c
    OBVIOUS
  <2>2. w[k] = t[k - 12]
    BY <1>4, <2>1
  <2> QED
    BY <2>1, <2>2
<1>7. DOMAIN w = 1 .. 19
  BY <1>4, LenProperties
<1> QED
  BY <1>4, <1>5, <1>6, <1>7 DEF Table

\* The nineteen cases of the guest's table, each at its index.
LEMMA CasesAre ==
    /\ Len(Guest!Cases) = 19 /\ DOMAIN Guest!Cases = 1 .. 19
    /\ \A c \in 1 .. 12 : Guest!Cases[c] = Guest!Pair(c - 1)
    /\ Guest!Cases[13] = Guest!Valid(Guest!valid_null, 0, 0, 0, 1)
    /\ Guest!Cases[14] = Guest!Valid(Guest!valid_ab(7, -16, 0), 42, 2, 1, Repeats)
    /\ Guest!Cases[15] = Guest!Rejected("stale_copy")
    /\ Guest!Cases[16] = Guest!Rejected("stale_spill")
    /\ Guest!Cases[17] = Guest!Rejected("double_release")
    /\ Guest!Cases[18] = Guest!Rejected("missing_null")
    /\ Guest!Cases[19] = Guest!Rejected("leaked_ref")
<1> DEFINE s == [c \in 1 .. 12 |-> Guest!Pair(c - 1)]
           x1 == Guest!Valid(Guest!valid_null, 0, 0, 0, 1)
           x2 == Guest!Valid(Guest!valid_ab(7, -16, 0), 42, 2, 1, Repeats)
           x3 == Guest!Rejected("stale_copy")
           x4 == Guest!Rejected("stale_spill")
           x5 == Guest!Rejected("double_release")
           x6 == Guest!Rejected("missing_null")
           x7 == Guest!Rejected("leaked_ref")
           t == <<x1, x2, x3, x4, x5, x6, x7>>
           S == { s[c] : c \in 1 .. 12 } \cup {x1, x2, x3, x4, x5, x6, x7}
<1>1. Guest!Cases = s \o t
  BY DEF Guest!Cases
<1>2. \A c \in 1 .. 12 : s[c] = Guest!Pair(c - 1) /\ s[c] \in S
  OBVIOUS
<1>3. s \in [1 .. 12 -> S]
  BY <1>2
<1> HIDE DEF s, x1, x2, x3, x4, x5, x6, x7
<1>4. t \in Seq(S) /\ Len(t) = 7
  OBVIOUS
<1>5. /\ t[1] = x1 /\ t[2] = x2 /\ t[3] = x3 /\ t[4] = x4 /\ t[5] = x5 /\ t[6] = x6
      /\ t[7] = x7
  OBVIOUS
<1> HIDE DEF S, t
<1> PICK w : w = Guest!Cases
  OBVIOUS
<1>6. Table(w, s, t)
  BY <1>1, <1>3, <1>4, TableJoin
<1>7. /\ 1 \in 1 .. 7 /\ 2 \in 1 .. 7 /\ 3 \in 1 .. 7 /\ 4 \in 1 .. 7 /\ 5 \in 1 .. 7
      /\ 6 \in 1 .. 7 /\ 7 \in 1 .. 7 /\ 12 + 1 = 13 /\ 12 + 2 = 14 /\ 12 + 3 = 15
      /\ 12 + 4 = 16 /\ 12 + 5 = 17 /\ 12 + 6 = 18 /\ 12 + 7 = 19
  OBVIOUS
<1>8. /\ w[13] = x1 /\ w[14] = x2 /\ w[15] = x3 /\ w[16] = x4
      /\ w[17] = x5 /\ w[18] = x6 /\ w[19] = x7
  BY <1>5, <1>6, <1>7 DEF Table
<1> QED
  BY <1>2, <1>6, <1>8 DEF Table, x1, x2, x3, x4, x5, x6, x7

-----------------------------------------------------------------------------
(* What its runs come to.                                                     *)

\* The program, and the handle of the i-th acquisition of this run.
Text == Guest!This.program
Ref(i) == Guest!Handle(before.acquisitions + i)

\* Since the run began, x acquisitions, y releases, oldest first, and z reads.
Counters ==
    [refs : Int, acquisitions : Nat, releases : Nat, reads : Nat, handles : SUBSET Int]

KernelIs(x, y, z) ==
    /\ kernel \in Counters
    /\ kernel.refs = 1 + x - y
    /\ kernel.acquisitions = before.acquisitions + x
    /\ kernel.releases = before.acquisitions + y
    /\ kernel.reads = before.reads + z
    /\ kernel.handles = before.acquisitions + y + 1 .. before.acquisitions + x

\* A run that is at instruction q, or over; u or v is 1
\* if it was refused memory or misused a handle.
On(q, x, y, z, u, v) ==
    /\ stage = "running" /\ insn = q
    /\ before.acquisitions \in Nat /\ before.reads \in Nat
    /\ KernelIs(x, y, z)
    /\ DOMAIN registers = 0 .. 10 /\ DOMAIN slots = {-8, -16}
    /\ refused = (u = 1) /\ misuse = (v = 1)

Over(x, y, z, u, v) ==
    /\ stage = "accounting" /\ insn = 0
    /\ KernelIs(x, y, z)
    /\ refused = (u = 1) /\ misuse = (v = 1)

\* What a register holds, and where the alias of the i-th acquisition is kept.
Holds(d, c) == registers[d] = c
Sees(d, i) == registers[d] = Ref(i)
Spilled(spill, i) == slots[spill] = Ref(i)
Kept(spill, i) == IF spill = 0 THEN Sees(8, i) ELSE Spilled(spill, i)

\* A program of two acquisitions, at each of its instructions: up to the second one,
FirstPart(a, spill, w) ==
    \/ On(1, 0, 0, 0, 0, 0)
    \/ On(2, 0, 0, 0, 0, 0) /\ Holds(1, 0)
    \/ On(3, 0, 0, 0, 1, 0) /\ Holds(0, 0)
    \/ On(3, 1, 0, 0, 0, 0) /\ Sees(0, 1)
    \/ On(4, 1, 0, 0, 0, 0) /\ Sees(0, 1)
    \/ On(5, 1, 0, 0, 0, 0) /\ Sees(a, 1)
    \/ On(6, 1, 0, 0, 0, 0) /\ Kept(spill, 1)
    \/ On(7, 1, 0, 0, 0, 0) /\ Kept(spill, 1) /\ Holds(1, w)
    \/ On(8, 1, 0, 0, 1 - w, 0) /\ Kept(spill, 1) /\ Holds(0, 0)
    \/ On(8, 2, 0, 0, 0, 0) /\ Kept(spill, 1) /\ Sees(0, 2) /\ w = 0

\* with both acquisitions,
BothPart(b, spill, w, e) ==
    /\ w = 0
    /\ \/ On(9, 2, 0, 0, 0, 0) /\ Kept(spill, 1) /\ Sees(0, 2)
       \/ On(10, 2, 0, 0, 0, 0) /\ Kept(spill, 1) /\ Sees(b, 2) /\ spill # 0
       \/ On(10 + e, 2, 0, 0, 0, 0) /\ Sees(8, 1) /\ Sees(b, 2)
       \/ On(11 + e, 2, 0, 0, 0, 0) /\ Sees(1, 1) /\ Sees(b, 2)
       \/ On(12 + e, 2, 1, 0, 0, 0) /\ Sees(b, 2)
       \/ On(13 + e, 2, 1, 0, 0, 0) /\ Sees(1, 2) /\ Sees(b, 2)
       \/ On(14 + e, 2, 1, 1, 0, 0) /\ Holds(0, 42) /\ Sees(b, 2)
       \/ On(15 + e, 2, 1, 1, 0, 0) /\ Holds(9, 42) /\ Sees(b, 2)
       \/ On(16 + e, 2, 1, 1, 0, 0) /\ Holds(9, 42) /\ Sees(1, 2)
       \/ On(17 + e, 2, 2, 1, 0, 0) /\ Holds(9, 42)
       \/ On(18 + e, 2, 2, 1, 0, 0) /\ Holds(0, 42)
       \/ Over(2, 2, 1, 0, 0) /\ Holds(0, 42)

\* with the first one only, and with none.
OnePart(spill, w, e) ==
    \/ On(19 + e, 1, 0, 0, 1 - w, 0) /\ Kept(spill, 1) /\ spill # 0
    \/ On(19 + 2 * e, 1, 0, 0, 1 - w, 0) /\ Sees(8, 1)
    \/ On(20 + 2 * e, 1, 0, 0, 1 - w, 0) /\ Sees(1, 1)
    \/ On(21 + 2 * e, 1, 1, 0, 1 - w, 0)
    \/ On(22 + 2 * e, 1, 1, 0, 1 - w, 0) /\ Holds(0, 7)
    \/ Over(1, 1, 0, 1 - w, 0) /\ Holds(0, 7)

NonePart(q) ==
    \/ On(q, 0, 0, 0, 1, 0)
    \/ On(q + 1, 0, 0, 0, 1, 0)
    \/ Over(0, 0, 0, 1, 0)

ValidRun(a, spill, w, e) ==
    \/ FirstPart(a, spill, w)
    \/ BothPart(13 - a, spill, w, e)
    \/ OnePart(spill, w, e)
    \/ NonePart(23 + 2 * e)

\* The program that asks for NULL,
NullRun ==
    \/ On(1, 0, 0, 0, 0, 0)
    \/ On(2, 0, 0, 0, 0, 0) /\ Holds(1, 1)
    \/ On(3, 0, 0, 0, 0, 0) /\ Holds(0, 0)
    \/ On(8, 0, 0, 0, 0, 0)
    \/ On(9, 0, 0, 0, 0, 0) /\ Holds(0, 0)
    \/ Over(0, 0, 0, 0, 0) /\ Holds(0, 0)

\* a probe that uses an alias of what it released, with its acquisition or without,
AliasedRun(spill, e) ==
    \/ On(1, 0, 0, 0, 0, 0)
    \/ On(2, 0, 0, 0, 0, 0) /\ Holds(1, 0)
    \/ On(3, 0, 0, 0, 1, 0) /\ Holds(0, 0)
    \/ On(3, 1, 0, 0, 0, 0) /\ Sees(0, 1)
    \/ On(4, 1, 0, 0, 0, 0) /\ Sees(0, 1)
    \/ On(5, 1, 0, 0, 0, 0) /\ Sees(6, 1)
    \/ On(6, 1, 0, 0, 0, 0) /\ Sees(6, 1) /\ Kept(spill, 1)
    \/ On(7, 1, 0, 0, 0, 0) /\ Sees(1, 1) /\ Kept(spill, 1)
    \/ On(8, 1, 1, 0, 0, 0) /\ Kept(spill, 1) /\ spill # 0
    \/ On(8 + e, 1, 1, 0, 0, 0) /\ Sees(8, 1)
    \/ On(9 + e, 1, 1, 0, 0, 0) /\ Sees(1, 1)
    \/ On(10 + e, 1, 1, 0, 0, 1)
    \/ On(11 + e, 1, 1, 0, 0, 1)
    \/ Over(1, 1, 0, 0, 1)
    \/ NonePart(10 + e)

\* the one that does not look for NULL: where it has none, and where it has,
UntestedRun ==
    \/ On(1, 0, 0, 0, 0, 0)
    \/ On(2, 0, 0, 0, 0, 0) /\ Holds(1, 0)
    \/ On(3, 1, 0, 0, 0, 0) /\ Sees(0, 1)
    \/ On(4, 1, 0, 0, 0, 0) /\ Sees(6, 1)
    \/ On(5, 1, 0, 0, 0, 0) /\ Sees(6, 1) /\ Sees(1, 1)
    \/ On(6, 1, 0, 1, 0, 0) /\ Sees(6, 1)
    \/ On(7, 1, 0, 1, 0, 0) /\ Sees(1, 1)
    \/ On(8, 1, 1, 1, 0, 0)
    \/ On(9, 1, 1, 1, 0, 0)
    \/ Over(1, 1, 1, 0, 0)

NullUsedRun ==
    \/ On(3, 0, 0, 0, 1, 0) /\ Holds(0, 0)
    \/ On(4, 0, 0, 0, 1, 0) /\ Holds(6, 0)
    \/ On(5, 0, 0, 0, 1, 0) /\ Holds(6, 0) /\ Holds(1, 0)
    \/ On(6, 0, 0, 0, 1, 1) /\ Holds(6, 0)
    \/ On(7, 0, 0, 0, 1, 1) /\ Holds(1, 0)
    \/ On(8, 0, 0, 0, 1, 1)
    \/ On(9, 0, 0, 0, 1, 1)
    \/ Over(0, 0, 0, 1, 1)

\* and the one that keeps what it acquired.
LeakedRun ==
    \/ On(1, 0, 0, 0, 0, 0)
    \/ On(2, 0, 0, 0, 0, 0) /\ Holds(1, 0)
    \/ On(3, 0, 0, 0, 1, 0) /\ Holds(0, 0)
    \/ On(3, 1, 0, 0, 0, 0) /\ Sees(0, 1)
    \/ On(4, 1, 0, 0, 0, 0)
    \/ On(5, 1, 0, 0, 0, 0)
    \/ On(6, 1, 0, 0, 0, 0)
    \/ Over(1, 0, 0, 0, 0)
    \/ NonePart(5)

\* Whichever of these the program is, its run is at one of its places.
Slots == {0, -8, -16}

RunInv ==
    /\ \A a \in 6 .. 7, spill \in Slots, w \in 0 .. 1, e \in 0 .. 1 :
          Costs(spill, e) /\ ValidText(Text, a, spill, w, e) => ValidRun(a, spill, w, e)
    /\ NullText(Text) => NullRun
    /\ \A kind \in Aliased, e \in 0 .. 1 :
          Costs(ProbeSlot(kind), e) /\ AliasedText(Text, kind, e) =>
              AliasedRun(ProbeSlot(kind), e)
    /\ UntestedText(Text) => UntestedRun \/ NullUsedRun
    /\ LeakedText(Text) => LeakedRun

Underway == stage \in {"running", "accounting"}
UnderwayInv == Underway => RunInv

-----------------------------------------------------------------------------
\* One step of a run. Registers and slots that are not written keep what they hold.
Moves == Guest!Step \/ Guest!Stop

StillSees(d) == \A i : Sees(d, i) => Sees(d, i)'
StillHolds(d) == \A c : Holds(d, c) => Holds(d, c)'
SlotsStill == \A spill, i : Spilled(spill, i) => Spilled(spill, i)'

Same(d) == StillSees(d) /\ StillHolds(d)
AllBut(d) == SlotsStill /\ \A j \in 0 .. 10 : j # d => Same(j)
Saved == SlotsStill /\ \A j \in 6 .. 10 : Same(j)

\* A step is one of an instruction, and a stop at the exit.
LEMMA StepOrStop ==
    ASSUME Moves, NEW q, insn = q, NEW o, NEW d, NEW s, NEW i, Text[q] = AnInsn(o, d, s, i)
    PROVE  /\ o # "EXIT" => /\ Guest!Insn
                            /\ stage' = stage /\ before' = before /\ index' = index
           /\ o = "EXIT" => Guest!Stop
BY DEF Moves, Guest!Step, Guest!Stop, Guest!AtExit, Text, AnInsn

\* What is done follows from the operation.
LEMMA InsnByOp ==
    ASSUME Guest!Insn, NEW q, insn = q,
           NEW o, NEW d, NEW s, NEW i, Text[q] = AnInsn(o, d, s, i)
    PROVE  /\ o = "MOV_X" => Guest!To(registers[s], d)
           /\ o = "MOV_K" => Guest!To(i, d)
           /\ o = "LDX" => Guest!To(slots[i], d)
           /\ o = "STX" => /\ slots' = [slots EXCEPT ![i] = registers[s]]
                          /\ insn' = insn + 1
                          /\ UNCHANGED <<kernel, registers, misuse, refused>>
           /\ o = "JEQ" => /\ insn' = IF registers[0] = 0 THEN insn + 1 + i ELSE insn + 1
                          /\ UNCHANGED <<kernel, registers, slots, misuse, refused>>
           /\ o = "acquire" => Guest!Acquire
           /\ o = "read" => Guest!ReadValue
           /\ o = "release" => Guest!Release
<1> PICK g : g = Text[insn]
  OBVIOUS
<1>1. g.op = o /\ g.dst = d /\ g.src = s /\ g.imm = i
  BY DEF AnInsn
<1>2. ASSUME o = "MOV_X"
      PROVE  Guest!To(registers[s], d)
  BY <1>1, <1>2 DEF Guest!Insn, Text
<1>3. ASSUME o = "MOV_K"
      PROVE  Guest!To(i, d)
  BY <1>1, <1>3 DEF Guest!Insn, Text
<1>4. ASSUME o = "LDX"
      PROVE  Guest!To(slots[i], d)
  BY <1>1, <1>4 DEF Guest!Insn, Text
<1>5. ASSUME o = "STX"
      PROVE  /\ slots' = [slots EXCEPT ![i] = registers[s]]
             /\ insn' = insn + 1
             /\ UNCHANGED <<kernel, registers, misuse, refused>>
  BY <1>1, <1>5 DEF Guest!Insn, Text
<1>6. ASSUME o = "JEQ"
      PROVE  /\ insn' = IF registers[0] = 0 THEN insn + 1 + i ELSE insn + 1
             /\ UNCHANGED <<kernel, registers, slots, misuse, refused>>
  BY <1>1, <1>6 DEF Guest!Insn, Text
<1>7. ASSUME o = "acquire"
      PROVE  Guest!Acquire
  BY <1>1, <1>7 DEF Guest!Insn, Text
<1>8. ASSUME o = "read"
      PROVE  Guest!ReadValue
  BY <1>1, <1>8 DEF Guest!Insn, Text
<1>9. ASSUME o = "release"
      PROVE  Guest!Release
  BY <1>1, <1>9 DEF Guest!Insn, Text
<1> QED
  BY <1>2, <1>3, <1>4, <1>5, <1>6, <1>7, <1>8, <1>9

\* A register is written,
LEMMA ToMoves ==
    ASSUME NEW q \in Nat, NEW x, NEW y, NEW z, NEW u, NEW v, On(q, x, y, z, u, v),
           stage' = stage, before' = before, NEW d \in 0 .. 10, NEW h, Guest!To(h, d)
    PROVE  /\ On(q + 1, x, y, z, u, v)' /\ AllBut(d)
           /\ \A i : h = Ref(i) => Sees(d, i)'
           /\ \A c : h = c => Holds(d, c)'
<1>1. /\ registers' = [registers EXCEPT ![d] = h] /\ insn' = q + 1
      /\ kernel' = kernel /\ slots' = slots /\ misuse' = misuse /\ refused' = refused
  BY DEF Guest!To, On
<1>2. On(q + 1, x, y, z, u, v)'
  BY <1>1 DEF On, KernelIs
<1>3. registers'[d] = h /\ \A j \in 0 .. 10 : j # d => registers'[j] = registers[j]
  BY <1>1 DEF On
<1>4. \A i : Ref(i)' = Ref(i)
  BY DEF Ref
<1> QED
  BY <1>1, <1>2, <1>3, <1>4 DEF AllBut, Same, StillSees, StillHolds, SlotsStill, Sees, Holds, Spilled

\* by a copy, a constant, a load,
LEMMA MovMoves ==
    ASSUME Moves, NEW q \in Nat, NEW t, t = q + 1,
           NEW x, NEW y, NEW z, NEW u, NEW v, On(q, x, y, z, u, v),
           NEW d \in 0 .. 10, NEW s \in 0 .. 10, Text[q] = Mov(d, s)
    PROVE  /\ On(t, x, y, z, u, v)' /\ AllBut(d)
           /\ \A i : Sees(s, i) => Sees(d, i)'
           /\ \A c : Holds(s, c) => Holds(d, c)'
<1>1. insn = q
  BY DEF On
<1>2. Guest!Insn /\ stage' = stage /\ before' = before
  BY <1>1, StepOrStop DEF Mov
<1>3. Guest!To(registers[s], d)
  BY <1>1, <1>2, InsnByOp DEF Mov
<1>4. /\ On(q + 1, x, y, z, u, v)' /\ AllBut(d)
      /\ \A i : registers[s] = Ref(i) => Sees(d, i)'
      /\ \A c : registers[s] = c => Holds(d, c)'
  BY <1>2, <1>3, ToMoves
<1> QED
  BY <1>4 DEF Sees, Holds

\* A constant goes to its register and nothing else changes.
LEMMA ImmMoves ==
    ASSUME Moves, NEW q \in Nat, NEW t, t = q + 1,
           NEW x, NEW y, NEW z, NEW u, NEW v, On(q, x, y, z, u, v),
           NEW d \in 0 .. 10, NEW c, Text[q] = Imm(d, c)
    PROVE  On(t, x, y, z, u, v)' /\ AllBut(d) /\ Holds(d, c)'
<1>1. insn = q
  BY DEF On
<1>2. Guest!Insn /\ stage' = stage /\ before' = before
  BY <1>1, StepOrStop DEF Imm
<1>3. Guest!To(c, d)
  BY <1>1, <1>2, InsnByOp DEF Imm
<1> QED
  BY <1>2, <1>3, ToMoves

\* A reload brings back the handle that was spilled.
LEMMA ReloadMoves ==
    ASSUME Moves, NEW q \in Nat, NEW t, t = q + 1,
           NEW x, NEW y, NEW z, NEW u, NEW v, On(q, x, y, z, u, v),
           NEW spill \in Slots, spill # 0, Text[q] = Reload(spill)
    PROVE  /\ On(t, x, y, z, u, v)' /\ AllBut(8)
           /\ \A i : Kept(spill, i) => Sees(8, i)'
<1>1. insn = q /\ 8 \in 0 .. 10
  BY DEF On
<1>2. Guest!Insn /\ stage' = stage /\ before' = before
  BY <1>1, StepOrStop DEF Reload
<1>3. Guest!To(slots[spill], 8)
  BY <1>1, <1>2, InsnByOp DEF Reload
<1>4. /\ On(q + 1, x, y, z, u, v)' /\ AllBut(8)
      /\ \A i : slots[spill] = Ref(i) => Sees(8, i)'
  BY <1>1, <1>2, <1>3, ToMoves
<1> QED
  BY <1>4 DEF Kept, Spilled

\* or an alias is kept in r8 or in its slot.
LEMMA KeepMoves ==
    ASSUME Moves, NEW q \in Nat, NEW t, t = q + 1,
           NEW x, NEW y, NEW z, NEW u, NEW v, On(q, x, y, z, u, v),
           NEW a \in 6 .. 7, NEW spill \in Slots, Text[q] = Keep(a, spill)
    PROVE  /\ On(t, x, y, z, u, v)' /\ Same(a)
           /\ \A i : Sees(a, i) => Kept(spill, i)'
<1>1. CASE spill = 0
  <2>1. 8 \in 0 .. 10 /\ a \in 0 .. 10 /\ a # 8
    OBVIOUS
  <2>2. Text[q] = Mov(8, a)
    BY <1>1 DEF Keep
  <2>3. On(q + 1, x, y, z, u, v)' /\ AllBut(8) /\ \A i : Sees(a, i) => Sees(8, i)'
    BY <2>1, <2>2, MovMoves
  <2> QED
    BY <1>1, <2>1, <2>3 DEF AllBut, Kept
<1>2. CASE spill # 0
  <2>1. insn = q /\ spill \in {-8, -16}
    BY <1>2 DEF On, Slots
  <2>2. Text[q] = AnInsn("STX", 10, a, spill)
    BY <1>2 DEF Keep
  <2>3. Guest!Insn /\ stage' = stage /\ before' = before
    BY <2>1, <2>2, StepOrStop
  <2>4. /\ slots' = [slots EXCEPT ![spill] = registers[a]] /\ insn' = q + 1
        /\ kernel' = kernel /\ registers' = registers /\ misuse' = misuse
        /\ refused' = refused
    BY <2>1, <2>2, <2>3, InsnByOp
  <2>5. On(q + 1, x, y, z, u, v)'
    BY <2>3, <2>4 DEF On, KernelIs
  <2>6. slots'[spill] = registers[a] /\ \A i : Ref(i)' = Ref(i)
    BY <2>1, <2>3, <2>4 DEF On, Ref
  <2> QED
    BY <1>2, <2>4, <2>5, <2>6 DEF Same, StillSees, StillHolds, Kept, Spilled, Sees, Holds
<1> QED
  BY <1>1, <1>2

\* A branch is taken if r0 is zero,
JumpLeads(g, t, x, y, z, u, v) ==
    /\ Saved
    /\ Holds(0, 0) => On(g, x, y, z, u, v)'
    /\ \A i \in Nat : Sees(0, i) => On(t, x, y, z, u, v)' /\ Sees(0, i)'

\* A jump on null goes on at one of two places, as the result is null or not.
LEMMA JumpMoves ==
    ASSUME Moves, NEW q \in Nat, NEW t, t = q + 1,
           NEW x, NEW y, NEW z, NEW u, NEW v, On(q, x, y, z, u, v),
           NEW k, NEW g, g = t + k, Text[q] = Jump(k)
    PROVE  JumpLeads(g, t, x, y, z, u, v)
<1>1. insn = q
  BY DEF On
<1>2. Guest!Insn /\ stage' = stage /\ before' = before
  BY <1>1, StepOrStop DEF Jump
<1>3. /\ insn' = IF registers[0] = 0 THEN q + 1 + k ELSE q + 1
      /\ kernel' = kernel /\ registers' = registers /\ slots' = slots
      /\ misuse' = misuse /\ refused' = refused
  BY <1>1, <1>2, InsnByOp DEF Jump
<1>4. \A i \in Nat : Ref(i)' = Ref(i) /\ Ref(i) # 0
  BY <1>2 DEF Ref, Guest!Handle, On
<1>5. \A i : Ref(i)' = Ref(i)
  BY <1>2 DEF Ref
<1>6. Holds(0, 0) => On(q + 1 + k, x, y, z, u, v)'
  BY <1>2, <1>3 DEF On, KernelIs, Holds
<1>7. \A i \in Nat : Sees(0, i) => On(q + 1, x, y, z, u, v)'
  BY <1>2, <1>3, <1>4 DEF On, KernelIs, Sees
<1> QED
  BY <1>3, <1>5, <1>6, <1>7
     DEF JumpLeads, Saved, SlotsStill, Same, StillSees, StillHolds, Sees, Holds, Spilled

\* What any call does to registers and slots.
LEMMA CallKeeps ==
    ASSUME NEW q \in Nat, NEW x, NEW y, NEW z, NEW u, NEW v, On(q, x, y, z, u, v),
           before' = before, NEW h, Guest!Called(h)
    PROVE  /\ insn' = q + 1 /\ Saved /\ registers'[0] = h
           /\ DOMAIN registers' = 0 .. 10 /\ slots' = slots
<1>1. /\ registers' = [j \in 0 .. 10 |->
                          IF j = 0 THEN h ELSE IF j <= 5 THEN Guest!Unset ELSE registers[j]]
      /\ insn' = q + 1 /\ slots' = slots
  BY DEF Guest!Called, On
<1>2. \A i : Ref(i)' = Ref(i)
  BY DEF Ref
<1>3. \A j \in 6 .. 10 : registers'[j] = registers[j]
  BY <1>1
<1>4. registers'[0] = h /\ DOMAIN registers' = 0 .. 10
  BY <1>1
<1> QED
  BY <1>1, <1>2, <1>3, <1>4
     DEF Saved, SlotsStill, Same, StillSees, StillHolds, Sees, Holds, Spilled

\* An acquisition returns NULL if asked to, or if memory is refused,
LEMMA AcquireNullMoves ==
    ASSUME Moves, NEW q \in Nat, NEW t, t = q + 1,
           NEW x, NEW y, NEW z, NEW u, NEW v, On(q, x, y, z, u, v),
           Text[q] = Op("acquire"), Holds(1, 1)
    PROVE  On(t, x, y, z, u, v)' /\ Saved /\ Holds(0, 0)'
<1>1. insn = q /\ registers[1] = 1
  BY DEF On, Holds
<1>2. Guest!Insn /\ stage' = stage /\ before' = before
  BY <1>1, StepOrStop DEF Op
<1>3. Guest!Acquire
  BY <1>1, <1>2, InsnByOp DEF Op
<1>4. Guest!Called(0) /\ kernel' = kernel /\ misuse' = misuse /\ refused' = refused
  BY <1>1, <1>3 DEF Guest!Acquire
<1>5. /\ insn' = q + 1 /\ Saved /\ registers'[0] = 0
      /\ DOMAIN registers' = 0 .. 10 /\ slots' = slots
  BY <1>2, <1>4, CallKeeps
<1> QED
  BY <1>2, <1>4, <1>5 DEF On, KernelIs, Holds

\* and otherwise makes one acquisition more.
LEMMA KernelAcquires ==
    ASSUME NEW x \in Nat, NEW y \in Nat, NEW z \in Nat, KernelIs(x, y, z), y <= x,
           before.acquisitions \in Nat, before' = before,
           NEW g, g = kernel.acquisitions + 1,
           kernel' = [kernel EXCEPT !.refs = @ + 1, !.acquisitions = g,
                                    !.handles = @ \cup {g}]
    PROVE  KernelIs(x + 1, y, z)' /\ g = before.acquisitions + (x + 1)
<1>1. g = before.acquisitions + (x + 1) /\ g \in Nat
  BY DEF KernelIs
<1>2. /\ kernel' \in Counters /\ kernel'.refs = kernel.refs + 1
      /\ kernel'.acquisitions = g /\ kernel'.releases = kernel.releases
      /\ kernel'.reads = kernel.reads /\ kernel'.handles = kernel.handles \cup {g}
  <2>1. kernel \in Counters
    BY DEF KernelIs
  <2>2. kernel.handles \cup {g} \in SUBSET Int /\ kernel.refs + 1 \in Int
    BY <1>1, <2>1 DEF Counters
  <2> PICK h, b : h = kernel.handles \cup {g} /\ b = kernel.refs + 1
    OBVIOUS
  <2>3. kernel' = [kernel EXCEPT !.refs = b, !.acquisitions = g, !.handles = h]
    OBVIOUS
  <2> QED
    BY <1>1, <2>1, <2>2, <2>3 DEF Counters
<1>3. kernel'.handles = before.acquisitions + y + 1 .. before.acquisitions + (x + 1)
  <2> PICK c \in Nat : c = before.acquisitions
    OBVIOUS
  <2>1. (c + y + 1 .. c + x) \cup {c + (x + 1)} = c + y + 1 .. c + (x + 1)
    OBVIOUS
  <2> QED
    BY <1>1, <1>2, <2>1 DEF KernelIs
<1> QED
  BY <1>1, <1>2, <1>3, SMTT(30) DEF KernelIs

AcquireLeads(t, g, x, y, z, u, v) ==
    /\ Saved
    /\ \/ On(t, x, y, z, 1, v)' /\ Holds(0, 0)'
       \/ On(t, g, y, z, u, v)' /\ Sees(0, g)'

\* An acquisition gives the next handle, or null and nothing else.
LEMMA AcquireMoves ==
    ASSUME Moves, NEW q \in Nat, NEW t, t = q + 1,
           NEW x \in Nat, NEW y \in Nat, NEW z \in Nat, NEW u, NEW v,
           On(q, x, y, z, u, v), y <= x, NEW g, g = x + 1, Text[q] = Op("acquire"), Holds(1, 0)
    PROVE  AcquireLeads(t, g, x, y, z, u, v)
<1>1. insn = q /\ registers[1] = 0 /\ before.acquisitions \in Nat /\ KernelIs(x, y, z)
  BY DEF On, Holds
<1>2. Guest!Insn /\ stage' = stage /\ before' = before
  BY <1>1, StepOrStop DEF Op
<1>3. Guest!Acquire
  BY <1>1, <1>2, InsnByOp DEF Op
<1>4. CASE Guest!Called(0) /\ refused' = TRUE /\ kernel' = kernel /\ misuse' = misuse
  <2>1. /\ insn' = q + 1 /\ Saved /\ registers'[0] = 0
        /\ DOMAIN registers' = 0 .. 10 /\ slots' = slots
    BY <1>2, <1>4, CallKeeps
  <2>2. On(q + 1, x, y, z, 1, v)' /\ Holds(0, 0)'
    BY <1>2, <1>4, <2>1 DEF On, KernelIs, Holds
  <2> QED
    BY <2>1, <2>2 DEF AcquireLeads
<1> PICK b : b = kernel.acquisitions + 1
  OBVIOUS
<1>5. CASE /\ kernel' = [kernel EXCEPT !.refs = @ + 1, !.acquisitions = b,
                                       !.handles = @ \cup {b}]
           /\ Guest!Called(Guest!Handle(b)) /\ misuse' = misuse /\ refused' = refused
  <2>1. /\ insn' = q + 1 /\ Saved /\ registers'[0] = Guest!Handle(b)
        /\ DOMAIN registers' = 0 .. 10 /\ slots' = slots
    BY <1>2, <1>5, CallKeeps
  <2>2. KernelIs(x + 1, y, z)' /\ b = before.acquisitions + (x + 1)
    BY <1>1, <1>2, <1>5, KernelAcquires
  <2>3. On(q + 1, x + 1, y, z, u, v)'
    BY <1>2, <1>5, <2>1, <2>2 DEF On
  <2>4. Sees(0, x + 1)'
    BY <1>2, <2>1, <2>2 DEF Sees, Ref
  <2> QED
    BY <2>1, <2>3, <2>4 DEF AcquireLeads
<1> QED
  BY <1>1, <1>3, <1>4, <1>5 DEF Guest!Acquire

\* A read of a live handle is counted.
IsLive(i, x, y) == i \in y + 1 .. x

\* A handle that is live is the argument the kernel function sees.
LEMMA ArgumentLive ==
    ASSUME NEW x \in Nat, NEW y \in Nat, NEW z, KernelIs(x, y, z),
           before.acquisitions \in Nat, NEW i \in Nat, Sees(1, i), IsLive(i, x, y)
    PROVE  Guest!Argument = {before.acquisitions + i}
<1> PICK c \in Nat : c = before.acquisitions
  OBVIOUS
<1>1. c + i \in c + y + 1 .. c + x
  BY DEF IsLive
<1>2. \A g \in c + y + 1 .. c + x : 1000 + (c + i) = 1000 + g <=> g = c + i
  OBVIOUS
<1>3. kernel.handles = c + y + 1 .. c + x /\ registers[1] = 1000 + (c + i)
  BY DEF KernelIs, Sees, Ref, Guest!Handle
<1>4. \A g \in kernel.handles : registers[1] = Guest!Handle(g) <=> g = c + i
  BY <1>2, <1>3 DEF Guest!Handle
<1>5. c + i \in kernel.handles
  BY <1>1, <1>3
<1> QED
  BY <1>4, <1>5, Zenon DEF Guest!Argument

\* There is no handle in r1 that is not live.
Gone(x, y) ==
    \/ Holds(1, 0)
    \/ \E i \in Nat : Sees(1, i) /\ i <= y

\* When all handles are released no argument is seen.
LEMMA ArgumentGone ==
    ASSUME NEW x \in Nat, NEW y \in Nat, NEW z, KernelIs(x, y, z),
           before.acquisitions \in Nat, Gone(x, y)
    PROVE  Guest!Argument = {}
<1> PICK c \in Nat : c = before.acquisitions
  OBVIOUS
<1>1. kernel.handles = c + y + 1 .. c + x
  BY DEF KernelIs
<1>2. ASSUME NEW g \in kernel.handles PROVE registers[1] # Guest!Handle(g)
  <2>1. g \in Nat /\ g > c + y /\ 1000 + g # 0
    BY <1>1
  <2>2. CASE Holds(1, 0)
    BY <2>1, <2>2 DEF Holds, Guest!Handle
  <2>3. ASSUME NEW i \in Nat, Sees(1, i), i <= y PROVE registers[1] # Guest!Handle(g)
    <3>1. 1000 + (c + i) # 1000 + g
      BY <2>1, <2>3
    <3> QED
      BY <2>3, <3>1 DEF Sees, Ref, Guest!Handle
  <2> QED
    BY <2>2, <2>3 DEF Gone
<1> QED
  BY <1>2 DEF Guest!Argument

\* A read of a live handle returns 42 and counts once.
LEMMA ReadMoves ==
    ASSUME Moves, NEW q \in Nat, NEW t, t = q + 1,
           NEW x \in Nat, NEW y \in Nat, NEW z \in Nat, NEW u, NEW v,
           On(q, x, y, z, u, v), Text[q] = Op("read"),
           NEW i \in Nat, Sees(1, i), NEW g, g = z + 1, IsLive(i, x, y)
    PROVE  On(t, x, y, g, u, v)' /\ Saved /\ Holds(0, 42)'
<1>1. insn = q /\ before.acquisitions \in Nat /\ before.reads \in Nat /\ KernelIs(x, y, z)
  BY DEF On
<1>2. Guest!Insn /\ stage' = stage /\ before' = before
  BY <1>1, StepOrStop DEF Op
<1>3. Guest!ReadValue
  BY <1>1, <1>2, InsnByOp DEF Op
<1>4. Guest!Argument # {}
  BY <1>1, ArgumentLive
<1>5. /\ kernel' = [kernel EXCEPT !.reads = @ + 1] /\ misuse' = (misuse \/ FALSE)
      /\ Guest!Called(42) /\ refused' = refused
  BY <1>3, <1>4 DEF Guest!ReadValue, Guest!FieldValue
<1>6. /\ insn' = q + 1 /\ Saved /\ registers'[0] = 42
      /\ DOMAIN registers' = 0 .. 10 /\ slots' = slots
  BY <1>2, <1>5, CallKeeps
<1>7. KernelIs(x, y, z + 1)'
  <2>1. kernel \in Counters /\ kernel.reads + 1 \in Nat /\ kernel.reads = before.reads + z
    <3>1. kernel \in Counters /\ kernel.reads = before.reads + z
      BY <1>1 DEF KernelIs
    <3>2. kernel.reads \in Nat
      BY <3>1 DEF Counters
    <3> QED
      BY <3>1, <3>2
  <2>2. /\ kernel' \in Counters /\ kernel'.refs = kernel.refs
        /\ kernel'.acquisitions = kernel.acquisitions
        /\ kernel'.releases = kernel.releases /\ kernel'.handles = kernel.handles
        /\ kernel'.reads = kernel.reads + 1
    BY <1>5, <2>1 DEF Counters
  <2>3. kernel'.reads = before.reads + (z + 1)
    BY <1>1, <2>1, <2>2
  <2> QED
    BY <1>1, <1>2, <2>2, <2>3 DEF KernelIs
<1>8. misuse' = misuse
  <2>1. misuse = (v = 1)
    BY DEF On
  <2> QED
    BY <1>5, <2>1, Zenon
<1> QED
  BY <1>2, <1>5, <1>6, <1>7, <1>8 DEF On, Holds

\* A release ends the oldest acquisition that is live.
LEMMA ReleaseMoves ==
    ASSUME Moves, NEW q \in Nat, NEW t, t = q + 1,
           NEW x \in Nat, NEW y \in Nat, NEW z \in Nat, NEW u, NEW v,
           On(q, x, y, z, u, v), Text[q] = Op("release"), y < x, NEW g, g = y + 1, Sees(1, g)
    PROVE  On(t, x, g, z, u, v)' /\ Saved
<1>1. /\ insn = q /\ before.acquisitions \in Nat /\ KernelIs(x, y, z)
      /\ y + 1 \in Nat /\ IsLive(y + 1, x, y)
  BY DEF On, IsLive
<1>2. Guest!Insn /\ stage' = stage /\ before' = before
  BY <1>1, StepOrStop DEF Op
<1>3. Guest!Release
  BY <1>1, <1>2, InsnByOp DEF Op
<1> PICK c \in Nat : c = before.acquisitions
  BY <1>1
<1>4. Guest!Argument = {c + (y + 1)}
  BY <1>1, ArgumentLive
<1>5. /\ kernel' = [kernel EXCEPT !.refs = @ - 1, !.releases = @ + 1,
                                  !.handles = @ \ {c + (y + 1)}]
      /\ misuse' = (misuse \/ FALSE) /\ Guest!Called(Guest!Unset) /\ refused' = refused
  BY <1>3, <1>4 DEF Guest!Release
<1>6. /\ insn' = q + 1 /\ Saved /\ DOMAIN registers' = 0 .. 10 /\ slots' = slots
  BY <1>2, <1>5, CallKeeps
<1>7. KernelIs(x, y + 1, z)'
  <2>1. /\ kernel \in Counters /\ kernel.releases = c + y
        /\ kernel.refs = 1 + x - y /\ kernel.handles = c + y + 1 .. c + x
    BY <1>1 DEF KernelIs
  <2>2. (c + y + 1 .. c + x) \ {c + (y + 1)} = c + (y + 1) + 1 .. c + x
    <3> PICK b \in Int, h \in Int : b = c + (y + 1) /\ h = c + x
      OBVIOUS
    <3>1. (b .. h) \ {b} = b + 1 .. h
      OBVIOUS
    <3>2. c + y + 1 = b
      OBVIOUS
    <3> QED
      BY <3>1, <3>2
  <2>3. kernel.refs - 1 = 1 + x - (y + 1) /\ kernel.releases + 1 = c + (y + 1)
    <3>1. kernel.refs = 1 + x - y /\ kernel.releases = c + y
      BY <2>1
    <3>2. kernel.refs - 1 = 1 + x - (y + 1)
      BY <3>1
    <3>3. kernel.releases + 1 = c + (y + 1)
      BY <3>1
    <3> QED
      BY <3>2, <3>3
  <2> PICK h, b, i : /\ h = c + (y + 1) + 1 .. c + x /\ b = 1 + x - (y + 1)
                     /\ i = c + (y + 1)
    OBVIOUS
  <2>4. kernel' = [kernel EXCEPT !.refs = b, !.releases = i, !.handles = h]
    BY <1>5, <2>1, <2>2, <2>3
  <2>5. h \in SUBSET Int /\ b \in Int /\ i \in Nat
    OBVIOUS
  <2>6. /\ kernel' \in Counters /\ kernel'.refs = b /\ kernel'.releases = i
        /\ kernel'.handles = h /\ kernel'.acquisitions = kernel.acquisitions
        /\ kernel'.reads = kernel.reads
    BY <2>1, <2>4, <2>5 DEF Counters
  <2> QED
    BY <1>1, <1>2, <2>6 DEF KernelIs
<1>8. misuse' = misuse
  <2>1. misuse = (v = 1)
    BY DEF On
  <2> QED
    BY <1>5, <2>1, Zenon
<1> QED
  BY <1>2, <1>5, <1>6, <1>7, <1>8 DEF On

\* Either of them without a live handle is a misuse.
LEMMA MisuseMoves ==
    ASSUME Moves, NEW q \in Nat, NEW t, t = q + 1,
           NEW x \in Nat, NEW y \in Nat, NEW z \in Nat, NEW u, NEW v,
           On(q, x, y, z, u, v), NEW o \in {"read", "release"}, Text[q] = Op(o), Gone(x, y)
    PROVE  On(t, x, y, z, u, 1)' /\ Saved
<1>1. insn = q /\ before.acquisitions \in Nat /\ KernelIs(x, y, z)
  BY DEF On
<1>2. Guest!Insn /\ stage' = stage /\ before' = before
  BY <1>1, StepOrStop DEF Op
<1>3. Guest!ReadValue \/ Guest!Release
  BY <1>1, <1>2, InsnByOp DEF Op
<1>4. Guest!Argument = {}
  BY <1>1, ArgumentGone
<1>5. /\ kernel' = kernel /\ misuse' = (misuse \/ TRUE) /\ refused' = refused
      /\ \E h : Guest!Called(h)
  BY <1>3, <1>4 DEF Guest!ReadValue, Guest!Release
<1>6. /\ insn' = q + 1 /\ Saved /\ DOMAIN registers' = 0 .. 10 /\ slots' = slots
  BY <1>2, <1>5, CallKeeps
<1>7. misuse' = TRUE
  BY <1>5
<1> QED
  BY <1>1, <1>2, <1>5, <1>6, <1>7 DEF On, KernelIs

\* At an exit the run is over.
LEMMA ExitMoves ==
    ASSUME Moves, NEW q \in Nat, NEW x, NEW y, NEW z, NEW u, NEW v,
           On(q, x, y, z, u, v), Text[q] = Op("EXIT")
    PROVE  Over(x, y, z, u, v)' /\ \A c : Holds(0, c) => Holds(0, c)'
<1>1. Guest!Stop
  BY StepOrStop DEF Op, On
<1> QED
  BY <1>1 DEF Guest!Stop, On, Over, KernelIs, Holds

\* and there it stays.
LEMMA OverStays ==
    ASSUME Moves, NEW x, NEW y, NEW z, NEW u, NEW v, Over(x, y, z, u, v)
    PROVE  FALSE
BY DEF Moves, Guest!Step, Guest!Stop, Over

-----------------------------------------------------------------------------
\* A program of two acquisitions moves from place to place: up to the second one,
LEMMA FirstMoves ==
    ASSUME Moves, NEW a \in 6 .. 7, NEW spill \in Slots, NEW w \in 0 .. 1, NEW e \in 0 .. 1,
           Costs(spill, e), ValidText(Text, a, spill, w, e), FirstPart(a, spill, w)
    PROVE  ValidRun(a, spill, w, e)'
<1>1. /\ 1 + 1 = 2 /\ 2 + 1 = 3 /\ 3 + 1 = 4 /\ 4 + 1 = 5 /\ 5 + 1 = 6 /\ 6 + 1 = 7 /\ 7 + 1 = 8
      /\ 8 + 1 = 9 /\ 4 + (19 + 2 * e) = 23 + 2 * e /\ 9 + (10 + e) = 19 + e
  OBVIOUS
<1>2. /\ 0 \in 0 .. 10 /\ 1 \in 0 .. 10 /\ a \in 0 .. 10 /\ 8 \in 0 .. 10 /\ a # 0
      /\ 0 \in Nat /\ 1 \in Nat /\ 2 \in Nat /\ 0 + 1 = 1 /\ 1 + 1 = 2 /\ 0 <= 0 /\ 0 <= 1
      /\ 8 # 1 /\ 8 \in 6 .. 10
  OBVIOUS
<1>3. CASE On(1, 0, 0, 0, 0, 0)
  <2>1. Text[1] = Imm(1, 0)
    BY DEF ValidText
  <2>2. On(2, 0, 0, 0, 0, 0)' /\ Holds(1, 0)'
    BY <1>1, <1>2, <1>3, <2>1, ImmMoves
  <2> QED
    BY <2>2 DEF ValidRun, FirstPart
<1>4. CASE On(2, 0, 0, 0, 0, 0) /\ Holds(1, 0)
  <2>1. Text[2] = Op("acquire")
    BY DEF ValidText
  <2>2. AcquireLeads(3, 1, 0, 0, 0, 0, 0)
    BY <1>1, <1>2, <1>4, <2>1, AcquireMoves
  <2> QED
    BY <2>2 DEF AcquireLeads, ValidRun, FirstPart
<1>5. CASE On(3, 0, 0, 0, 1, 0) /\ Holds(0, 0)
  <2>1. Text[3] = Jump(19 + 2 * e)
    BY DEF ValidText
  <2>2. JumpLeads(23 + 2 * e, 4, 0, 0, 0, 1, 0)
    BY <1>1, <1>2, <1>5, <2>1, JumpMoves
  <2>3. On(23 + 2 * e, 0, 0, 0, 1, 0)'
    BY <1>5, <2>2 DEF JumpLeads
  <2> QED
    BY <2>3 DEF ValidRun, NonePart
<1>6. CASE On(3, 1, 0, 0, 0, 0) /\ Sees(0, 1)
  <2>1. Text[3] = Jump(19 + 2 * e)
    BY DEF ValidText
  <2>2. JumpLeads(23 + 2 * e, 4, 1, 0, 0, 0, 0)
    BY <1>1, <1>2, <1>6, <2>1, JumpMoves
  <2>3. On(4, 1, 0, 0, 0, 0)' /\ Sees(0, 1)'
    BY <1>2, <1>6, <2>2 DEF JumpLeads
  <2> QED
    BY <2>3 DEF ValidRun, FirstPart
<1>7. CASE On(4, 1, 0, 0, 0, 0) /\ Sees(0, 1)
  <2>1. Text[4] = Mov(a, 0)
    BY DEF ValidText
  <2>2. On(5, 1, 0, 0, 0, 0)' /\ Sees(a, 1)'
    BY <1>1, <1>2, <1>7, <2>1, MovMoves
  <2> QED
    BY <2>2 DEF ValidRun, FirstPart
<1>8. CASE On(5, 1, 0, 0, 0, 0) /\ Sees(a, 1)
  <2>1. Text[5] = Keep(a, spill)
    BY DEF ValidText
  <2>2. On(6, 1, 0, 0, 0, 0)' /\ Kept(spill, 1)'
    BY <1>1, <1>2, <1>8, <2>1, KeepMoves
  <2> QED
    BY <2>2 DEF ValidRun, FirstPart
<1>9. CASE On(6, 1, 0, 0, 0, 0) /\ Kept(spill, 1)
  <2>1. Text[6] = Imm(1, w)
    BY DEF ValidText
  <2>2. On(7, 1, 0, 0, 0, 0)' /\ AllBut(1) /\ Holds(1, w)'
    BY <1>1, <1>2, <1>9, <2>1, ImmMoves
  <2>3. Kept(spill, 1)'
    BY <1>2, <1>9, <2>2 DEF AllBut, Same, StillSees, SlotsStill, Kept
  <2> QED
    BY <2>2, <2>3 DEF ValidRun, FirstPart
<1>10. CASE On(7, 1, 0, 0, 0, 0) /\ Kept(spill, 1) /\ Holds(1, w)
  <2>1. Text[7] = Op("acquire")
    BY DEF ValidText
  <2>2. ASSUME Saved PROVE Kept(spill, 1)'
    BY <1>2, <1>10, <2>2 DEF Saved, Same, StillSees, SlotsStill, Kept
  <2>3. CASE w = 1
    <3>1. On(8, 1, 0, 0, 0, 0)' /\ Saved /\ Holds(0, 0)'
      BY <1>1, <1>2, <1>10, <2>1, <2>3, AcquireNullMoves
    <3>2. 1 - w = 0
      BY <2>3
    <3>3. On(8, 1, 0, 0, 1 - w, 0)'
      BY <3>1, <3>2
    <3> QED
      BY <2>2, <3>1, <3>3 DEF ValidRun, FirstPart
  <2>4. CASE w = 0
    <3>1. AcquireLeads(8, 2, 1, 0, 0, 0, 0)
      BY <1>1, <1>2, <1>10, <2>1, <2>4, AcquireMoves
    <3>2. 1 - w = 1
      BY <2>4
    <3>3. On(8, 1, 0, 0, 1, 0)' => On(8, 1, 0, 0, 1 - w, 0)'
      BY <3>2
    <3> QED
      BY <2>2, <2>4, <3>1, <3>3 DEF AcquireLeads, ValidRun, FirstPart
  <2> QED
    BY <2>3, <2>4
<1>11. CASE On(8, 1, 0, 0, 1 - w, 0) /\ Kept(spill, 1) /\ Holds(0, 0)
  <2>1. Text[8] = Jump(10 + e)
    BY DEF ValidText
  <2>2. JumpLeads(19 + e, 9, 1, 0, 0, 1 - w, 0)
    BY <1>1, <1>2, <1>11, <2>1, JumpMoves
  <2>3. On(19 + e, 1, 0, 0, 1 - w, 0)' /\ Kept(spill, 1)'
    BY <1>2, <1>11, <2>2 DEF JumpLeads, Saved, Same, StillSees, SlotsStill, Kept
  <2>4. CASE spill # 0
    BY <2>3, <2>4 DEF ValidRun, OnePart
  <2>5. CASE spill = 0
    <3>1. 19 + e = 19 + 2 * e
      BY <2>5 DEF Costs
    <3>2. Sees(8, 1)'
      BY <2>3, <2>5 DEF Kept
    <3> QED
      BY <2>3, <3>1, <3>2 DEF ValidRun, OnePart
  <2> QED
    BY <2>4, <2>5
<1>12. CASE On(8, 2, 0, 0, 0, 0) /\ Kept(spill, 1) /\ Sees(0, 2) /\ w = 0
  <2>1. Text[8] = Jump(10 + e)
    BY DEF ValidText
  <2>2. JumpLeads(19 + e, 9, 2, 0, 0, 0, 0)
    BY <1>1, <1>2, <1>12, <2>1, JumpMoves
  <2>3. On(9, 2, 0, 0, 0, 0)' /\ Kept(spill, 1)' /\ Sees(0, 2)'
    BY <1>2, <1>12, <2>2 DEF JumpLeads, Saved, Same, StillSees, SlotsStill, Kept
  <2> QED
    BY <1>12, <2>3 DEF ValidRun, BothPart
<1> QED
  BY <1>3, <1>4, <1>5, <1>6, <1>7, <1>8, <1>9, <1>10, <1>11, <1>12 DEF FirstPart

\* from there with both acquisitions,
LEMMA BothMoves ==
    ASSUME Moves, NEW a \in 6 .. 7, NEW spill \in Slots, NEW w \in 0 .. 1, NEW e \in 0 .. 1,
           Costs(spill, e), ValidText(Text, a, spill, w, e), BothPart(13 - a, spill, w, e)
    PROVE  ValidRun(a, spill, w, e)'
<1> PICK b \in 6 .. 7 : b = 13 - a
  OBVIOUS
<1>1. /\ 9 + 1 = 10 /\ 10 + 1 = 10 + 1 /\ 10 + e + 1 = 11 + e /\ 11 + e + 1 = 12 + e
      /\ 12 + e + 1 = 13 + e /\ 13 + e + 1 = 14 + e /\ 14 + e + 1 = 15 + e
      /\ 15 + e + 1 = 16 + e /\ 16 + e + 1 = 17 + e /\ 17 + e + 1 = 18 + e
  OBVIOUS
<1>2. /\ 9 \in Nat /\ 10 \in Nat /\ 10 + e \in Nat /\ 11 + e \in Nat /\ 12 + e \in Nat
      /\ 13 + e \in Nat /\ 14 + e \in Nat /\ 15 + e \in Nat /\ 16 + e \in Nat
      /\ 17 + e \in Nat /\ 18 + e \in Nat
  OBVIOUS
<1>3. /\ 0 \in 0 .. 10 /\ 1 \in 0 .. 10 /\ 8 \in 0 .. 10 /\ 9 \in 0 .. 10 /\ b \in 0 .. 10
      /\ b # 0 /\ b # 1 /\ b # 8 /\ b # 9 /\ b \in 6 .. 10 /\ 9 \in 6 .. 10 /\ 8 \in 6 .. 10
      /\ 9 # 1 /\ 8 # b
  OBVIOUS
<1>4. /\ 0 \in Nat /\ 1 \in Nat /\ 2 \in Nat /\ 0 + 1 = 1 /\ 1 + 1 = 2 /\ 0 < 2 /\ 1 < 2
      /\ IsLive(2, 2, 1)
  BY DEF IsLive
<1> w = 0
  BY DEF BothPart
<1>5. CASE On(9, 2, 0, 0, 0, 0) /\ Kept(spill, 1) /\ Sees(0, 2)
  <2>1. Text[9] = Mov(b, 0)
    BY DEF ValidText
  <2>2. On(10, 2, 0, 0, 0, 0)' /\ AllBut(b) /\ Sees(b, 2)'
    BY <1>1, <1>2, <1>3, <1>5, <2>1, MovMoves
  <2>3. Kept(spill, 1)'
    BY <1>3, <1>5, <2>2 DEF AllBut, Same, StillSees, SlotsStill, Kept
  <2>4. CASE spill # 0
    BY <2>2, <2>3, <2>4 DEF ValidRun, BothPart
  <2>5. CASE spill = 0
    <3>1. 10 = 10 + e
      BY <2>5 DEF Costs
    <3>2. Sees(8, 1)'
      BY <2>3, <2>5 DEF Kept
    <3> QED
      BY <2>2, <3>1, <3>2 DEF ValidRun, BothPart
  <2> QED
    BY <2>4, <2>5
<1>6. CASE On(10, 2, 0, 0, 0, 0) /\ Kept(spill, 1) /\ Sees(b, 2) /\ spill # 0
  <2>1. Text[10] = Reload(spill)
    BY <1>6 DEF ValidText
  <2>2. 10 + e = 10 + 1
    BY <1>6 DEF Costs
  <2>3. On(10 + e, 2, 0, 0, 0, 0)' /\ AllBut(8) /\ Sees(8, 1)'
    BY <1>2, <1>6, <2>1, <2>2, ReloadMoves
  <2>4. Sees(b, 2)'
    BY <1>3, <1>6, <2>3 DEF AllBut, Same, StillSees
  <2> QED
    BY <2>3, <2>4 DEF ValidRun, BothPart
<1>7. CASE On(10 + e, 2, 0, 0, 0, 0) /\ Sees(8, 1) /\ Sees(b, 2)
  <2>1. Text[10 + e] = Mov(1, 8)
    BY DEF ValidText
  <2>2. On(11 + e, 2, 0, 0, 0, 0)' /\ AllBut(1) /\ Sees(1, 1)'
    BY <1>1, <1>2, <1>3, <1>7, <2>1, MovMoves
  <2>3. Sees(b, 2)'
    BY <1>3, <1>7, <2>2 DEF AllBut, Same, StillSees
  <2> QED
    BY <2>2, <2>3 DEF ValidRun, BothPart
<1>8. CASE On(11 + e, 2, 0, 0, 0, 0) /\ Sees(1, 1) /\ Sees(b, 2)
  <2>1. Text[11 + e] = Op("release")
    BY DEF ValidText
  <2>2. On(12 + e, 2, 1, 0, 0, 0)' /\ Saved
    BY <1>1, <1>2, <1>4, <1>8, <2>1, ReleaseMoves
  <2>3. Sees(b, 2)'
    BY <1>3, <1>8, <2>2 DEF Saved, Same, StillSees
  <2> QED
    BY <2>2, <2>3 DEF ValidRun, BothPart
<1>9. CASE On(12 + e, 2, 1, 0, 0, 0) /\ Sees(b, 2)
  <2>1. Text[12 + e] = Mov(1, b)
    BY DEF ValidText
  <2>2. On(13 + e, 2, 1, 0, 0, 0)' /\ AllBut(1) /\ Sees(1, 2)'
    BY <1>1, <1>2, <1>3, <1>9, <2>1, MovMoves
  <2>3. Sees(b, 2)'
    BY <1>3, <1>9, <2>2 DEF AllBut, Same, StillSees
  <2> QED
    BY <2>2, <2>3 DEF ValidRun, BothPart
<1>10. CASE On(13 + e, 2, 1, 0, 0, 0) /\ Sees(1, 2) /\ Sees(b, 2)
  <2>1. Text[13 + e] = Op("read")
    BY DEF ValidText
  <2>2. On(14 + e, 2, 1, 1, 0, 0)' /\ Saved /\ Holds(0, 42)'
    BY <1>1, <1>2, <1>4, <1>10, <2>1, ReadMoves
  <2>3. Sees(b, 2)'
    BY <1>3, <1>10, <2>2 DEF Saved, Same, StillSees
  <2> QED
    BY <2>2, <2>3 DEF ValidRun, BothPart
<1>11. CASE On(14 + e, 2, 1, 1, 0, 0) /\ Holds(0, 42) /\ Sees(b, 2)
  <2>1. Text[14 + e] = Mov(9, 0)
    BY DEF ValidText
  <2>2. On(15 + e, 2, 1, 1, 0, 0)' /\ AllBut(9) /\ Holds(9, 42)'
    BY <1>1, <1>2, <1>3, <1>11, <2>1, MovMoves
  <2>3. Sees(b, 2)'
    BY <1>3, <1>11, <2>2 DEF AllBut, Same, StillSees
  <2> QED
    BY <2>2, <2>3 DEF ValidRun, BothPart
<1>12. CASE On(15 + e, 2, 1, 1, 0, 0) /\ Holds(9, 42) /\ Sees(b, 2)
  <2>1. Text[15 + e] = Mov(1, b)
    BY DEF ValidText
  <2>2. On(16 + e, 2, 1, 1, 0, 0)' /\ AllBut(1) /\ Sees(1, 2)'
    BY <1>1, <1>2, <1>3, <1>12, <2>1, MovMoves
  <2>3. Holds(9, 42)'
    BY <1>3, <1>12, <2>2 DEF AllBut, Same, StillHolds
  <2> QED
    BY <2>2, <2>3 DEF ValidRun, BothPart
<1>13. CASE On(16 + e, 2, 1, 1, 0, 0) /\ Holds(9, 42) /\ Sees(1, 2)
  <2>1. Text[16 + e] = Op("release")
    BY DEF ValidText
  <2>2. On(17 + e, 2, 2, 1, 0, 0)' /\ Saved
    BY <1>1, <1>2, <1>4, <1>13, <2>1, ReleaseMoves
  <2>3. Holds(9, 42)'
    BY <1>3, <1>13, <2>2 DEF Saved, Same, StillHolds
  <2> QED
    BY <2>2, <2>3 DEF ValidRun, BothPart
<1>14. CASE On(17 + e, 2, 2, 1, 0, 0) /\ Holds(9, 42)
  <2>1. Text[17 + e] = Mov(0, 9)
    BY DEF ValidText
  <2>2. On(18 + e, 2, 2, 1, 0, 0)' /\ Holds(0, 42)'
    BY <1>1, <1>2, <1>3, <1>14, <2>1, MovMoves
  <2> QED
    BY <2>2 DEF ValidRun, BothPart
<1>15. CASE On(18 + e, 2, 2, 1, 0, 0) /\ Holds(0, 42)
  <2>1. Text[18 + e] = Op("EXIT")
    BY DEF ValidText
  <2>2. Over(2, 2, 1, 0, 0)' /\ Holds(0, 42)'
    BY <1>2, <1>15, <2>1, ExitMoves
  <2> QED
    BY <2>2 DEF ValidRun, BothPart
<1>16. CASE Over(2, 2, 1, 0, 0)
  BY <1>16, OverStays
<1> QED
  BY <1>5, <1>6, <1>7, <1>8, <1>9, <1>10, <1>11, <1>12, <1>13, <1>14, <1>15, <1>16 DEF BothPart

\* with one only,
LEMMA OneMoves ==
    ASSUME Moves, NEW a \in 6 .. 7, NEW spill \in Slots, NEW w \in 0 .. 1, NEW e \in 0 .. 1,
           Costs(spill, e), ValidText(Text, a, spill, w, e), OnePart(spill, w, e)
    PROVE  ValidRun(a, spill, w, e)'
<1>1. /\ 19 + 2 * e + 1 = 20 + 2 * e /\ 20 + 2 * e + 1 = 21 + 2 * e
      /\ 21 + 2 * e + 1 = 22 + 2 * e
  OBVIOUS
<1>2. /\ 19 + e \in Nat /\ 19 + 2 * e \in Nat /\ 20 + 2 * e \in Nat /\ 21 + 2 * e \in Nat
      /\ 22 + 2 * e \in Nat /\ 0 \in 0 .. 10 /\ 1 \in 0 .. 10 /\ 8 \in 0 .. 10
  OBVIOUS
<1>3. 0 \in Nat /\ 1 \in Nat /\ 0 + 1 = 1 /\ 0 < 1
  OBVIOUS
<1> PICK u : u = 1 - w
  OBVIOUS
<1>4. CASE On(19 + e, 1, 0, 0, u, 0) /\ Kept(spill, 1) /\ spill # 0
  <2>1. Text[19 + e] = Reload(spill)
    BY <1>4 DEF ValidText
  <2>2. 19 + 2 * e = 19 + e + 1
    BY <1>4 DEF Costs
  <2>3. On(19 + 2 * e, 1, 0, 0, u, 0)' /\ Sees(8, 1)'
    BY <1>2, <1>4, <2>1, <2>2, ReloadMoves
  <2> QED
    BY <2>3 DEF ValidRun, OnePart
<1>5. CASE On(19 + 2 * e, 1, 0, 0, u, 0) /\ Sees(8, 1)
  <2>1. Text[19 + 2 * e] = Mov(1, 8)
    BY DEF ValidText
  <2>2. On(20 + 2 * e, 1, 0, 0, u, 0)' /\ Sees(1, 1)'
    BY <1>1, <1>2, <1>5, <2>1, MovMoves
  <2> QED
    BY <2>2 DEF ValidRun, OnePart
<1>6. CASE On(20 + 2 * e, 1, 0, 0, u, 0) /\ Sees(1, 1)
  <2>1. Text[20 + 2 * e] = Op("release")
    BY DEF ValidText
  <2>2. On(21 + 2 * e, 1, 1, 0, u, 0)'
    BY <1>1, <1>2, <1>3, <1>6, <2>1, ReleaseMoves
  <2> QED
    BY <2>2 DEF ValidRun, OnePart
<1>7. CASE On(21 + 2 * e, 1, 1, 0, u, 0)
  <2>1. Text[21 + 2 * e] = Imm(0, 7)
    BY DEF ValidText
  <2>2. On(22 + 2 * e, 1, 1, 0, u, 0)' /\ Holds(0, 7)'
    BY <1>1, <1>2, <1>7, <2>1, ImmMoves
  <2> QED
    BY <2>2 DEF ValidRun, OnePart
<1>8. CASE On(22 + 2 * e, 1, 1, 0, u, 0) /\ Holds(0, 7)
  <2>1. Text[22 + 2 * e] = Op("EXIT")
    BY DEF ValidText
  <2>2. Over(1, 1, 0, u, 0)' /\ Holds(0, 7)'
    BY <1>2, <1>8, <2>1, ExitMoves
  <2> QED
    BY <2>2 DEF ValidRun, OnePart
<1>9. CASE Over(1, 1, 0, u, 0)
  BY <1>9, OverStays
<1> QED
  BY <1>4, <1>5, <1>6, <1>7, <1>8, <1>9 DEF OnePart

\* with none.
LEMMA NoneMoves ==
    ASSUME Moves, NEW q \in Nat, NonePart(q), Text[q] = Imm(0, 0), Text[q + 1] = Op("EXIT")
    PROVE  NonePart(q)'
<1>1. q + 1 \in Nat /\ 0 \in 0 .. 10
  OBVIOUS
<1>2. CASE On(q, 0, 0, 0, 1, 0)
  <2>1. On(q + 1, 0, 0, 0, 1, 0)'
    BY <1>1, <1>2, ImmMoves
  <2> QED
    BY <2>1 DEF NonePart
<1>3. CASE On(q + 1, 0, 0, 0, 1, 0)
  <2>1. Over(0, 0, 0, 1, 0)'
    BY <1>1, <1>3, ExitMoves
  <2> QED
    BY <2>1 DEF NonePart
<1>4. CASE Over(0, 0, 0, 1, 0)
  BY <1>4, OverStays
<1> QED
  BY <1>2, <1>3, <1>4 DEF NonePart

\* `valid_ab` goes from one of its instructions to the next, until it is over.
LEMMA ValidMoves ==
    ASSUME Moves, NEW a \in 6 .. 7, NEW spill \in Slots, NEW w \in 0 .. 1, NEW e \in 0 .. 1,
           Costs(spill, e), ValidText(Text, a, spill, w, e), ValidRun(a, spill, w, e)
    PROVE  ValidRun(a, spill, w, e)'
<1>1. CASE NonePart(23 + 2 * e)
  <2>1. 23 + 2 * e \in Nat /\ 23 + 2 * e + 1 = 24 + 2 * e
    OBVIOUS
  <2>2. NonePart(23 + 2 * e)'
    BY <1>1, <2>1, NoneMoves DEF ValidText
  <2> QED
    BY <2>2 DEF ValidRun
<1> QED
  BY <1>1, FirstMoves, BothMoves, OneMoves DEF ValidRun

\* The program that asks for NULL,
LEMMA NullMoves ==
    ASSUME Moves, NullText(Text), NullRun
    PROVE  NullRun'
<1>1. /\ 1 + 1 = 2 /\ 2 + 1 = 3 /\ 3 + 1 = 4 /\ 4 + 4 = 8 /\ 8 + 1 = 9
      /\ 0 \in 0 .. 10 /\ 1 \in 0 .. 10
  OBVIOUS
<1>2. CASE On(1, 0, 0, 0, 0, 0)
  <2>1. Text[1] = Imm(1, 1)
    BY DEF NullText
  <2>2. On(2, 0, 0, 0, 0, 0)' /\ Holds(1, 1)'
    BY <1>1, <1>2, <2>1, ImmMoves
  <2> QED
    BY <2>2 DEF NullRun
<1>3. CASE On(2, 0, 0, 0, 0, 0) /\ Holds(1, 1)
  <2>1. Text[2] = Op("acquire")
    BY DEF NullText
  <2>2. On(3, 0, 0, 0, 0, 0)' /\ Holds(0, 0)'
    BY <1>1, <1>3, <2>1, AcquireNullMoves
  <2> QED
    BY <2>2 DEF NullRun
<1>4. CASE On(3, 0, 0, 0, 0, 0) /\ Holds(0, 0)
  <2>1. Text[3] = Jump(4)
    BY DEF NullText
  <2>2. JumpLeads(8, 4, 0, 0, 0, 0, 0)
    BY <1>1, <1>4, <2>1, JumpMoves
  <2>3. On(8, 0, 0, 0, 0, 0)'
    BY <1>4, <2>2 DEF JumpLeads
  <2> QED
    BY <2>3 DEF NullRun
<1>5. CASE On(8, 0, 0, 0, 0, 0)
  <2>1. Text[8] = Imm(0, 0)
    BY DEF NullText
  <2>2. On(9, 0, 0, 0, 0, 0)' /\ Holds(0, 0)'
    BY <1>1, <1>5, <2>1, ImmMoves
  <2> QED
    BY <2>2 DEF NullRun
<1>6. CASE On(9, 0, 0, 0, 0, 0) /\ Holds(0, 0)
  <2>1. Text[9] = Op("EXIT")
    BY DEF NullText
  <2>2. Over(0, 0, 0, 0, 0)' /\ Holds(0, 0)'
    BY <1>6, <2>1, ExitMoves
  <2> QED
    BY <2>2 DEF NullRun
<1>7. CASE Over(0, 0, 0, 0, 0)
  BY <1>7, OverStays
<1> QED
  BY <1>2, <1>3, <1>4, <1>5, <1>6, <1>7 DEF NullRun

\* the probes that use an alias of what they released: up to the release,
LEMMA AliasedFirst ==
    ASSUME Moves, NEW kind \in Aliased, NEW e \in 0 .. 1, Costs(ProbeSlot(kind), e),
           AliasedText(Text, kind, e),
           NEW spill \in Slots, spill = ProbeSlot(kind),
           \/ On(1, 0, 0, 0, 0, 0)
           \/ On(2, 0, 0, 0, 0, 0) /\ Holds(1, 0)
           \/ On(3, 0, 0, 0, 1, 0) /\ Holds(0, 0)
           \/ On(3, 1, 0, 0, 0, 0) /\ Sees(0, 1)
           \/ On(4, 1, 0, 0, 0, 0) /\ Sees(0, 1)
           \/ On(5, 1, 0, 0, 0, 0) /\ Sees(6, 1)
           \/ On(6, 1, 0, 0, 0, 0) /\ Sees(6, 1) /\ Kept(spill, 1)
    PROVE  AliasedRun(spill, e)'
<1>1. /\ 1 + 1 = 2 /\ 2 + 1 = 3 /\ 3 + 1 = 4 /\ 4 + (6 + e) = 10 + e /\ 4 + 1 = 5 /\ 5 + 1 = 6
      /\ 6 + 1 = 7
  OBVIOUS
<1>2. /\ 0 \in 0 .. 10 /\ 1 \in 0 .. 10 /\ 6 \in 0 .. 10 /\ 8 \in 0 .. 10 /\ 6 \in 6 .. 7
      /\ 0 \in Nat /\ 1 \in Nat /\ 0 + 1 = 1 /\ 0 <= 0 /\ 8 # 1
  OBVIOUS
<1>3. CASE On(1, 0, 0, 0, 0, 0)
  <2>1. Text[1] = Imm(1, 0)
    BY DEF AliasedText
  <2>2. On(2, 0, 0, 0, 0, 0)' /\ Holds(1, 0)'
    BY <1>1, <1>2, <1>3, <2>1, ImmMoves
  <2> QED
    BY <2>2 DEF AliasedRun
<1>4. CASE On(2, 0, 0, 0, 0, 0) /\ Holds(1, 0)
  <2>1. Text[2] = Op("acquire")
    BY DEF AliasedText
  <2>2. AcquireLeads(3, 1, 0, 0, 0, 0, 0)
    BY <1>1, <1>2, <1>4, <2>1, AcquireMoves
  <2> QED
    BY <2>2 DEF AcquireLeads, AliasedRun
<1>5. CASE On(3, 0, 0, 0, 1, 0) /\ Holds(0, 0)
  <2>1. Text[3] = Jump(6 + e)
    BY DEF AliasedText
  <2>2. JumpLeads(10 + e, 4, 0, 0, 0, 1, 0)
    BY <1>1, <1>2, <1>5, <2>1, JumpMoves
  <2>3. On(10 + e, 0, 0, 0, 1, 0)'
    BY <1>5, <2>2 DEF JumpLeads
  <2> QED
    BY <2>3 DEF AliasedRun, NonePart
<1>6. CASE On(3, 1, 0, 0, 0, 0) /\ Sees(0, 1)
  <2>1. Text[3] = Jump(6 + e)
    BY DEF AliasedText
  <2>2. JumpLeads(10 + e, 4, 1, 0, 0, 0, 0)
    BY <1>1, <1>2, <1>6, <2>1, JumpMoves
  <2>3. On(4, 1, 0, 0, 0, 0)' /\ Sees(0, 1)'
    BY <1>2, <1>6, <2>2 DEF JumpLeads
  <2> QED
    BY <2>3 DEF AliasedRun
<1>7. CASE On(4, 1, 0, 0, 0, 0) /\ Sees(0, 1)
  <2>1. Text[4] = Mov(6, 0)
    BY DEF AliasedText
  <2>2. On(5, 1, 0, 0, 0, 0)' /\ Sees(6, 1)'
    BY <1>1, <1>2, <1>7, <2>1, MovMoves
  <2> QED
    BY <2>2 DEF AliasedRun
<1>8. CASE On(5, 1, 0, 0, 0, 0) /\ Sees(6, 1)
  <2>1. Text[5] = Keep(6, spill)
    BY DEF AliasedText
  <2>2. On(6, 1, 0, 0, 0, 0)' /\ Same(6) /\ Kept(spill, 1)'
    BY <1>1, <1>2, <1>8, <2>1, KeepMoves
  <2>3. Sees(6, 1)'
    BY <1>8, <2>2 DEF Same, StillSees
  <2> QED
    BY <2>2, <2>3 DEF AliasedRun
<1>9. CASE On(6, 1, 0, 0, 0, 0) /\ Sees(6, 1) /\ Kept(spill, 1)
  <2>1. Text[6] = Mov(1, 6)
    BY DEF AliasedText
  <2>2. On(7, 1, 0, 0, 0, 0)' /\ AllBut(1) /\ Sees(1, 1)'
    BY <1>1, <1>2, <1>9, <2>1, MovMoves
  <2>3. Kept(spill, 1)'
    BY <1>2, <1>9, <2>2, SMTT(30) DEF AllBut, Same, StillSees, SlotsStill, Kept
  <2> QED
    BY <2>2, <2>3 DEF AliasedRun
<1> QED
  BY <1>3, <1>4, <1>5, <1>6, <1>7, <1>8, <1>9

\* from there on,
LEMMA AliasedMoves ==
    ASSUME Moves, NEW kind \in Aliased, NEW e \in 0 .. 1, Costs(ProbeSlot(kind), e),
           AliasedText(Text, kind, e), AliasedRun(ProbeSlot(kind), e)
    PROVE  AliasedRun(ProbeSlot(kind), e)'
<1> PICK spill \in Slots : spill = ProbeSlot(kind)
  BY DEF ProbeSlot, Slots
<1>1. /\ 7 + 1 = 8 /\ 8 + e + 1 = 9 + e /\ 9 + e + 1 = 10 + e /\ 10 + e + 1 = 11 + e
      /\ 7 \in Nat /\ 8 \in Nat /\ 8 + e \in Nat /\ 9 + e \in Nat /\ 10 + e \in Nat
      /\ 11 + e \in Nat
  OBVIOUS
<1>2. /\ 0 \in 0 .. 10 /\ 1 \in 0 .. 10 /\ 8 \in 0 .. 10 /\ 8 \in 6 .. 10
      /\ 0 \in Nat /\ 1 \in Nat /\ 0 + 1 = 1 /\ 0 < 1 /\ 1 <= 1
  OBVIOUS
<1>3. CASE On(7, 1, 0, 0, 0, 0) /\ Sees(1, 1) /\ Kept(spill, 1)
  <2>1. Text[7] = Op("release")
    BY DEF AliasedText
  <2>2. On(8, 1, 1, 0, 0, 0)' /\ Saved
    BY <1>1, <1>2, <1>3, <2>1, ReleaseMoves
  <2>3. Kept(spill, 1)'
    BY <1>2, <1>3, <2>2 DEF Saved, Same, StillSees, SlotsStill, Kept
  <2>4. CASE spill # 0
    BY <2>2, <2>3, <2>4 DEF AliasedRun
  <2>5. CASE spill = 0
    <3>1. 8 = 8 + e
      BY <2>5 DEF Costs
    <3>2. Sees(8, 1)'
      BY <2>3, <2>5 DEF Kept
    <3> QED
      BY <2>2, <3>1, <3>2 DEF AliasedRun
  <2> QED
    BY <2>4, <2>5
<1>4. CASE On(8, 1, 1, 0, 0, 0) /\ Kept(spill, 1) /\ spill # 0
  <2>1. Text[8] = Reload(spill)
    BY <1>4 DEF AliasedText
  <2>2. 8 + e = 8 + 1
    BY <1>4 DEF Costs
  <2>3. On(8 + e, 1, 1, 0, 0, 0)' /\ Sees(8, 1)'
    BY <1>1, <1>4, <2>1, <2>2, ReloadMoves
  <2> QED
    BY <2>3 DEF AliasedRun
<1>5. CASE On(8 + e, 1, 1, 0, 0, 0) /\ Sees(8, 1)
  <2>1. Text[8 + e] = Mov(1, 8)
    BY DEF AliasedText
  <2>2. On(9 + e, 1, 1, 0, 0, 0)' /\ Sees(1, 1)'
    BY <1>1, <1>2, <1>5, <2>1, MovMoves
  <2> QED
    BY <2>2 DEF AliasedRun
<1>6. CASE On(9 + e, 1, 1, 0, 0, 0) /\ Sees(1, 1)
  <2>1. Text[9 + e] = Op(LastUse(kind)) /\ LastUse(kind) \in {"read", "release"}
    BY DEF AliasedText, LastUse
  <2>2. Gone(1, 1)
    BY <1>2, <1>6 DEF Gone
  <2>3. On(10 + e, 1, 1, 0, 0, 1)'
    BY <1>1, <1>2, <1>6, <2>1, <2>2, MisuseMoves
  <2> QED
    BY <2>3 DEF AliasedRun
<1>7. Text[10 + e] = Imm(0, 0) /\ Text[11 + e] = Op("EXIT")
  BY DEF AliasedText
<1>8. CASE On(10 + e, 1, 1, 0, 0, 1)
  <2>1. On(11 + e, 1, 1, 0, 0, 1)'
    BY <1>1, <1>2, <1>7, <1>8, ImmMoves
  <2> QED
    BY <2>1 DEF AliasedRun
<1>9. CASE On(11 + e, 1, 1, 0, 0, 1)
  <2>1. Over(1, 1, 0, 0, 1)'
    BY <1>1, <1>7, <1>9, ExitMoves
  <2> QED
    BY <2>1 DEF AliasedRun
<1>10. CASE Over(1, 1, 0, 0, 1)
  BY <1>10, OverStays
<1>11. CASE NonePart(10 + e)
  <2>1. NonePart(10 + e)'
    BY <1>1, <1>7, <1>11, NoneMoves
  <2> QED
    BY <2>1 DEF AliasedRun
<1>12. CASE \/ On(1, 0, 0, 0, 0, 0)
            \/ On(2, 0, 0, 0, 0, 0) /\ Holds(1, 0)
            \/ On(3, 0, 0, 0, 1, 0) /\ Holds(0, 0)
            \/ On(3, 1, 0, 0, 0, 0) /\ Sees(0, 1)
            \/ On(4, 1, 0, 0, 0, 0) /\ Sees(0, 1)
            \/ On(5, 1, 0, 0, 0, 0) /\ Sees(6, 1)
            \/ On(6, 1, 0, 0, 0, 0) /\ Sees(6, 1) /\ Kept(spill, 1)
  BY <1>12, AliasedFirst
<1> QED
  BY <1>3, <1>4, <1>5, <1>6, <1>8, <1>9, <1>10, <1>11, <1>12 DEF AliasedRun

\* the one that does not look for NULL,
LEMMA UntestedMoves ==
    ASSUME Moves, UntestedText(Text), UntestedRun
    PROVE  UntestedRun' \/ NullUsedRun'
<1>1. /\ 1 + 1 = 2 /\ 2 + 1 = 3 /\ 3 + 1 = 4 /\ 4 + 1 = 5 /\ 5 + 1 = 6 /\ 6 + 1 = 7 /\ 7 + 1 = 8
      /\ 8 + 1 = 9
  OBVIOUS
<1>2. /\ 0 \in 0 .. 10 /\ 1 \in 0 .. 10 /\ 6 \in 0 .. 10 /\ 6 \in 6 .. 10 /\ 6 # 1
      /\ 0 \in Nat /\ 1 \in Nat /\ 0 + 1 = 1 /\ 0 <= 0 /\ 0 < 1 /\ IsLive(1, 1, 0)
  BY DEF IsLive
<1>3. CASE On(1, 0, 0, 0, 0, 0)
  <2>1. Text[1] = Imm(1, 0)
    BY DEF UntestedText
  <2>2. On(2, 0, 0, 0, 0, 0)' /\ Holds(1, 0)'
    BY <1>1, <1>2, <1>3, <2>1, ImmMoves
  <2> QED
    BY <2>2 DEF UntestedRun
<1>4. CASE On(2, 0, 0, 0, 0, 0) /\ Holds(1, 0)
  <2>1. Text[2] = Op("acquire")
    BY DEF UntestedText
  <2>2. AcquireLeads(3, 1, 0, 0, 0, 0, 0)
    BY <1>1, <1>2, <1>4, <2>1, AcquireMoves
  <2> QED
    BY <2>2 DEF AcquireLeads, UntestedRun, NullUsedRun
<1>5. CASE On(3, 1, 0, 0, 0, 0) /\ Sees(0, 1)
  <2>1. Text[3] = Mov(6, 0)
    BY DEF UntestedText
  <2>2. On(4, 1, 0, 0, 0, 0)' /\ Sees(6, 1)'
    BY <1>1, <1>2, <1>5, <2>1, MovMoves
  <2> QED
    BY <2>2 DEF UntestedRun
<1>6. CASE On(4, 1, 0, 0, 0, 0) /\ Sees(6, 1)
  <2>1. Text[4] = Mov(1, 6)
    BY DEF UntestedText
  <2>2. On(5, 1, 0, 0, 0, 0)' /\ AllBut(1) /\ Sees(1, 1)'
    BY <1>1, <1>2, <1>6, <2>1, MovMoves
  <2>3. Sees(6, 1)'
    BY <1>2, <1>6, <2>2 DEF AllBut, Same, StillSees
  <2> QED
    BY <2>2, <2>3 DEF UntestedRun
<1>7. CASE On(5, 1, 0, 0, 0, 0) /\ Sees(6, 1) /\ Sees(1, 1)
  <2>1. Text[5] = Op("read")
    BY DEF UntestedText
  <2>2. On(6, 1, 0, 1, 0, 0)' /\ Saved
    BY <1>1, <1>2, <1>7, <2>1, ReadMoves
  <2>3. Sees(6, 1)'
    BY <1>2, <1>7, <2>2 DEF Saved, Same, StillSees
  <2> QED
    BY <2>2, <2>3 DEF UntestedRun
<1>8. CASE On(6, 1, 0, 1, 0, 0) /\ Sees(6, 1)
  <2>1. Text[6] = Mov(1, 6)
    BY DEF UntestedText
  <2>2. On(7, 1, 0, 1, 0, 0)' /\ Sees(1, 1)'
    BY <1>1, <1>2, <1>8, <2>1, MovMoves
  <2> QED
    BY <2>2 DEF UntestedRun
<1>9. CASE On(7, 1, 0, 1, 0, 0) /\ Sees(1, 1)
  <2>1. Text[7] = Op("release")
    BY DEF UntestedText
  <2>2. On(8, 1, 1, 1, 0, 0)'
    BY <1>1, <1>2, <1>9, <2>1, ReleaseMoves
  <2> QED
    BY <2>2 DEF UntestedRun
<1>10. CASE On(8, 1, 1, 1, 0, 0)
  <2>1. Text[8] = Imm(0, 0)
    BY DEF UntestedText
  <2>2. On(9, 1, 1, 1, 0, 0)'
    BY <1>1, <1>2, <1>10, <2>1, ImmMoves
  <2> QED
    BY <2>2 DEF UntestedRun
<1>11. CASE On(9, 1, 1, 1, 0, 0)
  <2>1. Text[9] = Op("EXIT")
    BY DEF UntestedText
  <2>2. Over(1, 1, 1, 0, 0)'
    BY <1>11, <2>1, ExitMoves
  <2> QED
    BY <2>2 DEF UntestedRun
<1>12. CASE Over(1, 1, 1, 0, 0)
  BY <1>12, OverStays
<1> QED
  BY <1>3, <1>4, <1>5, <1>6, <1>7, <1>8, <1>9, <1>10, <1>11, <1>12 DEF UntestedRun

\* The probe that did not test goes on after its acquisition was refused.
LEMMA NullUsedMoves ==
    ASSUME Moves, UntestedText(Text), NullUsedRun
    PROVE  NullUsedRun'
<1>1. /\ 3 + 1 = 4 /\ 4 + 1 = 5 /\ 5 + 1 = 6 /\ 6 + 1 = 7 /\ 7 + 1 = 8 /\ 8 + 1 = 9
  OBVIOUS
<1>2. /\ 0 \in 0 .. 10 /\ 1 \in 0 .. 10 /\ 6 \in 0 .. 10 /\ 6 \in 6 .. 10 /\ 6 # 1
      /\ 0 \in Nat
  OBVIOUS
<1>3. CASE On(3, 0, 0, 0, 1, 0) /\ Holds(0, 0)
  <2>1. Text[3] = Mov(6, 0)
    BY DEF UntestedText
  <2>2. On(4, 0, 0, 0, 1, 0)' /\ Holds(6, 0)'
    BY <1>1, <1>2, <1>3, <2>1, MovMoves
  <2> QED
    BY <2>2 DEF NullUsedRun
<1>4. CASE On(4, 0, 0, 0, 1, 0) /\ Holds(6, 0)
  <2>1. Text[4] = Mov(1, 6)
    BY DEF UntestedText
  <2>2. On(5, 0, 0, 0, 1, 0)' /\ AllBut(1) /\ Holds(1, 0)'
    BY <1>1, <1>2, <1>4, <2>1, MovMoves
  <2>3. Holds(6, 0)'
    BY <1>2, <1>4, <2>2 DEF AllBut, Same, StillHolds
  <2> QED
    BY <2>2, <2>3 DEF NullUsedRun
<1>5. CASE On(5, 0, 0, 0, 1, 0) /\ Holds(6, 0) /\ Holds(1, 0)
  <2>1. Text[5] = Op("read") /\ Gone(0, 0)
    BY <1>5 DEF UntestedText, Gone
  <2>2. On(6, 0, 0, 0, 1, 1)' /\ Saved
    BY <1>1, <1>2, <1>5, <2>1, MisuseMoves
  <2>3. Holds(6, 0)'
    BY <1>2, <1>5, <2>2 DEF Saved, Same, StillHolds
  <2> QED
    BY <2>2, <2>3 DEF NullUsedRun
<1>6. CASE On(6, 0, 0, 0, 1, 1) /\ Holds(6, 0)
  <2>1. Text[6] = Mov(1, 6)
    BY DEF UntestedText
  <2>2. On(7, 0, 0, 0, 1, 1)' /\ Holds(1, 0)'
    BY <1>1, <1>2, <1>6, <2>1, MovMoves
  <2> QED
    BY <2>2 DEF NullUsedRun
<1>7. CASE On(7, 0, 0, 0, 1, 1) /\ Holds(1, 0)
  <2>1. Text[7] = Op("release") /\ Gone(0, 0)
    BY <1>7 DEF UntestedText, Gone
  <2>2. On(8, 0, 0, 0, 1, 1)'
    BY <1>1, <1>2, <1>7, <2>1, MisuseMoves
  <2> QED
    BY <2>2 DEF NullUsedRun
<1>8. CASE On(8, 0, 0, 0, 1, 1)
  <2>1. Text[8] = Imm(0, 0)
    BY DEF UntestedText
  <2>2. On(9, 0, 0, 0, 1, 1)'
    BY <1>1, <1>2, <1>8, <2>1, ImmMoves
  <2> QED
    BY <2>2 DEF NullUsedRun
<1>9. CASE On(9, 0, 0, 0, 1, 1)
  <2>1. Text[9] = Op("EXIT")
    BY DEF UntestedText
  <2>2. Over(0, 0, 0, 1, 1)'
    BY <1>9, <2>1, ExitMoves
  <2> QED
    BY <2>2 DEF NullUsedRun
<1>10. CASE Over(0, 0, 0, 1, 1)
  BY <1>10, OverStays
<1> QED
  BY <1>3, <1>4, <1>5, <1>6, <1>7, <1>8, <1>9, <1>10 DEF NullUsedRun

\* and the one that keeps what it acquired.
LEMMA LeakedMoves ==
    ASSUME Moves, LeakedText(Text), LeakedRun
    PROVE  LeakedRun'
<1>1. /\ 1 + 1 = 2 /\ 2 + 1 = 3 /\ 3 + 1 = 4 /\ 4 + 1 = 5 /\ 5 + 1 = 6
      /\ 0 \in 0 .. 10 /\ 1 \in 0 .. 10 /\ 6 \in 0 .. 10
      /\ 0 \in Nat /\ 1 \in Nat /\ 0 + 1 = 1 /\ 0 <= 0
  OBVIOUS
<1>2. CASE On(1, 0, 0, 0, 0, 0)
  <2>1. Text[1] = Imm(1, 0)
    BY DEF LeakedText
  <2>2. On(2, 0, 0, 0, 0, 0)' /\ Holds(1, 0)'
    BY <1>1, <1>2, <2>1, ImmMoves
  <2> QED
    BY <2>2 DEF LeakedRun
<1>3. CASE On(2, 0, 0, 0, 0, 0) /\ Holds(1, 0)
  <2>1. Text[2] = Op("acquire")
    BY DEF LeakedText
  <2>2. AcquireLeads(3, 1, 0, 0, 0, 0, 0)
    BY <1>1, <1>3, <2>1, AcquireMoves
  <2> QED
    BY <2>2 DEF AcquireLeads, LeakedRun
<1>4. Text[3] = Jump(1) /\ Text[5] = Imm(0, 0) /\ Text[6] = Op("EXIT")
  BY DEF LeakedText
<1>5. CASE On(3, 0, 0, 0, 1, 0) /\ Holds(0, 0)
  <2>1. JumpLeads(5, 4, 0, 0, 0, 1, 0)
    BY <1>1, <1>4, <1>5, JumpMoves
  <2>2. On(5, 0, 0, 0, 1, 0)'
    BY <1>5, <2>1 DEF JumpLeads
  <2> QED
    BY <2>2 DEF LeakedRun, NonePart
<1>6. CASE On(3, 1, 0, 0, 0, 0) /\ Sees(0, 1)
  <2>1. JumpLeads(5, 4, 1, 0, 0, 0, 0)
    BY <1>1, <1>4, <1>6, JumpMoves
  <2>2. On(4, 1, 0, 0, 0, 0)'
    BY <1>1, <1>6, <2>1 DEF JumpLeads
  <2> QED
    BY <2>2 DEF LeakedRun
<1>7. CASE On(4, 1, 0, 0, 0, 0)
  <2>1. Text[4] = Mov(6, 0)
    BY DEF LeakedText
  <2>2. On(5, 1, 0, 0, 0, 0)'
    BY <1>1, <1>7, <2>1, MovMoves
  <2> QED
    BY <2>2 DEF LeakedRun
<1>8. CASE On(5, 1, 0, 0, 0, 0)
  <2>1. On(6, 1, 0, 0, 0, 0)'
    BY <1>1, <1>4, <1>8, ImmMoves
  <2> QED
    BY <2>1 DEF LeakedRun
<1>9. CASE On(6, 1, 0, 0, 0, 0)
  <2>1. Over(1, 0, 0, 0, 0)'
    BY <1>4, <1>9, ExitMoves
  <2> QED
    BY <2>1 DEF LeakedRun
<1>10. CASE Over(1, 0, 0, 0, 0)
  BY <1>10, OverStays
<1>11. CASE NonePart(5)
  <2>1. NonePart(5)'
    BY <1>1, <1>4, <1>11, NoneMoves
  <2> QED
    BY <2>1 DEF LeakedRun
<1> QED
  BY <1>2, <1>3, <1>5, <1>6, <1>7, <1>8, <1>9, <1>10, <1>11 DEF LeakedRun

\* A run begins where each of them does, and goes on.
LEMMA RunBegins == On(1, 0, 0, 0, 0, 0) => RunInv
BY DEF RunInv, ValidRun, FirstPart, NullRun, AliasedRun, UntestedRun, LeakedRun

\* Whatever program is running, its run goes on along its text.
LEMMA RunGoesOn == RunInv /\ Moves => RunInv'
<1> SUFFICES ASSUME RunInv, Moves PROVE RunInv'
  OBVIOUS
<1>1. Text' = Text
  BY DEF Moves, Guest!Step, Guest!Stop, Text, Guest!This
<1>2. ASSUME NEW a \in 6 .. 7, NEW spill \in Slots, NEW w \in 0 .. 1, NEW e \in 0 .. 1,
             Costs(spill, e), ValidText(Text', a, spill, w, e)
      PROVE  ValidRun(a, spill, w, e)'
  <2>1. ValidText(Text, a, spill, w, e)
    BY <1>1, <1>2
  <2>2. ValidRun(a, spill, w, e)
    BY <1>2, <2>1 DEF RunInv
  <2> QED
    BY <1>2, <2>1, <2>2, ValidMoves
<1>3. NullText(Text') => NullRun'
  BY <1>1, NullMoves DEF RunInv
<1>4. ASSUME NEW kind \in Aliased, NEW e \in 0 .. 1, Costs(ProbeSlot(kind), e),
             AliasedText(Text', kind, e)
      PROVE  AliasedRun(ProbeSlot(kind), e)'
  <2>1. AliasedText(Text, kind, e)
    BY <1>1, <1>4
  <2>2. AliasedRun(ProbeSlot(kind), e)
    BY <1>4, <2>1 DEF RunInv
  <2> QED
    BY <1>4, <2>1, <2>2, AliasedMoves
<1>5. UntestedText(Text') => UntestedRun' \/ NullUsedRun'
  BY <1>1, UntestedMoves, NullUsedMoves DEF RunInv
<1>6. LeakedText(Text') => LeakedRun'
  BY <1>1, LeakedMoves DEF RunInv
<1> QED
  BY <1>2, <1>3, <1>4, <1>5, <1>6 DEF RunInv
\* The guest's cases are of five kinds: to be accepted, with two acquisitions or
\* with none, and to be rejected, for three reasons.
TwiceCase(c) ==
    /\ c.reject = "none"
    /\ \E a \in 6 .. 7, spill \in Slots, w \in 0 .. 1, e \in 0 .. 1 :
          /\ Costs(spill, e) /\ ValidText(c.program, a, spill, w, e)
          /\ c.expected = IF w = 1 THEN 7 ELSE 42
          /\ c.acquisitions = 2 - w /\ c.reads = 1 - w

NullCase(c) ==
    /\ c.reject = "none" /\ NullText(c.program)
    /\ c.expected = 0 /\ c.acquisitions = 0 /\ c.reads = 0

AliasedCase(c) ==
    /\ c.reject \in Aliased
    /\ \E e \in 0 .. 1 :
          Costs(ProbeSlot(c.reject), e) /\ AliasedText(c.program, c.reject, e)

UntestedCase(c) == c.reject = "missing_null" /\ UntestedText(c.program)
LeakedCase(c) == c.reject = "leaked_ref" /\ LeakedText(c.program)

OfKind(c) ==
    TwiceCase(c) \/ NullCase(c) \/ AliasedCase(c) \/ UntestedCase(c) \/ LeakedCase(c)

\* One of the twelve pairs, and the program that is repeated.
LEMMA TwiceIs ==
    ASSUME NEW a \in 6 .. 7, NEW spill \in Slots, NEW w \in 0 .. 1, NEW k,
           NEW c, c = Guest!Valid(Guest!valid_ab(a, spill, w), IF w = 1 THEN 7 ELSE 42,
                                  2 - w, 1 - w, k)
    PROVE  TwiceCase(c)
<1> PICK u : u = Guest!valid_ab(a, spill, w)
  BY Zenon
<1> PICK e \in 0 .. 1 : e = IF spill = 0 THEN 0 ELSE 1
  OBVIOUS
<1>1. Costs(spill, e) /\ spill \in {0, -8, -16}
  BY DEF Costs, Slots
<1>2. ValidText(u, a, spill, w, e)
  BY <1>1, ValidTextHolds
<1>3. /\ c.reject = "none" /\ c.program = u /\ c.acquisitions = 2 - w /\ c.reads = 1 - w
      /\ c.expected = IF w = 1 THEN 7 ELSE 42
  BY DEF Guest!Valid
<1> QED
  BY <1>1, <1>2, <1>3 DEF TwiceCase

\* What the loops of main make of the case at this place.
LEMMA PairIs ==
    ASSUME NEW c \in 1 .. 12
    PROVE  \E a \in 6 .. 7, spill \in Slots, w \in 0 .. 1 :
              /\ w = (c - 1) % 2
              /\ Guest!Pair(c - 1) =
                    Guest!Valid(Guest!valid_ab(a, spill, w), IF w = 1 THEN 7 ELSE 42,
                                2 - w, 1 - w, 1)
<1> PICK q : q = c - 1
  OBVIOUS
<1> PICK a : a = 6 + (q \div 6)
  OBVIOUS
<1> PICK l : l = (q % 6) \div 2
  OBVIOUS
<1> PICK w : w = q % 2
  OBVIOUS
<1>1. a \in 6 .. 7 /\ l \in 0 .. 2 /\ w \in 0 .. 1
  OBVIOUS
<1> PICK spill : spill = Guest!spills[l + 1]
  OBVIOUS
<1>2. spill \in Slots
  BY <1>1 DEF Guest!spills, Slots
<1>3. Guest!Pair(q) = Guest!Valid(Guest!valid_ab(a, spill, w), IF w = 1 THEN 7 ELSE 42,
                                  2 - w, 1 - w, 1)
  BY Zenon DEF Guest!Pair
<1> QED
  BY <1>1, <1>2, <1>3, Zenon

\* Every case is of one of these kinds.
LEMMA CaseKinds == ASSUME NEW c \in 1 .. 19 PROVE OfKind(Guest!Cases[c])
<1>1. CASE c \in 1 .. 12
  <2>1. Guest!Cases[c] = Guest!Pair(c - 1)
    BY <1>1, CasesAre
  <2>2. TwiceCase(Guest!Cases[c])
    BY <1>1, <2>1, PairIs, TwiceIs
  <2> QED
    BY <2>2 DEF OfKind
<1>2. CASE c = 13
  <2> PICK u : u = Guest!valid_null
    OBVIOUS
  <2>1. NullText(u)
    BY NullTextHolds
  <2> PICK x : x = Guest!Cases[13]
    OBVIOUS
  <2>2. x = Guest!Valid(u, 0, 0, 0, 1)
    BY CasesAre
  <2>3. NullCase(x)
    BY <2>1, <2>2 DEF NullCase, Guest!Valid
  <2> QED
    BY <1>2, <2>3 DEF OfKind
<1>3. CASE c = 14
  <2> PICK x : x = Guest!Cases[14]
    OBVIOUS
  <2>1. x = Guest!Valid(Guest!valid_ab(7, -16, 0), 42, 2, 1, Repeats)
    BY CasesAre
  <2>2. /\ 7 \in 6 .. 7 /\ -16 \in Slots /\ 0 \in 0 .. 1 /\ 2 - 0 = 2 /\ 1 - 0 = 1
        /\ (IF 0 = 1 THEN 7 ELSE 42) = 42
    BY DEF Slots
  <2>3. TwiceCase(x)
    <3> PICK w \in 0 .. 1 : w = 0
      OBVIOUS
    <3>1. 2 - w = 2 /\ 1 - w = 1 /\ (IF w = 1 THEN 7 ELSE 42) = 42
      OBVIOUS
    <3>2. x = Guest!Valid(Guest!valid_ab(7, -16, w), IF w = 1 THEN 7 ELSE 42,
                          2 - w, 1 - w, Repeats)
      BY <2>1, <3>1
    <3> QED
      BY <2>2, <3>2, TwiceIs
  <2> QED
    BY <1>3, <2>3 DEF OfKind
<1>4. ASSUME NEW kind \in Aliased, Guest!Cases[c] = Guest!Rejected(kind)
      PROVE  OfKind(Guest!Cases[c])
  <2> PICK e \in 0 .. 1 : e = IF ProbeSlot(kind) = 0 THEN 0 ELSE 1
    OBVIOUS
  <2> PICK u : u = Guest!rejected_program(kind)
    BY Zenon
  <2>1. Costs(ProbeSlot(kind), e)
    BY DEF Costs
  <2>2. AliasedText(u, kind, e)
    BY <2>1, AliasedTextHolds
  <2> PICK x : x = Guest!Rejected(kind)
    OBVIOUS
  <2>3. x.reject = kind /\ x.program = u
    BY DEF Guest!Rejected
  <2>4. AliasedCase(x)
    BY <2>1, <2>2, <2>3 DEF AliasedCase
  <2> QED
    BY <1>4, <2>4 DEF OfKind
<1>5. CASE c \in {15, 16, 17}
  <2>1. "stale_copy" \in Aliased /\ "stale_spill" \in Aliased /\ "double_release" \in Aliased
    BY DEF Aliased
  <2> QED
    BY <1>4, <1>5, <2>1, CasesAre
<1>6. CASE c = 18
  <2> PICK u : u = Guest!rejected_program("missing_null")
    BY Zenon
  <2>1. UntestedText(u)
    BY UntestedTextHolds
  <2> PICK x : x = Guest!Cases[18]
    OBVIOUS
  <2>2. x.reject = "missing_null" /\ x.program = u
    BY CasesAre DEF Guest!Rejected
  <2> QED
    BY <1>6, <2>1, <2>2 DEF OfKind, UntestedCase
<1>7. CASE c = 19
  <2> PICK u : u = Guest!rejected_program("leaked_ref")
    BY Zenon
  <2>1. LeakedText(u)
    BY LeakedTextHolds
  <2> PICK x : x = Guest!Cases[19]
    OBVIOUS
  <2>2. x.reject = "leaked_ref" /\ x.program = u
    BY CasesAre DEF Guest!Rejected
  <2> QED
    BY <1>7, <2>1, <2>2 DEF OfKind, LeakedCase
<1> QED
  BY <1>1, <1>2, <1>3, <1>5, <1>6, <1>7

\* A run that is over is not at an instruction,
LEMMA OverNotOn ==
    ASSUME stage = "accounting"
    PROVE  \A q, x, y, z, u, v : ~On(q, x, y, z, u, v)
BY DEF On

\* and tells whether it was refused memory, and whether it misused a handle.
LEMMA Flag ==
    ASSUME NEW f, NEW k, f = (k = 1)
    PROVE  (k = 1 => f = TRUE) /\ (k # 1 => f = FALSE)
BY Zenon

\* The two flags of a run are told apart by a number.
LEMMA ZeroIsNotOne == 0 # 1
OBVIOUS

\* A run that ends with a handle given was not refused.
LEMMA OverGiven ==
    ASSUME NEW x, NEW y, NEW z, NEW v, Over(x, y, z, 0, v)
    PROVE  refused = FALSE
<1>1. refused = (0 = 1)
  BY Zenon DEF Over
<1> QED
  BY <1>1, Flag, ZeroIsNotOne, Zenon

\* A run that ends with no handle was refused one.
LEMMA OverRefused ==
    ASSUME NEW x, NEW y, NEW z, NEW v, Over(x, y, z, 1, v)
    PROVE  refused = TRUE
<1>1. refused = (1 = 1)
  BY Zenon DEF Over
<1> QED
  BY <1>1, Flag, Zenon

\* A run that ends without a misuse has none recorded.
LEMMA OverClean ==
    ASSUME NEW x, NEW y, NEW z, NEW u, Over(x, y, z, u, 0)
    PROVE  misuse = FALSE
<1>1. misuse = (0 = 1)
  BY Zenon DEF Over
<1> QED
  BY <1>1, Flag, ZeroIsNotOne, Zenon

\* A run that ends with a misuse has it recorded.
LEMMA OverMisused ==
    ASSUME NEW x, NEW y, NEW z, NEW u, Over(x, y, z, u, 1)
    PROVE  misuse = TRUE
<1>1. misuse = (1 = 1)
  BY Zenon DEF Over
<1> QED
  BY <1>1, Flag, Zenon

\* A run under way without a misuse has none recorded.
LEMMA OnClean ==
    ASSUME NEW q, NEW x, NEW y, NEW z, NEW u, On(q, x, y, z, u, 0)
    PROVE  misuse = FALSE
<1>1. misuse = (0 = 1)
  BY Zenon DEF On
<1> QED
  BY <1>1, Flag, ZeroIsNotOne, Zenon

\* It has released what it acquired if it released as much.
LEMMA OverBalanced ==
    ASSUME NEW x \in Nat, NEW z, NEW u, NEW v, Over(x, x, z, u, v), before.acquisitions \in Nat
    PROVE  Guest!balanced(kernel)
<1> PICK c \in Nat : c = before.acquisitions
  OBVIOUS
<1>1. /\ kernel.refs = 1 + x - x /\ kernel.acquisitions = c + x /\ kernel.releases = c + x
      /\ kernel.handles = c + x + 1 .. c + x
  BY DEF Over, KernelIs
<1>2. c + x + 1 .. c + x = {} /\ 1 + x - x = 1
  OBVIOUS
<1> QED
  BY <1>1, <1>2 DEF Guest!balanced

\* Where the run of a program with two acquisitions, or with none, can end: with
\* every handle released, and with what the case expects or fewer acquisitions.
EndsWell(c) ==
    /\ insn = 0 /\ misuse = FALSE /\ Guest!balanced(kernel)
    /\ \/ refused = TRUE /\ kernel.acquisitions < before.acquisitions + c.acquisitions
       \/ /\ refused = FALSE
          /\ registers[0] = c.expected
          /\ kernel.acquisitions = before.acquisitions + c.acquisitions
          /\ kernel.reads = before.reads + c.reads

\* `valid_ab` ends with its result, or was refused a handle, and released all.
LEMMA ValidEnds ==
    ASSUME stage = "accounting", before.acquisitions \in Nat, NEW c,
           NEW a, NEW spill, NEW w \in 0 .. 1, NEW e, ValidRun(a, spill, w, e),
           c.expected = IF w = 1 THEN 7 ELSE 42, c.acquisitions = 2 - w, c.reads = 1 - w
    PROVE  EndsWell(c)
<1>1. \/ w = 0 /\ Over(2, 2, 1, 0, 0) /\ Holds(0, 42)
      \/ Over(1, 1, 0, 1 - w, 0) /\ Holds(0, 7)
      \/ Over(0, 0, 0, 1, 0)
  BY OverNotOn DEF ValidRun, FirstPart, BothPart, OnePart, NonePart
<1> PICK b \in Nat : b = before.acquisitions
  OBVIOUS
<1>2. 0 \in Nat /\ 1 \in Nat /\ 2 \in Nat
  OBVIOUS
<1>3. CASE w = 0 /\ Over(2, 2, 1, 0, 0) /\ Holds(0, 42)
  <2>1. Guest!balanced(kernel)
    BY <1>2, <1>3, OverBalanced
  <2>2. refused = FALSE /\ misuse = FALSE
    BY <1>3, OverGiven, OverClean, Zenon
  <2>3. /\ insn = 0 /\ registers[0] = 42
        /\ kernel.acquisitions = b + 2 /\ kernel.reads = before.reads + 1
    BY <1>3 DEF Over, KernelIs, Holds
  <2>4. c.expected = 42 /\ c.acquisitions = 2 /\ c.reads = 1
    BY <1>3
  <2> QED
    BY <2>1, <2>2, <2>3, <2>4 DEF EndsWell
<1>4. CASE Over(1, 1, 0, 1 - w, 0) /\ Holds(0, 7)
  <2>1. Guest!balanced(kernel)
    BY <1>2, <1>4, OverBalanced
  <2>2. /\ insn = 0 /\ registers[0] = 7
        /\ kernel.acquisitions = b + 1 /\ kernel.reads = before.reads + 0
    BY <1>4 DEF Over, KernelIs, Holds
  <2>3. CASE w = 0
    <3>1. 1 - w = 1
      BY <2>3
    <3>2. refused = TRUE /\ misuse = FALSE
      BY <1>4, <3>1, OverRefused, OverClean, Zenon
    <3>3. b + 1 < b + c.acquisitions
      BY <2>3
    <3> QED
      BY <2>1, <2>2, <3>2, <3>3 DEF EndsWell
  <2>4. CASE w = 1
    <3>1. 1 - w = 0
      BY <2>4
    <3>2. refused = FALSE /\ misuse = FALSE
      BY <1>4, <3>1, OverGiven, OverClean, Zenon
    <3>3. c.expected = 7 /\ c.acquisitions = 1 /\ c.reads = 0
      BY <2>4
    <3> QED
      BY <2>1, <2>2, <3>2, <3>3 DEF EndsWell
  <2> QED
    BY <2>3, <2>4
<1>5. CASE Over(0, 0, 0, 1, 0)
  <2>1. Guest!balanced(kernel)
    BY <1>2, <1>5, OverBalanced
  <2>2. insn = 0 /\ kernel.acquisitions = b + 0
    BY <1>5 DEF Over, KernelIs
  <2>3. refused = TRUE /\ misuse = FALSE
    BY <1>5, OverRefused, OverClean, Zenon
  <2>4. b + 0 < b + (2 - w)
    OBVIOUS
  <2> QED
    BY <2>1, <2>2, <2>3, <2>4 DEF EndsWell
<1> QED
  BY <1>1, <1>3, <1>4, <1>5

\* `valid_null` ends with 0 and has called nothing.
LEMMA NullEnds ==
    ASSUME stage = "accounting", before.acquisitions \in Nat, NullRun,
           NEW c, c.expected = 0, c.acquisitions = 0, c.reads = 0
    PROVE  EndsWell(c)
<1>1. Over(0, 0, 0, 0, 0) /\ Holds(0, 0)
  BY OverNotOn DEF NullRun
<1>2. 0 \in Nat
  OBVIOUS
<1>3. Guest!balanced(kernel)
  BY <1>1, <1>2, OverBalanced
<1>4. /\ insn = 0 /\ registers[0] = 0
      /\ kernel.acquisitions = before.acquisitions + 0 /\ kernel.reads = before.reads + 0
  BY <1>1 DEF Over, KernelIs, Holds
<1>5. refused = FALSE /\ misuse = FALSE
  BY <1>1, OverGiven, OverClean, Zenon
<1> QED
  BY <1>3, <1>4, <1>5 DEF EndsWell

\* Such a program misuses no handle on the way, and is at an instruction.
LEMMA ValidKeeps ==
    ASSUME NEW a, NEW spill, NEW w, NEW e \in 0 .. 1, ValidRun(a, spill, w, e)
    PROVE  misuse = FALSE /\ (stage = "running" => insn # 0)
<1>1. ASSUME NEW q, q # 0, NEW x, NEW y, NEW z, NEW u, On(q, x, y, z, u, 0)
      PROVE  misuse = FALSE /\ (stage = "running" => insn # 0)
  <2>1. misuse = FALSE
    BY <1>1, OnClean, Zenon
  <2>2. stage = "running" => insn # 0
    BY <1>1 DEF On
  <2> QED
    BY <2>1, <2>2, Zenon
<1>2. ASSUME NEW x, NEW y, NEW z, NEW u, Over(x, y, z, u, 0)
      PROVE  misuse = FALSE /\ (stage = "running" => insn # 0)
  <2>1. misuse = FALSE
    BY <1>2, OverClean, Zenon
  <2>2. stage = "running" => insn # 0
    BY <1>2 DEF Over
  <2> QED
    BY <2>1, <2>2, Zenon
<1>3. /\ 1 # 0 /\ 2 # 0 /\ 3 # 0 /\ 4 # 0 /\ 5 # 0 /\ 6 # 0 /\ 7 # 0 /\ 8 # 0 /\ 9 # 0
      /\ 10 # 0 /\ 10 + e # 0 /\ 11 + e # 0 /\ 12 + e # 0 /\ 13 + e # 0 /\ 14 + e # 0
      /\ 15 + e # 0 /\ 16 + e # 0 /\ 17 + e # 0 /\ 18 + e # 0
  OBVIOUS
<1>4. /\ 19 + e # 0 /\ 19 + 2 * e # 0 /\ 20 + 2 * e # 0 /\ 21 + 2 * e # 0 /\ 22 + 2 * e # 0
      /\ 23 + 2 * e # 0 /\ 23 + 2 * e + 1 # 0
  OBVIOUS
<1>5. CASE FirstPart(a, spill, w)
  BY <1>1, <1>3, <1>5, Zenon DEF FirstPart
<1>6. CASE BothPart(13 - a, spill, w, e)
  BY <1>1, <1>2, <1>3, <1>6, Zenon DEF BothPart
<1>7. CASE OnePart(spill, w, e)
  BY <1>1, <1>2, <1>4, <1>7, Zenon DEF OnePart
<1>8. CASE NonePart(23 + 2 * e)
  BY <1>1, <1>2, <1>4, <1>8, Zenon DEF NonePart
<1> QED
  BY <1>5, <1>6, <1>7, <1>8 DEF ValidRun

\* `valid_null` never misuses a handle.
LEMMA NullKeeps == NullRun => misuse = FALSE /\ (stage = "running" => insn # 0)
<1> HAVE NullRun
<1>1. ASSUME NEW q, q # 0, On(q, 0, 0, 0, 0, 0)
      PROVE  misuse = FALSE /\ (stage = "running" => insn # 0)
  <2>1. misuse = FALSE
    BY <1>1, OnClean, Zenon
  <2>2. stage = "running" => insn # 0
    BY <1>1 DEF On
  <2> QED
    BY <2>1, <2>2, Zenon
<1>2. ASSUME Over(0, 0, 0, 0, 0)
      PROVE  misuse = FALSE /\ (stage = "running" => insn # 0)
  <2>1. misuse = FALSE
    BY <1>2, OverClean, Zenon
  <2>2. stage = "running" => insn # 0
    BY <1>2 DEF Over
  <2> QED
    BY <2>1, <2>2, Zenon
<1>3. 1 # 0 /\ 2 # 0 /\ 3 # 0 /\ 8 # 0 /\ 9 # 0
  OBVIOUS
<1> QED
  BY <1>1, <1>2, <1>3, Zenon DEF NullRun

\* So that a program that is to be accepted ends well,
LEMMA AcceptedEnds ==
    ASSUME RunInv, stage = "accounting", before.acquisitions \in Nat,
           OfKind(Guest!This), Guest!This.reject = "none"
    PROVE  EndsWell(Guest!This)
<1> PICK c : c = Guest!This
  OBVIOUS
<1>1. TwiceCase(c) \/ NullCase(c)
  BY DEF OfKind, AliasedCase, Aliased, UntestedCase, LeakedCase
<1>2. c.program = Text
  BY DEF Text
<1>3. CASE TwiceCase(c)
  <2> PICK a \in 6 .. 7, spill \in Slots, w \in 0 .. 1, e \in 0 .. 1 :
              /\ Costs(spill, e) /\ ValidText(c.program, a, spill, w, e)
              /\ c.expected = IF w = 1 THEN 7 ELSE 42
              /\ c.acquisitions = 2 - w /\ c.reads = 1 - w
    BY <1>3 DEF TwiceCase
  <2>1. ValidRun(a, spill, w, e)
    BY <1>2 DEF RunInv
  <2> QED
    BY <2>1, ValidEnds
<1>4. CASE NullCase(c)
  <2>1. NullRun /\ c.expected = 0 /\ c.acquisitions = 0 /\ c.reads = 0
    BY <1>2, <1>4 DEF NullCase, RunInv
  <2> QED
    BY <2>1, NullEnds
<1> QED
  BY <1>1, <1>3, <1>4

\* and has misused nothing before.
LEMMA AcceptedKeeps ==
    ASSUME RunInv, OfKind(Guest!This), Guest!This.reject = "none"
    PROVE  misuse = FALSE /\ (stage = "running" => insn # 0)
<1> PICK c : c = Guest!This
  OBVIOUS
<1>1. TwiceCase(c) \/ NullCase(c)
  BY DEF OfKind, AliasedCase, Aliased, UntestedCase, LeakedCase
<1>2. c.program = Text
  BY DEF Text
<1>3. CASE TwiceCase(c)
  <2> PICK a \in 6 .. 7, spill \in Slots, w \in 0 .. 1, e \in 0 .. 1 :
              Costs(spill, e) /\ ValidText(c.program, a, spill, w, e)
    BY <1>3 DEF TwiceCase
  <2>1. ValidRun(a, spill, w, e)
    BY <1>2 DEF RunInv
  <2> QED
    BY <2>1, ValidKeeps
<1>4. CASE NullCase(c)
  BY <1>2, <1>4, NullKeeps DEF NullCase, RunInv
<1> QED
  BY <1>1, <1>3, <1>4

\* A probe breaks the contract if it ran: with the handle it was given, or, for the
\* one that does not look for NULL, without.
Broken == misuse = TRUE \/ kernel.handles # {}

EndsBroken(c) ==
    IF c.reject = "missing_null"
    THEN \/ refused = TRUE /\ misuse = TRUE
         \/ refused = FALSE /\ misuse = FALSE /\ kernel.handles = {}
    ELSE \/ refused = FALSE /\ Broken
         \/ refused = TRUE /\ misuse = FALSE /\ kernel.handles = {}

\* At the end handles are held just when more were acquired than released.
LEMMA OverHandles ==
    ASSUME NEW x \in Nat, NEW y \in Nat, NEW z, NEW u, NEW v, Over(x, y, z, u, v),
           before.acquisitions \in Nat
    PROVE  /\ x = y => kernel.handles = {}
           /\ x > y => kernel.handles # {}
<1> PICK c \in Nat : c = before.acquisitions
  OBVIOUS
<1>1. kernel.handles = c + y + 1 .. c + x
  BY DEF Over, KernelIs
<1>2. ASSUME x = y PROVE c + y + 1 .. c + x = {}
  BY <1>2
<1>3. ASSUME x > y PROVE c + x \in c + y + 1 .. c + x
  BY <1>3
<1> QED
  BY <1>1, <1>2, <1>3

\* A probe that was refused its handle ends without a trace.
LEMMA NoneEnds ==
    ASSUME Over(0, 0, 0, 1, 0), before.acquisitions \in Nat
    PROVE  refused = TRUE /\ misuse = FALSE /\ kernel.handles = {}
<1>1. refused = TRUE /\ misuse = FALSE
  BY OverRefused, OverClean, Zenon
<1>2. 0 \in Nat
  OBVIOUS
<1>3. kernel.handles = {}
  BY <1>2, OverHandles
<1> QED
  BY <1>1, <1>3, Zenon

\* A probe that used a stale handle ends with its misuse, or was refused one.
LEMMA AliasedEnds ==
    ASSUME stage = "accounting", before.acquisitions \in Nat, NEW c,
           c.reject # "missing_null", NEW spill, NEW e, AliasedRun(spill, e)
    PROVE  EndsBroken(c)
<1>1. Over(1, 1, 0, 0, 1) \/ Over(0, 0, 0, 1, 0)
  BY OverNotOn DEF AliasedRun, NonePart
<1>2. CASE Over(1, 1, 0, 0, 1)
  <2>1. refused = FALSE /\ misuse = TRUE
    BY <1>2, OverGiven, OverMisused, Zenon
  <2> QED
    BY <2>1, Zenon DEF EndsBroken, Broken
<1>3. CASE Over(0, 0, 0, 1, 0)
  BY <1>3, NoneEnds, Zenon DEF EndsBroken
<1> QED
  BY <1>1, <1>2, <1>3

\* A probe that leaks ends with the handle held, or was refused one.
LEMMA LeakedEnds ==
    ASSUME stage = "accounting", before.acquisitions \in Nat, NEW c,
           c.reject # "missing_null", LeakedRun
    PROVE  EndsBroken(c)
<1>1. Over(1, 0, 0, 0, 0) \/ Over(0, 0, 0, 1, 0)
  BY OverNotOn DEF LeakedRun, NonePart
<1>2. CASE Over(1, 0, 0, 0, 0)
  <2>1. refused = FALSE
    BY <1>2, OverGiven, Zenon
  <2>2. 0 \in Nat /\ 1 \in Nat /\ 1 > 0
    OBVIOUS
  <2>3. kernel.handles # {}
    BY <1>2, <2>2, OverHandles
  <2> QED
    BY <2>1, <2>3, Zenon DEF EndsBroken, Broken
<1>3. CASE Over(0, 0, 0, 1, 0)
  BY <1>3, NoneEnds, Zenon DEF EndsBroken
<1> QED
  BY <1>1, <1>2, <1>3

\* The probe that did not test is misused just when it was refused.
LEMMA UntestedEnds ==
    ASSUME stage = "accounting", before.acquisitions \in Nat, NEW c,
           c.reject = "missing_null", UntestedRun \/ NullUsedRun
    PROVE  EndsBroken(c)
<1>1. Over(1, 1, 1, 0, 0) \/ Over(0, 0, 0, 1, 1)
  BY OverNotOn DEF UntestedRun, NullUsedRun
<1>2. CASE Over(1, 1, 1, 0, 0)
  <2>1. refused = FALSE /\ misuse = FALSE
    BY <1>2, OverGiven, OverClean, Zenon
  <2>2. 1 \in Nat
    OBVIOUS
  <2>3. kernel.handles = {}
    BY <1>2, <2>2, OverHandles
  <2> QED
    BY <2>1, <2>3, Zenon DEF EndsBroken
<1>3. CASE Over(0, 0, 0, 1, 1)
  <2>1. refused = TRUE /\ misuse = TRUE
    BY <1>3, OverRefused, OverMisused, Zenon
  <2> QED
    BY <2>1, Zenon DEF EndsBroken
<1> QED
  BY <1>1, <1>2, <1>3

\* Each probe ends with what the verifier rejects it for.
LEMMA RejectedEnds ==
    ASSUME RunInv, stage = "accounting", before.acquisitions \in Nat,
           OfKind(Guest!This), Guest!This.reject # "none"
    PROVE  EndsBroken(Guest!This)
<1> PICK c : c = Guest!This
  OBVIOUS
<1>1. c.program = Text
  BY DEF Text
<1>2. AliasedCase(c) \/ UntestedCase(c) \/ LeakedCase(c)
  BY DEF OfKind, TwiceCase, NullCase
<1>3. CASE AliasedCase(c)
  <2> PICK e \in 0 .. 1 : Costs(ProbeSlot(c.reject), e) /\ AliasedText(c.program, c.reject, e)
    BY <1>3 DEF AliasedCase
  <2>1. c.reject \in Aliased /\ c.reject # "missing_null"
    BY <1>3 DEF AliasedCase, Aliased
  <2>2. AliasedRun(ProbeSlot(c.reject), e)
    BY <1>1, <2>1 DEF RunInv
  <2> QED
    BY <2>1, <2>2, AliasedEnds
<1>4. CASE UntestedCase(c)
  BY <1>1, <1>4, UntestedEnds DEF UntestedCase, RunInv
<1>5. CASE LeakedCase(c)
  <2>1. c.reject # "missing_null" /\ LeakedRun
    BY <1>1, <1>5 DEF LeakedCase, RunInv
  <2> QED
    BY <2>1, LeakedEnds
<1> QED
  BY <1>2, <1>3, <1>4, <1>5

-----------------------------------------------------------------------------
(* A program by itself, from an object nobody holds.                          *)
AloneInv == RunInv /\ index \in 1 .. 19 /\ before = Guest!Fresh

\* A program by itself begins at its first instruction.
LEMMA AloneBegins == Guest!AloneInit => AloneInv
<1> HAVE Guest!AloneInit
<1>1. DOMAIN Guest!Cases = 1 .. 19
  BY CasesAre
<1>2. /\ stage = "running" /\ insn = 1 /\ index \in 1 .. 19 /\ before = Guest!Fresh
      /\ kernel = Guest!Fresh /\ refused = FALSE /\ misuse = FALSE
      /\ DOMAIN registers = 0 .. 10 /\ DOMAIN slots = {-8, -16}
  BY <1>1 DEF Guest!AloneInit
<1>3. /\ Guest!Fresh.acquisitions = 0 /\ Guest!Fresh.reads = 0 /\ Guest!Fresh.refs = 1
      /\ Guest!Fresh.releases = 0 /\ Guest!Fresh.handles = {} /\ Guest!Fresh \in Counters
  BY DEF Guest!Fresh, Counters
<1>4. 0 + 0 + 1 .. 0 + 0 = {} /\ 1 + 0 - 0 = 1 /\ 0 + 0 = 0 /\ 0 \in Nat
  OBVIOUS
<1>5. KernelIs(0, 0, 0)
  BY <1>2, <1>3, <1>4 DEF KernelIs
<1>6. refused = (0 = 1) /\ misuse = (0 = 1)
  BY <1>2, ZeroIsNotOne
<1>7. On(1, 0, 0, 0, 0, 0)
  BY <1>2, <1>3, <1>4, <1>5, <1>6, Zenon DEF On
<1> QED
  BY <1>2, <1>7, RunBegins, Zenon DEF AloneInv

\* A program by itself goes on along its text.
LEMMA AloneGoesOn == AloneInv /\ Guest!AloneNext => AloneInv'
<1> HAVE AloneInv /\ Guest!AloneNext
<1>1. Moves
  BY DEF Guest!AloneNext, Moves
<1>2. RunInv'
  BY <1>1, RunGoesOn DEF AloneInv
<1>3. index' = index /\ before' = before
  BY <1>1 DEF Moves, Guest!Step, Guest!Stop
<1> QED
  BY <1>2, <1>3 DEF AloneInv, Guest!Fresh

\* The case under way is one of the kinds the runs are described for.
LEMMA ThisOfKind == index \in 1 .. 19 => OfKind(Guest!This)
BY CaseKinds DEF Guest!This

\* What the programs to be accepted, and the probes, promise of such a run.
LEMMA AloneKeepsContract == AloneInv => Guest!ValidKeepContract
<1> HAVE AloneInv
<1> PICK c : c = Guest!This
  OBVIOUS
<1>1. /\ Guest!Fresh.acquisitions = 0 /\ Guest!Fresh.reads = 0
      /\ before.acquisitions \in Nat /\ before = Guest!Fresh
  BY DEF Guest!Fresh, AloneInv
<1>2. OfKind(c) /\ RunInv
  BY ThisOfKind DEF AloneInv
<1>3. ASSUME c.reject = "none" PROVE misuse = FALSE
  BY <1>2, <1>3, AcceptedKeeps, Zenon
<1>4. ASSUME c.reject = "none", stage = "accounting"
      PROVE  /\ kernel.handles = {}
             /\ \/ refused = TRUE
                \/ /\ registers[0] = c.expected
                   /\ kernel.acquisitions = c.acquisitions /\ kernel.reads = c.reads
  <2>1. EndsWell(c)
    BY <1>1, <1>2, <1>4, AcceptedEnds
  <2>2. kernel.handles = {}
    BY <2>1 DEF EndsWell, Guest!balanced
  <2>3. (c.acquisitions \in Nat /\ c.reads \in Nat)
    <3>1. TwiceCase(c) \/ NullCase(c)
      BY <1>2, <1>4 DEF OfKind, AliasedCase, Aliased, UntestedCase, LeakedCase
    <3>2. \A w \in 0 .. 1 : 2 - w \in Nat /\ 1 - w \in Nat
      OBVIOUS
    <3> QED
      BY <3>1, <3>2 DEF TwiceCase, NullCase
  <2>4. 0 + c.acquisitions = c.acquisitions /\ 0 + c.reads = c.reads
    BY <2>3
  <2>5. CASE refused = TRUE
    BY <2>2, <2>5, Zenon
  <2>6. CASE refused # TRUE
    <3>1. /\ registers[0] = c.expected
          /\ kernel.acquisitions = before.acquisitions + c.acquisitions
          /\ kernel.reads = before.reads + c.reads
      BY <2>1, <2>6, Zenon DEF EndsWell
    <3>2. kernel.acquisitions = c.acquisitions /\ kernel.reads = c.reads
      BY <1>1, <2>4, <3>1
    <3> QED
      BY <2>2, <3>1, <3>2, Zenon
  <2> QED
    BY <2>5, <2>6
<1> QED
  BY <1>3, <1>4, Zenon DEF Guest!ValidKeepContract

\* What the run of a program by itself shows of its verdict.
LEMMA AloneForCause == AloneInv => Guest!RejectedForCause
<1> HAVE AloneInv
<1> SUFFICES ASSUME stage = "accounting", Guest!This.reject # "none"
             PROVE  (misuse \/ kernel.handles # {}) =
                       IF Guest!This.reject = "missing_null" THEN refused ELSE ~refused
  BY Zenon DEF Guest!RejectedForCause
<1> PICK c : c = Guest!This
  OBVIOUS
<1>1. before.acquisitions \in Nat
  BY DEF Guest!Fresh, AloneInv
<1>2. OfKind(c) /\ RunInv
  BY ThisOfKind DEF AloneInv
<1>3. EndsBroken(c)
  BY <1>1, <1>2, RejectedEnds
<1>4. CASE c.reject = "missing_null"
  BY <1>3, <1>4, Zenon DEF EndsBroken
<1>5. CASE c.reject # "missing_null"
  <2>1. CASE refused = TRUE /\ misuse = FALSE /\ kernel.handles = {}
    BY <1>5, <2>1, Zenon
  <2>2. CASE refused = FALSE /\ misuse = TRUE
    BY <1>5, <2>2, Zenon
  <2>3. CASE refused = FALSE /\ kernel.handles # {}
    BY <1>5, <2>3, Zenon
  <2> QED
    BY <1>3, <1>5, <2>1, <2>2, <2>3, Zenon DEF EndsBroken, Broken
<1> QED
  BY <1>4, <1>5

-----------------------------------------------------------------------------
(* The guest: the module between two runs, the case in hand, the descriptors. *)
ModuleInv ==
    /\ kernel \in Counters /\ before \in Counters
    /\ ~Underway => Guest!balanced(kernel) /\ insn = 0 /\ misuse = FALSE
    /\ stage \in {"load", "jit", "run"} => before = kernel
    /\ ~Underway /\ stage \notin {"out", "poweroff"} => refused = FALSE

\* Only a program that is to be accepted gets past its loading.
Loaded == {"jit", "run", "running", "accounting"}

CaseInv ==
    /\ index \in 1 .. 19
    /\ stage \in Loaded => Guest!This.reject = "none"
    /\ ran = {}

Early == {"identity", "prepare", "module_btf", "returned", "poweroff"}
Ready == {"initial_accounting", "case", "load", "next", "final_accounting"}

FilesInv ==
    /\ stage \in Early => open = {}
    /\ stage \in Ready => open = {"module"}
    /\ stage \in Loaded \cup {"unexpected"} => open = {"module", "program"}
    /\ stage = "out" => open \subseteq {"module"}

GuestInv == ModuleInv /\ CaseInv /\ FilesInv /\ UnderwayInv

\* Counters that count nothing are balanced.
LEMMA FreshIsBalanced ==
    /\ Guest!Fresh \in Counters /\ Guest!balanced(Guest!Fresh)
    /\ Guest!Fresh.acquisitions = 0 /\ Guest!Fresh.reads = 0
BY DEF Guest!Fresh, Counters, Guest!balanced

\* The guest begins with no module, no file and no case.
LEMMA GuestBegins == Guest!GuestInit => GuestInv
<1> HAVE Guest!GuestInit
<1>1. /\ stage = "identity" /\ index = 1 /\ open = {} /\ before = Guest!Fresh
      /\ kernel = Guest!Fresh /\ insn = 0 /\ misuse = FALSE /\ refused = FALSE /\ ran = {}
  BY DEF Guest!GuestInit
<1>2. ModuleInv
  BY <1>1, FreshIsBalanced DEF ModuleInv, Underway
<1>3. CaseInv
  BY <1>1 DEF CaseInv, Loaded
<1>4. FilesInv
  BY <1>1 DEF FilesInv, Early, Ready, Loaded
<1>5. UnderwayInv
  BY <1>1 DEF UnderwayInv, Underway
<1> QED
  BY <1>2, <1>3, <1>4, <1>5 DEF GuestInv

\* Where a step of the guest itself leads from: nothing of the module changes.
Still == UNCHANGED <<kernel, insn, registers, slots, misuse, refused, index, ran>>

\* A case left closes its program.
LEMMA Leaving ==
    ASSUME NEW ok, Guest!Leave(ok)
    PROVE  open' = open \ {"program"} /\ stage' = IF ok THEN "next" ELSE "out"
BY DEF Guest!Leave, Guest!Closed, Guest!Goes

\* Steps that lead from one stage without a run to another.
LEMMA QuietGoesOn ==
    ASSUME ModuleInv, Still, NEW f, stage = f, NEW t, stage' = t,
           ~Underway, t \notin {"running", "accounting", "jit", "run", "load"},
           before' = before, t \in {"out", "poweroff"} \/ f \notin {"out", "poweroff"}
    PROVE  ModuleInv'
<1>1. kernel \in Counters /\ Guest!balanced(kernel) /\ insn = 0 /\ misuse = FALSE
  BY DEF ModuleInv
<1>2. t \notin {"out", "poweroff"} => refused = FALSE
  BY DEF ModuleInv
<1> QED
  BY <1>1, <1>2 DEF ModuleInv, Underway, Still, Guest!balanced

\* A step between runs leaves the case and the run as they are.
LEMMA QuietCase ==
    ASSUME CaseInv, Still, stage' \notin {"running", "accounting"},
           stage' \in Loaded => Guest!This.reject = "none"
    PROVE  CaseInv' /\ UnderwayInv'
<1>1. Guest!This' = Guest!This /\ index' = index /\ ran' = ran
  BY DEF Still, Guest!This
<1>2. CaseInv'
  BY <1>1 DEF CaseInv
<1> QED
  BY <1>2 DEF UnderwayInv, Underway

\* Up to the first case.
LEMMA EarlyGoesOn ==
    ASSUME GuestInv,
           \/ Guest!Identity \/ Guest!Prepare \/ Guest!ModuleBtf \/ Guest!InitialAccounting
    PROVE  GuestInv'
<1>1. Still /\ before' = before /\ ModuleInv /\ CaseInv /\ FilesInv
  BY DEF Guest!Identity, Guest!Prepare, Guest!ModuleBtf, Guest!InitialAccounting, Still,
         Guest!machine, GuestInv
<1>2. /\ stage \in {"identity", "prepare", "module_btf", "initial_accounting"}
      /\ stage' \in {"prepare", "returned", "module_btf", "out", "initial_accounting", "case"}
  BY DEF Guest!Identity, Guest!Prepare, Guest!ModuleBtf, Guest!InitialAccounting, Guest!Goes
<1>3. ModuleInv'
  BY <1>1, <1>2, QuietGoesOn DEF Underway
<1>4. CaseInv' /\ UnderwayInv'
  BY <1>1, <1>2, QuietCase DEF Loaded
<1>5. FilesInv'
  <2>1. CASE Guest!Identity
    BY <1>1, <2>1 DEF Guest!Identity, Guest!Goes, FilesInv, Early, Ready, Loaded
  <2>2. CASE Guest!Prepare
    BY <1>1, <2>2 DEF Guest!Prepare, Guest!Goes, FilesInv, Early, Ready, Loaded
  <2>3. CASE Guest!ModuleBtf
    BY <1>1, <2>3 DEF Guest!ModuleBtf, Guest!Goes, FilesInv, Early, Ready, Loaded
  <2>4. CASE Guest!InitialAccounting
    BY <1>1, <2>4 DEF Guest!InitialAccounting, Guest!Goes, FilesInv, Early, Ready, Loaded
  <2> QED
    BY <2>1, <2>2, <2>3, <2>4
<1> QED
  BY <1>3, <1>4, <1>5 DEF GuestInv

\* A case begins: its counters are those that the run will start from.
LEMMA BeforeGoesOn == ASSUME GuestInv, Guest!Before PROVE GuestInv'
<1>1. Still /\ ModuleInv /\ CaseInv /\ FilesInv
  BY DEF Guest!Before, Still, Guest!machine, GuestInv
<1>2. /\ stage = "case" /\ open' = open
      /\ \/ stage' = "out" /\ before' = before
         \/ stage' = "load" /\ before' = kernel
  BY DEF Guest!Before, Guest!Goes, Guest!Snapshot
<1>3. ModuleInv'
  <2>1. CASE stage' = "out" /\ before' = before
    BY <1>1, <1>2, <2>1, QuietGoesOn DEF Underway
  <2>2. CASE stage' = "load" /\ before' = kernel
    <3>1. /\ kernel \in Counters /\ Guest!balanced(kernel) /\ insn = 0 /\ misuse = FALSE
          /\ refused = FALSE
      BY <1>1, <1>2 DEF ModuleInv, Underway
    <3> QED
      BY <1>1, <2>2, <3>1 DEF ModuleInv, Underway, Still, Guest!balanced
  <2> QED
    BY <1>2, <2>1, <2>2
<1>4. CaseInv' /\ UnderwayInv'
  BY <1>1, <1>2, QuietCase DEF Loaded
<1>5. FilesInv'
  BY <1>1, <1>2 DEF FilesInv, Early, Ready, Loaded
<1> QED
  BY <1>3, <1>4, <1>5 DEF GuestInv

\* Its program is loaded, which for a probe leads nowhere else than out.
LEMMA LoadGoesOn ==
    ASSUME GuestInv, Guest!LoadAccepted \/ Guest!LoadRefused
    PROVE  GuestInv'
<1>1. Still /\ before' = before /\ ModuleInv /\ CaseInv /\ FilesInv /\ stage = "load"
  BY DEF Guest!LoadAccepted, Guest!LoadRefused, Still, Guest!machine, GuestInv
<1>2. \/ /\ stage' = IF Guest!This.reject = "none" THEN "jit" ELSE "unexpected"
         /\ open' = open \cup {"program"}
      \/ stage' \in {"next", "out"} /\ open' = open \ {"program"}
  <2>1. CASE Guest!LoadAccepted
    BY <2>1 DEF Guest!LoadAccepted, Guest!Goes, Guest!AfterAccept
  <2>2. CASE Guest!LoadRefused
    <3> PICK ok \in BOOLEAN : Guest!Leave(ok)
      BY <2>2 DEF Guest!LoadRefused
    <3> QED
      BY Leaving
  <2> QED
    BY <2>1, <2>2
<1>3. /\ kernel \in Counters /\ Guest!balanced(kernel) /\ insn = 0 /\ misuse = FALSE
      /\ refused = FALSE /\ before = kernel
  BY <1>1 DEF ModuleInv, Underway
<1>4. stage' \in {"jit", "unexpected", "next", "out"}
  BY <1>2
<1>5. ModuleInv'
  BY <1>1, <1>3, <1>4 DEF ModuleInv, Underway, Still, Guest!balanced
<1>6. CaseInv' /\ UnderwayInv'
  <2>1. stage' \in Loaded => Guest!This.reject = "none"
    BY <1>2 DEF Loaded
  <2> QED
    BY <1>1, <1>4, <2>1, QuietCase
<1>7. FilesInv'
  <2>1. open = {"module"}
    BY <1>1 DEF FilesInv, Ready
  <2>2. /\ {"module"} \cup {"program"} = {"module", "program"}
        /\ {"module"} \ {"program"} = {"module"}
    OBVIOUS
  <2> QED
    BY <1>2, <2>1, <2>2 DEF FilesInv, Early, Ready, Loaded
<1> QED
  BY <1>5, <1>6, <1>7 DEF GuestInv

\* The verdict on a loaded probe, and the translated length.
LEMMA LoadedGoesOn ==
    ASSUME GuestInv, Guest!Unexpected \/ Guest!JitedLength
    PROVE  GuestInv'
<1>1. Still /\ before' = before /\ ModuleInv /\ CaseInv /\ FilesInv
  BY DEF Guest!Unexpected, Guest!JitedLength, Still, Guest!machine, GuestInv
<1>2. \/ /\ stage \in {"unexpected", "jit"} /\ stage' \in {"next", "out"}
         /\ open' = open \ {"program"}
      \/ stage = "jit" /\ stage' = "run" /\ open' = open
  <2>1. CASE Guest!Unexpected
    <3>1. stage = "unexpected" /\ Guest!Leave(Guest!UnexpectedOk)
      BY <2>1 DEF Guest!Unexpected
    <3> QED
      BY <3>1, Leaving
  <2>2. CASE Guest!JitedLength /\ Guest!Leave(FALSE)
    BY <2>2, Leaving DEF Guest!JitedLength
  <2>3. CASE Guest!JitedLength /\ Guest!Goes("run") /\ open' = open
    BY <2>3 DEF Guest!JitedLength, Guest!Goes
  <2> QED
    BY <2>1, <2>2, <2>3 DEF Guest!JitedLength
<1>3. /\ kernel \in Counters /\ Guest!balanced(kernel) /\ insn = 0 /\ misuse = FALSE
      /\ refused = FALSE /\ (stage = "jit" => before = kernel)
  BY <1>1, <1>2 DEF ModuleInv, Underway
<1>4. ModuleInv'
  BY <1>1, <1>2, <1>3 DEF ModuleInv, Underway, Still, Guest!balanced
<1>5. CaseInv' /\ UnderwayInv'
  <2>1. stage' \in Loaded => Guest!This.reject = "none"
    BY <1>1, <1>2 DEF Loaded, CaseInv
  <2> QED
    BY <1>1, <1>2, <2>1, QuietCase
<1>6. FilesInv'
  <2>1. open = {"module", "program"}
    BY <1>1, <1>2 DEF FilesInv, Loaded
  <2>2. {"module", "program"} \ {"program"} = {"module"}
    OBVIOUS
  <2> QED
    BY <1>2, <2>1, <2>2 DEF FilesInv, Early, Ready, Loaded
<1> QED
  BY <1>4, <1>5, <1>6 DEF GuestInv

\* A run begins; it is a program that is to be accepted.
LEMMA RunLoadedGoesOn == ASSUME GuestInv, Guest!RunLoaded PROVE GuestInv'
<1>1. /\ stage = "run" /\ index' = index /\ before' = before
      /\ ModuleInv /\ CaseInv /\ FilesInv
  BY DEF Guest!RunLoaded, GuestInv
<1>2. /\ kernel \in Counters /\ Guest!balanced(kernel) /\ insn = 0 /\ misuse = FALSE
      /\ refused = FALSE /\ before = kernel /\ Guest!This.reject = "none" /\ ran = {}
      /\ open = {"module", "program"} /\ index \in 1 .. 19
  BY <1>1 DEF ModuleInv, CaseInv, FilesInv, Underway, Loaded
<1>3. CASE Guest!Leave(FALSE) /\ UNCHANGED <<Guest!machine, ran>>
  <2>1. Still /\ stage' = "out" /\ open' = open \ {"program"}
    BY <1>1, <1>3, Leaving DEF Still, Guest!machine
  <2>2. ModuleInv'
    BY <1>1, <1>2, <2>1 DEF ModuleInv, Underway, Still, Guest!balanced
  <2>3. CaseInv' /\ UnderwayInv'
    BY <1>1, <2>1, QuietCase DEF Loaded
  <2>4. FilesInv'
    BY <1>2, <2>1 DEF FilesInv, Early, Ready, Loaded
  <2> QED
    BY <2>2, <2>3, <2>4 DEF GuestInv
<1>4. CASE /\ Guest!Goes("running")
           /\ ran' = ran \cup ({Guest!This.reject} \ {"none"})
           /\ Guest!StartProgram
           /\ UNCHANGED <<open, kernel, misuse, refused>>
  <2>1. /\ stage' = "running" /\ ran' = {} /\ open' = open /\ kernel' = kernel
        /\ misuse' = FALSE /\ refused' = FALSE /\ insn' = 1
        /\ DOMAIN registers' = 0 .. 10 /\ DOMAIN slots' = {-8, -16}
    BY <1>2, <1>4 DEF Guest!Goes, Guest!StartProgram
  <2>2. Guest!This' = Guest!This
    BY <1>1 DEF Guest!This
  <2>3. On(1, 0, 0, 0, 0, 0)'
    <3> PICK b \in Nat : b = kernel.acquisitions
      BY <1>2 DEF Counters
    <3>1. /\ kernel.refs = 1 /\ kernel.releases = b /\ kernel.handles = {}
          /\ kernel.reads \in Nat
      BY <1>2 DEF Guest!balanced, Counters
    <3>2. b + 0 + 1 .. b + 0 = {} /\ 1 + 0 - 0 = 1 /\ b + 0 = b
      OBVIOUS
    <3>3. kernel.reads + 0 = kernel.reads
      BY <3>1
    <3>4. KernelIs(0, 0, 0)'
      BY <1>1, <1>2, <2>1, <3>1, <3>2, <3>3 DEF KernelIs
    <3>5. misuse' = (0 = 1) /\ refused' = (0 = 1)
      BY <2>1, ZeroIsNotOne
    <3>6. before'.acquisitions \in Nat /\ before'.reads \in Nat
      BY <1>1, <1>2, <3>1
    <3> QED
      BY <2>1, <3>4, <3>5, <3>6, Zenon DEF On
  <2>4. RunInv'
    BY <2>3, RunBegins, PTL
  <2>5. ModuleInv'
    BY <1>1, <1>2, <2>1 DEF ModuleInv, Underway
  <2>6. CaseInv'
    BY <1>1, <1>2, <2>1, <2>2 DEF CaseInv
  <2>7. FilesInv'
    BY <1>2, <2>1 DEF FilesInv, Early, Ready, Loaded
  <2>8. UnderwayInv'
    BY <2>4 DEF UnderwayInv
  <2> QED
    BY <2>5, <2>6, <2>7, <2>8 DEF GuestInv
<1> QED
  BY <1>3, <1>4 DEF Guest!RunLoaded

\* The program moves; its counters are the module's.
LEMMA OnCounters ==
    ASSUME NEW q, NEW x, NEW y, NEW z, NEW u, NEW v,
           On(q, x, y, z, u, v) \/ Over(x, y, z, u, v)
    PROVE  kernel \in Counters
BY DEF On, Over, KernelIs

\* `valid_ab` counts in numbers.
LEMMA ValidCounters ==
    ASSUME NEW a, NEW spill, NEW w, NEW e, ValidRun(a, spill, w, e)
    PROVE  kernel \in Counters
<1>1. ASSUME FirstPart(a, spill, w) PROVE kernel \in Counters
  BY <1>1, OnCounters, Zenon DEF FirstPart
<1>2. ASSUME BothPart(13 - a, spill, w, e) PROVE kernel \in Counters
  BY <1>2, OnCounters, Zenon DEF BothPart
<1>3. ASSUME OnePart(spill, w, e) PROVE kernel \in Counters
  BY <1>3, OnCounters, Zenon DEF OnePart
<1>4. ASSUME NonePart(23 + 2 * e) PROVE kernel \in Counters
  BY <1>4, OnCounters, Zenon DEF NonePart
<1> QED
  BY <1>1, <1>2, <1>3, <1>4 DEF ValidRun

\* So does each accepted program.
LEMMA AcceptedCounters ==
    RunInv /\ OfKind(Guest!This) /\ Guest!This.reject = "none" => kernel \in Counters
<1> HAVE RunInv /\ OfKind(Guest!This) /\ Guest!This.reject = "none"
<1> PICK c : c = Guest!This
  OBVIOUS
<1>1. TwiceCase(c) \/ NullCase(c)
  BY DEF OfKind, AliasedCase, Aliased, UntestedCase, LeakedCase
<1>2. c.program = Text
  BY DEF Text
<1>3. CASE TwiceCase(c)
  <2> PICK a \in 6 .. 7, spill \in Slots, w \in 0 .. 1, e \in 0 .. 1 :
              Costs(spill, e) /\ ValidText(c.program, a, spill, w, e)
    BY <1>3 DEF TwiceCase
  <2>1. ValidRun(a, spill, w, e)
    BY <1>2 DEF RunInv
  <2> QED
    BY <2>1, ValidCounters
<1>4. CASE NullCase(c)
  <2>1. NullRun
    BY <1>2, <1>4 DEF NullCase, RunInv
  <2> QED
    BY <2>1, OnCounters, Zenon DEF NullRun
<1> QED
  BY <1>1, <1>3, <1>4

\* An instruction of the running case.
LEMMA MovesGoOn == ASSUME GuestInv, Moves PROVE GuestInv'
<1>1. /\ stage = "running" /\ stage' \in {"running", "accounting"} /\ index' = index
      /\ before' = before /\ open' = open /\ ran' = ran
      /\ ModuleInv /\ CaseInv /\ FilesInv /\ RunInv
  BY DEF Moves, Guest!Step, Guest!Stop, GuestInv, UnderwayInv, Underway
<1>2. RunInv'
  BY <1>1, RunGoesOn
<1>3. Guest!This' = Guest!This
  BY <1>1 DEF Guest!This
<1>4. CaseInv' /\ (index \in 1 .. 19)' /\ (Guest!This.reject = "none")'
  BY <1>1, <1>3 DEF CaseInv, Loaded
<1>5. OfKind(Guest!This)'
  BY <1>1, <1>3, ThisOfKind DEF CaseInv
<1>6. (kernel \in Counters)'
  BY <1>2, <1>4, <1>5, AcceptedCounters, PTL
<1>7. ModuleInv'
  BY <1>1, <1>6 DEF ModuleInv, Underway
<1>8. FilesInv'
  BY <1>1 DEF FilesInv, Early, Ready, Loaded
<1> QED
  BY <1>2, <1>4, <1>7, <1>8 DEF GuestInv, UnderwayInv

\* It is accounted for: again, or on to the next case, only as the table says.
LEMMA AccountingGoesOn == ASSUME GuestInv, Guest!Accounting PROVE GuestInv'
<1>1. /\ stage = "accounting" /\ Still /\ ModuleInv /\ CaseInv /\ FilesInv /\ RunInv
  BY DEF Guest!Accounting, Still, Guest!machine, GuestInv, UnderwayInv, Underway
<1>2. /\ index \in 1 .. 19 /\ Guest!This.reject = "none" /\ ran = {}
      /\ open = {"module", "program"} /\ before \in Counters
  BY <1>1 DEF CaseInv, FilesInv, ModuleInv, Loaded
<1>3. OfKind(Guest!This)
  BY <1>2, ThisOfKind
<1>4. EndsWell(Guest!This) /\ kernel \in Counters
  <2>1. before.acquisitions \in Nat
    BY <1>2 DEF Counters
  <2> QED
    BY <1>1, <1>2, <1>3, <2>1, AcceptedEnds, AcceptedCounters
<1>5. \/ stage' = "out" /\ open' = open \ {"program"} /\ before' = before
      \/ /\ Guest!delta(before, kernel, Guest!This.acquisitions, Guest!This.reads)
         /\ before' = kernel
         /\ \/ stage' = "run" /\ open' = open
            \/ stage' = "next" /\ open' = open \ {"program"}
  <2>1. CASE Guest!Leave(FALSE) /\ before' = before
    BY <2>1, Leaving
  <2>2. CASE /\ Guest!delta(before, Guest!Snapshot, Guest!This.acquisitions, Guest!This.reads)
             /\ before' = Guest!Snapshot
             /\ \/ Guest!Goes("run") /\ open' = open
                \/ Guest!Leave(TRUE)
    BY <2>2, Leaving DEF Guest!Snapshot, Guest!Goes
  <2> QED
    BY <2>1, <2>2 DEF Guest!Accounting
<1>6. stage' \in {"out", "run", "next"}
  BY <1>5
<1>7. stage' # "out" => refused = FALSE
  <2> PICK x : x = Guest!This.acquisitions
    OBVIOUS
  <2>1. ASSUME stage' # "out", refused = TRUE PROVE FALSE
    <3>1. kernel.acquisitions = before.acquisitions + x
      BY <1>5, <2>1 DEF Guest!delta
    <3>2. kernel.acquisitions < before.acquisitions + x /\ kernel.acquisitions \in Nat
      BY <1>4, <2>1, Zenon DEF EndsWell, Counters
    <3> QED
      BY <3>1, <3>2
  <2> QED
    BY <1>4, <2>1, Zenon DEF EndsWell
<1>8. ModuleInv'
  <2>1. insn = 0 /\ misuse = FALSE /\ Guest!balanced(kernel) /\ kernel \in Counters
    BY <1>4 DEF EndsWell
  <2> QED
    BY <1>1, <1>2, <1>5, <1>6, <1>7, <2>1 DEF ModuleInv, Underway, Still, Guest!balanced
<1>9. CaseInv' /\ UnderwayInv'
  BY <1>1, <1>2, <1>6, QuietCase
<1>10. FilesInv'
  BY <1>2, <1>5 DEF FilesInv, Early, Ready, Loaded
<1> QED
  BY <1>8, <1>9, <1>10 DEF GuestInv

\* After the last case, or on to the next one.
LEMMA AdvanceGoesOn == ASSUME GuestInv, Guest!Advance PROVE GuestInv'
<1>1. /\ stage = "next" /\ UNCHANGED <<kernel, insn, registers, slots, misuse, refused, ran>>
      /\ open' = open /\ before' = before /\ ModuleInv /\ CaseInv /\ FilesInv
  BY DEF Guest!Advance, Guest!machine, GuestInv
<1>2. /\ kernel \in Counters /\ Guest!balanced(kernel) /\ insn = 0 /\ misuse = FALSE
      /\ refused = FALSE /\ before \in Counters /\ index \in 1 .. 19 /\ ran = {}
      /\ open = {"module"}
  BY <1>1 DEF ModuleInv, CaseInv, FilesInv, Underway, Ready
<1>3. /\ stage' \in {"final_accounting", "case"} /\ index' \in 1 .. 19
  <2>1. Len(Guest!Cases) = 19
    BY CasesAre
  <2>2. CASE index = 19
    BY <1>2, <2>1, <2>2 DEF Guest!Advance, Guest!Goes
  <2>3. CASE index # 19
    <3>1. stage' = "case" /\ index' = index + 1
      BY <2>1, <2>3 DEF Guest!Advance, Guest!Goes
    <3>2. index + 1 \in 1 .. 19
      BY <1>2, <2>3
    <3> QED
      BY <3>1, <3>2
  <2> QED
    BY <2>2, <2>3
<1>4. ModuleInv'
  BY <1>1, <1>2, <1>3 DEF ModuleInv, Underway, Guest!balanced
<1>5. CaseInv' /\ UnderwayInv'
  BY <1>1, <1>2, <1>3 DEF CaseInv, UnderwayInv, Underway, Loaded
<1>6. FilesInv'
  BY <1>1, <1>2, <1>3 DEF FilesInv, Early, Ready, Loaded
<1> QED
  BY <1>4, <1>5, <1>6 DEF GuestInv

\* The final accounting, and the way out.
LEMMA LateGoesOn ==
    ASSUME GuestInv, Guest!FinalAccounting \/ Guest!Out
    PROVE  GuestInv'
<1>1. Still /\ before' = before /\ ModuleInv /\ CaseInv /\ FilesInv
  BY DEF Guest!FinalAccounting, Guest!Out, Still, Guest!machine, GuestInv
<1>2. \/ stage = "final_accounting" /\ stage' = "out" /\ open' = open
      \/ stage = "out" /\ stage' = "poweroff" /\ open' = open \ {"module"}
  BY DEF Guest!FinalAccounting, Guest!Out, Guest!Goes
<1>3. ModuleInv'
  BY <1>1, <1>2, QuietGoesOn DEF Underway
<1>4. CaseInv' /\ UnderwayInv'
  BY <1>1, <1>2, QuietCase DEF Loaded
<1>5. FilesInv'
  BY <1>1, <1>2 DEF FilesInv, Early, Ready, Loaded
<1> QED
  BY <1>3, <1>4, <1>5 DEF GuestInv

\* Every step of the guest keeps what holds of it.
LEMMA GuestGoesOn == GuestInv /\ Guest!GuestNext => GuestInv'
<1> HAVE GuestInv /\ Guest!GuestNext
<1>1. CASE Guest!Identity \/ Guest!Prepare \/ Guest!ModuleBtf \/ Guest!InitialAccounting
  BY <1>1, EarlyGoesOn
<1>2. CASE Guest!Before
  BY <1>2, BeforeGoesOn
<1>3. CASE Guest!LoadAccepted \/ Guest!LoadRefused
  BY <1>3, LoadGoesOn
<1>4. CASE Guest!Unexpected \/ Guest!JitedLength
  BY <1>4, LoadedGoesOn
<1>5. CASE Guest!RunLoaded
  BY <1>5, RunLoadedGoesOn
<1>6. CASE Guest!Step \/ Guest!Stop
  BY <1>6, MovesGoOn DEF Moves
<1>7. CASE Guest!Accounting
  BY <1>7, AccountingGoesOn
<1>8. CASE Guest!Advance
  BY <1>8, AdvanceGoesOn
<1>9. CASE Guest!FinalAccounting \/ Guest!Out
  BY <1>9, LateGoesOn
<1> QED
  BY <1>1, <1>2, <1>3, <1>4, <1>5, <1>6, <1>7, <1>8, <1>9 DEF Guest!GuestNext

\* What the guest promises of its probes, of its runs and of its descriptors.
LEMMA GuestPromises ==
    GuestInv => Guest!RejectsNeverRun /\ Guest!NothingOutlivesRun /\ Guest!FilesClosed
<1> HAVE GuestInv
<1>1. Guest!RejectsNeverRun
  BY DEF GuestInv, CaseInv, Guest!RejectsNeverRun
<1>2. Guest!FilesClosed
  BY DEF GuestInv, FilesInv, Early, Guest!FilesClosed
<1>3. ASSUME insn = 0 PROVE Guest!balanced(kernel)
  <2>1. CASE ~Underway
    BY <2>1 DEF GuestInv, ModuleInv
  <2>2. CASE Underway
    <3>1. /\ RunInv /\ index \in 1 .. 19 /\ Guest!This.reject = "none"
          /\ before.acquisitions \in Nat
      BY <2>2 DEF GuestInv, ModuleInv, CaseInv, UnderwayInv, Underway, Loaded, Counters
    <3>2. OfKind(Guest!This)
      BY <3>1, ThisOfKind
    <3>3. stage = "accounting"
      BY <1>3, <2>2, <3>1, <3>2, AcceptedKeeps, Zenon DEF Underway
    <3>4. EndsWell(Guest!This)
      BY <3>1, <3>2, <3>3, AcceptedEnds
    <3> QED
      BY <3>4 DEF EndsWell
  <2> QED
    BY <2>1, <2>2
<1> QED
  BY <1>1, <1>2, <1>3 DEF Guest!NothingOutlivesRun

\* Where nothing of the guest moves, a run stays where it is.
LEMMA RunStays == RunInv /\ UNCHANGED guestVars => RunInv'
<1> HAVE RunInv /\ UNCHANGED guestVars
<1>1. \A q, x, y, z, u, v : On(q, x, y, z, u, v) => On(q, x, y, z, u, v)'
  BY DEF On, KernelIs, guestVars
<1>2. \A x, y, z, u, v : Over(x, y, z, u, v) => Over(x, y, z, u, v)'
  BY DEF Over, KernelIs, guestVars
<1>3. \A d, c : Holds(d, c) => Holds(d, c)'
  BY DEF Holds, guestVars
<1>4. \A d, i : Sees(d, i) => Sees(d, i)'
  BY DEF Sees, Ref, guestVars
<1>5. \A spill, i : Kept(spill, i) => Kept(spill, i)'
  BY <1>4 DEF Kept, Spilled, Ref, guestVars
<1>6. Text' = Text
  BY DEF Text, Guest!This, guestVars
<1>7. \A q : NonePart(q) => NonePart(q)'
  BY <1>1, <1>2, Zenon DEF NonePart
<1>8. \A a, spill, w, e : ValidRun(a, spill, w, e) => ValidRun(a, spill, w, e)'
  <2> TAKE a, spill, w, e
  <2>1. FirstPart(a, spill, w) => FirstPart(a, spill, w)'
    BY <1>1, <1>3, <1>4, <1>5, Zenon DEF FirstPart
  <2>2. BothPart(13 - a, spill, w, e) => BothPart(13 - a, spill, w, e)'
    BY <1>1, <1>2, <1>3, <1>4, <1>5, Zenon DEF BothPart
  <2>3. OnePart(spill, w, e) => OnePart(spill, w, e)'
    BY <1>1, <1>2, <1>3, <1>4, <1>5, Zenon DEF OnePart
  <2> QED
    BY <1>7, <2>1, <2>2, <2>3, Zenon DEF ValidRun
<1>9. NullRun => NullRun'
  BY <1>1, <1>2, <1>3, Zenon DEF NullRun
<1>10. \A spill, e : AliasedRun(spill, e) => AliasedRun(spill, e)'
  BY <1>1, <1>2, <1>3, <1>4, <1>5, <1>7, Zenon DEF AliasedRun
<1>11. UntestedRun => UntestedRun'
  BY <1>1, <1>2, <1>3, <1>4, Zenon DEF UntestedRun
<1>12. NullUsedRun => NullUsedRun'
  BY <1>1, <1>2, <1>3, <1>4, Zenon DEF NullUsedRun
<1>13. LeakedRun => LeakedRun'
  BY <1>1, <1>2, <1>3, <1>4, <1>7, Zenon DEF LeakedRun
<1> QED
  BY <1>6, <1>8, <1>9, <1>10, <1>11, <1>12, <1>13, Zenon DEF RunInv

\* A step of another program leaves the guest alone.
LEMMA GuestStays == GuestInv /\ UNCHANGED guestVars => GuestInv'
<1> HAVE GuestInv /\ UNCHANGED guestVars
<1>1. ModuleInv'
  BY DEF GuestInv, ModuleInv, Underway, Guest!balanced, guestVars
<1>2. CaseInv'
  BY DEF GuestInv, CaseInv, Guest!This, guestVars
<1>3. FilesInv'
  BY DEF GuestInv, FilesInv, guestVars
<1>4. UnderwayInv'
  BY RunStays DEF GuestInv, UnderwayInv, Underway, guestVars
<1> QED
  BY <1>1, <1>2, <1>3, <1>4 DEF GuestInv

\* The same for a program by itself.
LEMMA AloneStays == AloneInv /\ UNCHANGED guestVars => AloneInv'
BY RunStays DEF AloneInv, Guest!Fresh, guestVars

-----------------------------------------------------------------------------
(* All runs of the guest and of its programs by themselves.                   *)

\* What holds of the one that is running.
ProbesInv ==
    /\ main = "guest" => GuestInv
    /\ main = "program" => AloneInv

\* What holds of the guest's programs holds at the start,
LEMMA ProbesBegin == MCInit => ProbesInv
BY GuestBegins, AloneBegins DEF MCInit, ProbesInv

\* and after every step of the whole.
LEMMA ProbesGoOn == ProbesInv /\ [MCNext]_allVars => ProbesInv'
<1> SUFFICES ASSUME ProbesInv, [MCNext]_allVars PROVE ProbesInv'
  OBVIOUS
<1>1. CASE UNCHANGED <<main, guestVars>>
  BY <1>1, GuestStays, AloneStays DEF ProbesInv
<1>2. CASE DemoRuns \/ GateDemoRuns \/ CheriDemoRuns
  <2>1. /\ main \in {"demo", "gate_demo", "cheri_demo"}
        /\ UNCHANGED main
    BY <1>2 DEF DemoRuns, GateDemoRuns, CheriDemoRuns
  <2> QED
    BY <2>1 DEF ProbesInv
<1>3. CASE GuestRuns
  BY <1>3, GuestGoesOn DEF GuestRuns, ProbesInv
<1>4. CASE ProgramRuns
  BY <1>4, AloneGoesOn DEF ProgramRuns, ProbesInv
<1> QED
  BY <1>1, <1>2, <1>3, <1>4 DEF MCNext, allVars

\* What the guest wants loaded keeps the module's contract on every outcome of its
\* acquisitions and returns what is expected; what it wants refused would break the
\* contract, each for its own reason, and never runs; nothing outlives a run, and
\* no descriptor the guest (guest.c:178-204, 305, 376, 419).
THEOREM GuestProbesForCause == MCSpec => []ProbesForCause
<1>1. ProbesInv => ProbesForCause
  BY GuestPromises, AloneKeepsContract, AloneForCause DEF ProbesInv, ProbesForCause
<1> QED
  BY <1>1, ProbesBegin, ProbesGoOn, PTL DEF MCSpec

-----------------------------------------------------------------------------
(* What the guest has counted follows from the cases it is done with: the     *)
(* acquisitions and the reads of the first c cases.                           *)
Taken(c) == IF c <= 12 THEN 2 * c - c \div 2 ELSE IF c = 13 THEN 18 ELSE 18 + 2 * Repeats
Looked(c) == IF c <= 12 THEN c - c \div 2 ELSE IF c = 13 THEN 6 ELSE 6 + Repeats

Finished == {"next", "final_accounting"}
Done == IF stage \in Finished THEN index ELSE index - 1

Totals ==
    {"positive_cases", "rejected_cases", "repeated_runs", "executions", "acquisitions", "reads"}

AcceptedInv ==
    /\ stage \notin {"unexpected", "out", "poweroff"} => accepted = {}
    /\ result = "PASS" => stage \in {"out", "poweroff"}

CountedInv ==
    /\ DOMAIN totals = Totals
    /\ stage = "final_accounting" => index = 19
    /\ stage \in {"identity", "prepare", "module_btf", "initial_accounting"} => index = 1
    /\ stage \notin {"unexpected", "returned", "out", "poweroff"} =>
          totals.acquisitions = Taken(Done) /\ totals.reads = Looked(Done)

PassInv ==
    result = "PASS" =>
        /\ accepted = {} /\ refused = FALSE
        /\ kernel.acquisitions = 18 + 2 * Repeats
        /\ kernel.reads = 6 + Repeats

TotalsInv == AcceptedInv /\ CountedInv /\ PassInv

\* One more case adds what the table says it does.
LEMMA CaseAdds ==
    ASSUME Repeats \in Nat, NEW c \in 1 .. 19
    PROVE  LET x == Guest!Cases[c]
           IN  /\ x.reject = "none" =>
                      /\ Taken(c) = Taken(c - 1) + x.acquisitions * x.repeats
                      /\ Looked(c) = Looked(c - 1) + x.reads * x.repeats
               /\ x.reject # "none" => Taken(c) = Taken(c - 1) /\ Looked(c) = Looked(c - 1)
<1> PICK x : x = Guest!Cases[c]
  OBVIOUS
<1>1. CASE c \in 1 .. 12
  <2>1. x = Guest!Pair(c - 1)
    BY <1>1, CasesAre
  <2>2. /\ x.reject = "none" /\ x.repeats = 1
        /\ x.acquisitions = 2 - ((c - 1) % 2) /\ x.reads = 1 - ((c - 1) % 2)
    BY <1>1, <2>1, PairIs DEF Guest!Valid
  <2>3. /\ c <= 12 /\ c - 1 <= 12
        /\ 2 * c - c \div 2 = 2 * (c - 1) - (c - 1) \div 2 + (2 - ((c - 1) % 2))
        /\ c - c \div 2 = (c - 1) - (c - 1) \div 2 + (1 - ((c - 1) % 2))
    BY <1>1
  <2>4. /\ (2 - ((c - 1) % 2)) * 1 = 2 - ((c - 1) % 2)
        /\ (1 - ((c - 1) % 2)) * 1 = 1 - ((c - 1) % 2)
    BY <1>1
  <2> QED
    BY <2>2, <2>3, <2>4 DEF Taken, Looked
<1>2. CASE c = 13
  <2>1. /\ x.reject = "none" /\ x.repeats = 1 /\ x.acquisitions = 0 /\ x.reads = 0
    BY <1>2, CasesAre DEF Guest!Valid
  <2>2. Taken(12) = 18 /\ Looked(12) = 6 /\ Taken(13) = 18 /\ Looked(13) = 6
    BY DEF Taken, Looked
  <2>3. c - 1 = 12 /\ 18 + 0 * 1 = 18 /\ 6 + 0 * 1 = 6
    BY <1>2
  <2> QED
    BY <1>2, <2>1, <2>2, <2>3
<1>3. CASE c = 14
  <2>1. /\ x.reject = "none" /\ x.repeats = Repeats /\ x.acquisitions = 2 /\ x.reads = 1
    BY <1>3, CasesAre DEF Guest!Valid
  <2>2. /\ Taken(13) = 18 /\ Looked(13) = 6
        /\ Taken(14) = 18 + 2 * Repeats /\ Looked(14) = 6 + Repeats
    BY DEF Taken, Looked
  <2>3. c - 1 = 13 /\ 1 * Repeats = Repeats
    BY <1>3
  <2> QED
    BY <1>3, <2>1, <2>2, <2>3
<1>4. CASE c \in 15 .. 19
  <2>1. x.reject # "none"
    BY <1>4, CasesAre DEF Guest!Rejected
  <2>2. ~(c <= 12) /\ c # 13 /\ ~(c - 1 <= 12) /\ c - 1 # 13
    BY <1>4
  <2> QED
    BY <2>1, <2>2 DEF Taken, Looked
<1> QED
  BY <1>1, <1>2, <1>3, <1>4

\* The guest's totals begin at zero.
LEMMA TotalsBegin == Guest!GuestInit => TotalsInv
<1> HAVE Guest!GuestInit
<1>1. /\ stage = "identity" /\ index = 1 /\ accepted = {} /\ result = "none"
      /\ DOMAIN totals = Totals /\ totals.acquisitions = 0 /\ totals.reads = 0
  BY DEF Guest!GuestInit, Totals
<1>2. 1 - 1 = 0 /\ 0 <= 12 /\ 2 * 0 - 0 \div 2 = 0 /\ 0 - 0 \div 2 = 0
  OBVIOUS
<1>3. Done = 0 /\ Taken(0) = 0 /\ Looked(0) = 0
  BY <1>1, <1>2 DEF Done, Finished, Taken, Looked
<1>4. CountedInv
  BY <1>1, <1>3 DEF CountedInv
<1> QED
  BY <1>1, <1>4 DEF TotalsInv, AcceptedInv, PassInv

\* Most steps count nothing, and lead from a place before the same case to another.
LEMMA CountedStays ==
    ASSUME CountedInv, UNCHANGED <<totals, index>>,
           stage \notin {"unexpected", "returned", "out", "poweroff"},
           stage' # "final_accounting", stage \notin Finished, stage' \notin Finished,
           \/ stage' \notin {"identity", "prepare", "module_btf", "initial_accounting"}
           \/ index = 1
    PROVE  CountedInv'
<1>1. Done' = Done
  BY DEF Done
<1> QED
  BY <1>1 DEF CountedInv, Taken, Looked

\* What follows a case that has ended in this way.
LEMMA CountedMore ==
    ASSUME Repeats \in Nat, CountedInv, index' = index, index \in 1 .. 19,
           stage \in {"load", "accounting"}, stage' = "next", DOMAIN totals' = Totals,
           \/ /\ Guest!This.reject = "none"
              /\ totals'.acquisitions =
                    totals.acquisitions + Guest!This.acquisitions * Guest!This.repeats
              /\ totals'.reads = totals.reads + Guest!This.reads * Guest!This.repeats
           \/ /\ Guest!This.reject # "none"
              /\ totals'.acquisitions = totals.acquisitions /\ totals'.reads = totals.reads
    PROVE  CountedInv'
<1> PICK c \in 1 .. 19 : c = index
  OBVIOUS
<1>1. Done = c - 1 /\ Done' = c
  BY DEF Done, Finished
<1>2. totals.acquisitions = Taken(c - 1) /\ totals.reads = Looked(c - 1)
  BY <1>1 DEF CountedInv
<1>3. totals'.acquisitions = Taken(c) /\ totals'.reads = Looked(c)
  BY <1>2, CaseAdds DEF Guest!This
<1> QED
  BY <1>1, <1>3 DEF CountedInv, Taken, Looked

\* Each case adds what it promised to the totals, once.
LEMMA TotalsGoOn ==
    Repeats \in Nat /\ GuestInv /\ TotalsInv /\ Guest!GuestNext => TotalsInv'
<1> SUFFICES ASSUME Repeats \in Nat, GuestInv, TotalsInv, Guest!GuestNext PROVE TotalsInv'
  OBVIOUS
<1>1. AcceptedInv /\ CountedInv /\ PassInv /\ ModuleInv /\ CaseInv
  BY DEF TotalsInv, GuestInv
<1>2. index \in 1 .. 19 /\ DOMAIN totals = Totals
  BY <1>1 DEF CaseInv, CountedInv
\* Where the result and what was accepted stay, and the guest is not yet out.
<1>3. ASSUME stage \notin {"out", "poweroff"}, result' \in {result, "FAIL"},
             accepted' = accepted, stage' \in {"unexpected", "out", "poweroff"}
                                   \/ stage \notin {"unexpected", "out", "poweroff"}
      PROVE  AcceptedInv' /\ PassInv'
  <2>1. result # "PASS"
    BY <1>1, <1>3 DEF AcceptedInv
  <2>2. result' # "PASS"
    BY <1>3, <2>1
  <2> QED
    BY <1>1, <1>3, <2>2 DEF AcceptedInv, PassInv
<1>4. CASE \/ Guest!Identity \/ Guest!Prepare \/ Guest!ModuleBtf \/ Guest!InitialAccounting
  <2>1. /\ UNCHANGED <<totals, index, accepted>> /\ result' \in {result, "FAIL"}
        /\ stage \in {"identity", "prepare", "module_btf", "initial_accounting"}
        /\ stage' \in {"prepare", "returned", "module_btf", "out", "initial_accounting", "case"}
    BY <1>4 DEF Guest!Identity, Guest!Prepare, Guest!ModuleBtf, Guest!InitialAccounting,
                Guest!Goes
  <2>2. index = 1
    BY <1>1, <2>1 DEF CountedInv
  <2>3. CountedInv'
    BY <1>1, <2>1, <2>2, CountedStays DEF Finished
  <2> QED
    BY <1>3, <2>1, <2>3 DEF TotalsInv
<1>5. CASE Guest!Before \/ Guest!JitedLength \/ Guest!RunLoaded \/ Guest!Step \/ Guest!Stop
  <2>1. /\ UNCHANGED <<totals, index, accepted, result>>
        /\ stage \in {"case", "jit", "run", "running"}
        /\ stage' \in {"load", "run", "running", "accounting", "out"}
    <3>1. CASE Guest!Before
      BY <3>1 DEF Guest!Before, Guest!Goes
    <3>2. CASE Guest!JitedLength
      BY <3>2, Leaving DEF Guest!JitedLength, Guest!Goes
    <3>3. CASE Guest!RunLoaded
      BY <3>3, Leaving DEF Guest!RunLoaded, Guest!Goes
    <3>4. CASE Guest!Step \/ Guest!Stop
      BY <3>4 DEF Guest!Step, Guest!Stop
    <3> QED
      BY <1>5, <3>1, <3>2, <3>3, <3>4
  <2>2. CountedInv'
    BY <1>1, <2>1, CountedStays DEF Finished
  <2> QED
    BY <1>3, <2>1, <2>2 DEF TotalsInv
<1>6. CASE Guest!LoadAccepted
  <2>1. /\ UNCHANGED <<totals, index, result>> /\ stage = "load"
        /\ accepted' = accepted \cup ({Guest!This.reject} \ {"none"})
        /\ stage' = IF Guest!This.reject = "none" THEN "jit" ELSE "unexpected"
    BY <1>6 DEF Guest!LoadAccepted, Guest!Goes, Guest!AfterAccept
  <2>2. stage' \in {"jit", "unexpected"}
    BY <2>1
  <2>3. CountedInv'
    BY <1>1, <2>1, <2>2, CountedStays DEF Finished
  <2>4. result' # "PASS"
    BY <1>1, <2>1 DEF AcceptedInv
  <2>5. stage' # "unexpected" => accepted' = {}
    BY <1>1, <2>1 DEF AcceptedInv
  <2> QED
    BY <2>2, <2>3, <2>4, <2>5 DEF TotalsInv, AcceptedInv, PassInv
<1>7. CASE Guest!LoadRefused
  <2>1. UNCHANGED <<index, accepted, result>> /\ stage = "load"
    BY <1>7 DEF Guest!LoadRefused
  <2>2. \/ stage' = "out" /\ totals' = totals
        \/ /\ Guest!This.reject # "none" /\ stage' = "next"
           /\ totals' = [totals EXCEPT !.rejected_cases = @ + 1]
    BY <1>7, Leaving DEF Guest!LoadRefused
  <2>3. CASE stage' = "out" /\ totals' = totals
    <3>1. CountedInv'
      BY <1>1, <2>1, <2>3, CountedStays DEF Finished
    <3> QED
      BY <1>3, <2>1, <2>3, <3>1 DEF TotalsInv
  <2>4. CASE /\ Guest!This.reject # "none" /\ stage' = "next"
             /\ totals' = [totals EXCEPT !.rejected_cases = @ + 1]
    <3>1. /\ DOMAIN totals' = Totals
          /\ totals'.acquisitions = totals.acquisitions /\ totals'.reads = totals.reads
      BY <1>2, <2>4 DEF Totals
    <3>2. CountedInv'
      BY <1>1, <1>2, <2>1, <2>4, <3>1, CountedMore
    <3> QED
      BY <1>3, <2>1, <2>4, <3>2 DEF TotalsInv
  <2> QED
    BY <2>2, <2>3, <2>4
<1>8. CASE Guest!Unexpected
  <2>1. /\ UNCHANGED <<totals, index, accepted, result>> /\ stage = "unexpected"
        /\ stage' = "out"
    BY <1>8, Leaving DEF Guest!Unexpected, Guest!UnexpectedOk
  <2>2. CountedInv'
    BY <1>2, <2>1 DEF CountedInv
  <2> QED
    BY <1>3, <2>1, <2>2 DEF TotalsInv
<1>9. CASE Guest!Accounting
  <2>1. UNCHANGED <<index, accepted, result>> /\ stage = "accounting"
    BY <1>9 DEF Guest!Accounting
  <2>2. Guest!This.reject = "none"
    BY <1>1, <2>1 DEF CaseInv, Loaded
  <2>3. \/ stage' \in {"out", "run"} /\ totals' = totals
        \/ stage' = "next" /\ totals' = Guest!Count(Guest!This)
    BY <1>9, Leaving DEF Guest!Accounting, Guest!Goes
  <2>4. CASE stage' \in {"out", "run"} /\ totals' = totals
    <3>1. CountedInv'
      BY <1>1, <2>1, <2>4, CountedStays DEF Finished
    <3> QED
      BY <1>3, <2>1, <2>4, <3>1 DEF TotalsInv
  <2>5. CASE stage' = "next" /\ totals' = Guest!Count(Guest!This)
    <3> PICK c : c = Guest!This
      OBVIOUS
    <3>1. /\ DOMAIN totals' = Totals
          /\ totals'.acquisitions = totals.acquisitions + c.acquisitions * c.repeats
          /\ totals'.reads = totals.reads + c.reads * c.repeats
      BY <1>2, <2>5 DEF Totals, Guest!Count
    <3>2. CountedInv'
      BY <1>1, <1>2, <2>1, <2>2, <2>5, <3>1, CountedMore
    <3> QED
      BY <1>3, <2>1, <2>5, <3>2 DEF TotalsInv
  <2> QED
    BY <2>3, <2>4, <2>5
<1>10. CASE Guest!Advance
  <2>1. UNCHANGED <<totals, accepted, result>> /\ stage = "next" /\ Len(Guest!Cases) = 19
    BY <1>10, CasesAre DEF Guest!Advance
  <2>2. \/ index = 19 /\ index' = index /\ stage' = "final_accounting"
        \/ index' = index + 1 /\ stage' = "case"
    BY <1>10, <2>1 DEF Guest!Advance, Guest!Goes
  <2>3. Done' = Done
    BY <1>2, <2>1, <2>2 DEF Done, Finished
  <2>4. CountedInv'
    BY <1>1, <2>1, <2>2, <2>3 DEF CountedInv, Taken, Looked
  <2> QED
    BY <1>3, <2>1, <2>2, <2>4 DEF TotalsInv
<1>11. CASE Guest!FinalAccounting
  <2>1. /\ UNCHANGED <<totals, index, accepted, kernel, refused>>
        /\ stage = "final_accounting" /\ stage' = "out"
    BY <1>11 DEF Guest!FinalAccounting, Guest!Goes, Guest!machine
  <2>2. CountedInv'
    BY <1>2, <2>1 DEF CountedInv
  <2>3. CASE result' = result
    BY <1>3, <2>1, <2>2, <2>3 DEF TotalsInv
  <2>4. CASE result' # result
    <3>1. /\ kernel.acquisitions = totals.acquisitions /\ kernel.reads = totals.reads
      BY <1>11, <2>4 DEF Guest!FinalAccounting, Guest!Snapshot
    <3>2. /\ Done = 19 /\ ~(19 <= 12) /\ 19 # 13
          /\ totals.acquisitions = Taken(Done) /\ totals.reads = Looked(Done)
      BY <1>1, <2>1 DEF CountedInv, Done, Finished
    <3>3. kernel.acquisitions = 18 + 2 * Repeats /\ kernel.reads = 6 + Repeats
      BY <3>1, <3>2 DEF Taken, Looked
    <3>4. refused = FALSE /\ accepted = {}
      BY <1>1, <2>1 DEF ModuleInv, AcceptedInv, Underway
    <3>5. PassInv'
      BY <2>1, <3>3, <3>4 DEF PassInv
    <3>6. AcceptedInv'
      BY <2>1 DEF AcceptedInv
    <3> QED
      BY <2>2, <3>5, <3>6 DEF TotalsInv
  <2> QED
    BY <2>3, <2>4
<1>12. CASE Guest!Out
  <2>1. /\ UNCHANGED <<totals, index, accepted, kernel, refused>>
        /\ stage = "out" /\ stage' = "poweroff"
        /\ result' \in {result, "FAIL"}
    BY <1>12 DEF Guest!Out, Guest!Goes, Guest!machine
  <2>2. CountedInv'
    BY <1>2, <2>1 DEF CountedInv
  <2>3. AcceptedInv' /\ PassInv'
    BY <1>1, <2>1 DEF AcceptedInv, PassInv
  <2> QED
    BY <2>2, <2>3 DEF TotalsInv
<1> QED
  BY <1>4, <1>5, <1>6, <1>7, <1>8, <1>9, <1>10, <1>11, <1>12 DEF Guest!GuestNext

\* A program by itself, and the others, never say PASS for the guest.
PassedInv ==
    /\ main = "guest" => TotalsInv
    /\ main # "guest" => result = "none"

\* No PASS is printed at the start,
LEMMA PassedBegins == MCInit => PassedInv
<1>1. Guest!GuestInit => result = "none" /\ TotalsInv
  BY TotalsBegin DEF Guest!GuestInit
<1>2. Guest!AloneInit => result = "none"
  BY DEF Guest!AloneInit
<1> QED
  BY <1>1, <1>2 DEF MCInit, PassedInv

\* and one is only after all cases came out as counted.
LEMMA PassedGoesOn ==
    Repeats \in Nat /\ ProbesInv /\ PassedInv /\ [MCNext]_allVars => PassedInv'
<1> SUFFICES ASSUME Repeats \in Nat, ProbesInv, PassedInv, [MCNext]_allVars PROVE PassedInv'
  OBVIOUS
<1>1. CASE UNCHANGED <<main, guestVars>>
  <2>1. TotalsInv => TotalsInv'
    BY <1>1 DEF TotalsInv, AcceptedInv, CountedInv, PassInv, Done, Finished, Taken, Looked,
                guestVars
  <2> QED
    BY <1>1, <2>1 DEF PassedInv, guestVars
<1>2. CASE DemoRuns \/ GateDemoRuns \/ CheriDemoRuns
  <2>1. main \in {"demo", "gate_demo", "cheri_demo"} /\ UNCHANGED <<main, result>>
    BY <1>2 DEF DemoRuns, GateDemoRuns, CheriDemoRuns, guestVars
  <2> QED
    BY <2>1 DEF PassedInv
<1>3. CASE GuestRuns
  BY <1>3, TotalsGoOn DEF GuestRuns, ProbesInv, PassedInv
<1>4. CASE ProgramRuns
  BY <1>4 DEF ProgramRuns, PassedInv, Guest!AloneNext, Guest!Step, Guest!Stop
<1> QED
  BY <1>1, <1>2, <1>3, <1>4 DEF MCNext, allVars

\* The guest says PASS only if the verifier turned every probe down, every
\* acquisition that was to succeed did, and the module counted what the table in
\* main adds up to, however often the last program is repeated (guest.c:591).
THEOREM GuestPassIsEarned ==
    ASSUME Repeats \in Nat
    PROVE  MCSpec => []Guest!PassMeansAll
<1>1. PassedInv => Guest!PassMeansAll
  BY DEF PassedInv, TotalsInv, PassInv, Guest!PassMeansAll
<1> QED
  BY <1>1, ProbesBegin, ProbesGoOn, PassedBegins, PassedGoesOn, PTL DEF MCSpec

-----------------------------------------------------------------------------
(* The parent of cheri_demo.c and its child: what each round has confirmed,   *)
(* and that a report of a tag fault comes from a machine that has them.       *)
Reports == {"none", "tag fault", "other code"}
Pipes == [report : Reports, writers : SUBSET {"parent", "child"}]
Watched == {"close", "read", "wait"}
AtEnd == {"poweroff", "off"}

WatchInv ==
    /\ pipe \in Pipes
    /\ pipe.report = "tag fault" => machine = "faults"
    /\ report = "tag fault" => machine = "faults"
    /\ at \notin Watched \cup AtEnd => child = "none"
    /\ verdict = "PASS" => child = "none"

RoundInv ==
    /\ round \in {"copy", "spill"}
    /\ at \notin AtEnd \cup {"balance"} =>
          faults = IF round = "copy" THEN {} ELSE {"copy"}
    /\ at = "balance" => faults = {"copy", "spill"} /\ machine = "faults"
    /\ at \in {"acquire a", "acquire b", "alias", "consume"} => round = "copy"

VerdictInv ==
    /\ at \notin AtEnd => verdict = "none"
    /\ verdict = "PASS" =>
          /\ machine = "faults" /\ faults = {"copy", "spill"}
          /\ probe_references = 1 /\ effects = 2

ProbeInv == WatchInv /\ RoundInv /\ VerdictInv

\* cheri_demo begins in the parent, with no pipe.
LEMMA ProbeBegins == Probe!Init => ProbeInv
<1> HAVE Probe!Init
<1>1. /\ at = "acquire a" /\ child = "none" /\ round = "copy" /\ report = "none"
      /\ faults = {} /\ verdict = "none" /\ pipe = [report |-> "none", writers |-> {}]
  BY DEF Probe!Init, Probe!NoPipe
<1>2. WatchInv
  BY <1>1 DEF WatchInv, Pipes, Reports, AtEnd
<1>3. RoundInv
  BY <1>1 DEF RoundInv, AtEnd
<1>4. VerdictInv
  BY <1>1 DEF VerdictInv
<1> QED
  BY <1>2, <1>3, <1>4 DEF ProbeInv

\* Whatever is required leads on, or to FAIL.
LEMMA Requiring ==
    ASSUME NEW b, NEW next, Probe!Require(b, next)
    PROVE  \/ at' = next /\ verdict' = verdict
           \/ at' = "poweroff" /\ verdict' = "FAIL"
BY DEF Probe!Require, Probe!Fail

\* Up to the first pipe nothing is watched.
LEMMA SetupGoesOn ==
    ASSUME ProbeInv, Probe!AcquireBoth \/ Probe!MakeAliases \/ Probe!ConsumeTwice
    PROVE  ProbeInv'
<1>1. UNCHANGED <<machine, round, child, pipe, report, faults>>
  BY DEF Probe!AcquireBoth, Probe!Acquire, Probe!MakeAliases, Probe!ConsumeTwice,
         Probe!watching
<1>2. /\ at \in {"acquire a", "acquire b", "alias", "consume"}
      /\ \/ at' \in {"acquire b", "alias", "consume", "pipe"} /\ verdict' = verdict
         \/ at' = "poweroff" /\ verdict' = "FAIL"
  <2>1. CASE Probe!AcquireBoth
    BY <2>1, Requiring DEF Probe!AcquireBoth, Probe!Acquire
  <2>2. CASE Probe!MakeAliases
    BY <2>2, Requiring DEF Probe!MakeAliases
  <2>3. CASE Probe!ConsumeTwice
    BY <2>3, Requiring DEF Probe!ConsumeTwice
  <2> QED
    BY <2>1, <2>2, <2>3
<1>3. WatchInv'
  BY <1>1, <1>2 DEF ProbeInv, WatchInv, Watched, AtEnd
<1>4. RoundInv'
  BY <1>1, <1>2 DEF ProbeInv, RoundInv, AtEnd
<1>5. VerdictInv'
  BY <1>1, <1>2 DEF ProbeInv, VerdictInv, AtEnd
<1> QED
  BY <1>3, <1>4, <1>5 DEF ProbeInv

\* Who holds the writing end does not change what is in the pipe.
LEMMA WritersOnly ==
    ASSUME pipe \in Pipes, NEW w \in SUBSET {"parent", "child"},
           pipe' = [pipe EXCEPT !.writers = w]
    PROVE  pipe' \in Pipes /\ pipe'.report = pipe.report
BY DEF Pipes

\* The parent's steps leave the child's machine alone.
LEMMA ForkGoesOn ==
    ASSUME ProbeInv, \/ Probe!MakePipe \/ Probe!Fork \/ Probe!ParentCloses
                     \/ Probe!ParentReads \/ Probe!ReadFails
    PROVE  ProbeInv'
<1>1. UNCHANGED <<machine, round, faults, probe_references, effects>>
  BY DEF Probe!MakePipe, Probe!Fork, Probe!ParentCloses, Probe!ParentReads,
         Probe!ReadFails, Probe!memory
<1>2. /\ at \in {"pipe", "fork", "close", "read"}
      /\ \/ at' \in {"fork", "close", "read", "wait"} /\ verdict' = verdict
         \/ at' = "poweroff" /\ verdict' = "FAIL"
  BY DEF Probe!MakePipe, Probe!Fork, Probe!ParentCloses, Probe!ParentReads,
         Probe!ReadFails, Probe!Fail
<1>6. verdict = "none"
  BY <1>2 DEF ProbeInv, VerdictInv, AtEnd
<1>3. WatchInv'
  <2>1. CASE Probe!MakePipe
    <3>1. /\ report' = "none" /\ child' = child /\ at = "pipe"
          /\ \/ pipe' = [report |-> "none", writers |-> {"parent"}]
             \/ pipe' = pipe
      BY <2>1 DEF Probe!MakePipe
    <3>2. pipe' \in Pipes /\ (pipe'.report = "tag fault" => machine = "faults")
      <4>1. CASE pipe' = pipe
        BY <4>1 DEF ProbeInv, WatchInv
      <4>2. CASE pipe' = [report |-> "none", writers |-> {"parent"}]
        BY <4>2 DEF Pipes, Reports
      <4> QED
        BY <3>1, <4>1, <4>2
    <3>3. child' = "none"
      BY <3>1 DEF ProbeInv, WatchInv, Watched, AtEnd
    <3> QED
      BY <1>1, <3>1, <3>2, <3>3 DEF WatchInv
  <2>2. CASE Probe!Fork
    <3>1. /\ report' = report /\ at = "fork"
          /\ \/ at' = "close" /\ pipe' = [pipe EXCEPT !.writers = pipe.writers \cup {"child"}]
             \/ child' = child /\ pipe' = pipe
      BY <2>2 DEF Probe!Fork
    <3>2. /\ child = "none" /\ pipe \in Pipes
          /\ pipe.writers \cup {"child"} \in SUBSET {"parent", "child"}
      BY <3>1 DEF ProbeInv, WatchInv, Watched, AtEnd, Pipes
    <3>3. pipe' \in Pipes /\ pipe'.report = pipe.report
      BY <3>1, <3>2, WritersOnly
    <3>4. at' \notin Watched \cup AtEnd => child' = "none"
      BY <3>1, <3>2 DEF Watched
    <3> QED
      BY <1>1, <1>2, <1>6, <3>1, <3>3, <3>4 DEF ProbeInv, WatchInv
  <2>3. CASE Probe!ParentCloses
    <3>1. /\ report' = report /\ at' = "read"
          /\ pipe' = [pipe EXCEPT !.writers = @ \ {"parent"}]
      BY <2>3 DEF Probe!ParentCloses, Probe!ClosedEnd
    <3> QED
      BY <1>1, <1>2, <1>6, <3>1 DEF ProbeInv, WatchInv, Watched, Pipes, Reports
  <2>4. CASE Probe!ParentReads \/ Probe!ReadFails
    <3>1. /\ report' \in {pipe.report, "none"} /\ at' = "wait"
          /\ pipe' = [report |-> "none", writers |-> {}]
      BY <2>4 DEF Probe!ParentReads, Probe!ReadFails, Probe!NoPipe
    <3> QED
      BY <1>1, <1>2, <1>6, <3>1 DEF ProbeInv, WatchInv, Watched, Pipes, Reports
  <2> QED
    BY <2>1, <2>2, <2>3, <2>4
<1>4. RoundInv'
  BY <1>1, <1>2 DEF ProbeInv, RoundInv, AtEnd
<1>5. VerdictInv'
  BY <1>1, <1>2 DEF ProbeInv, VerdictInv, AtEnd
<1> QED
  BY <1>3, <1>4, <1>5 DEF ProbeInv

\* The child: only it reports, and as the machine lets it.
LEMMA ChildGoesOn == ASSUME ProbeInv, Probe!Child PROVE ProbeInv'
<1>1. /\ UNCHANGED <<machine, at, round, faults, verdict, report, probe_references, effects>>
      /\ child \in {"start", "read", "handler"}
  BY DEF Probe!Child, Probe!ChildPrepares, Probe!ChildReads, Probe!ChildReports, Probe!memory
<1>2. \/ pipe' = pipe
      \/ pipe' = [pipe EXCEPT !.writers = pipe.writers \ {"child"}]
      \/ pipe' = [report |-> IF machine = "faults" THEN "tag fault" ELSE "other code",
                  writers |-> pipe.writers \ {"child"}]
  BY DEF Probe!Child, Probe!ChildPrepares, Probe!ChildReads, Probe!ChildReports, Probe!Exit
<1>3. /\ at \in Watched \cup AtEnd /\ verdict # "PASS" /\ pipe \in Pipes
      /\ pipe.writers \ {"child"} \in SUBSET {"parent", "child"}
  BY <1>1 DEF ProbeInv, WatchInv, Pipes
<1>4. WatchInv'
  <2>1. pipe' \in Pipes /\ (pipe'.report = "tag fault" => machine = "faults")
    <3>1. CASE pipe' = pipe
      BY <3>1 DEF ProbeInv, WatchInv
    <3>2. CASE pipe' = [pipe EXCEPT !.writers = pipe.writers \ {"child"}]
      BY <1>3, <3>2, WritersOnly DEF ProbeInv, WatchInv
    <3>3. CASE pipe' = [report |-> IF machine = "faults" THEN "tag fault" ELSE "other code",
                        writers |-> pipe.writers \ {"child"}]
      BY <1>3, <3>3 DEF Pipes, Reports
    <3> QED
      BY <1>2, <3>1, <3>2, <3>3
  <2> QED
    BY <1>1, <1>3, <2>1 DEF ProbeInv, WatchInv
<1>5. RoundInv' /\ VerdictInv'
  BY <1>1 DEF ProbeInv, RoundInv, VerdictInv
<1> QED
  BY <1>4, <1>5 DEF ProbeInv

\* A round is over.
LEMMA WaitGoesOn == ASSUME ProbeInv, Probe!Wait PROVE ProbeInv'
<1>1. /\ at = "wait" /\ child' = "none"
      /\ UNCHANGED <<machine, pipe, report, probe_references, effects>>
      /\ round' = IF round = "copy" THEN "spill" ELSE round
      /\ faults' = IF Probe!Confirmed THEN faults \cup {round} ELSE faults
  BY DEF Probe!Wait, Probe!NextRound, Probe!memory
<1>2. /\ faults = IF round = "copy" THEN {} ELSE {"copy"}
      /\ verdict = "none" /\ round \in {"copy", "spill"}
  BY <1>1 DEF ProbeInv, RoundInv, VerdictInv, AtEnd
<1>3. WatchInv'
  BY <1>1 DEF ProbeInv, WatchInv
<1>4. CASE Probe!Confirmed
  <2>1. machine = "faults"
    BY <1>4 DEF Probe!Confirmed, ProbeInv, WatchInv
  <2>2. at' = (IF round = "copy" THEN "pipe" ELSE "balance") /\ verdict' = verdict
    BY <1>4 DEF Probe!Wait, Probe!Require, Probe!AfterRound
  <2>3. RoundInv'
    BY <1>1, <1>2, <1>4, <2>1, <2>2 DEF RoundInv, AtEnd
  <2>4. VerdictInv'
    BY <1>2, <2>2 DEF VerdictInv
  <2> QED
    BY <1>3, <2>3, <2>4 DEF ProbeInv
<1>5. CASE ~Probe!Confirmed
  <2>1. at' = "poweroff" /\ verdict' = "FAIL"
    BY <1>5 DEF Probe!Wait, Probe!Require, Probe!Fail
  <2>2. RoundInv'
    BY <1>1, <1>2, <2>1 DEF RoundInv, AtEnd
  <2>3. VerdictInv'
    BY <2>1 DEF VerdictInv, AtEnd
  <2> QED
    BY <1>3, <2>2, <2>3 DEF ProbeInv
<1> QED
  BY <1>4, <1>5

\* A failed wait leaves the child where it is.
LEMMA FailedWaitGoesOn == ASSUME ProbeInv, Probe!WaitFails PROVE ProbeInv'
<1>1. /\ at = "wait" /\ at' = "poweroff" /\ verdict' = "FAIL"
      /\ UNCHANGED <<machine, round, child, pipe, report, faults>>
  BY DEF Probe!WaitFails, Probe!Fail, Probe!watching
<1>2. WatchInv'
  BY <1>1 DEF ProbeInv, WatchInv, AtEnd
<1>3. RoundInv' /\ VerdictInv'
  BY <1>1 DEF ProbeInv, RoundInv, VerdictInv, AtEnd
<1> QED
  BY <1>2, <1>3 DEF ProbeInv

\* The end, and the machine is switched off.
LEMMA EndGoesOn == ASSUME ProbeInv, Probe!Balance \/ Probe!PowerOff PROVE ProbeInv'
<1>1. UNCHANGED <<machine, round, child, pipe, report, faults>>
  BY DEF Probe!Balance, Probe!PowerOff, Probe!watching
<1>2. at \in {"balance", "poweroff"} /\ at' \in AtEnd
  BY DEF Probe!Balance, Probe!PowerOff, AtEnd
<1>3. WatchInv'
  <2>1. at = "balance" \/ verdict' = verdict
    BY DEF Probe!Balance, Probe!PowerOff
  <2> QED BY <1>1, <1>2, <2>1 DEF ProbeInv, WatchInv, Watched, AtEnd
<1>4. RoundInv'
  BY <1>1, <1>2 DEF ProbeInv, RoundInv, AtEnd
<1>5. VerdictInv'
  <2>1. CASE Probe!Balance
    <3> PICK s : s = Probe!Consume(1, Probe!Now)
      OBVIOUS
    <3>1. /\ probe_references' = s.references /\ effects' = s.effects
          /\ verdict' = IF s.done /\ s.references = 1 /\ s.effects = 2 THEN "PASS" ELSE "FAIL"
          /\ at = "balance"
      BY <2>1 DEF Probe!Balance, Probe!Becomes
    <3>2. faults = {"copy", "spill"} /\ machine = "faults"
      BY <3>1 DEF ProbeInv, RoundInv
    <3> QED
      BY <1>1, <1>2, <3>1, <3>2 DEF VerdictInv
  <2>2. CASE Probe!PowerOff
    BY <1>1, <1>2, <2>2 DEF Probe!PowerOff, Probe!memory, ProbeInv, VerdictInv
  <2> QED
    BY <2>1, <2>2
<1> QED
  BY <1>3, <1>4, <1>5 DEF ProbeInv

\* Every step of parent and child keeps what holds of them.
LEMMA ProbeGoesOn == ProbeInv /\ [MCNext]_allVars => ProbeInv'
<1> SUFFICES ASSUME ProbeInv, [MCNext]_allVars PROVE ProbeInv'
  OBVIOUS
<1>1. CASE UNCHANGED probeVars
  BY <1>1 DEF probeVars, ProbeInv, WatchInv, RoundInv, VerdictInv
<1>2. CASE DemoRuns \/ GateDemoRuns \/ GuestRuns \/ ProgramRuns
  <2>1. UNCHANGED probeVars
    BY <1>2 DEF DemoRuns, GateDemoRuns, GuestRuns, ProgramRuns
  <2> QED
    BY <1>1, <2>1
<1>3. CASE CheriDemoRuns
  <2>1. Probe!Parent \/ Probe!Child \/ Probe!Interrupted
    BY <1>3 DEF CheriDemoRuns, Probe!Next
  <2> QED
    BY <2>1, SetupGoesOn, ForkGoesOn, ChildGoesOn, WaitGoesOn, FailedWaitGoesOn, EndGoesOn
       DEF Probe!Parent, Probe!Interrupted
<1> QED
  BY <1>1, <1>2, <1>3 DEF MCNext, allVars

\* PASS is printed only on a machine that faults as it should, after both aliases of
\* the consumed acquisition were seen to fault in a child of their own and both
\* acquisitions were released once (cheri_demo.c:85-91, 117-121).
THEOREM ProbePassIsEarned == MCSpec => []Probe!PassMeansFaults
<1>1. MCInit => ProbeInv
  BY ProbeBegins DEF MCInit
<1>2. ProbeInv => Probe!PassMeansFaults
  BY DEF ProbeInv, WatchInv, VerdictInv, Probe!PassMeansFaults, Watched, AtEnd
<1> QED
  BY <1>1, <1>2, ProbeGoesOn, PTL DEF MCSpec
=============================================================================
