------------------------- MODULE CbpfMachineProofs --------------------------
(* The reference interpreter, for every program, every number of registers,   *)
(* slots and cells and every program bound.                                   *)
EXTENDS CbpfMachine, CbpfValidate, FiniteSetTheorems, TLAPS

\* Where control and the event count are in each phase.
ControlInv ==
    /\ phase = "validate" => r = FreshResult /\ live = {} /\ pc = 0 /\ cell = 0
    /\ phase = "run" =>
         /\ Loadable /\ pc < n /\ cell = 0
         /\ r.event_count <= pc
         /\ r.trap = "NO_TRAP" /\ r.status = "RETURNED"
    /\ phase = "cleanup" =>
         /\ 0 < r.event_count /\ r.event_count <= CBPF_MAX_INSNS + cell
         /\ r.status # "INVALID"
         /\ \A t \in live : cell < t
    /\ phase = "done" =>
         /\ live = {}
         /\ r.event_count <= CBPF_MAX_EVENTS
         /\ IF r.status = "INVALID"
            THEN r = [FreshResult EXCEPT !.status = "INVALID", !.pc = r.pc]
            ELSE r.event_count > 0
    /\ (r.status = "TRAPPED") = (r.trap # "NO_TRAP")

Explicit == {t \in Token : r.explicit_by_cell[t] = 1}
CleanedUp == {t \in Token : r.cleanup_by_cell[t] = 1}

\* The accounts, with the identities they are about.
AccountsInv ==
    /\ live \subseteq 1 .. r.acquired
    /\ AccountsAgree

IInv == TypeOK /\ ControlInv /\ AccountsInv

\* Recording an event changes the event fields and nothing else.
LEMMA RecordFacts ==
    ASSUME NEW res \in ResultType, NEW kind \in EventKind, NEW op \in Opcode,
           NEW at \in Nat, NEW token \in Alias
    PROVE  LET q == Record(res, kind, op, at, token)
           IN  /\ q \in ResultType
               /\ q.event_count = res.event_count + 1
               /\ q.status = res.status /\ q.trap = res.trap /\ q.pc = res.pc
               /\ q.returned = res.returned /\ q.acquired = res.acquired
               /\ q.reads = res.reads /\ q.last_read = res.last_read
               /\ q.explicit_releases = res.explicit_releases
               /\ q.cleanup_releases = res.cleanup_releases
               /\ q.object_refs = res.object_refs
               /\ q.explicit_by_cell = res.explicit_by_cell
               /\ q.cleanup_by_cell = res.cleanup_by_cell
<1> DEFINE e == [kind |-> kind, op |-> op, pc |-> at, token |-> token,
                 object_refs |-> res.object_refs]
           m == res.event_count + 1
           q == [res EXCEPT !.event_count = m, !.event = e]
<1>1. e \in EventType /\ m \in Nat
  BY DEF EventType, ResultType
<1>2. Record(res, kind, op, at, token) = q
  BY DEF Record
<1> HIDE DEF e, m
<1>3. q \in ResultType
  BY <1>1 DEF ResultType
<1>4. /\ q.event_count = m
      /\ q.status = res.status /\ q.trap = res.trap /\ q.pc = res.pc
      /\ q.returned = res.returned /\ q.acquired = res.acquired
      /\ q.reads = res.reads /\ q.last_read = res.last_read
      /\ q.explicit_releases = res.explicit_releases
      /\ q.cleanup_releases = res.cleanup_releases
      /\ q.object_refs = res.object_refs
      /\ q.explicit_by_cell = res.explicit_by_cell
      /\ q.cleanup_by_cell = res.cleanup_by_cell
  BY DEF ResultType
<1> HIDE DEF q
<1> QED
  BY <1>2, <1>3, <1>4 DEF m

\* The zeroed result record is well typed.
LEMMA FreshResultFacts == FreshResult \in ResultType
<1>1. NoEvent \in EventType
  BY DEF NoEvent, EventType, EventKind, Alias, NoToken
<1> DEFINE zeros == [t \in Token |-> 0]
<1>2. zeros \in ByCell /\ 0 \in 0 .. CBPF_CELLS
  BY SizesAssumption DEF ByCell
<1> HIDE DEF zeros
<1>3. FreshResult =
        [status |-> "RETURNED", trap |-> "NO_TRAP", pc |-> 0, returned |-> 0,
         acquired |-> 0, reads |-> 0, last_read |-> 0,
         explicit_releases |-> 0, cleanup_releases |-> 0, object_refs |-> 1,
         explicit_by_cell |-> zeros, cleanup_by_cell |-> zeros,
         event_count |-> 0, event |-> NoEvent]
  BY DEF FreshResult, zeros
<1>4. "RETURNED" \in Status /\ "NO_TRAP" \in TrapReason
  BY DEF Status, TrapReason
<1> QED
  BY <1>1, <1>2, <1>3, <1>4 DEF ResultType, FieldValue

\* Every call starts in the invariant.
LEMMA InitInv == Init => IInv
<1> SUFFICES ASSUME Init PROVE IInv
  OBVIOUS
<1>1. TypeOK
  BY SizesAssumption, FreshResultFacts
  DEF Init, TypeOK, Reg, Slot, Token, Alias, NoToken
<1>2. /\ r.status = "RETURNED" /\ r.trap = "NO_TRAP" /\ r.object_refs = 1
      /\ r.acquired = 0
      /\ r.explicit_releases = 0 /\ r.cleanup_releases = 0
      /\ r.explicit_by_cell = [t \in Token |-> 0]
      /\ r.cleanup_by_cell = [t \in Token |-> 0]
  BY DEF Init, FreshResult
<1>3. ControlInv
  BY <1>2 DEF Init, ControlInv
<1>4. Explicit = {} /\ CleanedUp = {}
  BY <1>2 DEF Explicit, CleanedUp
<1>5. AccountsInv
  <2>1. live = {} /\ Cardinality(live) = 0
    BY FS_EmptySet DEF Init
  <2>2. \A t \in Token : /\ r.explicit_by_cell[t] = 0 /\ r.cleanup_by_cell[t] = 0
                         /\ ~(t <= r.acquired)
    BY <1>2 DEF Token
  <2>3. Cardinality(Explicit) = 0 /\ Cardinality(CleanedUp) = 0
    BY <1>4, FS_EmptySet
  <2> QED
    BY <1>2, <2>1, <2>2, <2>3
    DEF AccountsInv, AccountsAgree, Explicit, CleanedUp
<1> QED
  BY <1>1, <1>3, <1>5 DEF IInv

\* What fetching tells: pc is inside a validated program, and only RETURN is
\* its last instruction.
LEMMA FetchFacts ==
    ASSUME IInv, NEW x \in Insn, Fetch(x)
    PROVE  /\ x.op \in Opcode /\ x.imm \in Immediate /\ x.imm \in Int
           /\ phase = "run" /\ pc \in Nat /\ n \in Nat /\ pc < n
           /\ x.op # "RETURN" => pc + 1 < n
           /\ x.op = "BR_NULL" => pc < x.imm /\ x.imm < n /\ x.imm \in Nat
           /\ x.op \in {"ACQUIRE", "COPY", "RELOAD", "READ", "RELEASE",
                        "BR_NULL"} => x.dst \in Reg
           /\ x.op \in {"COPY", "SPILL"} => x.src \in Reg
           /\ x.op = "SPILL" => x.dst \in Slot
           /\ x.op = "RELOAD" => x.src \in Slot
<1> USE SizesAssumption, FieldsAssumption
<1>1. x.op \in Opcode \cup {"OTHER"} /\ x.imm \in Immediate /\ x.imm \in Int
  BY DEF Insn
<1>2. n \in Nat /\ pc \in Nat
  BY DEF IInv, TypeOK
<1> QED
  BY <1>1, <1>2
  DEF Fetch, ValidAt, OperandsOk, BranchForward, Opcode

-----------------------------------------------------------------------------
\* r' has the accounts of res.
AccountsOf(res) ==
    /\ r'.acquired = res.acquired /\ r'.object_refs = res.object_refs
    /\ r'.explicit_releases = res.explicit_releases
    /\ r'.cleanup_releases = res.cleanup_releases
    /\ r'.explicit_by_cell = res.explicit_by_cell
    /\ r'.cleanup_by_cell = res.cleanup_by_cell

\* The step runs one instruction and goes on with a later one.
Advance ==
    /\ phase = "run" /\ phase' = "run" /\ n' = n /\ cell' = cell
    /\ r' \in ResultType
    /\ pc' \in Nat /\ pc < pc' /\ pc' < n
    /\ r'.event_count = r.event_count + 1
    /\ r'.status = r.status /\ r'.trap = r.trap

\* The step ends the program; the accounts wait for cleanup.
End(trap) ==
    /\ phase = "run" /\ phase' = "cleanup"
    /\ UNCHANGED <<n, locals>>
    /\ r' \in ResultType
    /\ r'.event_count = r.event_count + 1
    /\ r'.status = (IF trap = "NO_TRAP" THEN "RETURNED" ELSE "TRAPPED")
    /\ r'.trap = trap
    /\ AccountsOf(r)

\* An instruction that continues moves pc forward and records one event.
LEMMA ContinueAdvances ==
    ASSUME IInv, NEW x \in Insn, Fetch(x),
           NEW res \in ResultType, res.event_count = r.event_count,
           res.status = r.status, res.trap = r.trap,
           NEW token \in Alias, NEW next \in Nat, pc < next, next < n,
           Continue(res, x, token, next)
    PROVE  Advance /\ AccountsOf(res)
<1> DEFINE q == [res EXCEPT !.pc = pc]
<1>1. pc \in Nat /\ phase = "run" /\ x.op \in Opcode
  BY FetchFacts
<1>2. /\ q \in ResultType /\ q.event_count = r.event_count
      /\ q.status = r.status /\ q.trap = r.trap
      /\ q.acquired = res.acquired /\ q.object_refs = res.object_refs
      /\ q.explicit_releases = res.explicit_releases
      /\ q.cleanup_releases = res.cleanup_releases
      /\ q.explicit_by_cell = res.explicit_by_cell
      /\ q.cleanup_by_cell = res.cleanup_by_cell
  BY <1>1 DEF ResultType
<1>3. r' = Record(q, "STEP", x.op, pc, token)
      /\ pc' = next /\ UNCHANGED <<n, phase, cell>>
  BY DEF Continue
<1>4. "STEP" \in EventKind
  BY DEF EventKind
<1> HIDE DEF q
<1> QED
  BY <1>1, <1>2, <1>3, <1>4, RecordFacts DEF Advance, AccountsOf

\* A trap stops the program with one event and its reason.
LEMMA TrapEnds ==
    ASSUME IInv, NEW x \in Insn, Fetch(x),
           NEW reason \in TrapReason, reason # "NO_TRAP", NEW token \in Alias,
           Trap(reason, x, token)
    PROVE  End(reason)
<1> DEFINE q == [r EXCEPT !.pc = pc, !.trap = reason, !.status = "TRAPPED"]
<1>1. pc \in Nat /\ phase = "run" /\ x.op \in Opcode
  BY FetchFacts
<1>2. /\ q \in ResultType /\ q.event_count = r.event_count
      /\ q.status = "TRAPPED" /\ q.trap = reason
      /\ q.acquired = r.acquired /\ q.object_refs = r.object_refs
      /\ q.explicit_releases = r.explicit_releases
      /\ q.cleanup_releases = r.cleanup_releases
      /\ q.explicit_by_cell = r.explicit_by_cell
      /\ q.cleanup_by_cell = r.cleanup_by_cell
  BY <1>1 DEF IInv, TypeOK, ResultType, Status
<1>3. r' = Record(q, "TRAP_EVENT", x.op, pc, token)
      /\ phase' = "cleanup" /\ UNCHANGED <<n, locals>>
  BY DEF Trap
<1>4. "TRAP_EVENT" \in EventKind
  BY DEF EventKind
<1> HIDE DEF q
<1> QED
  BY <1>1, <1>2, <1>3, <1>4, RecordFacts DEF End, AccountsOf

\* RETURN stops the program with one event and no reason.
LEMMA ReturnEnds ==
    ASSUME IInv, NEW x \in Insn, Return(x)
    PROVE  End("NO_TRAP")
<1> DEFINE q == [r EXCEPT !.pc = pc, !.returned = x.imm,
                          !.status = "RETURNED"]
<1>1. pc \in Nat /\ phase = "run" /\ x.op \in Opcode /\ x.imm \in Immediate
      /\ r.trap = "NO_TRAP"
  BY FetchFacts DEF Return, IInv, ControlInv
<1>2. /\ q \in ResultType /\ q.event_count = r.event_count
      /\ q.status = "RETURNED" /\ q.trap = r.trap
      /\ q.acquired = r.acquired /\ q.object_refs = r.object_refs
      /\ q.explicit_releases = r.explicit_releases
      /\ q.cleanup_releases = r.cleanup_releases
      /\ q.explicit_by_cell = r.explicit_by_cell
      /\ q.cleanup_by_cell = r.cleanup_by_cell
  BY <1>1 DEF IInv, TypeOK, ResultType, Status
<1>3. r' = Record(q, "STEP", x.op, pc, NoToken)
      /\ phase' = "cleanup" /\ UNCHANGED <<n, locals>>
  BY DEF Return
<1>4. "STEP" \in EventKind /\ NoToken \in Alias
  BY DEF EventKind, Alias
<1> HIDE DEF q
<1> QED
  BY <1>1, <1>2, <1>3, <1>4, RecordFacts DEF End, AccountsOf

\* Continuing keeps the control part of the invariant.
LEMMA AdvanceControl == IInv /\ Advance => ControlInv'
<1> SUFFICES ASSUME IInv, Advance PROVE ControlInv'
  OBVIOUS
<1>1. n \in Nat /\ pc \in Nat /\ r.event_count \in Nat /\ r'.event_count \in Nat
  BY DEF IInv, TypeOK, ResultType, Advance
<1> QED
  BY <1>1 DEF IInv, ControlInv, Advance, Loadable

\* Stopping the program keeps the invariant.
LEMMA EndInv ==
    ASSUME IInv, NEW trap \in TrapReason, End(trap)
    PROVE  IInv'
<1>1. /\ n \in Nat /\ pc \in Nat /\ r.event_count \in Nat
      /\ r'.event_count \in Nat /\ n <= CBPF_MAX_INSNS /\ cell = 0
      /\ CBPF_MAX_INSNS \in Nat
      /\ r.event_count <= pc /\ pc < n
      /\ live \subseteq 1 .. r.acquired /\ r.acquired \in Nat
  BY SizesAssumption
  DEF IInv, TypeOK, ResultType, End, ControlInv, AccountsInv, Loadable
<1>2. TypeOK'
  BY DEF IInv, TypeOK, End, locals
<1>3. ControlInv'
  BY <1>1 DEF IInv, ControlInv, End, locals
<1>4. AccountsInv'
  BY DEF IInv, AccountsInv, AccountsAgree, End, AccountsOf, locals
<1> QED
  BY <1>2, <1>3, <1>4 DEF IInv

\* A step that changes neither the live set nor the accounts.
LEMMA QuietInv ==
    ASSUME IInv, Advance, AccountsOf(r), live' = live,
           regs' \in [Reg -> Alias], spills' \in [Slot -> Alias]
    PROVE  IInv'
<1>1. TypeOK'
  BY DEF IInv, TypeOK, Advance
<1>2. AccountsInv'
  BY DEF IInv, AccountsInv, AccountsAgree, AccountsOf
<1> QED
  BY <1>1, <1>2, AdvanceControl DEF IInv

\* Adding or removing one token moves the size of the live set by one.
LEMMA LiveCardinality ==
    ASSUME TypeOK
    PROVE  /\ IsFiniteSet(live) /\ Cardinality(live) \in Nat
           /\ \A t : t \notin live =>
                Cardinality(live \cup {t}) = Cardinality(live) + 1
           /\ \A t \in live : Cardinality(live \ {t}) = Cardinality(live) - 1
<1>1. IsFiniteSet(Token)
  BY SizesAssumption, FS_Interval DEF Token
<1>2. IsFiniteSet(live)
  BY <1>1, FS_Subset DEF TypeOK
<1> QED
  BY <1>2, FS_AddElement, FS_RemoveElement, FS_CardinalityType

\* Sizes of disjoint finite sets add up.
LEMMA DisjointUnion ==
    ASSUME NEW S, NEW T, IsFiniteSet(S), IsFiniteSet(T), S \cap T = {}
    PROVE  Cardinality(S \cup T) = Cardinality(S) + Cardinality(T)
<1>1. Cardinality(S \cup T) =
        Cardinality(S) + Cardinality(T) - Cardinality(S \cap T)
  BY FS_Union
<1>2. Cardinality(S \cap T) = 0
  BY FS_EmptySet
<1>3. Cardinality(S) \in Nat /\ Cardinality(T) \in Nat
  BY FS_CardinalityType
<1> QED
  BY <1>1, <1>2, <1>3

\* One more cell with a drop is one more in the set of dropped cells.
LEMMA DropSetCardinality ==
    ASSUME NEW S \in SUBSET Token, NEW t \in Token, t \notin S
    PROVE  Cardinality(S \cup {t}) = Cardinality(S) + 1
<1>1. IsFiniteSet(Token)
  BY SizesAssumption, FS_Interval DEF Token
<1>2. IsFiniteSet(S)
  BY <1>1, FS_Subset
<1> QED
  BY <1>2, FS_AddElement

\* Acquired tokens stay an initial interval when the next one is added.
LEMMA ExtendInterval ==
    ASSUME NEW a \in Nat, NEW S, S \subseteq 1 .. a
    PROVE  S \cup {a + 1} \subseteq 1 .. a + 1
OBVIOUS

\* The fresh identity is live and has no drops yet.
LEMMA AcquireInv ==
    ASSUME IInv, NEW x \in Insn, Acquire(x)
    PROVE  /\ IInv' /\ Advance
           /\ r'.acquired = r.acquired + 1 /\ r'.acquired \in Token
           /\ r'.object_refs = r.object_refs + 1
           /\ r'.explicit_by_cell = r.explicit_by_cell
           /\ r'.cleanup_by_cell = r.cleanup_by_cell
<1> DEFINE a == r.acquired + 1
           o == r.object_refs + 1
           res == [r EXCEPT !.acquired = a, !.object_refs = o]
<1>1. /\ r.acquired \in 0 .. CBPF_CELLS /\ r.acquired # CBPF_CELLS
      /\ a \in Nat /\ a \in Token /\ a \in Alias
      /\ r.object_refs \in Int /\ o \in Int /\ a \in 0 .. CBPF_CELLS
  BY SizesAssumption DEF IInv, TypeOK, ResultType, Acquire, Full, Token, Alias
<1>2. /\ live' = live \cup {a}
      /\ regs' = [regs EXCEPT ![x.dst] = a]
      /\ spills' = spills
      /\ Continue(res, x, a, pc + 1)
  BY DEF Acquire, FreshToken
<1> HIDE DEF a, o
<1>3. /\ res \in ResultType /\ res.event_count = r.event_count
      /\ res.status = r.status /\ res.trap = r.trap
      /\ res.acquired = a /\ res.object_refs = o
      /\ res.explicit_releases = r.explicit_releases
      /\ res.cleanup_releases = r.cleanup_releases
      /\ res.explicit_by_cell = r.explicit_by_cell
      /\ res.cleanup_by_cell = r.cleanup_by_cell
  BY <1>1 DEF IInv, TypeOK, ResultType
<1>4. Fetch(x) /\ x.op = "ACQUIRE"
  BY DEF Acquire
<1>5. x.dst \in Reg /\ pc + 1 \in Nat /\ pc < pc + 1 /\ pc + 1 < n
  BY <1>4, FetchFacts
<1> HIDE DEF res
<1>6. Advance /\ AccountsOf(res)
  BY <1>1, <1>2, <1>3, <1>4, <1>5, ContinueAdvances
<1>7. TypeOK'
  BY <1>1, <1>2, <1>5, <1>6 DEF IInv, TypeOK, Advance
<1>8. AccountsInv'
  <2>1. a \notin live
    BY <1>1 DEF IInv, AccountsInv, a
  <2>2. Cardinality(live') = Cardinality(live) + 1
    BY <1>2, <2>1, LiveCardinality DEF IInv
  <2>3. live' \subseteq 1 .. r'.acquired
    <3>1. live \subseteq 1 .. r.acquired /\ r.acquired \in Nat
      BY <1>1 DEF IInv, AccountsInv
    <3>2. r'.acquired = r.acquired + 1 /\ live' = live \cup {r.acquired + 1}
      BY <1>2, <1>3, <1>6 DEF AccountsOf, a
    <3>3. live \cup {r.acquired + 1} \subseteq 1 .. r.acquired + 1
      BY <3>1, ExtendInterval
    <3> QED
      BY <3>2, <3>3, Zenon
  <2>4. r'.object_refs = 1 + Cardinality(live')
    <3>1. r.object_refs = 1 + Cardinality(live) /\ Cardinality(live) \in Nat
      BY LiveCardinality DEF IInv, AccountsInv, AccountsAgree
    <3> QED
      BY <1>3, <1>6, <2>2, <3>1 DEF AccountsOf, o
  <2>5. ASSUME NEW t \in Token
        PROVE  r'.explicit_by_cell[t] + r'.cleanup_by_cell[t] =
                 IF t <= r'.acquired /\ t \notin live' THEN 1 ELSE 0
    <3>1. r.explicit_by_cell[t] + r.cleanup_by_cell[t] =
            IF t <= r.acquired /\ t \notin live THEN 1 ELSE 0
      BY DEF IInv, AccountsInv, AccountsAgree
    <3>2. t \in Nat
      BY DEF Token
    <3>3. (t <= r'.acquired /\ t \notin live') <=>
            (t <= r.acquired /\ t \notin live)
      BY <1>1, <1>2, <1>3, <1>6, <2>1, <3>2 DEF AccountsOf, a
    <3> QED
      BY <1>3, <1>6, <3>1, <3>3 DEF AccountsOf
  <2> QED
    BY <1>3, <1>6, <2>3, <2>4, <2>5
    DEF IInv, AccountsInv, AccountsAgree, AccountsOf
<1> QED
  BY <1>1, <1>3, <1>6, <1>7, <1>8, AdvanceControl DEF IInv, AccountsOf, a, o

\* One drop of identity t, by a release and by cleanup.
ExplicitDrop(t) ==
    /\ r'.explicit_releases = r.explicit_releases + 1
    /\ r'.cleanup_releases = r.cleanup_releases
    /\ r'.explicit_by_cell =
         [r.explicit_by_cell EXCEPT ![t] = r.explicit_by_cell[t] + 1]
    /\ r'.cleanup_by_cell = r.cleanup_by_cell

CleanupDrop(t) ==
    /\ r'.explicit_releases = r.explicit_releases
    /\ r'.cleanup_releases = r.cleanup_releases + 1
    /\ r'.explicit_by_cell = r.explicit_by_cell
    /\ r'.cleanup_by_cell =
         [r.cleanup_by_cell EXCEPT ![t] = r.cleanup_by_cell[t] + 1]

\* Counting one drop of a live token keeps the accounts in agreement, whichever
\* of the two counters takes it.
LEMMA DropAccounts ==
    ASSUME IInv, NEW t \in live, live' = live \ {t},
           r'.acquired = r.acquired, r'.object_refs = r.object_refs - 1,
           ExplicitDrop(t) \/ CleanupDrop(t)
    PROVE  AccountsInv'
<1>1. /\ t \in Token /\ t \in Nat /\ t <= r.acquired
      /\ live \subseteq 1 .. r.acquired
      /\ r.explicit_by_cell \in [Token -> Nat]
      /\ r.cleanup_by_cell \in [Token -> Nat]
      /\ r.explicit_releases \in Nat /\ r.cleanup_releases \in Nat
  BY DEF IInv, TypeOK, ResultType, ByCell, AccountsInv, Token
<1>2. \A u \in Token : r.explicit_by_cell[u] + r.cleanup_by_cell[u] =
                         IF u <= r.acquired /\ u \notin live THEN 1 ELSE 0
  BY DEF IInv, AccountsInv, AccountsAgree
<1>3. r.explicit_by_cell[t] = 0 /\ r.cleanup_by_cell[t] = 0
  BY <1>1, <1>2
<1>4. live' \subseteq 1 .. r'.acquired
  BY <1>1
<1>5. r'.object_refs = 1 + Cardinality(live')
  <2>1. Cardinality(live') = Cardinality(live) - 1
        /\ Cardinality(live) \in Nat /\ r.object_refs = 1 + Cardinality(live)
    BY LiveCardinality DEF IInv, AccountsInv, AccountsAgree
  <2> QED
    BY <2>1
<1>6. ASSUME NEW u \in Token
      PROVE  r'.explicit_by_cell[u] + r'.cleanup_by_cell[u] =
               IF u <= r'.acquired /\ u \notin live' THEN 1 ELSE 0
  <2>1. CASE u = t
    <3>1. \/ r'.explicit_by_cell[t] = 1 /\ r'.cleanup_by_cell[t] = 0
          \/ r'.explicit_by_cell[t] = 0 /\ r'.cleanup_by_cell[t] = 1
      BY <1>1, <1>3 DEF ExplicitDrop, CleanupDrop
    <3> QED
      BY <1>1, <2>1, <3>1
  <2>2. CASE u # t
    <3>1. r'.explicit_by_cell[u] = r.explicit_by_cell[u]
          /\ r'.cleanup_by_cell[u] = r.cleanup_by_cell[u]
      BY <1>1, <2>2 DEF ExplicitDrop, CleanupDrop
    <3>2. u \notin live' <=> u \notin live
      BY <2>2
    <3> QED
      BY <1>2, <3>1, <3>2
  <2> QED
    BY <2>1, <2>2
<1>7. /\ r.explicit_releases = Cardinality(Explicit)
      /\ r.cleanup_releases = Cardinality(CleanedUp)
      /\ Explicit \in SUBSET Token /\ CleanedUp \in SUBSET Token
      /\ t \notin Explicit /\ t \notin CleanedUp
  BY <1>3 DEF IInv, AccountsInv, AccountsAgree, Explicit, CleanedUp
<1>8. CASE ExplicitDrop(t)
  <2>1. Explicit' = Explicit \cup {t} /\ CleanedUp' = CleanedUp
    BY <1>1, <1>3, <1>8 DEF Explicit, CleanedUp, ExplicitDrop
  <2>2. r'.explicit_releases = Cardinality(Explicit')
        /\ r'.cleanup_releases = Cardinality(CleanedUp')
    BY <1>1, <1>7, <1>8, <2>1, DropSetCardinality DEF ExplicitDrop
  <2> QED
    BY <1>4, <1>5, <1>6, <2>2
    DEF AccountsInv, AccountsAgree, Explicit, CleanedUp
<1>9. CASE CleanupDrop(t)
  <2>1. Explicit' = Explicit /\ CleanedUp' = CleanedUp \cup {t}
    BY <1>1, <1>3, <1>9 DEF Explicit, CleanedUp, CleanupDrop
  <2>2. r'.explicit_releases = Cardinality(Explicit')
        /\ r'.cleanup_releases = Cardinality(CleanedUp')
    BY <1>1, <1>7, <1>9, <2>1, DropSetCardinality DEF CleanupDrop
  <2> QED
    BY <1>4, <1>5, <1>6, <2>2
    DEF AccountsInv, AccountsAgree, Explicit, CleanedUp
<1> QED
  BY <1>8, <1>9

\* A release consumes exactly the acquisition its alias names.
LEMMA ReleaseInv ==
    ASSUME IInv, NEW x \in Insn, Release(x)
    PROVE  /\ IInv' /\ Advance /\ ExplicitDrop(regs[x.dst])
           /\ r'.acquired = r.acquired /\ r'.object_refs = r.object_refs - 1
<1> DEFINE t == regs[x.dst]
           o == r.object_refs - 1
           c == r.explicit_releases + 1
           by == [r.explicit_by_cell EXCEPT ![t] = r.explicit_by_cell[t] + 1]
           res == [r EXCEPT !.object_refs = o, !.explicit_releases = c,
                            !.explicit_by_cell = by]
<1>1. Fetch(x) /\ x.op = "RELEASE" /\ t \in live /\ live' = live \ {t}
      /\ UNCHANGED <<regs, spills>>
  BY DEF Release
<1>2. Continue(res, x, t, pc + 1)
  BY DEF Release
<1>3. t \in Token /\ t \in Alias
  BY <1>1 DEF IInv, TypeOK, Alias
<1>4. o \in Int /\ c \in Nat /\ by \in ByCell
  BY <1>3 DEF IInv, TypeOK, ResultType, ByCell
<1>5. pc + 1 \in Nat /\ pc < pc + 1 /\ pc + 1 < n
  BY <1>1, FetchFacts
<1> HIDE DEF t, o, c, by
<1>6. /\ res \in ResultType /\ res.event_count = r.event_count
      /\ res.status = r.status /\ res.trap = r.trap
      /\ res.acquired = r.acquired /\ res.object_refs = o
      /\ res.explicit_releases = c
      /\ res.cleanup_releases = r.cleanup_releases
      /\ res.explicit_by_cell = by
      /\ res.cleanup_by_cell = r.cleanup_by_cell
  BY <1>4 DEF IInv, TypeOK, ResultType
<1> HIDE DEF res
<1>7. Advance /\ AccountsOf(res)
  BY <1>1, <1>2, <1>3, <1>5, <1>6, ContinueAdvances
<1>8. ExplicitDrop(t)
  BY <1>6, <1>7 DEF ExplicitDrop, AccountsOf, c, by
<1>9. r'.acquired = r.acquired /\ r'.object_refs = r.object_refs - 1
  BY <1>6, <1>7 DEF AccountsOf, o
<1>10. AccountsInv'
  BY <1>1, <1>8, <1>9, DropAccounts
<1>11. TypeOK'
  BY <1>1, <1>7 DEF IInv, TypeOK, Advance
<1> QED
  BY <1>7, <1>8, <1>9, <1>10, <1>11, AdvanceControl DEF IInv, t

\* The instructions that touch neither the live set nor the accounts.
Moves(x) ==
    AcquireNull(x) \/ Copy(x) \/ Spill(x) \/ Reload(x) \/ Read(x) \/ BranchNull(x)

\* A read keeps the result record well typed.
LEMMA ReadResult ==
    ASSUME IInv
    PROVE  LET res == [r EXCEPT !.reads = @ + 1, !.last_read = FieldValue]
           IN  /\ res \in ResultType /\ res.event_count = r.event_count
               /\ res.status = r.status /\ res.trap = r.trap
               /\ res.acquired = r.acquired
               /\ res.object_refs = r.object_refs
               /\ res.explicit_releases = r.explicit_releases
               /\ res.cleanup_releases = r.cleanup_releases
               /\ res.explicit_by_cell = r.explicit_by_cell
               /\ res.cleanup_by_cell = r.cleanup_by_cell
<1> DEFINE c == r.reads + 1
           res == [r EXCEPT !.reads = c, !.last_read = FieldValue]
<1>1. c \in Nat
  BY DEF IInv, TypeOK, ResultType
<1> HIDE DEF c
<1>2. /\ res \in ResultType /\ res.event_count = r.event_count
      /\ res.status = r.status /\ res.trap = r.trap
      /\ res.acquired = r.acquired /\ res.object_refs = r.object_refs
      /\ res.explicit_releases = r.explicit_releases
      /\ res.cleanup_releases = r.cleanup_releases
      /\ res.explicit_by_cell = r.explicit_by_cell
      /\ res.cleanup_by_cell = r.cleanup_by_cell
  BY <1>1 DEF IInv, TypeOK, ResultType
<1> QED
  BY <1>2 DEF c

\* Alias moves, NULL acquisitions, reads and branches keep the invariant.
LEMMA MovesInv ==
    ASSUME IInv, NEW x \in Insn, Moves(x)
    PROVE  IInv' /\ Advance /\ AccountsOf(r) /\ live' = live
<1> USE DEF Moves
<1>1. Fetch(x) /\ x.op \in {"ACQUIRE", "COPY", "SPILL", "RELOAD", "READ", "BR_NULL"}
  BY DEF AcquireNull, Copy, Spill, Reload, Read, BranchNull
<1>2. /\ pc \in Nat /\ pc + 1 \in Nat /\ pc < pc + 1 /\ pc + 1 < n
      /\ x.op = "BR_NULL" => pc < x.imm /\ x.imm < n /\ x.imm \in Nat
      /\ x.op # "SPILL" => x.dst \in Reg
      /\ x.op = "SPILL" => x.dst \in Slot
      /\ x.op \in {"COPY", "SPILL"} => x.src \in Reg
      /\ x.op = "RELOAD" => x.src \in Slot
  BY <1>1, FetchFacts
<1>3. r \in ResultType /\ regs \in [Reg -> Alias] /\ spills \in [Slot -> Alias]
      /\ NoToken \in Alias
  BY DEF IInv, TypeOK, Alias
<1>4. live' = live /\ regs' \in [Reg -> Alias] /\ spills' \in [Slot -> Alias]
  BY <1>2, <1>3 DEF AcquireNull, Copy, Spill, Reload, Read, BranchNull
<1>5. Advance /\ AccountsOf(r)
  <2>1. ASSUME NEW token \in Alias, NEW next \in Nat, pc < next, next < n,
               Continue(r, x, token, next)
        PROVE  Advance /\ AccountsOf(r)
    BY <1>1, <1>3, <2>1, ContinueAdvances
  <2>2. CASE AcquireNull(x)
    BY <1>2, <1>3, <2>1, <2>2 DEF AcquireNull
  <2>3. CASE Copy(x)
    <3>1. regs[x.src] \in Alias
      BY <1>2, <1>3, <2>3 DEF Copy
    <3> QED
      BY <1>2, <2>1, <2>3, <3>1 DEF Copy
  <2>4. CASE Spill(x)
    <3>1. regs[x.src] \in Alias
      BY <1>2, <1>3, <2>4 DEF Spill
    <3> QED
      BY <1>2, <2>1, <2>4, <3>1 DEF Spill
  <2>5. CASE Reload(x)
    <3>1. spills[x.src] \in Alias
      BY <1>2, <1>3, <2>5 DEF Reload
    <3> QED
      BY <1>2, <2>1, <2>5, <3>1 DEF Reload
  <2>6. CASE BranchNull(x)
    <3> DEFINE next == IF regs[x.dst] = NoToken THEN x.imm ELSE pc + 1
    <3>1. regs[x.dst] \in Alias /\ next \in Nat /\ pc < next /\ next < n
      BY <1>2, <1>3, <2>6 DEF BranchNull
    <3>2. Continue(r, x, regs[x.dst], next)
      BY <2>6 DEF BranchNull
    <3> QED
      BY <2>1, <3>1, <3>2
  <2>7. CASE Read(x)
    <3> DEFINE res == [r EXCEPT !.reads = @ + 1, !.last_read = FieldValue]
    <3>1. regs[x.dst] \in Alias
      BY <1>2, <1>3, <2>7 DEF Read
    <3>2. Continue(res, x, regs[x.dst], pc + 1)
      BY <2>7 DEF Read
    <3>3. /\ res \in ResultType /\ res.event_count = r.event_count
          /\ res.status = r.status /\ res.trap = r.trap
          /\ res.acquired = r.acquired /\ res.object_refs = r.object_refs
          /\ res.explicit_releases = r.explicit_releases
          /\ res.cleanup_releases = r.cleanup_releases
          /\ res.explicit_by_cell = r.explicit_by_cell
          /\ res.cleanup_by_cell = r.cleanup_by_cell
      BY ReadResult
    <3> HIDE DEF res
    <3>4. Advance /\ AccountsOf(res)
      BY <1>1, <1>2, <3>1, <3>2, <3>3, ContinueAdvances
    <3> QED
      BY <3>3, <3>4 DEF AccountsOf
  <2> QED
    BY <2>2, <2>3, <2>4, <2>5, <2>6, <2>7
<1> QED
  BY <1>4, <1>5, QuietInv

\* Terminal cleanup drops the cell under the cursor.
LEMMA CleanupCellInv ==
    ASSUME IInv, CleanupCell
    PROVE  /\ IInv' /\ CleanupDrop(cell + 1)
           /\ r'.acquired = r.acquired /\ r'.object_refs = r.object_refs - 1
           /\ r'.trap = r.trap /\ r'.status = r.status
<1> DEFINE t == cell + 1
           o == r.object_refs - 1
           c == r.cleanup_releases + 1
           by == [r.cleanup_by_cell EXCEPT ![t] = r.cleanup_by_cell[t] + 1]
           res == [r EXCEPT !.object_refs = o, !.cleanup_releases = c,
                            !.cleanup_by_cell = by]
<1>1. /\ phase = "cleanup" /\ cell < r.acquired /\ t \in live
      /\ live' = live \ {t} /\ cell' = t
      /\ UNCHANGED <<n, phase, pc, regs, spills>>
      /\ r' = Record(res, "CLEANUP", "RELEASE", r.pc, t)
  BY DEF CleanupCell, Drop
<1>2. t \in Token /\ t \in Alias /\ cell \in 0 .. CBPF_CELLS
      /\ t \in 0 .. CBPF_CELLS
  BY <1>1, SizesAssumption DEF IInv, TypeOK, Alias, Token
<1>3. o \in Int /\ c \in Nat /\ by \in ByCell
  BY <1>2 DEF IInv, TypeOK, ResultType, ByCell
<1> HIDE DEF t, o, c, by
<1>4. /\ res \in ResultType /\ res.event_count = r.event_count
      /\ res.status = r.status /\ res.trap = r.trap
      /\ res.acquired = r.acquired /\ res.object_refs = o
      /\ res.explicit_releases = r.explicit_releases
      /\ res.cleanup_releases = c
      /\ res.explicit_by_cell = r.explicit_by_cell
      /\ res.cleanup_by_cell = by
  BY <1>3 DEF IInv, TypeOK, ResultType
<1>5. "CLEANUP" \in EventKind /\ "RELEASE" \in Opcode /\ r.pc \in Nat
  BY DEF EventKind, Opcode, IInv, TypeOK, ResultType
<1> HIDE DEF res
<1>6. /\ r' \in ResultType /\ r'.event_count = r.event_count + 1
      /\ r'.status = r.status /\ r'.trap = r.trap /\ AccountsOf(res)
  BY <1>1, <1>2, <1>4, <1>5, RecordFacts DEF AccountsOf
<1>7. CleanupDrop(t)
  BY <1>4, <1>6 DEF CleanupDrop, AccountsOf, c, by
<1>8. r'.acquired = r.acquired /\ r'.object_refs = r.object_refs - 1
  BY <1>4, <1>6 DEF AccountsOf, o
<1>9. AccountsInv'
  BY <1>1, <1>7, <1>8, DropAccounts
<1>10. TypeOK'
  BY <1>1, <1>2, <1>6 DEF IInv, TypeOK
<1>11. ControlInv'
  <2>1. /\ 0 < r.event_count /\ r.event_count <= CBPF_MAX_INSNS + cell
        /\ r.status # "INVALID" /\ \A u \in live : cell < u /\ u \in Nat
        /\ (r.status = "TRAPPED") = (r.trap # "NO_TRAP")
        /\ r.event_count \in Nat /\ cell \in Nat /\ CBPF_MAX_INSNS \in Nat
    BY <1>1, SizesAssumption
    DEF IInv, TypeOK, ResultType, ControlInv, Token
  <2>2. 0 < r'.event_count /\ r'.event_count <= CBPF_MAX_INSNS + cell'
    BY <1>1, <1>6, <2>1 DEF t
  <2>3. \A u \in live' : cell' < u
    BY <1>1, <2>1 DEF t
  <2> QED
    BY <1>1, <1>6, <2>1, <2>2, <2>3 DEF ControlInv
<1> QED
  BY <1>6, <1>7, <1>8, <1>9, <1>10, <1>11 DEF IInv, t

\* The steps that touch only control: the verdict of validation, a cell that
\* was consumed already, and the end of cleanup.
LEMMA ControlStepInv ==
    ASSUME IInv, Reject \/ Accept \/ CleanupSkip \/ Finish
    PROVE  IInv' /\ AccountsOf(r) /\ UNCHANGED <<regs, spills, live>>
<1>1. CASE Reject
  <2> PICK b \in IF Loadable THEN 0 .. n - 1 ELSE {0} :
             r' = [r EXCEPT !.status = "INVALID", !.pc = b]
    BY <1>1 DEF Reject
  <2>1. b \in Nat
    BY DEF IInv, TypeOK, Loadable
  <2>2. /\ phase = "validate" /\ phase' = "done" /\ UNCHANGED <<n, locals>>
        /\ r = FreshResult /\ live = {}
    BY <1>1 DEF Reject, IInv, ControlInv
  <2>3. /\ r' \in ResultType /\ r'.event_count = r.event_count
        /\ r'.status = "INVALID" /\ r'.trap = r.trap /\ r'.pc = b
        /\ AccountsOf(r)
    BY <2>1 DEF IInv, TypeOK, ResultType, Status, AccountsOf
  <2>4. r.event_count = 0 /\ r.trap = "NO_TRAP"
    BY <2>2 DEF FreshResult
  <2>5. r' = [FreshResult EXCEPT !.status = "INVALID", !.pc = r'.pc]
    BY <2>2, <2>3
  <2>6. TypeOK'
    BY <2>2, <2>3 DEF IInv, TypeOK, locals
  <2>7. 0 <= CBPF_MAX_EVENTS
    BY SizesAssumption DEF CBPF_MAX_EVENTS
  <2>8. ControlInv'
    BY <2>2, <2>3, <2>4, <2>5, <2>7 DEF ControlInv, locals
  <2>9. AccountsInv'
    BY <2>2, <2>3 DEF IInv, AccountsInv, AccountsAgree, AccountsOf, locals
  <2> QED
    BY <2>2, <2>3, <2>6, <2>8, <2>9 DEF IInv, locals
<1>2. CASE Accept
  <2>1. /\ phase = "validate" /\ Loadable /\ phase' = "run"
        /\ UNCHANGED <<n, locals, r>>
        /\ r = FreshResult /\ live = {} /\ pc = 0 /\ cell = 0
    BY <1>2 DEF Accept, IInv, ControlInv
  <2>2. r.event_count = 0 /\ r.trap = "NO_TRAP" /\ r.status = "RETURNED"
    BY <2>1 DEF FreshResult
  <2>3. ControlInv'
    BY <2>1, <2>2 DEF ControlInv, Loadable, locals
  <2> QED
    BY <2>1, <2>3
    DEF IInv, TypeOK, AccountsInv, AccountsAgree, AccountsOf, locals
<1>3. CASE CleanupSkip
  <2>1. /\ phase = "cleanup" /\ cell < r.acquired /\ cell + 1 \notin live
        /\ cell' = cell + 1
        /\ UNCHANGED <<n, phase, pc, regs, spills, live, r>>
        /\ cell \in Nat /\ cell + 1 \in 0 .. CBPF_CELLS
        /\ r.event_count \in Nat /\ \A u \in live : u \in Nat
        /\ CBPF_MAX_INSNS \in Nat
    BY <1>3, SizesAssumption DEF CleanupSkip, IInv, TypeOK, ResultType, Token
  <2>2. TypeOK'
    BY <2>1 DEF IInv, TypeOK
  <2>3. ControlInv'
    BY <2>1 DEF IInv, ControlInv
  <2> QED
    BY <2>1, <2>2, <2>3
    DEF IInv, AccountsInv, AccountsAgree, AccountsOf
<1>4. CASE Finish
  <2>1. /\ phase = "cleanup" /\ cell >= r.acquired /\ phase' = "done"
        /\ UNCHANGED <<n, locals, r>>
        /\ cell \in 0 .. CBPF_CELLS /\ r.event_count \in Nat
        /\ r.acquired \in Nat
        /\ CBPF_MAX_INSNS \in Nat /\ CBPF_CELLS \in Nat
    BY <1>4, SizesAssumption DEF Finish, IInv, TypeOK, ResultType
  <2>2. live = {}
    BY <2>1 DEF IInv, ControlInv, AccountsInv
  <2>3. r.event_count <= CBPF_MAX_EVENTS /\ 0 < r.event_count
        /\ r.status # "INVALID"
    BY <2>1 DEF IInv, ControlInv, CBPF_MAX_EVENTS
  <2>4. ControlInv'
    BY <2>1, <2>2, <2>3 DEF IInv, ControlInv, locals
  <2> QED
    BY <2>1, <2>4
    DEF IInv, TypeOK, AccountsInv, AccountsAgree, AccountsOf, locals
<1> QED
  BY <1>1, <1>2, <1>3, <1>4

\* The four ways a program ends.
LEMMA EndsCases ==
    ASSUME IInv, NEW x \in Insn,
           AcquireExhausted(x) \/ UseNull(x) \/ UseStale(x) \/ Return(x)
    PROVE  \E trap \in TrapReason : End(trap)
<1>1. /\ NoToken \in Alias
      /\ {"NO_TRAP", "NULL", "STALE", "EXHAUSTED"} \subseteq TrapReason
  BY DEF Alias, TrapReason
<1>2. CASE AcquireExhausted(x)
  BY <1>1, <1>2, TrapEnds DEF AcquireExhausted
<1>3. CASE UseNull(x)
  BY <1>1, <1>3, TrapEnds DEF UseNull
<1>4. CASE UseStale(x)
  <2>1. regs[x.dst] \in Alias
    BY <1>4, FetchFacts DEF UseStale, IInv, TypeOK
  <2> QED
    BY <1>1, <1>4, <2>1, TrapEnds DEF UseStale
<1>5. CASE Return(x)
  BY <1>1, <1>5, ReturnEnds
<1> QED
  BY <1>2, <1>3, <1>4, <1>5

\* Every step keeps the invariant: one case per action.
LEMMA StepInv == IInv /\ [Next]_vars => IInv'
<1> SUFFICES ASSUME IInv, [Next]_vars PROVE IInv'
  OBVIOUS
<1>1. ASSUME NEW x \in Insn, Execute(x) PROVE IInv'
  <2>1. CASE Moves(x)
    BY <2>1, MovesInv
  <2>2. CASE Acquire(x)
    BY <2>2, AcquireInv
  <2>3. CASE Release(x)
    BY <2>3, ReleaseInv
  <2>4. CASE AcquireExhausted(x) \/ UseNull(x) \/ UseStale(x) \/ Return(x)
    BY <2>4, EndsCases, EndInv
  <2> QED
    BY <1>1, <2>1, <2>2, <2>3, <2>4 DEF Execute, Moves
<1>2. CASE CleanupCell
  BY <1>2, CleanupCellInv
<1>3. CASE Reject \/ Accept \/ CleanupSkip \/ Finish
  BY <1>3, ControlStepInv
<1>4. CASE UNCHANGED vars
  BY <1>4 DEF vars, locals, IInv, TypeOK, ControlInv, Loadable, AccountsInv,
     AccountsAgree
<1> QED
  BY <1>1, <1>2, <1>3, <1>4 DEF Next, Progress, Returned

\* The inductive invariant holds throughout every run of the interpreter.
THEOREM MachineInvariant == Spec => []IInv
BY InitInv, StepInv, PTL DEF Spec

-----------------------------------------------------------------------------
\* Type correctness of the interpreter's state and result.
THEOREM MachineTypes == Spec => []TypeOK
BY MachineInvariant, PTL DEF IInv

\* Execution never runs off the end of a validated program.
THEOREM MachineWithinProgram == Spec => []WithinProgram
<1>1. IInv => WithinProgram
  BY DEF IInv, ControlInv, WithinProgram
<1> QED
  BY <1>1, MachineInvariant, PTL

\* The event buffer of CBPF_MAX_EVENTS entries is never overrun.
THEOREM MachineEventsFit == Spec => []EventsFit
<1>1. IInv => EventsFit
  <2> SUFFICES ASSUME IInv PROVE r.event_count <= CBPF_MAX_EVENTS
    BY DEF EventsFit
  <2>1. /\ r.event_count \in Nat /\ pc \in Nat /\ cell \in 0 .. CBPF_CELLS
        /\ n \in Nat /\ CBPF_MAX_INSNS \in Nat /\ CBPF_CELLS \in Nat
    BY SizesAssumption DEF IInv, TypeOK, ResultType
  <2>2. CASE phase = "validate"
    BY <2>1, <2>2 DEF IInv, ControlInv, FreshResult, CBPF_MAX_EVENTS
  <2>3. CASE phase = "run"
    BY <2>1, <2>3 DEF IInv, ControlInv, Loadable, CBPF_MAX_EVENTS
  <2>4. CASE phase = "cleanup"
    BY <2>1, <2>4 DEF IInv, ControlInv, CBPF_MAX_EVENTS
  <2>5. CASE phase = "done"
    BY <2>5 DEF IInv, ControlInv
  <2> QED
    BY <2>2, <2>3, <2>4, <2>5 DEF IInv, TypeOK
<1> QED
  BY <1>1, MachineInvariant, PTL

\* The reference count, the per-cell counters and the totals always agree.
THEOREM MachineAccountsAgree == Spec => []AccountsAgree
<1>1. IInv => AccountsAgree
  BY DEF IInv, AccountsInv
<1> QED
  BY <1>1, MachineInvariant, PTL

\* However a run ends, the caller gets back a baseline object and a result
\* that accounts for every acquisition.
THEOREM MachineSettled == Spec => []SettledResult
<1>1. IInv => SettledResult
  <2> SUFFICES ASSUME IInv, phase = "done" PROVE SettledResult
    BY DEF SettledResult
  <2>1. live = {} /\ r.object_refs = 1
    BY FS_EmptySet DEF IInv, ControlInv, AccountsInv, AccountsAgree
  <2>2. r.explicit_releases + r.cleanup_releases = r.acquired
    <3>1. /\ r.acquired \in 0 .. CBPF_CELLS /\ CBPF_CELLS \in Nat
          /\ \A t \in Token : /\ r.explicit_by_cell[t] \in Nat
                              /\ r.cleanup_by_cell[t] \in Nat
      BY SizesAssumption DEF IInv, TypeOK, ResultType, ByCell
    <3>2. \A t \in Token : r.explicit_by_cell[t] + r.cleanup_by_cell[t] =
                            IF t <= r.acquired THEN 1 ELSE 0
      BY <2>1 DEF IInv, AccountsInv, AccountsAgree
    <3>3. Explicit \cap CleanedUp = {}
      BY <3>2 DEF Explicit, CleanedUp
    <3>4. Explicit \cup CleanedUp = 1 .. r.acquired
      BY <3>1, <3>2 DEF Explicit, CleanedUp, Token
    <3>5. IsFiniteSet(Explicit) /\ IsFiniteSet(CleanedUp)
      <4>1. IsFiniteSet(Token)
        BY SizesAssumption, FS_Interval DEF Token
      <4> QED
        BY <4>1, FS_Subset DEF Explicit, CleanedUp
    <3>6. Cardinality(Explicit) + Cardinality(CleanedUp) = r.acquired
      <4>1. Cardinality(1 .. r.acquired) = r.acquired
        <5>1. r.acquired \in Int /\ 0 <= r.acquired
          BY <3>1
        <5> QED
          BY <5>1, FS_Interval
      <4>2. Cardinality(Explicit) \in Nat /\ Cardinality(CleanedUp) \in Nat
        BY <3>5, FS_CardinalityType
      <4>3. Cardinality(Explicit \cup CleanedUp) =
              Cardinality(Explicit) + Cardinality(CleanedUp)
        BY <3>3, <3>5, DisjointUnion
      <4> QED
        BY <3>4, <4>1, <4>3
    <3> QED
      BY <3>6 DEF IInv, AccountsInv, AccountsAgree, Explicit, CleanedUp
  <2> QED
    BY <2>1, <2>2 DEF IInv, ControlInv, SettledResult
<1> QED
  BY <1>1, MachineInvariant, PTL

-----------------------------------------------------------------------------
\* Control moves forward only, so no instruction runs twice.
THEOREM MachineAdvances == Spec => PcAdvances
<1>1. IInv /\ [Next]_vars => [phase = "run" /\ phase' = "run" => pc' > pc]_vars
  <2> SUFFICES ASSUME IInv, Next, phase = "run", phase' = "run"
               PROVE  pc' > pc
    OBVIOUS
  <2>1. PICK x \in Insn : Execute(x)
    BY DEF Next, Progress, Reject, Accept, CleanupCell, CleanupSkip, Finish,
       Returned
  <2>2. CASE Moves(x) \/ Acquire(x) \/ Release(x)
    BY <2>2, MovesInv, AcquireInv, ReleaseInv DEF Advance
  <2>3. CASE AcquireExhausted(x) \/ UseNull(x) \/ UseStale(x) \/ Return(x)
    BY <2>3, EndsCases DEF End
  <2> QED
    BY <2>1, <2>2, <2>3 DEF Execute, Moves
<1> QED
  BY <1>1, MachineInvariant, PTL DEF Spec, PcAdvances

-----------------------------------------------------------------------------
\* Refinement.  The abstract variables that are not variables here.
absLive == IF Ended THEN {} ELSE live
absRefs == IF Ended THEN r.object_refs - Cardinality(live) ELSE r.object_refs
absCleanup == [t \in Token |-> IF Ended /\ t \in live
                               THEN r.cleanup_by_cell[t] + 1
                               ELSE r.cleanup_by_cell[t]]
absTerminal == IF Ended THEN Reason[r.trap] ELSE "active"

\* A fresh call maps to a fresh invocation.
LEMMA InitRefines == Init => Ownership!Init
<1> SUFFICES ASSUME Init PROVE Ownership!Init
  OBVIOUS
<1>1. /\ r.acquired = 0 /\ r.object_refs = 1 /\ ~Ended /\ live = {}
      /\ r.explicit_by_cell = [t \in Token |-> 0]
      /\ r.cleanup_by_cell = [t \in Token |-> 0]
  BY DEF Init, FreshResult, Ended
<1>2. absCleanup = [t \in Token |-> 0]
  BY <1>1 DEF absCleanup
<1>3. absTerminal = "active"
  BY <1>1 DEF absTerminal
<1> QED
  BY <1>1, <1>2, <1>3
  DEF Init, Ownership!Init, absCleanup, absTerminal, Token, Ownership!Token,
      NoToken

\* The instance has a Cardinality of its own, with the same definition.
LEMMA SameCardinality == \A S : Ownership!Cardinality(S) = Cardinality(S)
BY DEF Ownership!Cardinality, Cardinality, Ownership!IsFiniteSet, IsFiniteSet

\* While the program runs the abstract state is the concrete one.
LEMMA RunningView ==
    ASSUME IInv, phase \in {"validate", "run"} \/ r.status = "INVALID"
    PROVE  /\ ~Ended /\ absLive = live /\ absRefs = r.object_refs
           /\ absCleanup = r.cleanup_by_cell /\ absTerminal = "active"
<1>1. ~Ended
  BY DEF Ended, IInv, ControlInv
<1>2. r.cleanup_by_cell \in [Token -> Nat]
  BY DEF IInv, TypeOK, ResultType, ByCell
<1>3. absCleanup = [t \in Token |-> r.cleanup_by_cell[t]]
  BY <1>1 DEF absCleanup
<1> QED
  BY <1>1, <1>2, <1>3 DEF absLive, absRefs, absTerminal

\* A step that continues leaves the abstract state to the live set and aliases.
LEMMA AdvanceView ==
    ASSUME IInv, IInv', Advance
    PROVE  /\ absLive = live /\ absRefs = r.object_refs
           /\ absCleanup = r.cleanup_by_cell /\ absTerminal = "active"
           /\ absLive' = live' /\ absRefs' = r'.object_refs
           /\ absCleanup' = r'.cleanup_by_cell /\ absTerminal' = "active"
<1>1. phase = "run" /\ phase' = "run"
  BY DEF Advance
<1>2. /\ absLive = live /\ absRefs = r.object_refs
      /\ absCleanup = r.cleanup_by_cell /\ absTerminal = "active"
  BY <1>1, RunningView
<1>3. ~Ended'
  BY <1>1 DEF Ended
<1>4. r'.cleanup_by_cell \in [Token -> Nat]
  BY DEF IInv, TypeOK, ResultType, ByCell
<1>5. absCleanup' = [t \in Token |-> r'.cleanup_by_cell[t]]
  BY <1>3 DEF absCleanup
<1> QED
  BY <1>2, <1>3, <1>4, <1>5 DEF absLive, absRefs, absTerminal

\* A successful acquisition is the abstract one.
LEMMA AcquireRefines ==
    ASSUME IInv, NEW x \in Insn, Acquire(x)
    PROVE  x.dst \in Reg /\ Ownership!Acquire(x.dst)
<1>1. /\ IInv' /\ Advance
      /\ r'.acquired = r.acquired + 1 /\ r'.acquired \in Token
      /\ r'.object_refs = r.object_refs + 1
      /\ r'.explicit_by_cell = r.explicit_by_cell
      /\ r'.cleanup_by_cell = r.cleanup_by_cell
  BY AcquireInv
<1>2. x.dst \in Reg
  BY FetchFacts DEF Acquire
<1>3. /\ live' = live \cup {r.acquired + 1}
      /\ regs' = [regs EXCEPT ![x.dst] = r.acquired + 1]
      /\ spills' = spills
  BY DEF Acquire, FreshToken
<1>4. r.acquired < CBPF_CELLS
  BY SizesAssumption DEF Acquire, Full, IInv, TypeOK, ResultType
<1> QED
  BY <1>1, <1>2, <1>3, <1>4, AdvanceView
  DEF Ownership!Acquire, Ownership!Active, Ownership!HasRoom,
      Ownership!FreshToken, absLive, absRefs, absCleanup, absTerminal

\* A release is the abstract one.
LEMMA ReleaseRefines ==
    ASSUME IInv, NEW x \in Insn, Release(x)
    PROVE  x.dst \in Reg /\ Ownership!Release(x.dst)
<1>1. /\ IInv' /\ Advance /\ ExplicitDrop(regs[x.dst])
      /\ r'.acquired = r.acquired /\ r'.object_refs = r.object_refs - 1
  BY ReleaseInv
<1>2. x.dst \in Reg
  BY FetchFacts DEF Release
<1>3. /\ regs[x.dst] \in live /\ live' = live \ {regs[x.dst]}
      /\ UNCHANGED <<regs, spills>>
  BY DEF Release
<1> QED
  BY <1>1, <1>2, <1>3, AdvanceView
  DEF Ownership!Release, Ownership!Active, Ownership!Victims,
      Ownership!aliases, ExplicitDrop, absLive, absRefs, absCleanup,
      absTerminal

\* Moving an alias is the abstract operation of the same name, or nothing.
LEMMA MovesRefine ==
    ASSUME IInv, NEW x \in Insn, Moves(x)
    PROVE  Ownership!Next \/ UNCHANGED Ownership!vars
<1>1. IInv' /\ Advance /\ AccountsOf(r) /\ live' = live
  BY MovesInv
<1>2. /\ UNCHANGED <<r.acquired, r.explicit_by_cell, absLive, absRefs, absCleanup,
                      absTerminal>>
      /\ absTerminal = "active"
  BY <1>1, AdvanceView DEF AccountsOf
<1>3. /\ Fetch(x)
      /\ x.op \in {"ACQUIRE", "COPY", "RELOAD"} => x.dst \in Reg
      /\ x.op \in {"COPY", "SPILL"} => x.src \in Reg
      /\ x.op = "SPILL" => x.dst \in Slot
      /\ x.op = "RELOAD" => x.src \in Slot
  BY FetchFacts DEF Moves, AcquireNull, Copy, Spill, Reload, Read, BranchNull
<1> USE DEF Ownership!Active, Ownership!rights, absLive, absRefs, absCleanup,
        absTerminal
<1>4. CASE AcquireNull(x)
  <2>1. x.dst \in Reg /\ Ownership!AcquireNull(x.dst)
    BY <1>2, <1>3, <1>4 DEF AcquireNull, Ownership!AcquireNull, NoToken
  <2> QED
    BY <2>1 DEF Ownership!Next
<1>5. CASE Copy(x)
  <2>1. x.dst \in Reg /\ x.src \in Reg /\ Ownership!Copy(x.dst, x.src)
    BY <1>2, <1>3, <1>5 DEF Copy, Ownership!Copy
  <2> QED
    BY <2>1 DEF Ownership!Next
<1>6. CASE Spill(x)
  <2>1. x.dst \in Slot /\ x.src \in Reg /\ Ownership!Spill(x.dst, x.src)
    BY <1>2, <1>3, <1>6 DEF Spill, Ownership!Spill
  <2> QED
    BY <2>1 DEF Ownership!Next
<1>7. CASE Reload(x)
  <2>1. x.dst \in Reg /\ x.src \in Slot /\ Ownership!Reload(x.dst, x.src)
    BY <1>2, <1>3, <1>7 DEF Reload, Ownership!Reload
  <2> QED
    BY <2>1 DEF Ownership!Next
<1>8. CASE Read(x) \/ BranchNull(x)
  BY <1>2, <1>8 DEF Read, BranchNull, Ownership!vars
<1> QED
  BY <1>4, <1>5, <1>6, <1>7, <1>8 DEF Moves

\* The end of the program is the abstract termination: what cleanup still has
\* to drop counts as dropped from here on.
LEMMA EndTerminates ==
    ASSUME IInv, NEW trap \in TrapReason, End(trap)
    PROVE  Ownership!Active /\ Ownership!Terminate(Reason[trap])
<1>1. phase = "run" /\ phase' = "cleanup" /\ UNCHANGED <<n, locals>>
      /\ r'.trap = trap /\ AccountsOf(r)
  BY DEF End
<1>2. /\ absLive = live /\ absRefs = r.object_refs
      /\ absCleanup = r.cleanup_by_cell /\ absTerminal = "active"
  BY <1>1, RunningView
<1>3. Ended'
  BY <1>1 DEF Ended
<1>4. absLive' = {} /\ absTerminal' = Reason[trap]
      /\ absRefs' = r.object_refs - Cardinality(live)
  BY <1>1, <1>3 DEF absLive, absTerminal, absRefs, AccountsOf, locals
<1>5. absCleanup' = [t \in Token |-> IF t \in live
                                     THEN r.cleanup_by_cell[t] + 1
                                     ELSE r.cleanup_by_cell[t]]
  BY <1>1, <1>3 DEF absCleanup, AccountsOf, locals
<1>6. Ownership!Active
  BY <1>2 DEF Ownership!Active, absTerminal
<1> QED
  BY <1>1, <1>2, <1>4, <1>5, <1>6, SameCardinality
  DEF Ownership!Terminate, Ownership!RefcountAtBaseline, Ownership!aliases,
      Ownership!Token, Token, AccountsOf, locals, absLive, absRefs,
      absCleanup, absTerminal

\* Each way a program ends is the abstract ending with the same reason.
LEMMA EndsRefine ==
    ASSUME IInv, NEW x \in Insn,
           AcquireExhausted(x) \/ UseNull(x) \/ UseStale(x) \/ Return(x)
    PROVE  Ownership!Next
<1>1. /\ NoToken \in Alias
      /\ {"NO_TRAP", "NULL", "STALE", "EXHAUSTED"} \subseteq TrapReason
  BY DEF Alias, TrapReason
<1>2. /\ Reason["NO_TRAP"] = "return" /\ Reason["NULL"] = "null"
      /\ Reason["STALE"] = "stale" /\ Reason["EXHAUSTED"] = "exhaustion"
  BY DEF Reason
<1>3. phase = "run" /\ (UseNull(x) \/ UseStale(x) => x.dst \in Reg)
  BY FetchFacts DEF AcquireExhausted, UseNull, UseStale, Return
<1>4. absLive = live
  BY <1>3, RunningView
<1>5. CASE AcquireExhausted(x)
  <2>1. End("EXHAUSTED")
    BY <1>1, <1>5, TrapEnds DEF AcquireExhausted
  <2>2. Ownership!Exhaust
    BY <1>1, <1>2, <1>5, <2>1, EndTerminates
    DEF Ownership!Exhaust, AcquireExhausted, Full
  <2> QED
    BY <2>2 DEF Ownership!Next
<1>6. CASE UseNull(x)
  <2>1. End("NULL")
    BY <1>1, <1>6, TrapEnds DEF UseNull
  <2>2. Ownership!MisuseNull
    BY <1>1, <1>2, <1>3, <1>6, <2>1, EndTerminates
    DEF Ownership!MisuseNull, UseNull, NoToken
  <2> QED
    BY <2>2 DEF Ownership!Next
<1>7. CASE UseStale(x)
  <2>1. regs[x.dst] \in Alias
    BY <1>3, <1>7 DEF IInv, TypeOK
  <2>2. End("STALE")
    BY <1>1, <1>7, <2>1, TrapEnds DEF UseStale
  <2>3. Ownership!MisuseStale
    BY <1>1, <1>2, <1>3, <1>4, <1>7, <2>2, EndTerminates
    DEF Ownership!MisuseStale, UseStale, NoToken, absLive
  <2> QED
    BY <2>3 DEF Ownership!Next
<1>8. CASE Return(x)
  <2>1. Ownership!Finish
    BY <1>1, <1>2, <1>8, ReturnEnds, EndTerminates DEF Ownership!Finish
  <2> QED
    BY <2>1 DEF Ownership!Next
<1> QED
  BY <1>5, <1>6, <1>7, <1>8

\* What the cleanup loop drops was counted as dropped when the program ended.
LEMMA CleanupCellStutters ==
    ASSUME IInv, CleanupCell
    PROVE  UNCHANGED Ownership!vars
<1> DEFINE t == cell + 1
<1>1. /\ IInv' /\ CleanupDrop(t)
      /\ r'.acquired = r.acquired /\ r'.object_refs = r.object_refs - 1
      /\ r'.trap = r.trap /\ r'.status = r.status
  BY CleanupCellInv
<1>2. /\ phase = "cleanup" /\ phase' = "cleanup" /\ t \in live
      /\ live' = live \ {t} /\ UNCHANGED <<regs, spills>>
  BY DEF CleanupCell
<1>3. Ended /\ Ended'
  BY <1>2 DEF Ended
<1>4. t \in Token /\ r.cleanup_by_cell \in [Token -> Nat]
      /\ r.object_refs \in Int
  BY <1>2 DEF IInv, TypeOK, ResultType, ByCell
<1> HIDE DEF t
<1>5. absLive' = absLive /\ absTerminal' = absTerminal
  BY <1>1, <1>3 DEF absLive, absTerminal
<1>6. absRefs' = absRefs
  <2>1. Cardinality(live') = Cardinality(live) - 1
        /\ Cardinality(live) \in Nat
    BY <1>2, LiveCardinality DEF IInv
  <2> QED
    BY <1>1, <1>3, <1>4, <2>1 DEF absRefs
<1>7. absCleanup' = absCleanup
  <2>1. absCleanup = [u \in Token |-> IF u \in live
                                      THEN r.cleanup_by_cell[u] + 1
                                      ELSE r.cleanup_by_cell[u]]
    BY <1>3 DEF absCleanup
  <2>2. absCleanup' = [u \in Token |-> IF u \in live'
                                       THEN r'.cleanup_by_cell[u] + 1
                                       ELSE r'.cleanup_by_cell[u]]
    BY <1>3 DEF absCleanup
  <2>3. ASSUME NEW u \in Token
        PROVE  (IF u \in live' THEN r'.cleanup_by_cell[u] + 1
                               ELSE r'.cleanup_by_cell[u]) =
               (IF u \in live THEN r.cleanup_by_cell[u] + 1
                              ELSE r.cleanup_by_cell[u])
    <3>1. r'.cleanup_by_cell =
            [r.cleanup_by_cell EXCEPT ![t] = r.cleanup_by_cell[t] + 1]
      BY <1>1 DEF CleanupDrop
    <3>2. CASE u = t
      BY <1>2, <1>4, <3>1, <3>2
    <3>3. CASE u # t
      BY <1>2, <1>4, <3>1, <3>3
    <3> QED
      BY <3>2, <3>3
  <2> QED
    BY <2>1, <2>2, <2>3
<1> QED
  BY <1>1, <1>2, <1>5, <1>6, <1>7
  DEF Ownership!vars, CleanupDrop, absLive, absRefs, absCleanup, absTerminal

\* Validation, passing over a dead cell, and returning are invisible.
LEMMA ControlStutters ==
    ASSUME IInv, Reject \/ Accept \/ CleanupSkip \/ Finish
    PROVE  UNCHANGED Ownership!vars
<1>1. IInv' /\ AccountsOf(r) /\ UNCHANGED <<regs, spills, live>>
  BY ControlStepInv
<1>2. CASE Reject \/ Accept
  <2>1. phase = "validate"
        /\ (phase' \in {"validate", "run"} \/ r'.status = "INVALID")
    <3>1. CASE Reject
      <4>1. PICK b : r' = [r EXCEPT !.status = "INVALID", !.pc = b]
        BY <3>1 DEF Reject
      <4> QED
        BY <3>1, <4>1 DEF Reject, IInv, TypeOK, ResultType
    <3>2. CASE Accept
      BY <3>2 DEF Accept
    <3> QED
      BY <1>2, <3>1, <3>2
  <2>2. /\ absLive = live /\ absRefs = r.object_refs
        /\ absCleanup = r.cleanup_by_cell /\ absTerminal = "active"
    BY <2>1, RunningView
  <2>3. ~Ended'
    BY <1>1, <2>1 DEF Ended, IInv, ControlInv
  <2>4. absCleanup' = [t \in Token |-> r'.cleanup_by_cell[t]]
    BY <2>3 DEF absCleanup
  <2>5. r'.cleanup_by_cell \in [Token -> Nat]
    BY <1>1 DEF IInv, TypeOK, ResultType, ByCell
  <2>6. /\ absLive' = live /\ absRefs' = r.object_refs
        /\ absCleanup' = r.cleanup_by_cell /\ absTerminal' = "active"
    BY <1>1, <2>3, <2>4, <2>5 DEF absLive, absRefs, absTerminal, AccountsOf
  <2> QED
    BY <1>1, <2>2, <2>6
    DEF Ownership!vars, AccountsOf, absLive, absRefs, absCleanup, absTerminal
<1>3. CASE CleanupSkip \/ Finish
  <2>1. phase = "cleanup" /\ phase' \in {"cleanup", "done"}
        /\ UNCHANGED <<regs, spills, live, r>>
    BY <1>3 DEF CleanupSkip, Finish, locals
  <2>2. Ended /\ Ended'
    BY <2>1 DEF Ended, IInv, ControlInv
  <2> QED
    BY <2>1, <2>2 DEF Ownership!vars
<1> QED
  BY <1>2, <1>3

\* Every step is an abstract step or a stutter.
LEMMA StepRefines == IInv /\ [Next]_vars => [Ownership!Next]_(Ownership!vars)
<1> SUFFICES ASSUME IInv, [Next]_vars
             PROVE  Ownership!Next \/ UNCHANGED Ownership!vars
  OBVIOUS
<1>1. ASSUME NEW x \in Insn, Execute(x)
      PROVE  Ownership!Next \/ UNCHANGED Ownership!vars
  <2>1. CASE Moves(x)
    BY <2>1, MovesRefine
  <2>2. CASE Acquire(x)
    BY <2>2, AcquireRefines DEF Ownership!Next
  <2>3. CASE Release(x)
    BY <2>3, ReleaseRefines DEF Ownership!Next
  <2>4. CASE AcquireExhausted(x) \/ UseNull(x) \/ UseStale(x) \/ Return(x)
    BY <2>4, EndsRefine
  <2> QED
    BY <1>1, <2>1, <2>2, <2>3, <2>4 DEF Execute, Moves
<1>2. CASE CleanupCell
  BY <1>2, CleanupCellStutters
<1>3. CASE Reject \/ Accept \/ CleanupSkip \/ Finish
  BY <1>3, ControlStutters
<1>4. CASE UNCHANGED vars
  <2>1. UNCHANGED <<regs, spills, live, r, phase>>
    BY <1>4 DEF vars, locals
  <2> QED
    BY <2>1 DEF Ownership!vars, Ended
<1> QED
  BY <1>1, <1>2, <1>3, <1>4 DEF Next, Progress, Returned

\* Every behaviour of the interpreter is a behaviour of the ownership model,
\* whatever the program and the sizes of the machine.
THEOREM MachineImplementsOwnership == Spec => ImplementsOwnership
BY InitRefines, StepRefines, MachineInvariant, PTL
DEF Spec, ImplementsOwnership, Ownership!Spec
-----------------------------------------------------------------------------
(* cbpf_validate, the other half of src/cbpf.c: its scan accepts exactly the  *)
(* programs that are safe to run, for every program and every size of the     *)
(* machine, and exactly those cbpf_run can fetch.                             *)

\* The first m instructions have acceptable operands.
GoodPrefix(m) == \A k \in 0 .. m - 1 : OperandsOk(At(k), k, length)

\* What the loop has established, by the verdict it has reached.
VerdictInv ==
    /\ verdict = "scanning" /\ InBounds =>
         index \in 0 .. length /\ GoodPrefix(index)
    /\ verdict = "valid" =>
         InBounds /\ GoodPrefix(length) /\ At(length - 1).op = "RETURN"
    /\ verdict = "invalid" =>
         IF InBounds
         THEN /\ bad_pc \in 0 .. length - 1
              /\ GoodPrefix(bad_pc)
              /\ ~ValidAt(At(bad_pc), bad_pc, length)
         ELSE bad_pc = 0

ScanInv == ScanTypeOK /\ VerdictInv

\* Acceptable operands, and a RETURN at the end, are what makes the
\* instruction at index k safe to run.
LEMMA ValidIsSafe ==
    ASSUME program \in Seq(Insn), NEW k \in 0 .. length - 1
    PROVE  ValidAt(At(k), k, length) <=> SafeToRun(k)
<1> DEFINE x == At(k)
<1>1. x \in Insn /\ length \in Nat
  BY DEF At, length
<1>2. x.op \in Opcode \cup {"OTHER"} /\ x.dst \in Nat /\ x.src \in Nat
      /\ x.imm \in Int
  BY <1>1, FieldsAssumption DEF Insn
<1>3. CASE x.op = "BR_NULL"
  BY <1>1, <1>2, <1>3 DEF ValidAt, OperandsOk, BranchForward,
     SafeToRun, Successors, RegsUsed, SlotsUsed, Opcode
<1>4. CASE x.op = "RETURN"
  BY <1>1, <1>2, <1>4 DEF ValidAt, OperandsOk, SafeToRun,
     Successors, RegsUsed, SlotsUsed, Opcode
<1>5. CASE x.op \notin {"BR_NULL", "RETURN"}
  <2>1. Successors(k) = {k + 1}
    BY <1>5 DEF Successors
  <2>2. (\A t \in Successors(k) : k < t /\ t < length) <=> k # length - 1
    BY <1>1, <2>1
  <2>3. OperandsOk(x, k, length) <=>
          /\ x.op \in Opcode
          /\ RegsUsed(x) \subseteq Reg
          /\ SlotsUsed(x) \subseteq Slot
          /\ x.op = "ACQUIRE" => x.imm \in {0, 1}
    BY <1>2, <1>5 DEF OperandsOk, RegsUsed, SlotsUsed, Opcode
  <2> QED
    BY <1>5, <2>2, <2>3 DEF ValidAt, SafeToRun
<1> QED
  BY <1>3, <1>4, <1>5

\* Nothing scanned, nothing claimed.
LEMMA ScanStarts == ScanInit => ScanInv
BY DEF ScanInit, ScanInv, ScanTypeOK, VerdictInv, GoodPrefix, InBounds, length

\* Every turn of the loop keeps the invariant.
LEMMA ScanKeeps == ScanInv /\ [ScanNext]_scanVars => ScanInv'
<1> SUFFICES ASSUME ScanInv, [ScanNext]_scanVars PROVE ScanInv'
  OBVIOUS
<1> USE DEF ScanInv, ScanTypeOK, VerdictInv, InBounds, GoodPrefix, length, At
<1>0. length \in Nat
  OBVIOUS
<1>1. CASE RejectSize
  BY <1>0, <1>1 DEF RejectSize, RejectAt, Scanning
<1>2. CASE AdmitInsn
  BY <1>0, <1>2 DEF AdmitInsn, Scanning
<1>3. CASE RejectInsn
  BY <1>0, <1>3 DEF RejectInsn, RejectAt, Scanning, ValidAt
<1>4. CASE RejectNoReturn
  BY <1>0, <1>4 DEF RejectNoReturn, RejectAt, Scanning, ValidAt
<1>5. CASE AcceptProgram
  BY <1>0, <1>5 DEF AcceptProgram, Scanning
<1>6. CASE UNCHANGED scanVars
  BY <1>6 DEF scanVars
<1> QED
  BY <1>1, <1>2, <1>3, <1>4, <1>5, <1>6 DEF ScanNext

\* The program the scan is given.
LEMMA ScannedTyped == ScanInv => program \in Seq(Insn) /\ length \in Nat
<1> SUFFICES ASSUME ScanInv PROVE program \in Seq(Insn) /\ length \in Nat
  OBVIOUS
<1>1. program \in Seq(Insn)
  BY ProgramsAssumption DEF ScanInv, ScanTypeOK
<1> QED
  BY <1>1 DEF length

\* The invariant at a verdict is what the verdict claims.
LEMMA ScanImpliesSafe == ScanInv => AcceptedIsSafe /\ RejectedHasCause
<1> SUFFICES ASSUME ScanInv PROVE AcceptedIsSafe /\ RejectedHasCause
  OBVIOUS
<1>0. program \in Seq(Insn) /\ length \in Nat
  BY ScannedTyped
<1>1. AcceptedIsSafe
  <2> SUFFICES ASSUME verdict = "valid", NEW k \in 0 .. length - 1
               PROVE  InBounds /\ SafeToRun(k)
    BY DEF AcceptedIsSafe, ScanInv, VerdictInv
  <2>1. InBounds /\ ValidAt(At(k), k, length)
    BY <1>0 DEF ScanInv, VerdictInv, GoodPrefix, ValidAt
  <2> QED
    BY <1>0, <2>1, ValidIsSafe
<1>2. RejectedHasCause
  <2> SUFFICES ASSUME verdict = "invalid", InBounds
               PROVE  /\ bad_pc \in 0 .. length - 1
                      /\ ~SafeToRun(bad_pc)
                      /\ \A k \in 0 .. bad_pc - 1 : SafeToRun(k)
    BY DEF RejectedHasCause, ScanInv, VerdictInv
  <2>1. bad_pc \in 0 .. length - 1 /\ ~SafeToRun(bad_pc)
    BY <1>0, ValidIsSafe DEF ScanInv, VerdictInv
  <2>2. ASSUME NEW k \in 0 .. bad_pc - 1 PROVE SafeToRun(k)
    <3>1. k \in 0 .. length - 1 /\ k # length - 1
      BY <1>0, <2>1
    <3>2. ValidAt(At(k), k, length)
      BY <3>1 DEF ValidAt, ScanInv, VerdictInv, GoodPrefix
    <3> QED
      BY <1>0, <3>1, <3>2, ValidIsSafe
  <2> QED
    BY <2>1, <2>2
<1> QED
  BY <1>1, <1>2

\* Type correctness of the scan.
THEOREM ValidateTypes == ScanSpec => []ScanTypeOK
BY ScanStarts, ScanKeeps, PTL DEF ScanSpec, ScanInv

\* An accepted program is safe at every instruction, whatever its length and
\* whatever the sizes of the register and spill arrays.
THEOREM ValidateAccepts == ScanSpec => []AcceptedIsSafe
BY ScanStarts, ScanKeeps, ScanImpliesSafe, PTL DEF ScanSpec

\* A rejected program is unsafe, first at *bad_pc.
THEOREM ValidateRejects == ScanSpec => []RejectedHasCause
BY ScanStarts, ScanKeeps, ScanImpliesSafe, PTL DEF ScanSpec

\* A verdict is whether cbpf_run, at every index, may fetch the instruction.
AcceptsFetchable ==
    LET fetchable == /\ length \in 1 .. CBPF_MAX_INSNS
                     /\ \A k \in 0 .. length - 1 : ValidAt(At(k), k, length)
    IN  (verdict = "valid" => fetchable) /\ (verdict = "invalid" => ~fetchable)

\* The scan accepts a program exactly if the interpreter can fetch each of its
\* instructions: a step of cbpf_run that takes any instruction valid at pc
\* executes an accepted program, and only those (cbpf.c:44, 120).
THEOREM ValidateAdmitsFetched == ScanSpec => []AcceptsFetchable
<1>1. ScanInv => AcceptsFetchable
  <2> SUFFICES ASSUME ScanInv PROVE AcceptsFetchable
    OBVIOUS
  <2>1. program \in Seq(Insn) /\ length \in Nat
    BY ScannedTyped
  <2>2. CASE verdict = "valid"
    <3>1. /\ InBounds
          /\ \A k \in 0 .. length - 1 : ValidAt(At(k), k, length)
      BY <2>1, <2>2 DEF ScanInv, VerdictInv, GoodPrefix, ValidAt
    <3> QED
      BY <2>1, <2>2, <3>1, SizesAssumption DEF AcceptsFetchable, InBounds, At
  <2>3. CASE verdict = "invalid"
    <3>1. InBounds => /\ bad_pc \in 0 .. length - 1
                      /\ ~ValidAt(At(bad_pc), bad_pc, length)
      BY <2>3 DEF ScanInv, VerdictInv
    <3> QED
      BY <2>1, <2>3, <3>1, SizesAssumption DEF AcceptsFetchable, InBounds, At
  <2> QED
    BY <2>2, <2>3 DEF AcceptsFetchable
<1> QED
  BY <1>1, ScanStarts, ScanKeeps, PTL DEF ScanSpec
=============================================================================
