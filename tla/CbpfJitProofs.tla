---------------------------- MODULE CbpfJitProofs ----------------------------
(* The restricted compiler, for every program of up to 64 instructions and in *)
(* every kernel.  Its analysis is sound: of a program that the pass admits,   *)
(* on every path and whatever the gates answer, the run has what the pass     *)
(* believes.  And its code generation is: whatever the layout pass used for   *)
(* the distances it did not know, a published image is complete and linked,   *)
(* and what was allocated is freed.  Last comes the loader, whose verdict on  *)
(* its fixtures is earned.                                                    *)
EXTENDS CbpfOwnershipGuest, CbpfJitImage, FiniteSetTheorems, SequenceTheorems, TLAPS

L == Length(prog)

\* Facts t allow all that facts s do.
Below(s, t) ==
    /\ t.reached
    /\ \A r \in Reg : s.reg[r] \subseteq t.reg[r]
    /\ s.spill \subseteq t.spill

\* Instruction q was admitted, and its edges carry its facts on.
WentBy(q) ==
    LET i == prog[q]
        s == flow[q]
    IN  /\ s.reached
        /\ \E count \in Nat : Admissible(i, s, q, L, count)
        /\ Branches(i, s) => Below(Taken(i, s), flow[Target(i, q)])
        /\ FallsThrough(i, s) => Below(After(i, s), flow[q + 1])

\* The acquiring calls before index k.
Sites(k) == { q \in 0 .. k - 1 : call_operation(prog[q]) = AcquireOp }

ProgInv ==
    /\ L \in 1 .. 64
    /\ prog \in [0 .. L - 1 -> Insn]
    /\ flow \in [0 .. L -> Facts]
    /\ Below(AtEntry, flow[0])
    /\ phase \in {"admit", "rejected", "admitted", "run", "aborted", "returned"}

\* What the pass knows of the instructions behind it.
PassInv ==
    phase = "admit" =>
        /\ pc \in 0 .. L
        /\ \A q \in 0 .. pc - 1 : WentBy(q)
        /\ acquisitions = Cardinality(Sites(pc)) /\ acquisitions <= 2

\* What an admitted program is.
AdmittedInv ==
    phase \in {"admitted", "run"} =>
        /\ \A q \in 0 .. L - 1 : WentBy(q)
        /\ ~flow[L].reached
        /\ Cardinality(Sites(L)) <= 2

IsValue(v) == v = Word(v.n) \/ v \in {Handle(0), Handle(1)} \/ v = Leftover

\* What a register may hold at any time.
RegsInv ==
    /\ DOMAIN regs = Location /\ \A l \in Location : IsValue(regs[l])
    /\ \A r \in Reg : regs[r] # Leftover
    /\ FramePointer \in known => regs[FramePointer] # Leftover
    /\ result = Word(result.n)

\* Cells are given out in order, and a handle is one of them.
CellsInv ==
    /\ cells \in [0 .. 1 -> {"null", "live", "ended"}]
    /\ cells[0] = "null" => cells[1] = "null"
    /\ \A l \in Location, c \in 0 .. 1 : regs[l] = Handle(c) => cells[c] # "null"

\* Before the run nothing has happened.
FreshInv ==
    phase \in {"admit", "admitted"} =>
        /\ known = {} /\ \A c \in 0 .. 1 : cells[c] = "null"

\* Facts s cover locations that hold g, of which those in k were written.
Covered(s, g, k) ==
    /\ \A r \in Reg : Covers(s.reg[r], g[r]) /\ (defined(s.reg[r]) => r \in k)
    /\ Covers(s.spill, g[FramePointer])
    /\ defined(s.spill) => FramePointer \in k

RunInv ==
    phase = "run" =>
        /\ pc \in 0 .. L - 1
        /\ Covered(flow[pc], regs, known)
        /\ Acquired <= Cardinality(Sites(pc))

IInv ==
    /\ ProgInv /\ PassInv /\ AdmittedInv
    /\ RegsInv /\ CellsInv /\ FreshInv /\ RunInv

-----------------------------------------------------------------------------
(* Programs.                                                                  *)

\* Every program is a sequence of instructions.
LEMMA ProgramFacts ==
    ASSUME NEW p \in Programs
    PROVE  Length(p) \in 1 .. 64 /\ p \in [0 .. Length(p) - 1 -> Insn]
<1>1. PICK size \in 1 .. 64 : p \in [0 .. size - 1 -> Insn]
  BY ProgramsAssumption
<1>2. Cardinality(0 .. size - 1) = size
  BY FS_Interval
<1> QED
  BY <1>1, <1>2 DEF Length

\* The calls before the next index.
LEMMA SiteFacts ==
    ASSUME NEW k \in Nat
    PROVE  /\ IsFiniteSet(Sites(k)) /\ Cardinality(Sites(k)) \in Nat
           /\ k \notin Sites(k)
           /\ call_operation(prog[k]) = AcquireOp =>
                 Sites(k + 1) = Sites(k) \cup {k}
                 /\ Cardinality(Sites(k + 1)) = Cardinality(Sites(k)) + 1
           /\ call_operation(prog[k]) # AcquireOp => Sites(k + 1) = Sites(k)
<1>1. IsFiniteSet(Sites(k)) /\ k \notin Sites(k)
  <2>1. IsFiniteSet(0 .. k - 1) /\ Sites(k) \subseteq 0 .. k - 1
    BY FS_Interval DEF Sites
  <2> QED BY <2>1, FS_Subset DEF Sites
<1>2. call_operation(prog[k]) = AcquireOp => Sites(k + 1) = Sites(k) \cup {k}
  BY DEF Sites
<1>3. call_operation(prog[k]) # AcquireOp => Sites(k + 1) = Sites(k)
  BY DEF Sites
<1> QED
  BY <1>1, <1>2, <1>3, FS_AddElement, FS_CardinalityType

\* The calls before one index are among those before a later one.
LEMMA SitesGrow ==
    ASSUME NEW k \in Nat, NEW e \in Nat, k <= e
    PROVE  Cardinality(Sites(k)) <= Cardinality(Sites(e))
<1>1. Sites(k) \subseteq Sites(e)
  BY DEF Sites
<1> QED
  BY <1>1, SiteFacts, FS_Subset

-----------------------------------------------------------------------------
(* The facts.                                                                 *)

\* Where control and facts go from each instruction.
LEMMA AfterCases ==
    ASSUME NEW i, NEW s
    PROVE  /\ i.op = "MOV_X" => After(i, s) = [s EXCEPT !.reg[i.dst] = s.reg[i.src]]
           /\ i.op = "MOV_K" => After(i, s) = [s EXCEPT !.reg[i.dst] =
                                                 IF i.imm = 0 THEN {"ZERO"} ELSE {"SCALAR"}]
           /\ i.op = "STX" => After(i, s) = [s EXCEPT !.spill = s.reg[i.src]]
           /\ i.op = "LDX" => After(i, s) = [s EXCEPT !.reg[i.dst] = s.spill]
           /\ i.op = "JEQ" => After(i, s) = [s EXCEPT !.reg[i.dst] = @ \ {"ZERO"}]
           /\ i.op = "CALL" => After(i, s) = AfterCall(i, s)
<1>1. i.op = "MOV_X" => After(i, s) = [s EXCEPT !.reg[i.dst] = s.reg[i.src]]
  BY DEF After
<1>2. i.op = "MOV_K" => After(i, s) = [s EXCEPT !.reg[i.dst] =
                                         IF i.imm = 0 THEN {"ZERO"} ELSE {"SCALAR"}]
  BY DEF After
<1>3. i.op = "STX" => After(i, s) = [s EXCEPT !.spill = s.reg[i.src]]
  BY DEF After
<1>4. i.op = "LDX" => After(i, s) = [s EXCEPT !.reg[i.dst] = s.spill]
  BY DEF After
<1>5. i.op = "JEQ" => After(i, s) = [s EXCEPT !.reg[i.dst] = @ \ {"ZERO"}]
  BY DEF After
<1>6. i.op = "CALL" => After(i, s) = AfterCall(i, s)
  BY DEF After
<1> QED
  BY <1>1, <1>2, <1>3, <1>4, <1>5, <1>6

\* Facts with other facts of one register.
LEMMA PutFacts ==
    ASSUME NEW s \in Facts, NEW d \in Reg, NEW k \in SUBSET Kind
    PROVE  /\ [s EXCEPT !.reg[d] = k] \in Facts
           /\ [s EXCEPT !.reg[d] = k].reached = s.reached
           /\ [s EXCEPT !.reg[d] = k].spill = s.spill
           /\ \A r \in Reg : [s EXCEPT !.reg[d] = k].reg[r] =
                                 IF r = d THEN k ELSE s.reg[r]
<1> DEFINE f == [s.reg EXCEPT ![d] = k]
<1>1. f \in [Reg -> SUBSET Kind] /\ \A r \in Reg : f[r] = IF r = d THEN k ELSE s.reg[r]
  BY DEF Facts
<1> DEFINE g == [s EXCEPT !.reg[d] = k]
<1>2. g = [s EXCEPT !.reg = f]
  OBVIOUS
<1> HIDE DEF f, g
<1>3. /\ [s EXCEPT !.reg = f] \in Facts /\ [s EXCEPT !.reg = f].reg = f
      /\ [s EXCEPT !.reg = f].reached = s.reached
      /\ [s EXCEPT !.reg = f].spill = s.spill
  BY <1>1 DEF Facts
<1>4. /\ g \in Facts /\ g.reached = s.reached /\ g.spill = s.spill
      /\ \A r \in Reg : g.reg[r] = IF r = d THEN k ELSE s.reg[r]
  BY <1>1, <1>2, <1>3
<1> QED
  BY <1>4 DEF g

\* A merge has both.
LEMMA JoinFacts ==
    ASSUME NEW d \in Facts, NEW s \in Facts, s.reached
    PROVE  /\ join(d, s) \in Facts /\ Below(s, join(d, s))
           /\ \A x : Below(x, d) => Below(x, join(d, s))
<1>1. CASE ~d.reached
  BY <1>1 DEF join, Below
<1>2. CASE d.reached
  <2> DEFINE f == [r \in Reg |-> d.reg[r] \cup s.reg[r]]
             e == d.spill \cup s.spill
  <2>1. join(d, s) = [d EXCEPT !.reg = f, !.spill = e]
    BY <1>2 DEF join
  <2>2. /\ f \in [Reg -> SUBSET Kind] /\ e \in SUBSET Kind
        /\ \A r \in Reg : f[r] = d.reg[r] \cup s.reg[r]
    BY DEF Facts
  <2> HIDE DEF f
  <2>3. /\ join(d, s) \in Facts /\ join(d, s).reg = f /\ join(d, s).spill = e
        /\ join(d, s).reached = d.reached
    BY <2>1, <2>2 DEF Facts
  <2> QED BY <1>2, <2>2, <2>3 DEF Below
<1> QED
  BY <1>1, <1>2

-----------------------------------------------------------------------------
(* What the pass admits.                                                      *)

\* The switch, by operation.
LEMMA AdmissibleFacts ==
    ASSUME NEW i, NEW s, NEW at, NEW size, NEW count,
           Admissible(i, s, at, size, count)
    PROVE  /\ i.op \in {"MOV_X", "MOV_K", "STX", "LDX", "JEQ", "CALL", "EXIT"}
           /\ i.op = "MOV_X" => i.dst \in Reg /\ i.src \in Reg /\ defined(s.reg[i.src])
           /\ i.op = "MOV_K" => i.dst \in Reg
           /\ i.op = "STX" => i.src \in Reg /\ defined(s.reg[i.src])
           /\ i.op = "LDX" => i.dst \in Reg /\ defined(s.spill)
           /\ i.op = "JEQ" =>
                 /\ i.dst \in Reg /\ ForwardBranch(i, at, size)
                 /\ defined(s.reg[i.dst]) /\ s.reg[i.dst] \subseteq {"ZERO", "HANDLE"}
           /\ i.op = "CALL" <=> call_operation(i) \in {AcquireOp, ReadOp, ReleaseOp}
           /\ call_operation(i) = AcquireOp => scalar(s.reg[1]) /\ AcquisitionFits(count)
           /\ call_operation(i) \in {ReadOp, ReleaseOp} => HandleArgument(s.reg[1])
           /\ i.op = "EXIT" => scalar(s.reg[0])
<1> DEFINE k == call_operation(i)
<1>1. k \in {AcquireOp, ReadOp, ReleaseOp} => i.op = "CALL"
  BY DEF call_operation, AcquireOp, ReadOp, ReleaseOp
<1> HIDE DEF k
<1>2. /\ AcquireOp # ReadOp /\ AcquireOp # ReleaseOp
  BY DEF AcquireOp, ReadOp, ReleaseOp
<1>3. \/ i.op = "MOV_X" /\ i.dst \in Reg /\ i.src \in Reg /\ defined(s.reg[i.src])
      \/ i.op = "MOV_K" /\ i.dst \in Reg
      \/ i.op = "STX" /\ i.src \in Reg /\ defined(s.reg[i.src])
      \/ i.op = "LDX" /\ i.dst \in Reg /\ defined(s.spill)
      \/ /\ i.op = "JEQ" /\ i.dst \in Reg /\ ForwardBranch(i, at, size)
         /\ defined(s.reg[i.dst]) /\ s.reg[i.dst] \subseteq {"ZERO", "HANDLE"}
      \/ k = AcquireOp /\ scalar(s.reg[1]) /\ AcquisitionFits(count)
      \/ k \in {ReadOp, ReleaseOp} /\ HandleArgument(s.reg[1])
      \/ i.op = "EXIT" /\ scalar(s.reg[0])
  BY DEF Admissible, k
<1>4. /\ i.op \in {"MOV_X", "MOV_K", "STX", "LDX", "JEQ", "CALL", "EXIT"}
      /\ i.op = "MOV_X" => i.dst \in Reg /\ i.src \in Reg /\ defined(s.reg[i.src])
      /\ i.op = "MOV_K" => i.dst \in Reg
      /\ i.op = "STX" => i.src \in Reg /\ defined(s.reg[i.src])
      /\ i.op = "LDX" => i.dst \in Reg /\ defined(s.spill)
  BY <1>1, <1>3
<1>5. /\ i.op = "JEQ" =>
            /\ i.dst \in Reg /\ ForwardBranch(i, at, size)
            /\ defined(s.reg[i.dst]) /\ s.reg[i.dst] \subseteq {"ZERO", "HANDLE"}
      /\ i.op = "EXIT" => scalar(s.reg[0])
  BY <1>1, <1>3
<1>6. /\ i.op = "CALL" <=> k \in {AcquireOp, ReadOp, ReleaseOp}
      /\ k = AcquireOp => scalar(s.reg[1]) /\ AcquisitionFits(count)
      /\ k \in {ReadOp, ReleaseOp} => HandleArgument(s.reg[1])
  BY <1>1, <1>2, <1>3
<1> QED
  BY <1>4, <1>5, <1>6 DEF k

\* The facts after a call.
LEMMA AfterCallFacts ==
    ASSUME NEW i, NEW s \in Facts
    PROVE  /\ AfterCall(i, s) \in Facts
           /\ AfterCall(i, s).reached = s.reached /\ AfterCall(i, s).spill = s.spill
           /\ \A r \in Reg : AfterCall(i, s).reg[r] =
                 IF r = 0 THEN CallResult(call_operation(i))
                 ELSE IF r \in 1 .. 5 THEN {"UNINIT"} ELSE s.reg[r]
<1> DEFINE k == CallResult(call_operation(i))
           f == [r \in Reg |-> IF r = 0 THEN k
                               ELSE IF r \in Clobbered THEN {"UNINIT"} ELSE s.reg[r]]
           g == AfterCall(i, s)
<1>1. k \in SUBSET Kind
  BY DEF CallResult, Kind
<1>2. g = [s EXCEPT !.reg = f]
  BY DEF AfterCall
<1> HIDE DEF k
<1>3. f \in [Reg -> SUBSET Kind]
      /\ \A r \in Reg : f[r] = IF r = 0 THEN k
                               ELSE IF r \in 1 .. 5 THEN {"UNINIT"} ELSE s.reg[r]
  BY <1>1 DEF Facts, Kind, Clobbered
<1> HIDE DEF f, g
<1>4. g \in Facts /\ g.reached = s.reached /\ g.spill = s.spill /\ g.reg = f
  BY <1>2, <1>3 DEF Facts
<1> QED
  BY <1>3, <1>4 DEF g, k

\* What an admitted instruction passes on is facts again.
LEMMA TransferFacts ==
    ASSUME NEW i, NEW s \in Facts, NEW at, NEW size, NEW count,
           Admissible(i, s, at, size, count)
    PROVE  /\ After(i, s) \in Facts /\ After(i, s).reached = s.reached
           /\ i.op = "JEQ" => Taken(i, s) \in Facts /\ Taken(i, s).reached = s.reached
<1>1. /\ {"ZERO"} \in SUBSET Kind /\ {"SCALAR"} \in SUBSET Kind
      /\ \A r \in Reg : /\ s.reg[r] \in SUBSET Kind
                        /\ s.reg[r] \ {"ZERO"} \in SUBSET Kind
      /\ s.spill \in SUBSET Kind
  BY DEF Kind, Facts
<1>2. CASE i.op = "MOV_X"
  <2>1. After(i, s) = [s EXCEPT !.reg[i.dst] = s.reg[i.src]]
    BY <1>2, AfterCases
  <2>2. i.dst \in Reg /\ s.reg[i.src] \in SUBSET Kind
    BY <1>1, <1>2, AdmissibleFacts
  <2> DEFINE g == [s EXCEPT !.reg[i.dst] = s.reg[i.src]]
  <2>3. g \in Facts /\ g.reached = s.reached
    BY <2>2, PutFacts
  <2> QED BY <1>2, <2>1, <2>3
<1>3. CASE i.op = "MOV_K"
  <2> DEFINE k == IF i.imm = 0 THEN {"ZERO"} ELSE {"SCALAR"}
  <2>1. After(i, s) = [s EXCEPT !.reg[i.dst] = k]
    BY <1>3, AfterCases
  <2>2. i.dst \in Reg /\ k \in SUBSET Kind
    BY <1>1, <1>3, AdmissibleFacts
  <2> HIDE DEF k
  <2> DEFINE g == [s EXCEPT !.reg[i.dst] = k]
  <2>3. g \in Facts /\ g.reached = s.reached
    BY <2>2, PutFacts
  <2> QED BY <1>3, <2>1, <2>3
<1>4. CASE i.op = "STX"
  <2>1. After(i, s) = [s EXCEPT !.spill = s.reg[i.src]]
    BY <1>4, AfterCases
  <2>2. s.reg[i.src] \in SUBSET Kind
    BY <1>1, <1>4, AdmissibleFacts
  <2> QED BY <1>4, <2>1, <2>2 DEF Facts
<1>5. CASE i.op = "LDX"
  <2>1. After(i, s) = [s EXCEPT !.reg[i.dst] = s.spill]
    BY <1>5, AfterCases
  <2>2. i.dst \in Reg
    BY <1>5, AdmissibleFacts
  <2> DEFINE g == [s EXCEPT !.reg[i.dst] = s.spill]
  <2>3. g \in Facts /\ g.reached = s.reached
    <3>1. s \in Facts /\ s.spill \in SUBSET Kind
      BY <1>1
    <3> QED
      BY <2>2, <3>1, PutFacts, Zenon
  <2> QED BY <1>5, <2>1, <2>3
<1>6. CASE i.op = "JEQ"
  <2>1. /\ After(i, s) = [s EXCEPT !.reg[i.dst] = s.reg[i.dst] \ {"ZERO"}]
        /\ Taken(i, s) = [s EXCEPT !.reg[i.dst] = {"ZERO"}]
    BY <1>6, AfterCases DEF Taken
  <2>2. i.dst \in Reg /\ s.reg[i.dst] \ {"ZERO"} \in SUBSET Kind
    BY <1>1, <1>6, AdmissibleFacts
  <2> DEFINE g == [s EXCEPT !.reg[i.dst] = s.reg[i.dst] \ {"ZERO"}]
             h == [s EXCEPT !.reg[i.dst] = {"ZERO"}]
  <2>3. s \in Facts /\ {"ZERO"} \in SUBSET Kind
    BY <1>1
  <2>4. g \in Facts /\ g.reached = s.reached
    BY <2>2, <2>3, PutFacts, Zenon
  <2>5. h \in Facts /\ h.reached = s.reached
    BY <2>2, <2>3, PutFacts, Zenon
  <2> QED BY <2>1, <2>4, <2>5
<1>7. CASE i.op = "CALL"
  BY <1>7, AfterCases, AfterCallFacts
<1>8. CASE i.op = "EXIT"
  <2>1. After(i, s) = s
    BY <1>8 DEF After
  <2> QED BY <1>8, <2>1
<1> QED
  BY <1>2, <1>3, <1>4, <1>5, <1>6, <1>7, <1>8, AdmissibleFacts

-----------------------------------------------------------------------------
(* The pass.                                                                  *)

\* One turn of the loop: facts behind it stay, facts before it only grow, and
\* both edges of the instruction are in.
LEMMA TurnFacts ==
    ASSUME ProgInv, AdmitInsn, pc \in 0 .. L
    PROVE  /\ pc < L /\ flow' \in [0 .. L -> Facts]
           /\ \A q \in 0 .. pc : flow'[q] = flow[q]
           /\ \A q \in 0 .. L : \A x : Below(x, flow[q]) => Below(x, flow'[q])
           /\ flow[pc].reached
           /\ Admissible(prog[pc], flow[pc], pc, L, acquisitions)
           /\ Branches(prog[pc], flow[pc]) =>
                 /\ Target(prog[pc], pc) \in pc + 1 .. L - 1
                 /\ Below(Taken(prog[pc], flow[pc]), flow'[Target(prog[pc], pc)])
           /\ FallsThrough(prog[pc], flow[pc]) =>
                 Below(After(prog[pc], flow[pc]), flow'[pc + 1])
<1> DEFINE i == prog[pc]
           s == flow[pc]
           t == Target(i, pc)
           B == Branches(i, s)
           F == FallsThrough(i, s)
           taken == Taken(i, s)
           after == After(i, s)
<1>1. /\ pc < L /\ s.reached /\ Admissible(i, s, pc, L, acquisitions)
      /\ flow' = [q \in 0 .. L |-> IF B /\ q = t THEN join(flow[q], taken)
                                  ELSE IF F /\ q = pc + 1 THEN join(flow[q], after)
                                  ELSE flow[q]]
  BY DEF AdmitInsn, L
<1>2. pc \in 0 .. L - 1 /\ L \in Nat /\ i \in Insn /\ s \in Facts
      /\ \A q \in 0 .. L : flow[q] \in Facts
  BY <1>1 DEF ProgInv
<1>3. B => t \in pc + 1 .. L - 1 /\ t # pc + 1
  <2>1. ASSUME B PROVE i.op = "JEQ"
    BY <2>1 DEF Branches
  <2>2. ASSUME B PROVE ForwardBranch(i, pc, L)
    BY <1>1, <2>1, <2>2, AdmissibleFacts
  <2>3. i.off \in Int
    BY <1>2 DEF Insn
  <2> QED BY <1>2, <2>2, <2>3 DEF ForwardBranch, Target
<1>4. /\ after \in Facts /\ after.reached
      /\ B => taken \in Facts /\ taken.reached
  <2>1. B => i.op = "JEQ"
    BY DEF Branches
  <2> QED BY <1>1, <1>2, <2>1, TransferFacts
<1> HIDE DEF i, s, t, B, F, taken, after
<1>5. \A q \in 0 .. L : /\ flow'[q] \in Facts
                        /\ \A x : Below(x, flow[q]) => Below(x, flow'[q])
  <2> SUFFICES ASSUME NEW q \in 0 .. L
               PROVE  /\ flow'[q] \in Facts
                      /\ \A x : Below(x, flow[q]) => Below(x, flow'[q])
    OBVIOUS
  <2>1. CASE B /\ q = t
    BY <1>1, <1>2, <1>4, <2>1, JoinFacts
  <2>2. CASE ~(B /\ q = t) /\ F /\ q = pc + 1
    BY <1>1, <1>2, <1>4, <2>2, JoinFacts
  <2>3. CASE ~(B /\ q = t) /\ ~(F /\ q = pc + 1)
    <3>1. flow'[q] = flow[q]
      BY <1>1, <2>3
    <3> QED BY <1>2, <3>1
  <2> QED BY <2>1, <2>2, <2>3
<1>6. \A q \in 0 .. pc : flow'[q] = flow[q]
  BY <1>1, <1>2, <1>3
<1>7. B => Below(taken, flow'[t])
  BY <1>1, <1>2, <1>3, <1>4, JoinFacts
<1>8. F => Below(after, flow'[pc + 1])
  <2>1. flow'[pc + 1] = IF F THEN join(flow[pc + 1], after) ELSE flow[pc + 1]
    BY <1>1, <1>2, <1>3
  <2> QED BY <1>2, <1>4, <2>1, JoinFacts
<1>9. flow' \in [0 .. L -> Facts]
  BY <1>1, <1>5
<1> QED
  BY <1>1, <1>3, <1>5, <1>6, <1>7, <1>8, <1>9 DEF i, s, t, B, F, taken, after

\* An instruction that passed, and where it leads.
LEMMA PassedFacts ==
    ASSUME ProgInv, NEW q \in 0 .. L - 1, WentBy(q)
    PROVE  /\ prog[q] \in Insn /\ flow[q] \in Facts /\ L \in 1 .. 64
           /\ Branches(prog[q], flow[q]) => Target(prog[q], q) \in q + 1 .. L - 1
<1>1. prog[q] \in Insn /\ flow[q] \in Facts /\ L \in 1 .. 64 /\ prog[q].off \in Int
  BY DEF ProgInv, Insn
<1>2. PICK count \in Nat : Admissible(prog[q], flow[q], q, L, count)
  BY DEF WentBy
<1>3. ASSUME Branches(prog[q], flow[q]) PROVE Target(prog[q], q) \in q + 1 .. L - 1
  <2>1. prog[q].op = "JEQ"
    BY <1>3 DEF Branches
  <2>2. ForwardBranch(prog[q], q, L)
    BY <1>2, <2>1, AdmissibleFacts
  <2> QED BY <1>1, <2>2 DEF ForwardBranch, Target
<1> QED
  BY <1>1, <1>3

\* Instructions that passed before go on being so.
LEMMA TurnKeeps ==
    ASSUME IInv, AdmitInsn
    PROVE  IInv'
<1>1. phase = "admit" /\ phase' = "admit" /\ pc' = pc + 1
      /\ UNCHANGED <<prog, regs, known, cells, result>> /\ pc \in 0 .. L
  BY DEF AdmitInsn, runVars, IInv, PassInv
<1>2. ProgInv /\ L' = L /\ L \in 1 .. 64 /\ pc < L /\ pc \in Nat
  BY <1>1, TurnFacts DEF IInv, L, Length, ProgInv
<1>3. ProgInv'
  <2>1. flow' \in [0 .. L -> Facts] /\ flow'[0] = flow[0]
    BY <1>1, <1>2, TurnFacts
  <2>2. AtEntry' = AtEntry
    BY DEF AtEntry
  <2> QED BY <1>1, <1>2, <2>1, <2>2 DEF ProgInv, Below
<1>4. ASSUME NEW q \in 0 .. pc PROVE WentBy(q)'
  <2> DEFINE i == prog[q]
             s == flow[q]
  <2>1. flow'[q] = s /\ prog'[q] = i /\ q \in 0 .. L - 1
    BY <1>1, <1>2, TurnFacts
  <2>2. /\ s.reached /\ \E count \in Nat : Admissible(i, s, q, L, count)
        /\ Branches(i, s) => Below(Taken(i, s), flow'[Target(i, q)])
        /\ FallsThrough(i, s) => Below(After(i, s), flow'[q + 1])
    <3>1. CASE q = pc
      <4>1. acquisitions \in Nat
        <5>1. Cardinality(Sites(pc)) \in Nat
          BY <1>2, SiteFacts
        <5> QED BY <1>1, <5>1 DEF IInv, PassInv
      <4> QED BY <1>1, <1>2, <3>1, <4>1, TurnFacts
    <3>2. CASE q # pc
      <4>1. WentBy(q)
        BY <1>1, <1>2, <3>2 DEF IInv, PassInv
      <4>2. Branches(i, s) => Target(i, q) \in 0 .. L
        BY <1>2, <2>1, <4>1, PassedFacts
      <4>3. q + 1 \in 0 .. L
        BY <2>1, <1>2
      <4>4. \A e \in 0 .. L : \A x : Below(x, flow[e]) => Below(x, flow'[e])
        BY <1>1, <1>2, TurnFacts
      <4> QED BY <4>1, <4>2, <4>3, <4>4 DEF WentBy
    <3> QED BY <3>1, <3>2
  <2> QED BY <1>2, <2>1, <2>2 DEF WentBy
<1>5. acquisitions' = Cardinality(Sites(pc))' /\ acquisitions' <= 2
  <2>1. Sites(pc)' = Sites(pc + 1)
    BY <1>1 DEF Sites
  <2>2. acquisitions' = IF call_operation(prog[pc]) = AcquireOp
                        THEN acquisitions + 1 ELSE acquisitions
    BY DEF AdmitInsn
  <2>3. call_operation(prog[pc]) = AcquireOp => acquisitions + 1 <= 2
    <3>1. Admissible(prog[pc], flow[pc], pc, L, acquisitions)
      BY <1>1, <1>2, TurnFacts
    <3> QED BY <3>1, AdmissibleFacts DEF AcquisitionFits
  <2>4. acquisitions = Cardinality(Sites(pc)) /\ acquisitions <= 2
    BY <1>1 DEF IInv, PassInv
  <2> QED BY <1>2, <2>1, <2>2, <2>3, <2>4, SiteFacts
<1>6. PassInv'
  BY <1>1, <1>2, <1>4, <1>5 DEF PassInv
<1>7. AdmittedInv' /\ RunInv'
  BY <1>1 DEF AdmittedInv, RunInv
<1>8. RegsInv' /\ CellsInv' /\ FreshInv'
  BY <1>1 DEF IInv, RegsInv, CellsInv, FreshInv
<1> QED
  BY <1>3, <1>6, <1>7, <1>8 DEF IInv

\* The other steps of the pass, and the start of the run.
LEMMA DecideKeeps ==
    ASSUME IInv, RejectInsn \/ Decide \/ Start
    PROVE  IInv'
<1>1. UNCHANGED <<prog, flow, known, cells, result>> /\ L' = L /\ L \in 1 .. 64
  BY DEF RejectInsn, Decide, Start, passVars, runVars, IInv, ProgInv, L, Length
<1>2. ProgInv'
  <2>1. phase' \in {"admit", "rejected", "admitted", "run", "aborted", "returned"}
    BY DEF RejectInsn, Decide, Start
  <2> QED BY <1>1, <2>1 DEF IInv, ProgInv, Below, AtEntry
<1>3. CASE RejectInsn \/ Decide
  <2>1. UNCHANGED <<pc, regs>> /\ phase = "admit" /\ phase' \in {"rejected", "admitted"}
    BY <1>3 DEF RejectInsn, Decide, runVars
  <2>2. RegsInv' /\ CellsInv' /\ FreshInv'
    BY <1>1, <2>1 DEF IInv, RegsInv, CellsInv, FreshInv
  <2>3. PassInv' /\ RunInv'
    BY <2>1 DEF PassInv, RunInv
  <2>4. AdmittedInv'
    <3>1. CASE phase' = "admitted"
      <4>1. pc = L /\ ~flow[L].reached
        BY <1>3, <2>1, <3>1 DEF RejectInsn, Decide, Accepted, L
      <4>2. /\ \A q \in 0 .. L - 1 : WentBy(q)
            /\ Cardinality(Sites(L)) <= 2
        BY <2>1, <4>1 DEF IInv, PassInv
      <4>3. Sites(L)' = Sites(L)
        BY <1>1 DEF Sites
      <4>4. \A q \in 0 .. L - 1 : WentBy(q)'
        BY <1>1, <4>2 DEF WentBy, Below
      <4> QED BY <1>1, <4>1, <4>2, <4>3, <4>4 DEF AdmittedInv
    <3>2. CASE phase' # "admitted"
      BY <2>1, <3>2 DEF AdmittedInv
    <3> QED BY <3>1, <3>2
  <2> QED BY <1>2, <2>2, <2>3, <2>4 DEF IInv
<1>4. CASE Start
  <2>1. /\ phase = "admitted" /\ phase' = "run" /\ pc' = 0
        /\ regs' = [regs EXCEPT ![FramePointer] = Leftover]
    BY <1>4 DEF Start
  <2>2. known = {} /\ \A c \in 0 .. 1 : cells[c] = "null"
    BY <2>1 DEF IInv, FreshInv
  <2>3. /\ DOMAIN regs = Location /\ FramePointer \in Location /\ Reg \subseteq Location
        /\ \A r \in Reg : r # FramePointer
    BY DEF IInv, RegsInv, Location, FramePointer, Reg
  <2>4. regs'[FramePointer] = Leftover /\ DOMAIN regs' = Location
        /\ \A l \in Location : l # FramePointer => regs'[l] = regs[l]
    BY <2>1, <2>3
  <2>5. RegsInv'
    BY <1>1, <2>2, <2>3, <2>4 DEF IInv, RegsInv, IsValue
  <2>6. CellsInv'
    <3>1. Leftover # Handle(0) /\ Leftover # Handle(1)
      BY DEF Leftover, Handle
    <3> QED BY <1>1, <2>3, <2>4, <3>1 DEF IInv, CellsInv
  <2>7. PassInv' /\ FreshInv'
    BY <2>1 DEF PassInv, FreshInv
  <2>8. AdmittedInv'
    <3>1. Sites(L)' = Sites(L)
      BY <1>1 DEF Sites
    <3>2. \A q \in 0 .. L - 1 : WentBy(q)'
      BY <1>1, <2>1 DEF WentBy, Below, IInv, AdmittedInv
    <3> QED BY <1>1, <2>1, <3>1, <3>2 DEF IInv, AdmittedInv
  <2>9. RunInv'
    <3>1. Covered(flow[0], regs', known')
      <4>1. Below(AtEntry, flow[0])
        BY DEF IInv, ProgInv
      <4>2. "UNINIT" \in flow[0].spill /\ \A r \in Reg : "UNINIT" \in flow[0].reg[r]
        BY <4>1 DEF Below, AtEntry
      <4> QED BY <4>2 DEF Covered, Covers, defined
    <3>2. Acquired' = 0
      <4>1. {i \in 0 .. 1 : cells'[i] # "null"} = {}
        BY <1>1, <2>2
      <4> QED BY <4>1, FS_EmptySet DEF Acquired
    <3>3. Sites(pc)' = Sites(pc') /\ Cardinality(Sites(pc')) \in Nat
      BY <1>1, <2>1, SiteFacts DEF Sites
    <3> QED BY <1>1, <2>1, <3>1, <3>2, <3>3 DEF RunInv
  <2> QED BY <1>2, <2>5, <2>6, <2>7, <2>8, <2>9 DEF IInv
<1> QED
  BY <1>3, <1>4

-----------------------------------------------------------------------------
(* The run.                                                                   *)

\* Facts that allow more cover what the others covered.
LEMMA BelowCovers ==
    ASSUME NEW s, NEW t, NEW g, NEW k, Below(s, t), Covered(s, g, k)
    PROVE  Covered(t, g, k)
<1>1. ASSUME NEW a, NEW b, NEW v, a \subseteq b, Covers(a, v)
      PROVE  Covers(b, v) /\ (defined(b) => defined(a))
  BY <1>1 DEF Covers, defined
<1>2. ASSUME NEW r \in Reg
      PROVE  Covers(t.reg[r], g[r]) /\ (defined(t.reg[r]) => r \in k)
  BY <1>1 DEF Below, Covered
<1>3. Covers(t.spill, g[FramePointer]) /\ (defined(t.spill) => FramePointer \in k)
  BY <1>1 DEF Below, Covered
<1> QED
  BY <1>2, <1>3 DEF Covered

\* Where a run is.
LEMMA RunFacts ==
    ASSUME IInv, phase = "run"
    PROVE  /\ pc \in 0 .. L - 1 /\ pc \in Nat /\ L \in 1 .. 64 /\ pc + 1 \in 0 .. L
           /\ prog[pc] \in Insn /\ flow[pc] \in Facts /\ DOMAIN prog = 0 .. L - 1
           /\ WentBy(pc) /\ Covered(flow[pc], regs, known)
           /\ \E count \in Nat : Admissible(prog[pc], flow[pc], pc, L, count)
           /\ DOMAIN regs = Location /\ Reg \subseteq Location
           /\ FramePointer \in Location /\ FramePointer \notin Reg
<1>1. pc \in 0 .. L - 1 /\ L \in 1 .. 64 /\ WentBy(pc)
      /\ Covered(flow[pc], regs, known) /\ DOMAIN regs = Location
      /\ prog \in [0 .. L - 1 -> Insn] /\ ProgInv
  BY DEF IInv, RunInv, ProgInv, AdmittedInv, RegsInv
<1>2. pc \in Nat /\ pc + 1 \in 0 .. L /\ DOMAIN prog = 0 .. L - 1
  BY <1>1
<1>3. prog[pc] \in Insn /\ flow[pc] \in Facts
  BY <1>1, PassedFacts
<1>4. Reg \subseteq Location /\ FramePointer \in Location /\ FramePointer \notin Reg
  BY DEF Location, FramePointer, Reg
<1> QED
  BY <1>1, <1>2, <1>3, <1>4 DEF WentBy

\* How many cells were given out.
LEMMA AcquiredFacts ==
    ASSUME NEW c \in [0 .. 1 -> {"null", "live", "ended"}]
    PROVE  LET n == Cardinality({ i \in 0 .. 1 : c[i] # "null" })
           IN  n = IF c[0] = "null" THEN IF c[1] = "null" THEN 0 ELSE 1
                   ELSE IF c[1] = "null" THEN 1 ELSE 2
<1> DEFINE S == { i \in 0 .. 1 : c[i] # "null" }
<1>1. 0 .. 1 = {0, 1}
  OBVIOUS
<1>2. Cardinality({}) = 0 /\ Cardinality({0}) = 1 /\ Cardinality({1}) = 1
  BY FS_EmptySet, FS_Singleton
<1>3. Cardinality({0, 1}) = 2
  <2>1. IsFiniteSet({0})
    BY FS_Singleton
  <2>2. 1 \notin {0} /\ {0, 1} = {0} \cup {1}
    OBVIOUS
  <2> QED BY <1>2, <2>1, <2>2, FS_AddElement
<1>4. S = IF c[0] = "null" THEN IF c[1] = "null" THEN {} ELSE {1}
          ELSE IF c[1] = "null" THEN {0} ELSE {0, 1}
  BY <1>1
<1> HIDE DEF S
<1>5. Cardinality(S) = IF c[0] = "null" THEN IF c[1] = "null" THEN 0 ELSE 1
                       ELSE IF c[1] = "null" THEN 1 ELSE 2
  BY <1>2, <1>3, <1>4
<1> QED
  BY <1>5 DEF S

\* A step of the run along an edge of the pass.
LEMMA EdgeKeeps ==
    ASSUME IInv, phase = "run", phase' = "run", UNCHANGED <<prog, passVars, result>>,
           NEW s, Covered(s, regs', known'), pc' \in pc + 1 .. L, Below(s, flow[pc']),
           RegsInv', CellsInv', Acquired' <= Cardinality(Sites(pc'))
    PROVE  IInv'
<1>1. UNCHANGED <<prog, flow>> /\ L' = L /\ L \in 1 .. 64 /\ pc \in 0 .. L - 1
  BY RunFacts DEF passVars, L, Length
<1>2. ProgInv'
  BY <1>1 DEF IInv, ProgInv, Below, AtEntry
<1>3. PassInv' /\ FreshInv'
  BY DEF PassInv, FreshInv
<1>4. AdmittedInv'
  <2>1. Sites(L)' = Sites(L)
    BY <1>1 DEF Sites
  <2>2. \A q \in 0 .. L - 1 : WentBy(q)'
    BY <1>1 DEF WentBy, Below, IInv, AdmittedInv
  <2> QED BY <1>1, <2>1, <2>2 DEF IInv, AdmittedInv
<1>5. pc' \in 0 .. L - 1
  <2>1. flow[pc'].reached /\ ~flow[L].reached
    BY DEF Below, IInv, AdmittedInv
  <2> QED BY <1>1, <2>1
<1>6. Covered(flow[pc'], regs', known')
  BY BelowCovers
<1>7. Sites(pc)' = Sites(pc')
  BY <1>1 DEF Sites
<1>8. RunInv'
  <2>1. flow'[pc'] = flow[pc']
    BY <1>1
  <2> QED BY <1>1, <1>5, <1>6, <1>7, <2>1 DEF RunInv, Covered
<1> QED
  BY <1>2, <1>3, <1>4, <1>8 DEF IInv

\* The calls passed so far bound the cells at every later index.
LEMMA AcquiredStays ==
    ASSUME IInv, phase = "run", cells' = cells, pc' \in pc + 1 .. L
    PROVE  Acquired' <= Cardinality(Sites(pc'))
<1>1. pc \in Nat /\ pc' \in Nat /\ pc <= pc'
  BY RunFacts
<1>2. Cardinality(Sites(pc)) <= Cardinality(Sites(pc'))
      /\ Cardinality(Sites(pc)) \in Nat /\ Cardinality(Sites(pc')) \in Nat
  BY <1>1, SitesGrow, SiteFacts
<1>3. Acquired' = Acquired /\ Acquired \in Nat /\ Acquired <= Cardinality(Sites(pc))
  <2>1. Acquired = IF cells[0] = "null" THEN IF cells[1] = "null" THEN 0 ELSE 1
                   ELSE IF cells[1] = "null" THEN 1 ELSE 2
    BY AcquiredFacts DEF Acquired, IInv, CellsInv
  <2> QED BY <2>1 DEF Acquired, IInv, RunInv
<1> QED
  BY <1>2, <1>3

\* What a register holds may be put anywhere.
Good(v) ==
    IsValue(v) /\ v # Leftover /\ \A c \in 0 .. 1 : v = Handle(c) => cells[c] # "null"

\* An instruction that writes one location.
LEMMA PutKeeps ==
    ASSUME IInv, phase = "run", NEW l \in Location, NEW v, Put(l, v), Good(v),
           FallsThrough(prog[pc], flow[pc]),
           Covered(After(prog[pc], flow[pc]), regs', known')
    PROVE  IInv'
<1>1. /\ regs' = [regs EXCEPT ![l] = v] /\ known' = known \cup {l} /\ pc' = pc + 1
      /\ UNCHANGED <<prog, phase, passVars, cells, result>>
  BY DEF Put
<1>2. regs'[l] = v /\ DOMAIN regs' = Location
      /\ \A k \in Location : k # l => regs'[k] = regs[k]
  BY <1>1, RunFacts
<1>3. RegsInv'
  BY <1>1, <1>2, RunFacts DEF IInv, RegsInv, Good, IsValue
<1>4. CellsInv'
  BY <1>1, <1>2 DEF IInv, CellsInv, Good
<1>5. pc' \in pc + 1 .. L /\ Below(After(prog[pc], flow[pc]), flow[pc'])
  BY <1>1, RunFacts DEF WentBy
<1>6. Acquired' <= Cardinality(Sites(pc'))
  BY <1>1, <1>5, AcquiredStays
<1> QED
  BY <1>1, <1>3, <1>4, <1>5, <1>6, EdgeKeeps

\* A location of the program's may be copied.
LEMMA GoodCopies ==
    ASSUME IInv, NEW l \in Location, l = FramePointer => FramePointer \in known
    PROVE  Good(regs[l])
<1>1. IsValue(regs[l]) /\ \A c \in 0 .. 1 : regs[l] = Handle(c) => cells[c] # "null"
  BY DEF IInv, RegsInv, CellsInv
<1>2. regs[l] # Leftover
  BY DEF IInv, RegsInv, Location
<1> QED
  BY <1>1, <1>2 DEF Good

\* A number names nothing.
LEMMA GoodWord == ASSUME NEW n PROVE Good(Word(n)) /\ Word(n) = Word(Word(n).n)
BY DEF Good, IsValue, Word, Leftover, Handle

\* Facts of the register that is written, and the others' as they were.
LEMMA PutCovered ==
    ASSUME IInv, phase = "run", NEW d \in Reg, NEW v, NEW kind \in SUBSET Kind,
           Covers(kind, v)
    PROVE  Covered([flow[pc] EXCEPT !.reg[d] = kind],
                   [regs EXCEPT ![d] = v], known \cup {d})
<1> DEFINE s == flow[pc]
           t == [s EXCEPT !.reg[d] = kind]
           g == [regs EXCEPT ![d] = v]
<1>1. s \in Facts /\ Covered(s, regs, known)
  BY RunFacts
<1> HIDE DEF s
<1>2. t.spill = s.spill /\ \A r \in Reg : t.reg[r] = IF r = d THEN kind ELSE s.reg[r]
  <2>1. t.spill = s.spill
    BY <1>1, PutFacts
  <2>2. \A r \in Reg : t.reg[r] = IF r = d THEN kind ELSE s.reg[r]
    BY <1>1, PutFacts
  <2> QED BY <2>1, <2>2
<1>3. g[d] = v /\ g[FramePointer] = regs[FramePointer]
      /\ \A r \in Reg : r # d => g[r] = regs[r]
  BY RunFacts
<1> HIDE DEF t, g
<1>4. Covered(t, g, known \cup {d})
  <2>1. ASSUME NEW r \in Reg
        PROVE  Covers(t.reg[r], g[r]) /\ (defined(t.reg[r]) => r \in known \cup {d})
    <3>1. CASE r = d
      BY <1>2, <1>3, <3>1
    <3>2. CASE r # d
      BY <1>1, <1>2, <1>3, <3>2 DEF Covered
    <3> QED BY <3>1, <3>2
  <2>2. Covers(t.spill, g[FramePointer])
        /\ (defined(t.spill) => FramePointer \in known \cup {d})
    BY <1>1, <1>2, <1>3 DEF Covered
  <2> QED BY <2>1, <2>2 DEF Covered
<1> QED
  BY <1>4 DEF s, t, g

\* The same when the register keeps its value, of which more is known.
LEMMA KeptCovered ==
    ASSUME IInv, phase = "run", NEW d \in Reg, NEW kind \in SUBSET Kind,
           Covers(kind, regs[d]), d \in known
    PROVE  Covered([flow[pc] EXCEPT !.reg[d] = kind], regs, known)
<1> DEFINE s == flow[pc]
           t == [s EXCEPT !.reg[d] = kind]
<1>1. s \in Facts /\ Covered(s, regs, known)
  BY RunFacts
<1> HIDE DEF s
<1>2. t.spill = s.spill /\ \A r \in Reg : t.reg[r] = IF r = d THEN kind ELSE s.reg[r]
  <2>1. t.spill = s.spill
    BY <1>1, PutFacts
  <2>2. \A r \in Reg : t.reg[r] = IF r = d THEN kind ELSE s.reg[r]
    BY <1>1, PutFacts
  <2> QED BY <2>1, <2>2
<1> HIDE DEF t
<1>3. Covered(t, regs, known)
  BY <1>1, <1>2 DEF Covered
<1> QED
  BY <1>3 DEF s, t

\* The four instructions that copy.
LEMMA CopyKeeps ==
    ASSUME IInv, MovX \/ MovK \/ Stx \/ Ldx
    PROVE  IInv'
<1> DEFINE i == prog[pc]
           s == flow[pc]
<1>1. phase = "run" /\ i.op \in {"MOV_X", "MOV_K", "STX", "LDX"}
  BY DEF MovX, MovK, Stx, Ldx, At
<1>2. PICK count \in Nat : Admissible(i, s, pc, L, count)
  BY <1>1, RunFacts
<1>3. FallsThrough(i, s)
  BY <1>1 DEF FallsThrough
<1>4. /\ s \in Facts /\ Covered(s, regs, known) /\ Reg \subseteq Location
      /\ FramePointer \in Location /\ FramePointer \notin Reg
      /\ DOMAIN regs = Location
  BY <1>1, RunFacts
<1> HIDE DEF i, s
<1>5. CASE MovX
  <2>1. i.op = "MOV_X" /\ Put(i.dst, regs[i.src])
    BY <1>5 DEF MovX, At, i
  <2>2. i.dst \in Reg /\ i.src \in Reg /\ s.reg[i.src] \in SUBSET Kind
    BY <1>2, <1>4, <2>1, AdmissibleFacts DEF Facts
  <2>3. Covers(s.reg[i.src], regs[i.src]) /\ Good(regs[i.src])
    BY <1>4, <2>2, GoodCopies DEF Covered
  <2>4. Covered([s EXCEPT !.reg[i.dst] = s.reg[i.src]],
                [regs EXCEPT ![i.dst] = regs[i.src]], known \cup {i.dst})
    BY <1>1, <2>2, <2>3, PutCovered DEF s
  <2>5. Covered(After(i, s), regs', known')
    BY <2>1, <2>4, AfterCases DEF Put
  <2> QED BY <1>1, <1>3, <1>4, <2>1, <2>2, <2>3, <2>5, PutKeeps DEF i, s
<1>6. CASE MovK
  <2> DEFINE kind == IF i.imm = 0 THEN {"ZERO"} ELSE {"SCALAR"}
  <2>1. i.op = "MOV_K" /\ Put(i.dst, Word(i.imm))
    BY <1>6 DEF MovK, At, i
  <2>2. i.dst \in Reg /\ kind \in SUBSET Kind /\ Covers(kind, Word(i.imm))
    BY <1>2, <2>1, AdmissibleFacts DEF Kind, Covers, Word
  <2>3. After(i, s) = [s EXCEPT !.reg[i.dst] = kind]
    BY <2>1, AfterCases
  <2> HIDE DEF kind
  <2>4. Covered([s EXCEPT !.reg[i.dst] = kind],
                [regs EXCEPT ![i.dst] = Word(i.imm)], known \cup {i.dst})
    BY <1>1, <2>2, PutCovered DEF s
  <2>5. Covered(After(i, s), regs', known')
    BY <2>1, <2>3, <2>4 DEF Put
  <2>6. Good(Word(i.imm))
    BY GoodWord
  <2> QED BY <1>1, <1>3, <1>4, <2>1, <2>2, <2>5, <2>6, PutKeeps DEF i, s
<1>7. CASE Stx
  <2> DEFINE v == regs[i.src]
             t == [s EXCEPT !.spill = s.reg[i.src]]
  <2>1. i.op = "STX" /\ Put(FramePointer, v)
    BY <1>7 DEF Stx, At, i
  <2>2. i.src \in Reg
    BY <1>2, <2>1, AdmissibleFacts
  <2>3. Covers(s.reg[i.src], v) /\ Good(v)
    BY <1>4, <2>2, GoodCopies DEF Covered
  <2>4. After(i, s) = t /\ t.reg = s.reg /\ t.spill = s.reg[i.src]
    BY <1>4, <2>1, AfterCases DEF Facts
  <2>5. /\ regs' = [regs EXCEPT ![FramePointer] = v]
        /\ known' = known \cup {FramePointer}
    BY <2>1 DEF Put
  <2>6. regs'[FramePointer] = v /\ \A r \in Reg : regs'[r] = regs[r]
    BY <1>4, <2>5
  <2> HIDE DEF t, v
  <2>7. Covered(t, regs', known')
    BY <1>4, <2>3, <2>4, <2>5, <2>6 DEF Covered
  <2> QED BY <1>1, <1>3, <1>4, <2>1, <2>3, <2>4, <2>7, PutKeeps DEF i, s
<1>8. CASE Ldx
  <2>1. i.op = "LDX" /\ Put(i.dst, regs[FramePointer])
    BY <1>8 DEF Ldx, At, i
  <2>2. i.dst \in Reg /\ defined(s.spill) /\ s.spill \in SUBSET Kind
    BY <1>2, <1>4, <2>1, AdmissibleFacts DEF Facts
  <2>3. Covers(s.spill, regs[FramePointer]) /\ Good(regs[FramePointer])
    BY <1>4, <2>2, GoodCopies DEF Covered
  <2>4. Covered([s EXCEPT !.reg[i.dst] = s.spill],
                [regs EXCEPT ![i.dst] = regs[FramePointer]], known \cup {i.dst})
    BY <1>1, <2>2, <2>3, PutCovered DEF s
  <2>5. Covered(After(i, s), regs', known')
    BY <2>1, <2>4, AfterCases DEF Put
  <2> QED BY <1>1, <1>3, <1>4, <2>1, <2>2, <2>3, <2>5, PutKeeps DEF i, s
<1> QED
  BY <1>5, <1>6, <1>7, <1>8

\* The branch: zero is the taken edge's, a handle the other's.
LEMMA JeqKeeps ==
    ASSUME IInv, Jeq
    PROVE  IInv'
<1> DEFINE i == prog[pc]
           s == flow[pc]
           v == regs[i.dst]
<1>1. /\ phase = "run" /\ i.op = "JEQ"
      /\ pc' = IF v = Word(0) THEN Target(i, pc) ELSE pc + 1
      /\ UNCHANGED <<prog, phase, passVars, regs, known, cells, result>>
  BY DEF Jeq, At, runVars
<1>2. PICK count \in Nat : Admissible(i, s, pc, L, count)
  BY <1>1, RunFacts
<1>3. /\ s \in Facts /\ Covered(s, regs, known) /\ WentBy(pc) /\ ProgInv
      /\ pc \in 0 .. L - 1 /\ L \in 1 .. 64 /\ DOMAIN regs = Location /\ Reg \subseteq Location
  BY <1>1, RunFacts DEF IInv
<1>4. /\ i.dst \in Reg /\ s.reg[i.dst] \subseteq {"ZERO", "HANDLE"}
      /\ s.reg[i.dst] \in SUBSET Kind /\ Covers(s.reg[i.dst], v)
      /\ i.dst \in known
  BY <1>1, <1>2, <1>3, AdmissibleFacts DEF Facts, Covered
<1>5. \/ v = Word(0) /\ "ZERO" \in s.reg[i.dst]
      \/ v # Word(0) /\ v.kind = "handle" /\ "HANDLE" \in s.reg[i.dst]
  BY <1>4 DEF Covers, Word
<1>6. RegsInv' /\ CellsInv'
  BY <1>1 DEF IInv, RegsInv, CellsInv, IsValue
<1>7. regs' = regs /\ known' = known
  BY <1>1
<1>8. CASE v = Word(0)
  <2>1. Branches(i, s) /\ pc' = Target(i, pc)
    BY <1>1, <1>5, <1>8 DEF Branches
  <2>2. pc' \in pc + 1 .. L /\ Below(Taken(i, s), flow[pc'])
    BY <1>3, <2>1, PassedFacts DEF WentBy
  <2>3. Covers({"ZERO"}, v) /\ {"ZERO"} \in SUBSET Kind
    BY <1>8 DEF Covers, Kind
  <2>4. Covered([s EXCEPT !.reg[i.dst] = {"ZERO"}], regs', known')
    BY <1>1, <1>4, <1>7, <1>8, <2>3, KeptCovered
  <2>5. Acquired' <= Cardinality(Sites(pc'))
    BY <1>1, <2>2, AcquiredStays
  <2> QED BY <1>1, <1>6, <2>2, <2>4, <2>5, EdgeKeeps DEF Taken
<1>9. CASE v # Word(0)
  <2> DEFINE kind == s.reg[i.dst] \ {"ZERO"}
  <2>1. "HANDLE" \in kind /\ Covers(kind, v) /\ kind \in SUBSET Kind
    BY <1>4, <1>5, <1>9 DEF Covers
  <2>2. After(i, s) = [s EXCEPT !.reg[i.dst] = kind]
    BY <1>1, AfterCases
  <2> HIDE DEF kind
  <2>3. After(i, s).reg[i.dst] = kind
    <3> HIDE DEF i, s
    <3>1. \A r \in Reg : [s EXCEPT !.reg[i.dst] = kind].reg[r] =
                            IF r = i.dst THEN kind ELSE s.reg[r]
      <4>1. s \in Facts /\ i.dst \in Reg /\ kind \in SUBSET Kind
        BY <1>3, <1>4, <2>1
      <4> QED
        BY <4>1, PutFacts
    <3> QED BY <1>4, <2>2, <3>1
  <2>4. FallsThrough(i, s)
    BY <1>1, <2>1, <2>3 DEF FallsThrough
  <2>5. pc' \in pc + 1 .. L /\ Below(After(i, s), flow[pc'])
    BY <1>1, <1>3, <1>9, <2>4 DEF WentBy
  <2>6. Covered([s EXCEPT !.reg[i.dst] = kind], regs', known')
    BY <1>1, <1>4, <1>7, <2>1, KeptCovered
  <2>7. Acquired' <= Cardinality(Sites(pc'))
    BY <1>1, <2>5, AcquiredStays
  <2>8. Covered(After(i, s), regs', known')
    BY <2>2, <2>6
  <2> QED BY <1>1, <1>6, <2>5, <2>7, <2>8, EdgeKeeps
<1> QED
  BY <1>8, <1>9

-----------------------------------------------------------------------------
(* Calls.                                                                     *)

\* What a call site may count on.
LEMMA CallFacts ==
    ASSUME IInv, phase = "run", prog[pc].op = "CALL"
    PROVE  /\ Operation \in {AcquireOp, ReadOp, ReleaseOp}
           /\ Operation = AcquireOp => regs[1].kind = "word"
           /\ Operation \in {ReadOp, ReleaseOp} =>
                 \E c \in 0 .. 1 : regs[1] = Handle(c) /\ cells[c] # "null"
           /\ 1 \in known
           /\ FallsThrough(prog[pc], flow[pc])
<1> DEFINE s == flow[pc]
<1>1. PICK count \in Nat : Admissible(prog[pc], s, pc, L, count)
  BY RunFacts
<1>2. /\ Operation \in {AcquireOp, ReadOp, ReleaseOp}
      /\ Operation = AcquireOp => scalar(s.reg[1])
      /\ Operation \in {ReadOp, ReleaseOp} => s.reg[1] = {"HANDLE"}
  BY <1>1, AdmissibleFacts DEF Operation, HandleArgument
<1>3. /\ Covers(s.reg[1], regs[1]) /\ (defined(s.reg[1]) => 1 \in known)
      /\ IsValue(regs[1]) /\ 1 \in Location
      /\ \A c \in 0 .. 1 : regs[1] = Handle(c) => cells[c] # "null"
  <2>1. 1 \in Reg /\ 1 \in Location
    BY DEF Reg, Location
  <2> QED BY <2>1, RunFacts DEF Covered, IInv, RegsInv, CellsInv
<1> HIDE DEF s
<1>4. Operation = AcquireOp => regs[1].kind = "word"
  BY <1>2, <1>3 DEF scalar, Covers, Word
<1>5. ASSUME Operation \in {ReadOp, ReleaseOp}
      PROVE  \E c \in 0 .. 1 : regs[1] = Handle(c) /\ cells[c] # "null"
  <2>1. regs[1].kind = "handle"
    BY <1>2, <1>3, <1>5 DEF Covers
  <2>2. regs[1] \in {Handle(0), Handle(1)}
    BY <1>3, <2>1 DEF IsValue, Word, Leftover
  <2> QED BY <1>3, <2>2
<1>6. 1 \in known
  BY <1>2, <1>3 DEF scalar, defined
<1>7. FallsThrough(prog[pc], flow[pc])
  BY DEF FallsThrough
<1> QED
  BY <1>2, <1>4, <1>5, <1>6, <1>7

\* What a call leaves: the result, no arguments, and the registers kept.
LEMMA ReturnKeeps ==
    ASSUME IInv, phase = "run", prog[pc].op = "CALL", NEW v, Return(v),
           IsValue(v), v # Leftover, Covers(CallResult(Operation), v),
           cells' \in [0 .. 1 -> {"null", "live", "ended"}],
           cells'[0] = "null" => cells'[1] = "null",
           \A c \in 0 .. 1 : /\ cells[c] # "null" => cells'[c] # "null"
                             /\ v = Handle(c) => cells'[c] # "null",
           Acquired' <= Cardinality(Sites(pc + 1))
    PROVE  IInv'
<1> DEFINE i == prog[pc]
           s == flow[pc]
<1>1. /\ regs' = [l \in Location |-> IF l \in {0, 1} THEN v
                                    ELSE IF l \in 2 .. 5 THEN Word(0) ELSE regs[l]]
      /\ known' = (known \ (1 .. 5)) \cup {0} /\ pc' = pc + 1
      /\ UNCHANGED <<prog, phase, passVars, result>>
  BY DEF Return
<1>2. /\ s \in Facts /\ Covered(s, regs, known) /\ WentBy(pc)
      /\ pc' \in pc + 1 .. L /\ FallsThrough(i, s)
  BY <1>1, RunFacts, CallFacts
<1>3. /\ After(i, s).spill = s.spill
      /\ \A r \in Reg : After(i, s).reg[r] =
            IF r = 0 THEN CallResult(Operation)
            ELSE IF r \in 1 .. 5 THEN {"UNINIT"} ELSE s.reg[r]
  BY <1>2, AfterCases, AfterCallFacts DEF Operation
<1>4. Below(After(i, s), flow[pc'])
  BY <1>1, <1>2 DEF WentBy
<1> HIDE DEF i, s
<1>5. Reg \subseteq Location /\ FramePointer \in Location /\ FramePointer \notin Reg
      /\ FramePointer \notin 0 .. 5
  BY DEF Reg, Location, FramePointer
<1>6. Covered(After(i, s), regs', known')
  <2>1. ASSUME NEW r \in Reg
        PROVE  /\ Covers(After(i, s).reg[r], regs'[r])
               /\ defined(After(i, s).reg[r]) => r \in known'
    <3>1. CASE r = 0
      BY <1>1, <1>3, <1>5, <3>1
    <3>2. CASE r \in 1 .. 5
      BY <1>3, <3>2 DEF Covers, defined
    <3>3. CASE r \notin 0 .. 5
      <4>1. regs'[r] = regs[r] /\ After(i, s).reg[r] = s.reg[r]
            /\ (r \in known => r \in known')
        BY <1>1, <1>3, <1>5, <3>3
      <4> QED BY <1>2, <4>1 DEF Covered
    <3> QED BY <3>1, <3>2, <3>3 DEF Reg
  <2>2. /\ Covers(After(i, s).spill, regs'[FramePointer])
        /\ defined(After(i, s).spill) => FramePointer \in known'
    <3>1. regs'[FramePointer] = regs[FramePointer]
          /\ (FramePointer \in known => FramePointer \in known')
      BY <1>1, <1>5
    <3> QED BY <1>2, <1>3, <3>1 DEF Covered
  <2> QED BY <2>1, <2>2 DEF Covered
<1>7. /\ DOMAIN regs' = Location
      /\ \A l \in Location : regs'[l] \in {v, Word(0), regs[l]}
      /\ regs'[FramePointer] = regs[FramePointer]
  BY <1>1, <1>5
<1>8. Word(0) # Leftover /\ IsValue(Word(0)) /\ \A c : Word(0) # Handle(c)
  BY DEF Word, Leftover, IsValue, Handle
<1>9. RegsInv'
  <2>1. \A l \in Location : IsValue(regs[l])
    BY DEF IInv, RegsInv
  <2>2. \A l \in Location : IsValue(regs'[l])
    BY <1>7, <1>8, <2>1
  <2>3. \A r \in Reg : regs'[r] # Leftover
    BY <1>5, <1>7, <1>8 DEF IInv, RegsInv
  <2>4. FramePointer \in known' => regs'[FramePointer] # Leftover
    BY <1>1, <1>5, <1>7 DEF IInv, RegsInv
  <2>5. result' = Word(result'.n)
    BY <1>1 DEF IInv, RegsInv
  <2> QED BY <1>7, <2>2, <2>3, <2>4, <2>5 DEF RegsInv, IsValue
<1>10. CellsInv'
  <2>1. ASSUME NEW l \in Location, NEW c \in 0 .. 1, regs'[l] = Handle(c)
        PROVE  cells'[c] # "null"
    <3>1. CASE regs'[l] = v
      BY <2>1, <3>1
    <3>2. CASE regs'[l] = Word(0)
      BY <1>8, <2>1, <3>2
    <3>3. CASE regs'[l] = regs[l]
      <4>1. cells[c] # "null"
        BY <2>1, <3>3 DEF IInv, CellsInv
      <4> QED BY <4>1
    <3> QED BY <1>7, <3>1, <3>2, <3>3
  <2>2. \A l \in Location, c \in 0 .. 1 : regs'[l] = Handle(c) => cells'[c] # "null"
    BY <2>1
  <2> QED BY <2>2 DEF CellsInv, Handle
<1>11. Acquired' <= Cardinality(Sites(pc'))
  BY <1>1
<1> QED
  BY <1>1, <1>2, <1>4, <1>6, <1>9, <1>10, <1>11, EdgeKeeps

\* The calls that make no acquisition and end none.
LEMMA ReadKeeps ==
    ASSUME IInv, AcquireNull \/ Read
    PROVE  IInv'
<1>1. phase = "run" /\ prog[pc].op = "CALL" /\ cells' = cells
  BY DEF AcquireNull, Read, At
<1>2. PICK v : /\ Return(v) /\ v = Word(v.n) /\ Covers(CallResult(Operation), v)
  <2>1. CASE AcquireNull
    <3>1. Return(Word(0)) /\ Operation = AcquireOp
      BY <2>1 DEF AcquireNull
    <3>2. Covers(CallResult(Operation), Word(0))
      BY <3>1 DEF Covers, CallResult
    <3> QED BY <3>1, <3>2, GoodWord
  <2>2. CASE Read
    <3>1. Return(Word(FieldValue)) /\ Operation = ReadOp
      BY <2>2 DEF Read
    <3>2. Covers(CallResult(Operation), Word(FieldValue))
      BY <3>1 DEF Covers, CallResult, ReadOp, AcquireOp, Word
    <3> QED BY <3>1, <3>2, GoodWord
  <2> QED BY <2>1, <2>2
<1>3. IsValue(v) /\ v # Leftover /\ \A c : v # Handle(c)
  BY <1>2 DEF IsValue, Word, Leftover, Handle
<1>4. Acquired' <= Cardinality(Sites(pc + 1))
  <2>1. pc' = pc + 1 /\ pc' \in pc + 1 .. L
    BY <1>1, <1>2, RunFacts DEF Return
  <2> QED BY <1>1, <2>1, AcquiredStays
<1>5. /\ cells' \in [0 .. 1 -> {"null", "live", "ended"}]
      /\ cells'[0] = "null" => cells'[1] = "null"
  BY <1>1 DEF IInv, CellsInv
<1> QED
  BY <1>1, <1>2, <1>3, <1>4, <1>5, ReturnKeeps

\* An acquisition, of which there are no more than call sites passed.
LEMMA AcquireKeeps ==
    ASSUME IInv, Acquire
    PROVE  IInv'
<1> DEFINE k == Acquired
<1>1. /\ phase = "run" /\ prog[pc].op = "CALL" /\ Operation = AcquireOp
      /\ k < 2 /\ cells' = [cells EXCEPT ![k] = "live"] /\ Return(Handle(k))
  BY DEF Acquire, At
<1>2. cells \in [0 .. 1 -> {"null", "live", "ended"}]
      /\ (cells[0] = "null" => cells[1] = "null")
  BY DEF IInv, CellsInv
<1>3. k = IF cells[0] = "null" THEN IF cells[1] = "null" THEN 0 ELSE 1
          ELSE IF cells[1] = "null" THEN 1 ELSE 2
  BY <1>2, AcquiredFacts DEF Acquired
<1>4. k \in 0 .. 1 /\ k <= Cardinality(Sites(pc)) /\ k + 1 \in Nat
  BY <1>1, <1>2, <1>3 DEF IInv, RunInv
<1> HIDE DEF k
<1>5. /\ cells' \in [0 .. 1 -> {"null", "live", "ended"}]
      /\ cells'[k] # "null" /\ \A c \in 0 .. 1 : cells[c] # "null" => cells'[c] # "null"
      /\ cells'[0] = "null" => cells'[1] = "null"
  BY <1>1, <1>2, <1>3, <1>4
<1>6. Acquired' = k + 1
  <2>1. Acquired' = IF cells'[0] = "null" THEN IF cells'[1] = "null" THEN 0 ELSE 1
                    ELSE IF cells'[1] = "null" THEN 1 ELSE 2
    BY <1>5, AcquiredFacts DEF Acquired
  <2> QED BY <1>1, <1>2, <1>3, <1>4, <2>1
<1>7. Acquired' <= Cardinality(Sites(pc + 1))
  <2>1. Cardinality(Sites(pc + 1)) = Cardinality(Sites(pc)) + 1
        /\ Cardinality(Sites(pc)) \in Nat
    BY <1>1, RunFacts, SiteFacts DEF Operation
  <2> QED BY <1>4, <1>6, <2>1
<1>8. /\ IsValue(Handle(k)) /\ Handle(k) # Leftover
      /\ Covers(CallResult(Operation), Handle(k))
      /\ \A c \in 0 .. 1 : Handle(k) = Handle(c) => c = k
  <2>1. k = 0 \/ k = 1
    BY <1>4
  <2> QED BY <1>1, <2>1 DEF IsValue, Handle, Leftover, Covers, CallResult
<1> QED
  BY <1>1, <1>5, <1>7, <1>8, ReturnKeeps

\* A release ends the cell it names.
LEMMA ReleaseKeeps ==
    ASSUME IInv, Release
    PROVE  IInv'
<1>1. /\ phase = "run" /\ prog[pc].op = "CALL" /\ Operation = ReleaseOp
      /\ Return(Word(0))
  BY DEF Release, At
<1>2. PICK k \in 0 .. 1 : cells[k] = "live" /\ cells' = [cells EXCEPT ![k] = "ended"]
  BY DEF Release, Usable
<1>3. cells \in [0 .. 1 -> {"null", "live", "ended"}]
      /\ (cells[0] = "null" => cells[1] = "null")
  BY DEF IInv, CellsInv
<1>4. /\ cells' \in [0 .. 1 -> {"null", "live", "ended"}]
      /\ \A c \in 0 .. 1 : cells'[c] = "null" <=> cells[c] = "null"
  BY <1>2, <1>3
<1>5. Acquired' = Acquired
  <2>1. { c \in 0 .. 1 : cells'[c] # "null" } = { c \in 0 .. 1 : cells[c] # "null" }
    BY <1>4
  <2> QED BY <2>1 DEF Acquired
<1>6. Acquired' <= Cardinality(Sites(pc + 1))
  <2>1. Acquired \in Nat /\ Acquired <= Cardinality(Sites(pc))
    <3>1. Acquired = IF cells[0] = "null" THEN IF cells[1] = "null" THEN 0 ELSE 1
                     ELSE IF cells[1] = "null" THEN 1 ELSE 2
      BY <1>3, AcquiredFacts DEF Acquired
    <3> QED BY <1>1, <3>1 DEF IInv, RunInv
  <2>2. /\ Cardinality(Sites(pc)) <= Cardinality(Sites(pc + 1))
        /\ Cardinality(Sites(pc)) \in Nat /\ Cardinality(Sites(pc + 1)) \in Nat
    <3>1. pc \in Nat /\ pc + 1 \in Nat /\ pc <= pc + 1
      BY <1>1, RunFacts
    <3> QED BY <3>1, SitesGrow, SiteFacts
  <2> QED BY <1>5, <2>1, <2>2
<1>7. /\ IsValue(Word(0)) /\ Word(0) # Leftover /\ \A c : Word(0) # Handle(c)
      /\ Covers(CallResult(Operation), Word(0))
  BY <1>1 DEF IsValue, Word, Leftover, Handle, Covers, CallResult,
              AcquireOp, ReadOp, ReleaseOp
<1>8. cells'[0] = "null" => cells'[1] = "null"
  BY <1>3, <1>4
<1> QED
  BY <1>1, <1>4, <1>6, <1>7, <1>8, ReturnKeeps

\* The ends of a run.
LEMMA EndsKeep ==
    ASSUME IInv, EntryRefused \/ GateFails \/ Exit
    PROVE  IInv'
<1>1. /\ phase' \in {"aborted", "returned"}
      /\ UNCHANGED <<prog, passVars, regs, known, cells>> /\ result' = Word(result'.n)
  <2>1. CASE EntryRefused \/ GateFails
    BY <2>1, GoodWord DEF EntryRefused, GateFails
  <2>2. CASE Exit
    <3>1. phase = "run" /\ prog[pc].op = "EXIT" /\ result' = regs[0]
      BY <2>2 DEF Exit, At
    <3>2. PICK count \in Nat : Admissible(prog[pc], flow[pc], pc, L, count)
      BY <3>1, RunFacts
    <3>3. scalar(flow[pc].reg[0]) /\ 0 \in Reg /\ 0 \in Location
      BY <3>1, <3>2, AdmissibleFacts DEF Reg, Location
    <3>4. Covers(flow[pc].reg[0], regs[0]) /\ IsValue(regs[0])
      BY <3>1, <3>3, RunFacts DEF Covered, IInv, RegsInv
    <3>5. regs[0].kind = "word"
      BY <3>3, <3>4 DEF scalar, Covers, Word
    <3>6. regs[0] = Word(regs[0].n)
      BY <3>4, <3>5 DEF IsValue, Handle, Leftover
    <3> QED BY <2>2, <3>1, <3>6 DEF Exit
  <2> QED BY <2>1, <2>2
<1>2. ProgInv'
  BY <1>1 DEF IInv, ProgInv, Below, AtEntry, L, Length, passVars
<1>3. PassInv' /\ AdmittedInv' /\ FreshInv' /\ RunInv'
  BY <1>1 DEF PassInv, AdmittedInv, FreshInv, RunInv
<1>4. RegsInv' /\ CellsInv'
  BY <1>1 DEF IInv, RegsInv, CellsInv, IsValue
<1> QED
  BY <1>2, <1>3, <1>4 DEF IInv

-----------------------------------------------------------------------------
(* The theorems.                                                              *)

\* A program has been loaded, and the pass begins.
LEMMA JitInit == Init => IInv
<1> SUFFICES ASSUME Init PROVE IInv
  OBVIOUS
<1>1. prog \in Programs /\ phase = "admit" /\ pc = 0 /\ acquisitions = 0
      /\ known = {} /\ result = Word(0) /\ L = Length(prog)
  BY DEF Init, L, Word
<1>2. L \in 1 .. 64 /\ prog \in [0 .. L - 1 -> Insn]
  BY <1>1, ProgramFacts
<1>3. AtEntry \in Facts /\ Nothing \in Facts
  BY DEF AtEntry, Nothing, Facts, Kind
<1>4. flow = [q \in 0 .. L |-> IF q = 0 THEN AtEntry ELSE Nothing]
  BY DEF Init, L
<1>5. ProgInv
  <2>1. Below(AtEntry, AtEntry)
    BY DEF Below, AtEntry
  <2>2. 0 \in 0 .. L
    BY <1>2
  <2>3. flow[0] = AtEntry
    BY <1>4, <2>2
  <2>4. flow \in [0 .. L -> Facts]
    BY <1>3, <1>4
  <2>5. Below(AtEntry, flow[0])
    BY <2>1, <2>3
  <2> QED BY <1>1, <1>2, <2>4, <2>5 DEF ProgInv
<1>6. PassInv
  <2>1. Sites(0) = {} /\ Cardinality({}) = 0
    BY FS_EmptySet DEF Sites
  <2>2. 0 \in 0 .. L /\ \A q \in 0 .. 0 - 1 : WentBy(q)
    BY <1>2
  <2>3. acquisitions = Cardinality(Sites(0)) /\ acquisitions <= 2
    BY <1>1, <2>1
  <2> QED BY <1>1, <2>2, <2>3 DEF PassInv
<1>7. RegsInv /\ CellsInv /\ FreshInv
  <2>1. regs = [l \in Location |-> Word(0)] /\ cells = [i \in 0 .. 1 |-> "null"]
    BY DEF Init, Word
  <2>2. IsValue(Word(0)) /\ Word(0) # Leftover /\ \A c : Word(0) # Handle(c)
        /\ Word(0) = Word(Word(0).n)
    BY DEF IsValue, Word, Leftover, Handle
  <2>3. Reg \subseteq Location
    BY DEF Location
  <2>4. DOMAIN regs = Location /\ \A l \in Location : regs[l] = Word(0)
    BY <2>1
  <2>5. RegsInv
    BY <1>1, <2>2, <2>3, <2>4 DEF RegsInv
  <2>6. CellsInv /\ FreshInv
    BY <1>1, <2>1, <2>2, <2>4 DEF CellsInv, FreshInv
  <2> QED BY <2>5, <2>6
<1>8. AdmittedInv /\ RunInv
  BY <1>1 DEF AdmittedInv, RunInv
<1> QED
  BY <1>5, <1>6, <1>7, <1>8 DEF IInv

\* No step breaks the invariant.
LEMMA JitStep == IInv /\ [Next]_vars => IInv'
<1> SUFFICES ASSUME IInv, [Next]_vars PROVE IInv'
  OBVIOUS
<1>1. CASE UNCHANGED vars
  <2>1. UNCHANGED <<prog, phase, pc, flow, acquisitions, regs, known, cells, result>>
    BY <1>1 DEF vars
  <2>2. ProgInv' /\ L' = L
    BY <2>1 DEF IInv, ProgInv, Below, AtEntry, L, Length
  <2>3. /\ Sites(pc)' = Sites(pc) /\ Sites(L)' = Sites(L) /\ Acquired' = Acquired
        /\ \A q \in Nat : WentBy(q)' <=> WentBy(q)
    BY <2>1, <2>2 DEF Sites, Acquired, WentBy, Below
  <2>4. PassInv' /\ AdmittedInv'
    BY <2>1, <2>2, <2>3 DEF IInv, PassInv, AdmittedInv, ProgInv
  <2>5. RegsInv' /\ CellsInv' /\ FreshInv'
    BY <2>1 DEF IInv, RegsInv, CellsInv, FreshInv, IsValue
  <2>6. RunInv'
    BY <2>1, <2>2, <2>3 DEF IInv, RunInv, Covered
  <2> QED BY <2>2, <2>4, <2>5, <2>6 DEF IInv
<1>2. CASE Pass
  BY <1>2, TurnKeeps, DecideKeeps DEF Pass
<1>3. CASE Run
  BY <1>3, DecideKeeps, CopyKeeps, JeqKeeps, ReadKeeps, AcquireKeeps, ReleaseKeeps,
     EndsKeep DEF Run
<1> QED
  BY <1>1, <1>2, <1>3 DEF Next

\* What the invariant says of a state: the facts cover the run,
LEMMA CoverHolds == IInv => FactsCoverRun
<1> SUFFICES ASSUME IInv, phase = "run"
             PROVE  /\ pc \in DOMAIN prog /\ flow[pc].reached
                    /\ Covered(flow[pc], regs, known)
  BY DEF FactsCoverRun, Covered
<1> QED BY RunFacts DEF WentBy

\* The pass's facts cover every run of every program it admits: one forward
\* pass is a fixed point (cbpf_jit.c:103).
THEOREM JitFactsCoverRun == Spec => []FactsCoverRun
BY CoverHolds, JitInit, JitStep, PTL DEF Spec

\* what is used was written, and
LEMMA UseHolds == IInv => NoUndefinedUse
<1> SUFFICES ASSUME IInv PROVE NoUndefinedUse
  OBVIOUS
<1>1. ASSUME phase = "run" PROVE Uses(prog[pc]) \subseteq known
  <2> DEFINE i == prog[pc]
             s == flow[pc]
  <2>1. PICK count \in Nat : Admissible(i, s, pc, L, count)
    BY <1>1, RunFacts
  <2>2. Covered(s, regs, known)
    BY <1>1, RunFacts
  <2>3. 0 \in Reg
    BY DEF Reg
  <2>4. CASE i.op \in {"MOV_X", "STX"}
    <3>1. Uses(i) = {i.src} /\ i.src \in Reg /\ defined(s.reg[i.src])
      BY <2>1, <2>4, AdmissibleFacts DEF Uses
    <3> QED BY <2>2, <3>1 DEF Covered
  <2>5. CASE i.op = "LDX"
    <3>1. Uses(i) = {FramePointer} /\ defined(s.spill)
      BY <2>1, <2>5, AdmissibleFacts DEF Uses
    <3> QED BY <2>2, <3>1 DEF Covered
  <2>6. CASE i.op = "JEQ"
    <3>1. Uses(i) = {i.dst} /\ i.dst \in Reg /\ defined(s.reg[i.dst])
      BY <2>1, <2>6, AdmissibleFacts DEF Uses
    <3> QED BY <2>2, <3>1 DEF Covered
  <2>7. CASE i.op = "CALL"
    <3>1. Uses(i) = {1} /\ 1 \in known
      BY <1>1, <2>7, CallFacts DEF Uses
    <3> QED BY <3>1
  <2>8. CASE i.op = "EXIT"
    <3>1. Uses(i) = {0} /\ scalar(s.reg[0])
      BY <2>1, <2>8, AdmissibleFacts DEF Uses
    <3> QED BY <2>2, <2>3, <3>1 DEF Covered, scalar, defined
  <2>9. CASE i.op = "MOV_K"
    BY <2>9 DEF Uses
  <2> QED BY <2>1, <2>4, <2>5, <2>6, <2>7, <2>8, <2>9, AdmissibleFacts
<1>2. \A r \in Reg : regs[r] # Leftover
  BY DEF IInv, RegsInv
<1> QED BY <1>1, <1>2 DEF NoUndefinedUse

\* No admitted program reads what it did not write, and nothing the stack held
\* gets into a register (cbpf_jit.c:123, 135, 141, 176).
THEOREM JitNoUndefinedUse == Spec => []NoUndefinedUse
BY UseHolds, JitInit, JitStep, PTL DEF Spec

\* the gates get what they want.
LEMMA ArgumentsHold == IInv => GateArguments
<1> SUFFICES ASSUME IInv PROVE GateArguments
  OBVIOUS
<1>1. ASSUME At("CALL")
      PROVE  /\ Operation = AcquireOp => regs[1].kind = "word" /\ Acquired < 2
             /\ Operation \in {ReadOp, ReleaseOp} =>
                   \E i \in 0 .. 1 : regs[1] = Handle(i) /\ cells[i] # "null"
             /\ Operation # 0
  <2>1. phase = "run" /\ prog[pc].op = "CALL"
    BY <1>1 DEF At
  <2>2. ASSUME Operation = AcquireOp PROVE Acquired < 2
    <3>1. /\ Acquired <= Cardinality(Sites(pc)) /\ Cardinality(Sites(L)) <= 2
          /\ pc \in 0 .. L - 1 /\ L \in 1 .. 64
      BY <2>1, RunFacts DEF IInv, RunInv, AdmittedInv
    <3>2. /\ Cardinality(Sites(pc + 1)) = Cardinality(Sites(pc)) + 1
          /\ Cardinality(Sites(pc)) \in Nat
      BY <2>2, <3>1, SiteFacts DEF Operation
    <3>3. Cardinality(Sites(pc + 1)) <= Cardinality(Sites(L))
          /\ Cardinality(Sites(L)) \in Nat
      <4>1. pc + 1 \in Nat /\ L \in Nat /\ pc + 1 <= L
        BY <3>1
      <4> QED BY <4>1, SitesGrow, SiteFacts
    <3>4. Acquired \in Nat
      <4>1. Acquired = IF cells[0] = "null" THEN IF cells[1] = "null" THEN 0 ELSE 1
                       ELSE IF cells[1] = "null" THEN 1 ELSE 2
        BY AcquiredFacts DEF Acquired, IInv, CellsInv
      <4> QED BY <4>1
    <3> QED BY <3>1, <3>2, <3>3, <3>4
  <2>3. Operation # 0
    BY <2>1, CallFacts DEF AcquireOp, ReadOp, ReleaseOp
  <2> QED BY <2>1, <2>2, <2>3, CallFacts
<1>2. result.kind = "word"
  BY DEF IInv, RegsInv, Word
<1> QED BY <1>1, <1>2 DEF GateArguments

\* Every gate gets the argument it wants, the third acquisition never happens,
\* and no address comes back (cbpf_jit.c:163, 168, 180).
THEOREM JitGateArguments == Spec => []GateArguments
BY ArgumentsHold, JitInit, JitStep, PTL DEF Spec

\* Facts behind the pass are final (cbpf_jit.c:103).
THEOREM JitSettled == Spec => Settled
<1>1. IInv /\ [Next]_vars =>
        [phase = "admit" => \A q \in 0 .. pc : flow'[q] = flow[q]]_vars
  <2> SUFFICES ASSUME IInv, Next, phase = "admit"
               PROVE  \A q \in 0 .. pc : flow'[q] = flow[q]
    OBVIOUS
  <2>1. CASE AdmitInsn
    BY <2>1, TurnFacts DEF IInv, PassInv
  <2>2. CASE RejectInsn \/ Decide
    BY <2>2 DEF RejectInsn, Decide, passVars
  <2>3. ~Run
    BY DEF Run, Start, EntryRefused, MovX, MovK, Stx, Ldx, Jeq, AcquireNull, Acquire,
           Read, Release, GateFails, Exit, At
  <2> QED BY <2>1, <2>2, <2>3 DEF Next, Pass
<1> QED
  BY <1>1, JitInit, JitStep, PTL DEF Spec, Settled

-----------------------------------------------------------------------------
(* Code generation.  The words, the layout and the image of CbpfJitImage.     *)

\* What the templates are made of.
Native == [name : {"fixed", "movz", "adr", "b", "cbz", "ret_clr", "break_fault"}, arg : Int]

\* A word that can be emitted: not a hole, and a branch within reach.
Sound(w) == w \in Native /\ w # Hole /\ Encodable(w)

\* The layouts that the passes work with.
Layouts == [offset : [0 .. MAX_INSNS -> Int], restricted_exit : Int,
            executive_exit : Int, executive_words : Int]

\* The build of a kernel.
Building == /\ MAX_WORDS \in Nat /\ REACH \in Nat
            /\ FRAME \in 13 .. 15 /\ SCRUB \in 46 .. 47

-----------------------------------------------------------------------------
(* The inductive invariant.                                                   *)
UnitOK == unit \in [insns : Units, attributes : Attributes, build : Builds]

HasCall == \E n \in 1 .. len : Insns[n].op = "CALL"

\* What is allocated and flagged at each place of the compiler.
MemoryInv ==
    /\ UnitOK
    /\ place \in {"load", "check_program", "admit", "generate", "done"}
    /\ place # "done" => published = FALSE
    /\ place = "load" => ~cbpf_gate
    /\ place \in {"check_program", "admit", "generate"} =>
          cbpf_gate /\ unit.attributes.jit_requested /\ HasCall
    /\ place \in {"admit", "generate"} => Eligible
    /\ NothingLeftBehind

\* Nothing is laid out before generate.
UnlaidInv ==
    place \in {"load", "check_program", "admit"} => layout = NoLayout /\ failed = FALSE

Op(q) == Insns[q + 1].op
Size(q) == IF Op(q) = "MOV_K" THEN 4 ELSE IF Op(q) = "CALL" THEN 5 ELSE 1

\* b has the places of the instructions up to the one at index n: each follows
\* the one before, and a branch from it to word 0 was within reach.
Laid(b, n) ==
    /\ b \in [0 .. MAX_INSNS -> Nat]
    /\ b[0] = FRAME + 43
    /\ \A q \in 0 .. n - 1 : b[q + 1] = b[q] + Size(q)
    /\ \A q, r \in 0 .. n : q < r => b[q] < b[r]
    /\ \A q \in 0 .. n - 1 : Op(q) \in {"JEQ", "EXIT"} => b[q] <= REACH

LaidAll == Laid(layout.offset, len)

\* The entry's branches to word 0 were within reach.
Entered == FRAME + 14 <= REACH /\ 3 < REACH

\* The places recorded so far and the next.
Known == [layout.offset EXCEPT ![insn] = index]
LaidKnown == Laid(Known, insn)

Total == layout.offset[len] + 1 + SCRUB

LaidOut ==
    /\ layout \in Layouts
    /\ LaidAll
    /\ layout.restricted_exit = layout.offset[len]
    /\ layout.executive_exit = layout.offset[len] + 1
    /\ layout.executive_words = SCRUB
    /\ Entered
    /\ Total <= MAX_WORDS

Sections == {"prologue", "body", "epilogue", "end"}

\* The layout pass, as long as it has refused nothing.
LayoutInv ==
    place = "generate" /\ pass = "layout" /\ ~failed =>
        /\ Linkable /\ section \in Sections
        /\ layout \in Layouts
        /\ section = "prologue" => layout = NoLayout /\ index = 0
        /\ section # "prologue" => Entered
        /\ section = "body" =>
              /\ insn \in 0 .. len /\ index \in Nat
              /\ LaidKnown
              /\ \A q \in insn .. MAX_INSNS : layout.offset[q] = 0
              /\ layout.restricted_exit = 0
        /\ section = "epilogue" =>
              LaidAll /\ index = layout.offset[len]
        /\ section = "end" => LaidOut /\ index = Total

\* The passes that have an image find every place where the first had it.
PlaceInv ==
    place = "generate" /\ pass # "layout" =>
        /\ pass \in {"write", "check"} /\ section \in Sections
        /\ failed = FALSE /\ Linkable /\ LaidOut
        /\ words = Total /\ DOMAIN image = 0 .. Total - 1
        /\ section = "prologue" => index = 0
        /\ section = "body" => insn \in 0 .. len /\ index = layout.offset[insn]
        /\ section = "epilogue" => index = layout.offset[len]
        /\ section = "end" => index = Total

\* The words of the image, by section.
Opening == Prologue(0, layout)
Words(q) == Body(q, layout.offset[q], layout)

Opened == \A n \in 1 .. FRAME + 43 : image[n - 1] = Opening[n]
Wrote(q) == \A n \in 1 .. Size(q) : image[layout.offset[q] + n - 1] = Words(q)[n]
Closed == \A n \in 1 .. 1 + SCRUB : image[layout.offset[len] + n - 1] = Epilogue[n]

\* What the writing pass has emitted is in the image, and no hole is left below
\* its index; the checking pass has all of it.
WordsInv ==
    place = "generate" /\ pass # "layout" =>
        /\ pass = "check" \/ section # "prologue" => Opened
        /\ \A q \in 0 .. len - 1 :
              \/ pass = "check" \/ section \in {"epilogue", "end"}
              \/ section = "body" /\ q < insn
              => Wrote(q)
        /\ pass = "check" \/ section = "end" => Closed
        /\ \A x \in 0 .. Total - 1 : pass = "check" \/ x < index => image[x] # Hole

\* A published image is complete.
PublishedInv ==
    published =>
        /\ Linkable /\ LaidOut /\ Eligible
        /\ DOMAIN image = 0 .. Total - 1
        /\ Opened /\ Closed /\ \A q \in 0 .. len - 1 : Wrote(q)
        /\ \A x \in 0 .. Total - 1 : image[x] # Hole

ImageInv == MemoryInv /\ UnlaidInv /\ LayoutInv /\ PlaceInv /\ WordsInv /\ PublishedInv

-----------------------------------------------------------------------------
\* A word that is no branch is as good as any other.
LEMMA PlainWord ==
    ASSUME NEW n \in Int
    PROVE  /\ Sound(A64("fixed", n)) /\ Sound(A64("movz", n)) /\ Sound(A64("ret_clr", n))
           /\ A64("fixed", n).name = "fixed"
BY DEF Sound, Native, A64, Hole, Encodable

\* A branch is sound if it is within reach.
LEMMA BranchWord ==
    ASSUME NEW name \in {"adr", "b", "cbz"}, NEW n \in Int
    PROVE  /\ A64(name, n) \in Native /\ A64(name, n) # Hole
           /\ Encodable(A64(name, n)) <=> (-REACH <= n /\ n < REACH)
BY DEF Native, A64, Hole, Encodable

\* n words of a template.
LEMMA FixedWords ==
    ASSUME NEW size \in Nat
    PROVE  /\ Fixed(size) \in Seq(Native) /\ Len(Fixed(size)) = size
           /\ \A n \in 1 .. size : Fixed(size)[n] = A64("fixed", n) /\ Sound(Fixed(size)[n])
<1>1. \A n \in 1 .. size : A64("fixed", n) \in Native /\ Sound(A64("fixed", n))
  BY PlainWord DEF Sound
<1>2. Fixed(size) \in Seq(Native)
  BY <1>1 DEF Fixed
<1>3. Len(Fixed(size)) = size
  BY DEF Fixed
<1>4. \A n \in 1 .. size : Fixed(size)[n] = A64("fixed", n)
  BY DEF Fixed
<1> QED
  BY <1>1, <1>2, <1>3, <1>4

\* The entry: three branches, of which two go to the executive exit, and the
\* size of the executive part; the rest is fixed.
LEMMA PrologueWords ==
    ASSUME Building, NEW x \in Int, NEW l \in Layouts
    PROVE  LET ws == Prologue(x, l)
           IN  /\ ws \in Seq(Native) /\ Len(ws) = FRAME + 43
               /\ ws[FRAME + 1] = A64("adr", l.executive_exit - (x + FRAME))
               /\ ws[FRAME + 2] = A64("movz", l.executive_words * 4)
               /\ ws[FRAME + 13] = A64("cbz", 3)
               /\ ws[FRAME + 15] = A64("b", l.executive_exit - (x + FRAME + 14))
               /\ \A n \in 1 .. FRAME + 43 :
                     n \notin {FRAME + 1, FRAME + 13, FRAME + 15} => Sound(ws[n])
<1> DEFINE adr == A64("adr", l.executive_exit - (x + FRAME))
           size == A64("movz", l.executive_words * 4)
           entered == A64("cbz", 3)
           out == A64("b", l.executive_exit - (x + FRAME + 14))
           s0 == Fixed(FRAME + 43)
           s1 == [s0 EXCEPT ![FRAME + 1] = adr]
           s2 == [s1 EXCEPT ![FRAME + 2] = size]
           s3 == [s2 EXCEPT ![FRAME + 13] = entered]
           s4 == [s3 EXCEPT ![FRAME + 15] = out]
<1>0. FRAME \in Nat /\ FRAME + 43 \in Nat
  BY DEF Building
<1>1. Prologue(x, l) = s4
  BY DEF Prologue
<1>2. l.executive_exit - (x + FRAME) \in Int /\ l.executive_words * 4 \in Int
      /\ l.executive_exit - (x + FRAME + 14) \in Int
  BY <1>0 DEF Layouts
<1>3. adr \in Native /\ size \in Native /\ entered \in Native /\ out \in Native /\ Sound(size)
  BY <1>2, PlainWord, BranchWord DEF Sound
<1>4. /\ s0 \in Seq(Native) /\ Len(s0) = FRAME + 43
      /\ \A n \in 1 .. FRAME + 43 : Sound(s0[n])
  BY <1>0, FixedWords
<1> HIDE DEF adr, size, entered, out, s0
<1>5. /\ s1 \in Seq(Native) /\ Len(s1) = FRAME + 43
      /\ \A n \in 1 .. FRAME + 43 : s1[n] = IF n = FRAME + 1 THEN adr ELSE s0[n]
  BY <1>0, <1>3, <1>4, ExceptSeq
<1> HIDE DEF s1
<1>6. /\ s2 \in Seq(Native) /\ Len(s2) = FRAME + 43
      /\ \A n \in 1 .. FRAME + 43 : s2[n] = IF n = FRAME + 2 THEN size ELSE s1[n]
  BY <1>0, <1>3, <1>5, ExceptSeq
<1> HIDE DEF s2
<1>7. /\ s3 \in Seq(Native) /\ Len(s3) = FRAME + 43
      /\ \A n \in 1 .. FRAME + 43 : s3[n] = IF n = FRAME + 13 THEN entered ELSE s2[n]
  BY <1>0, <1>3, <1>6, ExceptSeq
<1> HIDE DEF s3
<1>8. /\ s4 \in Seq(Native) /\ Len(s4) = FRAME + 43
      /\ \A n \in 1 .. FRAME + 43 : s4[n] = IF n = FRAME + 15 THEN out ELSE s3[n]
  BY <1>0, <1>3, <1>7, ExceptSeq
<1> HIDE DEF s4
<1>9. /\ s4[FRAME + 1] = adr /\ s4[FRAME + 2] = size
      /\ s4[FRAME + 13] = entered /\ s4[FRAME + 15] = out
  BY <1>0, <1>5, <1>6, <1>7, <1>8
<1>10. \A n \in 1 .. FRAME + 43 :
           n \notin {FRAME + 1, FRAME + 13, FRAME + 15} => Sound(s4[n])
  BY <1>0, <1>3, <1>4, <1>5, <1>6, <1>7, <1>8
<1> QED
  BY <1>1, <1>8, <1>9, <1>10 DEF adr, size, entered, out

\* The return, and what follows.
LEMMA EpilogueWords ==
    ASSUME Building
    PROVE  /\ Epilogue \in Seq(Native) /\ Len(Epilogue) = 1 + SCRUB
           /\ Epilogue[1] = A64("ret_clr", 0)
           /\ \A n \in 1 .. 1 + SCRUB : Sound(Epilogue[n])
<1>0. SCRUB \in Nat /\ 1 + SCRUB \in Nat /\ 1 \in 1 .. 1 + SCRUB
  BY DEF Building
<1> DEFINE s == Fixed(1 + SCRUB)
           w == A64("ret_clr", 0)
<1>1. /\ s \in Seq(Native) /\ Len(s) = 1 + SCRUB
      /\ \A n \in 1 .. 1 + SCRUB : Sound(s[n])
  BY <1>0, FixedWords
<1>2. Sound(w) /\ w \in Native
  BY PlainWord DEF Sound
<1>3. Epilogue = [s EXCEPT ![1] = w]
  BY DEF Epilogue
<1> HIDE DEF s, w
<1>4. /\ Epilogue \in Seq(Native) /\ Len(Epilogue) = 1 + SCRUB
      /\ \A n \in 1 .. 1 + SCRUB : Epilogue[n] = IF n = 1 THEN w ELSE s[n]
  BY <1>0, <1>1, <1>2, <1>3, ExceptSeq
<1> QED
  BY <1>0, <1>1, <1>2, <1>4 DEF w

\* A sequence of one word.
LEMMA OneWord ==
    ASSUME NEW w \in Native
    PROVE  <<w>> \in Seq(Native) /\ Len(<<w>>) = 1 /\ <<w>>[1] = w
OBVIOUS
\* What UnitsAssumption says of a program that is compiled.
LEMMA UnitFacts ==
    ASSUME UnitOK
    PROVE  /\ Building
           /\ Insns \in Seq([op : Grammar \cup {"OTHER"}, off : Int])
           /\ len \in Nat
           /\ \A q \in 0 .. len - 1 : Insns[q + 1].off \in Int
           /\ \A q \in Int : Op(q) = Insns[q + 1].op
<1>1. /\ unit.insns \in Units /\ unit.build \in Builds
  BY DEF UnitOK
<1>2. /\ Insns \in Seq([op : Grammar \cup {"OTHER"}, off : Int])
      /\ unit.build \in [max_words : Nat, reach : Nat, bti : BOOLEAN, ptr_auth : BOOLEAN]
  BY <1>1, UnitsAssumption DEF Insns
<1>3. BTI \in BOOLEAN /\ PTR_AUTH \in BOOLEAN /\ MAX_WORDS \in Nat /\ REACH \in Nat
  BY <1>2 DEF BTI, PTR_AUTH, MAX_WORDS, REACH
<1>4. Count(BTI) \in 0 .. 1 /\ Count(PTR_AUTH) \in 0 .. 1
  BY <1>3 DEF Count
<1>5. Building
  BY <1>3, <1>4 DEF Building, FRAME, SCRUB
<1>6. len \in Nat /\ \A q \in 0 .. len - 1 : Insns[q + 1] \in [op : Grammar \cup {"OTHER"}, off : Int]
  <2>1. len \in Nat
    BY <1>2 DEF len
  <2>2. ASSUME NEW q \in 0 .. len - 1
        PROVE  Insns[q + 1] \in [op : Grammar \cup {"OTHER"}, off : Int]
    <3>1. q + 1 \in 1 .. Len(Insns)
      BY <2>1 DEF len
    <3> QED
      BY <1>2, <3>1, ElementOfSeq
  <2> QED
    BY <2>1, <2>2
<1> QED
  BY <1>2, <1>5, <1>6 DEF Op

\* What admission makes sure of.
LEMMA UnitAdmitted ==
    ASSUME UnitOK, Eligible, Linkable
    PROVE  /\ len \in 1 .. MAX_INSNS /\ MAX_INSNS \in Nat
           /\ \A q \in 0 .. len - 1 :
                 /\ Op(q) \in Grammar /\ Size(q) \in 1 .. 5
                 /\ Op(q) = "JEQ" => TargetOf(q) \in q + 1 .. len - 1
           /\ len - 1 \in 0 .. len - 1 /\ Op(len - 1) = "EXIT"
<1>1. len \in 1 .. MAX_INSNS /\ MAX_INSNS \in Nat
  BY UnitsAssumption DEF Eligible
<1>2. ASSUME NEW q \in 0 .. len - 1
      PROVE  /\ Op(q) \in Grammar /\ Size(q) \in 1 .. 5
             /\ Op(q) = "JEQ" => TargetOf(q) \in q + 1 .. len - 1
  <2>1. /\ Insns[q + 1].op \in Grammar /\ Insns[q + 1].off \in Int
        /\ Insns[q + 1].op = "JEQ" => q < TargetOf(q) /\ TargetOf(q) < len
    BY UnitFacts DEF Linkable
  <2>2. TargetOf(q) \in Int
    BY <2>1 DEF TargetOf
  <2> QED
    BY <1>1, <2>1, <2>2 DEF Op, Size
<1>3. len - 1 \in 0 .. len - 1 /\ (len - 1) + 1 = len
  BY <1>1
<1>4. Op(len - 1) = "EXIT"
  BY <1>3 DEF Op, Linkable
<1> QED
  BY <1>1, <1>2, <1>3, <1>4

\* The words of an instruction: as many as its kind has, whatever the layout,
\* and only its branch, its first word, depends on the distance.
LEMMA BodyWords ==
    ASSUME UnitOK, Eligible, Linkable,
           NEW q \in 0 .. len - 1, NEW x \in Int, NEW l \in Layouts
    PROVE  LET ws == Body(q, x, l)
           IN  /\ ws \in Seq(Native) /\ Len(ws) = Size(q)
               /\ Op(q) = "JEQ" => ws[1] = A64("cbz", l.offset[TargetOf(q)] - x)
               /\ Op(q) = "EXIT" => ws[1] = A64("b", l.restricted_exit - x)
               /\ Op(q) = "CALL" => ws[2] = A64("movz", q)
               /\ Op(q) \notin {"JEQ", "EXIT"} => \A n \in 1 .. Size(q) : Sound(ws[n])
<1> DEFINE ws == Body(q, x, l)
<1>1. /\ Op(q) = Insns[q + 1].op /\ Op(q) \in Grammar
      /\ Op(q) = "JEQ" => TargetOf(q) \in 0 .. MAX_INSNS
  BY UnitAdmitted DEF Op
<1>2. CASE Op(q) \in {"MOV_X", "STX", "LDX"}
  <2>1. ws = Fixed(1) /\ Size(q) = 1
    BY <1>1, <1>2, Zenon DEF Body, Size
  <2>2. /\ Fixed(1) \in Seq(Native) /\ Len(Fixed(1)) = 1
        /\ \A n \in 1 .. 1 : Sound(Fixed(1)[n])
    BY FixedWords
  <2> QED
    BY <1>2, <2>1, <2>2
<1>3. CASE Op(q) = "MOV_K"
  <2>1. ws = Fixed(4) /\ Size(q) = 4
    BY <1>1, <1>3, Zenon DEF Body, Size
  <2>2. /\ Fixed(4) \in Seq(Native) /\ Len(Fixed(4)) = 4
        /\ \A n \in 1 .. 4 : Sound(Fixed(4)[n])
    BY FixedWords
  <2> QED
    BY <1>3, <2>1, <2>2
<1>4. CASE Op(q) = "JEQ"
  <2> DEFINE w == A64("cbz", l.offset[TargetOf(q)] - x)
  <2>1. ws = <<w>> /\ Size(q) = 1
    BY <1>1, <1>4, Zenon DEF Body, Size
  <2>0. l.offset \in [0 .. MAX_INSNS -> Int] /\ TargetOf(q) \in 0 .. MAX_INSNS
    BY <1>1, <1>4 DEF Layouts
  <2>2. l.offset[TargetOf(q)] - x \in Int
    <3>1. l.offset[TargetOf(q)] \in Int
      BY <2>0
    <3> QED
      BY <3>1
  <2>3. w \in Native
    BY <2>2, BranchWord
  <2> HIDE DEF w
  <2>4. <<w>> \in Seq(Native) /\ Len(<<w>>) = 1 /\ <<w>>[1] = w
    BY <2>3, OneWord
  <2> QED
    BY <1>4, <2>1, <2>4 DEF w
<1>5. CASE Op(q) = "CALL"
  <2> DEFINE w == A64("movz", q)
             s == Fixed(5)
  <2>1. ws = [s EXCEPT ![2] = w] /\ Size(q) = 5
    BY <1>1, <1>5, Zenon DEF Body, Size
  <2>2. Sound(w) /\ w \in Native
    BY PlainWord DEF Sound
  <2>3. s \in Seq(Native) /\ Len(s) = 5 /\ \A n \in 1 .. 5 : Sound(s[n])
    BY FixedWords
  <2> HIDE DEF w, s, ws
  <2>4. /\ ws \in Seq(Native) /\ Len(ws) = 5
        /\ \A n \in 1 .. 5 : ws[n] = IF n = 2 THEN w ELSE s[n]
    <3>1. 2 \in 1 .. Len(s)
      BY <2>3
    <3>2. /\ [s EXCEPT ![2] = w] \in Seq(Native)
          /\ Len([s EXCEPT ![2] = w]) = Len(s)
          /\ \A n \in 1 .. Len(s) : [s EXCEPT ![2] = w][n] = IF n = 2 THEN w ELSE s[n]
      <4>1. s \in Seq(Native) /\ w \in Native
        BY <2>2, <2>3
      <4> QED
        BY <3>1, <4>1, ExceptSeq
    <3> QED
      BY <2>1, <2>3, <3>2
  <2> QED
    BY <1>5, <2>1, <2>2, <2>3, <2>4 DEF w, ws
<1>6. CASE Op(q) = "EXIT"
  <2> DEFINE w == A64("b", l.restricted_exit - x)
  <2>1. ws = <<w>> /\ Size(q) = 1
    BY <1>1, <1>6, Zenon DEF Body, Size
  <2>2. l.restricted_exit - x \in Int
    BY DEF Layouts
  <2>3. w \in Native
    BY <2>2, BranchWord
  <2> HIDE DEF w
  <2>4. <<w>> \in Seq(Native) /\ Len(<<w>>) = 1 /\ <<w>>[1] = w
    BY <2>3, OneWord
  <2> QED
    BY <1>6, <2>1, <2>4 DEF w
<1> QED
  BY <1>1, <1>2, <1>3, <1>4, <1>5, <1>6, Zenon DEF Grammar

-----------------------------------------------------------------------------
\* The program stays.
LEMMA UnitStays ==
    ASSUME CompileNext
    PROVE  unit' = unit
BY DEF CompileNext, NotOurs, Match, Ineligible, NoMemoryForContext, AllocContext,
       Admit, NotAdmitted, Generate, EmitPrologue, EmitInsn, EndBody, EmitEpilogue,
       LayoutFails, NoMemoryForImage, AllocImage, WriteDone, Check

\* With it all that is read off it.
LEMMA Steady ==
    ASSUME unit' = unit
    PROVE  /\ Insns' = Insns /\ len' = len /\ UnitOK' = UnitOK
           /\ MAX_WORDS' = MAX_WORDS /\ REACH' = REACH
           /\ FRAME' = FRAME /\ SCRUB' = SCRUB /\ Epilogue' = Epilogue
           /\ Eligible' = Eligible /\ Linkable' = Linkable /\ HasCall' = HasCall
           /\ Entered' = Entered
           /\ \A q : Op(q)' = Op(q) /\ Size(q)' = Size(q)
<1>1. Insns' = Insns /\ MAX_WORDS' = MAX_WORDS /\ REACH' = REACH
      /\ BTI' = BTI /\ PTR_AUTH' = PTR_AUTH /\ UnitOK' = UnitOK
  BY DEF Insns, MAX_WORDS, REACH, BTI, PTR_AUTH, UnitOK
<1>2. len' = len /\ FRAME' = FRAME /\ SCRUB' = SCRUB
      /\ \A q : Op(q)' = Op(q)
  BY <1>1 DEF len, FRAME, SCRUB, Op
<1>3. /\ Epilogue' = Epilogue /\ Entered' = Entered /\ Eligible' = Eligible
      /\ HasCall' = HasCall /\ \A q : Size(q)' = Size(q)
  BY <1>1, <1>2 DEF Epilogue, Entered, Eligible, HasCall, Size
<1>4. Linkable' = Linkable
  BY <1>1, <1>2 DEF Linkable, TargetOf
<1> QED
  BY <1>1, <1>2, <1>3, <1>4

\* What each step allocates, frees and flags.
LEMMA MemoryStep ==
    ASSUME MemoryInv, CompileNext
    PROVE  MemoryInv'
<1>1. UnitOK' /\ Eligible' = Eligible /\ HasCall' = HasCall
  BY UnitStays, Steady DEF MemoryInv
<1>2. NothingLeftBehind' = (place' = "done" =>
        /\ held' = IF published' THEN {"image"} ELSE {}
        /\ cbpf_gate' <=> unit'.attributes.jit_requested /\ HasCall'
        /\ published' => cbpf_gate' /\ Eligible' /\ ~failed')
  BY Zenon DEF NothingLeftBehind, HasCall
<1>3. NothingLeftBehind = (place = "done" =>
        /\ held = IF published THEN {"image"} ELSE {}
        /\ cbpf_gate <=> unit.attributes.jit_requested /\ HasCall
        /\ published => cbpf_gate /\ Eligible /\ ~failed)
  BY Zenon DEF NothingLeftBehind, HasCall
<1>4. CASE NotOurs
  <2>1. /\ place = "load" /\ (~unit.attributes.jit_requested \/ ~HasCall)
        /\ place' = "done" /\ held' = {} /\ cbpf_gate' = cbpf_gate /\ published' = published
    BY <1>4 DEF NotOurs, HasCall, Leave
  <2> QED
    BY <1>1, <1>2, <2>1, UnitStays DEF MemoryInv
<1>5. CASE Match
  <2>1. /\ place = "load" /\ unit.attributes.jit_requested /\ HasCall
        /\ place' = "check_program" /\ cbpf_gate' = TRUE /\ published' = published
    BY <1>5 DEF Match, HasCall
  <2> QED
    BY <1>1, <1>2, <2>1, UnitStays DEF MemoryInv
<1>6. CASE Ineligible \/ NoMemoryForContext
  <2>1. /\ place = "check_program" /\ place' = "done" /\ held' = {}
        /\ cbpf_gate' = cbpf_gate /\ published' = published
    BY <1>6 DEF Ineligible, NoMemoryForContext, Leave
  <2> QED
    BY <1>1, <1>2, <2>1, UnitStays DEF MemoryInv
<1>11. CASE AllocContext
  <2>1. /\ place = "check_program" /\ Eligible /\ place' = "admit"
        /\ cbpf_gate' = cbpf_gate /\ published' = published
    BY <1>11 DEF AllocContext
  <2> QED
    BY <1>1, <1>2, <2>1, UnitStays DEF MemoryInv
<1>12. CASE Admit
  <2>1. /\ place = "admit" /\ place' = "generate"
        /\ cbpf_gate' = cbpf_gate /\ published' = published
    BY <1>12 DEF Admit
  <2> QED
    BY <1>1, <1>2, <2>1, UnitStays DEF MemoryInv
<1>13. CASE NotAdmitted \/ LayoutFails \/ NoMemoryForImage
  <2>1. /\ place \in {"admit", "generate"} /\ place' = "done" /\ held' = {}
        /\ cbpf_gate' = cbpf_gate /\ published' = published
    BY <1>13 DEF NotAdmitted, LayoutFails, NoMemoryForImage, InPass, Leave, HeldAfterFailure
  <2> QED
    BY <1>1, <1>2, <2>1, UnitStays DEF MemoryInv
<1>7. CASE Generate
  <2>1. place = "generate" /\ UNCHANGED <<place, held, cbpf_gate, published>>
    BY <1>7 DEF Generate, EmitPrologue, EmitInsn, EndBody, EmitEpilogue, InPass
  <2> QED
    BY <1>1, <1>2, <2>1, UnitStays DEF MemoryInv
<1>9. CASE AllocImage \/ WriteDone
  <2>1. place = "generate" /\ UNCHANGED <<place, cbpf_gate, published>>
    BY <1>9 DEF AllocImage, WriteDone, InPass, NextPass
  <2> QED
    BY <1>1, <1>2, <2>1, UnitStays DEF MemoryInv
<1>10. CASE Check
  BY <1>1, <1>2, <1>10, UnitStays
  DEF MemoryInv, Check, CheckFailed, InPass, Leave, HeldAfterFailure, GenerateVars
<1> QED
  BY <1>4, <1>5, <1>6, <1>7, <1>9, <1>10, <1>11, <1>12, <1>13 DEF CompileNext

-----------------------------------------------------------------------------
\* A pass that emits words that fit emits them all.
LEMMA EmitAll ==
    ASSUME NEW ws, NEW inPlace, Fits(ws), Emit(ws, inPlace)
    PROVE  /\ index' = index + Len(ws)
           /\ failed' = \/ failed \/ ~inPlace
                        \/ /\ pass = "check"
                           /\ \E x \in index .. index + Len(ws) - 1 :
                                 image[x] # ws[x - index + 1]
           /\ image' = IF pass = "write"
                       THEN [x \in DOMAIN image |->
                                IF x \in index .. index + Len(ws) - 1
                                THEN ws[x - index + 1] ELSE image[x]]
                       ELSE image
BY Zenon DEF Emit, Through

\* The index moves on by as much.
LEMMA EmitIndex ==
    ASSUME NEW ws, NEW inPlace, Fits(ws), Emit(ws, inPlace)
    PROVE  index' = index + Len(ws)
BY EmitAll, Zenon

\* One that has not failed had words that fit, found in their place.
LEMMA EmitRefused ==
    ASSUME NEW ws, NEW inPlace, Emit(ws, inPlace), ~failed'
    PROVE  ~failed /\ inPlace /\ Fits(ws)
BY Zenon DEF Emit

\* The next place follows from the size of the instruction.
LEMMA LaidNext ==
    ASSUME UnitOK, Eligible, Linkable, NEW n \in 0 .. len - 1, NEW b, Laid(b, n),
           Op(n) \in {"JEQ", "EXIT"} => b[n] <= REACH,
           NEW c, c = [b EXCEPT ![n + 1] = b[n] + Size(n)]
    PROVE  Laid(c, n + 1)
<1>1. /\ len \in 1 .. MAX_INSNS /\ MAX_INSNS \in Nat /\ Size(n) \in 1 .. 5
      /\ b \in [0 .. MAX_INSNS -> Nat]
  BY UnitAdmitted DEF Laid
<1>2. /\ n + 1 \in 0 .. MAX_INSNS /\ n \in 0 .. MAX_INSNS /\ n + 1 # 0
      /\ b[n] + Size(n) \in Nat /\ b[n] \in Nat
  BY <1>1
<1>3. /\ c \in [0 .. MAX_INSNS -> Nat]
      /\ c[n + 1] = b[n] + Size(n)
      /\ \A q \in 0 .. n : c[q] = b[q]
  BY <1>1, <1>2
<1>4. c[0] = FRAME + 43
  BY <1>3 DEF Laid
<1>5. ASSUME NEW q \in 0 .. n PROVE c[q + 1] = c[q] + Size(q)
  <2>1. CASE q = n
    BY <1>3, <2>1
  <2>2. CASE q # n
    <3>1. q \in 0 .. n - 1 /\ q + 1 \in 0 .. n /\ q \in 0 .. n
      BY <2>2
    <3> QED
      BY <1>3, <3>1 DEF Laid
  <2> QED
    BY <2>1, <2>2
<1>6. ASSUME NEW q \in 0 .. n + 1, NEW r \in 0 .. n + 1, q < r
      PROVE  c[q] < c[r]
  <2>1. CASE r = n + 1
    <3>1. c[n] < c[n + 1]
      BY <1>1, <1>2, <1>3
    <3>2. CASE q = n
      BY <2>1, <3>1, <3>2
    <3>3. CASE q # n
      <4>1. q \in 0 .. n /\ n \in 0 .. n /\ q < n
        BY <1>6, <2>1, <3>3
      <4>2. b[q] < b[n] /\ b[q] \in Nat
        BY <1>1, <4>1 DEF Laid
      <4> QED
        BY <1>1, <1>2, <1>3, <2>1, <3>1, <4>1, <4>2
    <3> QED
      BY <3>2, <3>3
  <2>2. CASE r # n + 1
    <3>1. q \in 0 .. n /\ r \in 0 .. n
      BY <1>6, <2>2
    <3> QED
      BY <1>3, <1>6, <3>1 DEF Laid
  <2> QED
    BY <2>1, <2>2
<1>7. ASSUME NEW q \in 0 .. n, Op(q) \in {"JEQ", "EXIT"} PROVE c[q] <= REACH
  <2>1. CASE q = n
    BY <1>3, <1>7, <2>1
  <2>2. CASE q # n
    <3>1. q \in 0 .. n - 1
      BY <2>2
    <3> QED
      BY <1>3, <1>7, <3>1 DEF Laid
  <2> QED
    BY <2>1, <2>2
<1>8. (n + 1) - 1 = n
  OBVIOUS
<1> QED
  BY <1>3, <1>4, <1>5, <1>6, <1>7, <1>8 DEF Laid

\* What is laid out does not depend on the state but through the program.
LEMMA LaidSteady ==
    ASSUME unit' = unit, NEW b, NEW n
    PROVE  /\ Laid(b, n) /\ b = Known' /\ n = insn' => LaidKnown'
           /\ Laid(b, len) /\ b = layout'.offset => LaidAll'
<1>1. /\ FRAME' = FRAME /\ REACH' = REACH /\ len' = len
      /\ \A q : Op(q)' = Op(q) /\ Size(q)' = Size(q)
  BY Steady
<1> QED
  BY <1>1 DEF LaidKnown, LaidAll, Laid

\* The layout pass starts with no distance known.
LEMMA NoLayoutType ==
    /\ NoLayout \in Layouts
    /\ NoLayout.restricted_exit = 0 /\ NoLayout.executive_exit = 0
    /\ NoLayout.executive_words = 0
    /\ \A q \in 0 .. MAX_INSNS : NoLayout.offset[q] = 0
BY DEF NoLayout, Layouts

\* A layout with a place recorded.
LEMMA LayoutPlace ==
    ASSUME NEW l \in Layouts, NEW q \in 0 .. MAX_INSNS, NEW x \in Int
    PROVE  LET m == [l EXCEPT !.offset[q] = x]
           IN  /\ m \in Layouts /\ m.offset = [l.offset EXCEPT ![q] = x]
               /\ m.restricted_exit = l.restricted_exit
<1>1. /\ l.offset \in [0 .. MAX_INSNS -> Int] /\ l.restricted_exit \in Int
      /\ l.executive_exit \in Int /\ l.executive_words \in Int
      /\ l = [offset |-> l.offset, restricted_exit |-> l.restricted_exit,
              executive_exit |-> l.executive_exit, executive_words |-> l.executive_words]
  BY DEF Layouts
<1> DEFINE m == [l EXCEPT !.offset[q] = x]
           b == [l.offset EXCEPT ![q] = x]
<1>2. b \in [0 .. MAX_INSNS -> Int]
  BY <1>1
<1>3. m = [l EXCEPT !.offset = b]
  BY <1>1
<1> HIDE DEF b
<1>4. m = [offset |-> b, restricted_exit |-> l.restricted_exit,
           executive_exit |-> l.executive_exit, executive_words |-> l.executive_words]
  BY <1>1, <1>3
<1> HIDE DEF m
<1>5. m \in Layouts /\ m.offset = b /\ m.restricted_exit = l.restricted_exit
  BY <1>1, <1>2, <1>4 DEF Layouts
<1> QED
  BY <1>5 DEF m, b

\* Words that fit leave branches within reach.
LEMMA FitsReach ==
    ASSUME UnitOK, NEW ws \in Seq(Native), Fits(ws), NEW n \in 1 .. Len(ws),
           NEW name \in {"adr", "b", "cbz"}, NEW d \in Int, ws[n] = A64(name, d)
    PROVE  -REACH <= d /\ d < REACH
<1>1. Encodable(ws[n])
  BY DEF Fits
<1> QED
  BY <1>1, BranchWord

\* The layout pass goes through the entry,
LEMMA LayoutPrologue ==
    ASSUME MemoryInv, LayoutInv, place = "generate", pass = "layout", EmitPrologue, ~failed'
    PROVE  LayoutInv'
<1>0. UnitOK /\ Building /\ unit' = unit
  BY UnitFacts DEF MemoryInv, EmitPrologue
<1>1. /\ section = "prologue" /\ section' = "body" /\ insn' = 0 /\ layout' = layout
      /\ Emit(Prologue(index, layout), TRUE)
  BY DEF EmitPrologue, InPass
<1>2. ~failed /\ Fits(Prologue(index, layout))
  BY <1>1, EmitRefused
<1>3. Linkable /\ layout = NoLayout /\ index = 0
  BY <1>1, <1>2 DEF LayoutInv
<1> DEFINE ws == Prologue(0, NoLayout)
<1>4. /\ ws \in Seq(Native) /\ Len(ws) = FRAME + 43
      /\ ws[FRAME + 13] = A64("cbz", 3)
      /\ ws[FRAME + 15] = A64("b", 0 - (0 + FRAME + 14))
  BY <1>0, PrologueWords, NoLayoutType
<1>5. Fits(ws) /\ Emit(ws, TRUE)
  BY <1>1, <1>2, <1>3
<1> HIDE DEF ws
<1>6. index' = FRAME + 43 /\ FRAME \in Nat /\ REACH \in Nat
  <2>1. index' = index + Len(ws)
    BY <1>5, EmitIndex
  <2> QED
    BY <1>0, <1>3, <1>4, <2>1 DEF Building
<1>7. Entered
  <2>1. FRAME + 13 \in 1 .. Len(ws) /\ FRAME + 15 \in 1 .. Len(ws)
        /\ 0 - (0 + FRAME + 14) \in Int
    BY <1>4, <1>6
  <2>2. 3 < REACH
    BY <1>0, <1>4, <1>5, <2>1, FitsReach
  <2>3. -REACH <= 0 - (0 + FRAME + 14)
    BY <1>0, <1>4, <1>5, <2>1, FitsReach
  <2> QED
    BY <1>6, <2>2, <2>3 DEF Entered
<1>8. len \in 1 .. MAX_INSNS /\ MAX_INSNS \in Nat
  BY <1>0, <1>3, UnitAdmitted DEF MemoryInv
<1>9. LaidKnown'
  <2>1. PICK b : b = Known'
    OBVIOUS
  <2>2. b = [NoLayout.offset EXCEPT ![0] = FRAME + 43]
    BY <1>1, <1>3, <1>6, <2>1 DEF Known
  <2>3. /\ b \in [0 .. MAX_INSNS -> Nat] /\ b[0] = FRAME + 43
    BY <1>6, <1>8, <2>2 DEF NoLayout
  <2>4. Laid(b, 0)
    BY <2>3 DEF Laid
  <2> QED
    BY <1>0, <1>1, <2>1, <2>4, LaidSteady
<1>10. Linkable' /\ Entered' /\ len' = len
  BY <1>0, <1>3, <1>7, Steady
<1>11. /\ layout' \in Layouts /\ layout'.restricted_exit = 0
       /\ \A q \in 0 .. MAX_INSNS : layout'.offset[q] = 0
  BY <1>1, <1>3, NoLayoutType
<1> QED
  BY <1>1, <1>6, <1>8, <1>9, <1>10, <1>11 DEF LayoutInv, Sections

\* an instruction,
LEMMA LayoutInsn ==
    ASSUME MemoryInv, LayoutInv, place = "generate", pass = "layout", EmitInsn, ~failed'
    PROVE  LayoutInv'
<1>0. UnitOK /\ Eligible /\ unit' = unit
  BY DEF MemoryInv, EmitInsn
<1> DEFINE l == [layout EXCEPT !.offset[insn] = index]
           ws == Body(insn, index, l)
<1>1. /\ section = "body" /\ section' = "body" /\ insn < len /\ insn' = insn + 1
      /\ layout' = l /\ Emit(ws, TRUE)
  BY DEF EmitInsn, InPass, Recorded
<1>2. ~failed /\ Fits(ws)
  BY <1>1, EmitRefused
<1>3. /\ Linkable /\ Entered /\ layout \in Layouts /\ insn \in 0 .. len /\ index \in Nat
      /\ LaidKnown /\ \A q \in insn .. MAX_INSNS : layout.offset[q] = 0
      /\ layout.restricted_exit = 0
  BY <1>1, <1>2 DEF LayoutInv
<1>4. /\ len \in 1 .. MAX_INSNS /\ MAX_INSNS \in Nat
      /\ insn \in 0 .. len - 1 /\ insn + 1 \in 0 .. len /\ insn \in 0 .. MAX_INSNS
      /\ Op(insn) = "JEQ" => TargetOf(insn) \in insn + 1 .. len - 1
  <2>1. /\ len \in 1 .. MAX_INSNS /\ MAX_INSNS \in Nat
    BY <1>0, <1>3, UnitAdmitted
  <2>2. /\ insn \in 0 .. len - 1 /\ insn + 1 \in 0 .. len /\ insn \in 0 .. MAX_INSNS
    BY <1>1, <1>3, <2>1
  <2> QED
    BY <1>0, <1>3, <2>1, <2>2, UnitAdmitted
<1>5. /\ l \in Layouts /\ l.offset = Known /\ l.restricted_exit = 0
      /\ \A q \in insn + 1 .. MAX_INSNS : l.offset[q] = 0
      /\ Known[insn] = index
  <2>1. /\ l \in Layouts /\ l.offset = Known /\ l.restricted_exit = layout.restricted_exit
    BY <1>3, <1>4, LayoutPlace DEF Known
  <2> HIDE DEF l
  <2>2. layout.offset \in [0 .. MAX_INSNS -> Int]
    BY <1>3 DEF Layouts
  <2>3. Known[insn] = index /\ \A q \in insn + 1 .. MAX_INSNS : Known[q] = layout.offset[q]
    BY <1>4, <2>2 DEF Known
  <2> QED
    BY <1>3, <1>4, <2>1, <2>3
<1> HIDE DEF l
<1>6. /\ ws \in Seq(Native) /\ Len(ws) = Size(insn)
      /\ Op(insn) = "JEQ" => ws[1] = A64("cbz", l.offset[TargetOf(insn)] - index)
      /\ Op(insn) = "EXIT" => ws[1] = A64("b", l.restricted_exit - index)
      /\ Size(insn) \in 1 .. 5
  <2>1. Size(insn) \in 1 .. 5
    BY <1>0, <1>3, <1>4, UnitAdmitted
  <2>2. index \in Int
    BY <1>3
  <2> QED
    BY <1>0, <1>3, <1>4, <1>5, <2>1, <2>2, BodyWords
<1> HIDE DEF ws
<1>7. Op(insn) \in {"JEQ", "EXIT"} => index <= REACH
  <2>0. REACH \in Nat
    BY <1>0, UnitFacts DEF Building
  <2>1. 1 \in 1 .. Len(ws) /\ 0 - index \in Int /\ REACH \in Nat
    BY <1>3, <1>6, <2>0
  <2>2. CASE Op(insn) = "JEQ"
    <3>1. ws[1] = A64("cbz", 0 - index)
      BY <1>4, <1>5, <1>6, <2>2
    <3>2. -REACH <= 0 - index
      BY <1>0, <1>2, <1>6, <2>1, <3>1, FitsReach
    <3> QED
      BY <1>3, <2>1, <3>2
  <2>3. CASE Op(insn) = "EXIT"
    <3>1. ws[1] = A64("b", 0 - index)
      BY <1>5, <1>6, <2>3
    <3>2. -REACH <= 0 - index
      BY <1>0, <1>2, <1>6, <2>1, <3>1, FitsReach
    <3> QED
      BY <1>3, <2>1, <3>2
  <2> QED
    BY <2>2, <2>3
<1>8. index' = index + Size(insn) /\ index' \in Nat
  <2>1. index' = index + Len(ws)
    BY <1>1, <1>2, EmitIndex
  <2> QED
    BY <1>3, <1>6, <2>1
<1>9. LaidKnown'
  <2>1. PICK c : c = Known'
    OBVIOUS
  <2>2. c = [Known EXCEPT ![insn + 1] = Known[insn] + Size(insn)]
    BY <1>1, <1>5, <1>8, <2>1 DEF Known
  <2>3. Laid(Known, insn) /\ (Op(insn) \in {"JEQ", "EXIT"} => Known[insn] <= REACH)
    BY <1>3, <1>5, <1>7 DEF LaidKnown
  <2>4. Laid(c, insn + 1)
    BY <1>0, <1>3, <1>4, <2>2, <2>3, LaidNext
  <2> QED
    BY <1>0, <1>1, <2>1, <2>4, LaidSteady
<1>10. Linkable' /\ Entered' /\ len' = len
  BY <1>0, <1>3, Steady
<1> QED
  BY <1>1, <1>4, <1>5, <1>8, <1>9, <1>10 DEF LayoutInv, Sections

\* the end of the instructions
LEMMA LayoutEndBody ==
    ASSUME MemoryInv, LayoutInv, place = "generate", pass = "layout", EndBody, ~failed'
    PROVE  LayoutInv'
<1>0. UnitOK /\ Eligible /\ unit' = unit
  BY DEF MemoryInv, EndBody
<1>1. /\ section = "body" /\ section' = "epilogue" /\ insn = len /\ index' = index
      /\ layout' = [layout EXCEPT !.offset[insn] = index] /\ ~failed
  BY DEF EndBody, InPass, Recorded
<1>2. /\ Linkable /\ Entered /\ layout \in Layouts /\ insn \in 0 .. len /\ index \in Nat
      /\ LaidKnown
  BY <1>1 DEF LayoutInv
<1>3. len \in 0 .. MAX_INSNS
  BY <1>0, <1>2, UnitAdmitted
<1>4. layout' \in Layouts /\ layout'.offset = Known /\ Known[len] = index
  <2>1. layout' \in Layouts /\ layout'.offset = Known
    BY <1>1, <1>2, <1>3, LayoutPlace DEF Known
  <2>2. layout.offset \in [0 .. MAX_INSNS -> Int]
    BY <1>2 DEF Layouts
  <2> QED
    BY <1>1, <1>3, <2>1, <2>2 DEF Known
<1>5. LaidAll'
  <2>1. Laid(Known, len)
    BY <1>1, <1>2 DEF LaidKnown
  <2>2. PICK b : b = Known
    OBVIOUS
  <2> QED
    BY <1>0, <1>4, <2>1, <2>2, LaidSteady
<1>6. Linkable' /\ Entered' /\ len' = len
  BY <1>0, <1>2, Steady
<1> QED
  BY <1>1, <1>4, <1>5, <1>6 DEF LayoutInv, Sections

\* and the way out.
LEMMA LayoutEpilogue ==
    ASSUME MemoryInv, LayoutInv, place = "generate", pass = "layout", EmitEpilogue, ~failed'
    PROVE  LayoutInv'
<1>0. UnitOK /\ Eligible /\ unit' = unit /\ Building
  BY UnitFacts DEF MemoryInv, EmitEpilogue
<1>1. /\ section = "epilogue" /\ section' = "end"
      /\ layout' = [layout EXCEPT !.restricted_exit = index, !.executive_exit = index + 1,
                       !.executive_words = (index + Len(Through(Epilogue))) - (index + 1)]
      /\ \E inPlace : Emit(Epilogue, inPlace)
  <2> DEFINE y == index + 1
             z == ExecutiveWords(index + Len(Through(Epilogue)))
             r == Recorded(index, layout.restricted_exit)
             e == Recorded(y, layout.executive_exit)
             w == Recorded(z, layout.executive_words)
  <2>1. /\ section = "epilogue" /\ section' = "end"
        /\ layout' = [layout EXCEPT !.restricted_exit = r.value, !.executive_exit = e.value,
                                    !.executive_words = w.value]
        /\ Emit(Epilogue, r.same /\ e.same /\ w.same)
    BY DEF EmitEpilogue, InPass
  <2> HIDE DEF y, z
  <2>2. r.value = index /\ e.value = y /\ w.value = z
    BY DEF Recorded
  <2> HIDE DEF r, e, w
  <2>3. y = index + 1 /\ z = (index + Len(Through(Epilogue))) - (index + 1)
    BY Zenon DEF y, z, ExecutiveWords
  <2>4. layout' = [layout EXCEPT !.restricted_exit = index, !.executive_exit = y,
                                 !.executive_words = z]
    BY <2>1, <2>2
  <2>5. \E inPlace : Emit(Epilogue, inPlace)
    BY <2>1, Zenon
  <2> QED
    BY <2>1, <2>3, <2>4, <2>5, Zenon
<1> PICK inPlace : Emit(Epilogue, inPlace)
  BY <1>1
<1>2. ~failed /\ Fits(Epilogue)
  BY EmitRefused
<1>3. /\ Linkable /\ Entered /\ layout \in Layouts
      /\ LaidAll /\ index = layout.offset[len]
  BY <1>1, <1>2 DEF LayoutInv
<1>4. /\ Through(Epilogue) = Epilogue /\ Len(Epilogue) = 1 + SCRUB
      /\ SCRUB \in Nat /\ len \in 0 .. MAX_INSNS
  BY <1>0, <1>2, <1>3, EpilogueWords, UnitAdmitted DEF Through, Building
<1>5. index \in Nat
  BY <1>3, <1>4 DEF LaidAll, Laid
<1>6. index' = index + 1 + SCRUB /\ index' <= MAX_WORDS
  <2>1. index' = index + Len(Epilogue)
    BY <1>2, EmitIndex
  <2>2. index + Len(Epilogue) <= MAX_WORDS
    BY <1>2 DEF Fits, Limit
  <2> QED
    BY <1>4, <1>5, <2>1, <2>2
<1>7. /\ layout' \in Layouts /\ layout'.offset = layout.offset
      /\ layout'.restricted_exit = index /\ layout'.executive_exit = index + 1
      /\ layout'.executive_words = SCRUB
  <2>1. (index + Len(Through(Epilogue))) - (index + 1) = SCRUB
    BY <1>4, <1>5
  <2> DEFINE y == index + 1
             z == SCRUB
  <2>2. layout' = [layout EXCEPT !.restricted_exit = index, !.executive_exit = y,
                                 !.executive_words = z]
    BY <1>1, <2>1
  <2>3. y \in Int /\ z \in Int /\ index \in Int
    BY <1>4, <1>5
  <2>4. y = index + 1 /\ z = SCRUB
    OBVIOUS
  <2> HIDE DEF y, z
  <2>5. PICK m : m = layout'
    OBVIOUS
  <2>6. /\ m \in Layouts /\ m.offset = layout.offset
        /\ m.restricted_exit = index /\ m.executive_exit = y /\ m.executive_words = z
    <3>1. m = [layout EXCEPT !.restricted_exit = index, !.executive_exit = y,
                             !.executive_words = z]
      BY <2>2, <2>5
    <3>2. layout \in Layouts
      BY <1>3
    <3> QED
      BY <2>3, <3>1, <3>2 DEF Layouts
  <2> QED
    BY <2>4, <2>5, <2>6
<1>8. LaidAll'
  <2>1. PICK b : b = layout.offset
    OBVIOUS
  <2> QED
    BY <1>0, <1>3, <1>7, <2>1, LaidSteady DEF LaidAll
<1>9. /\ Linkable' /\ Entered' /\ len' = len /\ SCRUB' = SCRUB /\ MAX_WORDS' = MAX_WORDS
  BY <1>0, <1>3, Steady
<1>10. LaidOut' /\ index' = Total'
  BY <1>3, <1>5, <1>6, <1>7, <1>8, <1>9 DEF LaidOut, Total
<1> QED
  BY <1>1, <1>7, <1>9, <1>10 DEF LayoutInv, Sections

\* The layout pass records the places it finds, step by step.
LEMMA LayoutStep ==
    ASSUME MemoryInv, UnlaidInv, LayoutInv, CompileNext
    PROVE  LayoutInv'
<1> SUFFICES ASSUME place' = "generate", pass' = "layout", ~failed'
             PROVE  LayoutInv'
  BY DEF LayoutInv
<1>1. CASE Admit
  <2>1. /\ Linkable /\ layout = NoLayout /\ layout' = layout /\ section' = "prologue"
        /\ index' = 0
    BY <1>1 DEF Admit, UnlaidInv, NextPass
  <2>2. Linkable'
    BY <2>1, UnitStays, Steady
  <2> QED
    BY <2>1, <2>2, NoLayoutType DEF LayoutInv, Sections
<1>2. CASE Generate
  <2>1. place = "generate" /\ pass = "layout"
    BY <1>2 DEF Generate, EmitPrologue, EmitInsn, EndBody, EmitEpilogue, InPass
  <2> QED
    BY <1>2, <2>1, LayoutPrologue, LayoutInsn, LayoutEndBody, LayoutEpilogue DEF Generate
<1>3. CASE NotOurs \/ Match \/ Ineligible \/ NoMemoryForContext \/ AllocContext \/ NotAdmitted
  BY <1>3 DEF NotOurs, Match, Ineligible, NoMemoryForContext, AllocContext, NotAdmitted, Leave
<1>4. CASE LayoutFails \/ NoMemoryForImage \/ AllocImage \/ WriteDone \/ Check
  BY <1>4 DEF LayoutFails, NoMemoryForImage, AllocImage, WriteDone, Check, Leave, NextPass,
              AfterWrite
<1> QED
  BY <1>1, <1>2, <1>3, <1>4 DEF CompileNext

-----------------------------------------------------------------------------
\* Where the instructions of a program that is laid out are.
LEMMA LaidFacts ==
    ASSUME UnitOK, Eligible, Linkable, LaidOut, NEW b, b = layout.offset
    PROVE  /\ FRAME \in 13 .. 15 /\ REACH \in Nat /\ SCRUB \in Nat /\ MAX_WORDS \in Nat
           /\ len \in 1 .. MAX_INSNS /\ MAX_INSNS \in Nat
           /\ layout \in Layouts /\ b \in [0 .. MAX_INSNS -> Nat] /\ b[0] = FRAME + 43
           /\ layout.restricted_exit = b[len] /\ layout.executive_exit = b[len] + 1
           /\ layout.executive_words = SCRUB
           /\ FRAME + 14 <= REACH /\ 3 < REACH
           /\ \A p \in 0 .. len - 1 : b[p + 1] = b[p] + Size(p)
           /\ \A p, r \in 0 .. len : p < r => b[p] < b[r]
           /\ \A p \in 0 .. len - 1 : Op(p) \in {"JEQ", "EXIT"} => b[p] <= REACH
           /\ b[len - 1] <= REACH /\ b[len] = b[len - 1] + 1 /\ b[len - 1] \in Nat
           /\ Total = b[len] + 1 + SCRUB /\ Total <= MAX_WORDS /\ Total \in Nat
<1>1. /\ FRAME \in 13 .. 15 /\ REACH \in Nat /\ SCRUB \in Nat /\ MAX_WORDS \in Nat
  <2>1. Building
    BY UnitFacts
  <2> QED
    BY <2>1 DEF Building
<1>2. /\ len \in 1 .. MAX_INSNS /\ MAX_INSNS \in Nat
      /\ len - 1 \in 0 .. len - 1 /\ Op(len - 1) = "EXIT"
  BY UnitAdmitted
<1>3. /\ layout \in Layouts /\ b \in [0 .. MAX_INSNS -> Nat] /\ b[0] = FRAME + 43
      /\ layout.restricted_exit = b[len] /\ layout.executive_exit = b[len] + 1
      /\ layout.executive_words = SCRUB
      /\ FRAME + 14 <= REACH /\ 3 < REACH
      /\ Total = b[len] + 1 + SCRUB /\ Total <= MAX_WORDS
  BY DEF LaidOut, LaidAll, Laid, Entered, Total
<1>4. /\ \A p \in 0 .. len - 1 : b[p + 1] = b[p] + Size(p)
      /\ \A p, r \in 0 .. len : p < r => b[p] < b[r]
      /\ \A p \in 0 .. len - 1 : Op(p) \in {"JEQ", "EXIT"} => b[p] <= REACH
  BY DEF LaidOut, LaidAll, Laid
<1>5. b[len - 1] <= REACH /\ b[len] = b[len - 1] + 1 /\ b[len - 1] \in Nat
  <2>1. Size(len - 1) = 1
    BY <1>2 DEF Size
  <2>2. (len - 1) + 1 = len /\ len - 1 \in 0 .. MAX_INSNS
    BY <1>2
  <2>3. b[(len - 1) + 1] = b[len - 1] + 1 /\ b[len - 1] <= REACH
    BY <1>2, <1>4, <2>1
  <2> QED
    BY <1>3, <2>2, <2>3
<1>6. Total \in Nat
  <2>1. b[len] \in Nat
    BY <1>2, <1>3
  <2> QED
    BY <1>1, <1>3, <2>1
<1> QED
  BY <1>1, <1>2, <1>3, <1>4, <1>5, <1>6

\* With every place known each word of the entry can be encoded,
LEMMA OpeningWords ==
    ASSUME UnitOK, Eligible, Linkable, LaidOut
    PROVE  /\ Opening \in Seq(Native) /\ Len(Opening) = FRAME + 43
           /\ \A n \in 1 .. FRAME + 43 : Sound(Opening[n])
           /\ Opening[FRAME + 1] = A64("adr", layout.offset[len] + 1 - FRAME)
           /\ Opening[FRAME + 2] = A64("movz", SCRUB * 4)
           /\ Opening[FRAME + 15] = A64("b", layout.offset[len] + 1 - (FRAME + 14))
<1> PICK b : b = layout.offset
  OBVIOUS
<1> PICK end : end = b[len]
  OBVIOUS
<1>1. /\ FRAME \in 13 .. 15 /\ REACH \in Nat /\ SCRUB \in Nat
      /\ layout \in Layouts /\ layout.executive_exit = end + 1
      /\ layout.executive_words = SCRUB /\ FRAME + 14 <= REACH /\ 3 < REACH
  BY LaidFacts, Zenon
<1>2. end \in Nat /\ end > FRAME + 42 /\ end <= REACH + 1
  <2>1. /\ len \in 1 .. MAX_INSNS /\ b[0] = FRAME + 43
        /\ b[len - 1] <= REACH /\ end = b[len - 1] + 1 /\ b[len - 1] \in Nat
        /\ \A p, r \in 0 .. len : p < r => b[p] < b[r]
    BY LaidFacts, Zenon
  <2>2. 0 \in 0 .. len /\ len \in 0 .. len /\ 0 < len
    BY <2>1
  <2>3. FRAME + 43 < end
    BY <2>1, <2>2
  <2>4. end \in Nat /\ end <= REACH + 1
    BY <1>1, <2>1
  <2> QED
    BY <1>1, <2>3, <2>4
<1>3. /\ Opening \in Seq(Native) /\ Len(Opening) = FRAME + 43
      /\ Opening[FRAME + 1] = A64("adr", layout.executive_exit - (0 + FRAME))
      /\ Opening[FRAME + 2] = A64("movz", layout.executive_words * 4)
      /\ Opening[FRAME + 13] = A64("cbz", 3)
      /\ Opening[FRAME + 15] = A64("b", layout.executive_exit - (0 + FRAME + 14))
      /\ \A n \in 1 .. FRAME + 43 :
            n \notin {FRAME + 1, FRAME + 13, FRAME + 15} => Sound(Opening[n])
  <2>1. Building /\ layout \in Layouts /\ 0 \in Int
    BY <1>1, UnitFacts
  <2> QED
    BY <2>1, PrologueWords DEF Opening
<1>4. /\ layout.executive_exit - (0 + FRAME) = end + 1 - FRAME
      /\ layout.executive_exit - (0 + FRAME + 14) = end + 1 - (FRAME + 14)
      /\ end + 1 - FRAME \in Int /\ end + 1 - (FRAME + 14) \in Int
      /\ -REACH <= end + 1 - FRAME /\ end + 1 - FRAME < REACH
      /\ -REACH <= end + 1 - (FRAME + 14) /\ end + 1 - (FRAME + 14) < REACH
      /\ -REACH <= 3
  <2>1. PICK f \in 13 .. 15, r \in Nat : f = FRAME /\ r = REACH /\ f + 14 <= r /\ 3 < r
    BY <1>1
  <2>2. /\ end + 1 - f \in Int /\ end + 1 - (f + 14) \in Int
        /\ -r <= end + 1 - f /\ end + 1 - f < r
        /\ -r <= end + 1 - (f + 14) /\ end + 1 - (f + 14) < r /\ -r <= 3
        /\ (end + 1) - (0 + f) = end + 1 - f
        /\ (end + 1) - (0 + f + 14) = end + 1 - (f + 14)
    BY <1>2, <2>1
  <2> QED
    BY <1>1, <2>1, <2>2
<1>5. /\ Sound(A64("adr", end + 1 - FRAME)) /\ Sound(A64("cbz", 3))
      /\ Sound(A64("b", end + 1 - (FRAME + 14)))
  BY <1>1, <1>4, BranchWord DEF Sound
<1>6. /\ Opening[FRAME + 1] = A64("adr", end + 1 - FRAME)
      /\ Opening[FRAME + 15] = A64("b", end + 1 - (FRAME + 14))
  BY <1>3, <1>4
<1> QED
  BY <1>1, <1>3, <1>5, <1>6

\* and each word of an instruction, whose place ends where the next begins.
LEMMA InsnWords ==
    ASSUME UnitOK, Eligible, Linkable, LaidOut, NEW q \in 0 .. len - 1
    PROVE  /\ Words(q) \in Seq(Native) /\ Len(Words(q)) = Size(q) /\ Size(q) \in 1 .. 5
           /\ \A n \in 1 .. Size(q) : Sound(Words(q)[n])
           /\ layout.offset[q] \in Nat /\ layout.offset[q] >= FRAME + 43
           /\ layout.offset[q + 1] = layout.offset[q] + Size(q)
           /\ layout.offset[q + 1] <= layout.offset[len]
           /\ Op(q) = "JEQ" =>
                 Words(q)[1] = A64("cbz", layout.offset[TargetOf(q)] - layout.offset[q])
           /\ Op(q) = "EXIT" =>
                 Words(q)[1] = A64("b", layout.offset[len] - layout.offset[q])
           /\ Op(q) = "CALL" => Words(q)[2] = A64("movz", q)
<1>0. /\ FRAME \in 13 .. 15 /\ REACH \in Nat
      /\ len \in 1 .. MAX_INSNS /\ MAX_INSNS \in Nat /\ Size(q) \in 1 .. 5
      /\ len - 1 \in 0 .. len - 1 /\ Op(len - 1) = "EXIT"
      /\ Op(q) = "JEQ" => TargetOf(q) \in q + 1 .. len - 1
  BY UnitFacts, UnitAdmitted DEF Building
<1> DEFINE b == layout.offset
<1>1. /\ layout \in Layouts /\ b \in [0 .. MAX_INSNS -> Nat]
      /\ layout.restricted_exit = b[len]
      /\ \A p \in 0 .. len - 1 : b[p + 1] = b[p] + Size(p)
      /\ \A p, r \in 0 .. len : p < r => b[p] < b[r]
      /\ \A p \in 0 .. len - 1 : Op(p) \in {"JEQ", "EXIT"} => b[p] <= REACH
      /\ b[0] = FRAME + 43
  BY DEF LaidOut, LaidAll, Laid
<1> HIDE DEF b
<1>2. /\ b[q] \in Nat /\ b[len] \in Nat /\ b[q + 1] = b[q] + Size(q)
      /\ q + 1 \in 0 .. len /\ b[q + 1] \in Nat
  BY <1>0, <1>1
<1>3. b[q + 1] <= b[len]
  <2>1. q + 1 = len \/ (q + 1 < len /\ len \in 0 .. len)
    BY <1>0
  <2> QED
    BY <1>1, <1>2, <2>1
<1>4. b[q] >= FRAME + 43
  BY <1>0, <1>1, <1>2
<1>5. /\ Words(q) \in Seq(Native) /\ Len(Words(q)) = Size(q)
      /\ Op(q) = "JEQ" => Words(q)[1] = A64("cbz", b[TargetOf(q)] - b[q])
      /\ Op(q) = "EXIT" => Words(q)[1] = A64("b", layout.restricted_exit - b[q])
      /\ Op(q) = "CALL" => Words(q)[2] = A64("movz", q)
      /\ Op(q) \notin {"JEQ", "EXIT"} => \A n \in 1 .. Size(q) : Sound(Words(q)[n])
  <2>1. b[q] \in Int
    BY <1>2
  <2> QED
    BY <1>1, <2>1, BodyWords DEF Words, b
<1>6. ASSUME Op(q) = "JEQ" PROVE \A n \in 1 .. Size(q) : Sound(Words(q)[n])
  <2>1. /\ TargetOf(q) \in 0 .. len /\ q < TargetOf(q) /\ TargetOf(q) \in 0 .. len - 1
        /\ q \in 0 .. len /\ 0 \in 0 .. len
    BY <1>0, <1>6
  <2>2. b[q] < b[TargetOf(q)] /\ b[TargetOf(q)] \in Nat
    <3>1. /\ \A p, r \in 0 .. len : p < r => b[p] < b[r]
          /\ b \in [0 .. MAX_INSNS -> Nat]
      BY <1>1
    <3>2. b[q] < b[TargetOf(q)]
      BY <2>1, <3>1, Zenon
    <3>3. TargetOf(q) \in 0 .. MAX_INSNS
      BY <1>0, <2>1
    <3> QED
      BY <3>1, <3>2, <3>3
  <2>3. b[TargetOf(q)] <= b[len - 1] /\ b[len - 1] <= REACH /\ b[len - 1] \in Nat
    <3>1. TargetOf(q) = len - 1 \/ TargetOf(q) < len - 1
      BY <1>0, <1>6
    <3>2. len - 1 \in 0 .. len /\ len - 1 \in 0 .. MAX_INSNS
      BY <1>0
    <3>3. b[len - 1] <= REACH /\ b[len - 1] \in Nat
      BY <1>0, <1>1, <3>2
    <3>4. TargetOf(q) < len - 1 => b[TargetOf(q)] < b[len - 1]
      BY <1>1, <2>1, <3>2, Zenon
    <3>5. b[TargetOf(q)] <= b[len - 1]
      BY <2>2, <3>1, <3>3, <3>4
    <3> QED
      BY <3>3, <3>5
  <2>4. /\ b[TargetOf(q)] - b[q] \in Int /\ -REACH <= b[TargetOf(q)] - b[q]
        /\ b[TargetOf(q)] - b[q] < REACH
    BY <1>0, <1>2, <1>4, <2>2, <2>3
  <2>5. Sound(Words(q)[1])
    BY <1>5, <1>6, <2>4, BranchWord DEF Sound
  <2>6. Size(q) = 1
    BY <1>6 DEF Size
  <2> QED
    BY <2>5, <2>6
<1>7. ASSUME Op(q) = "EXIT" PROVE \A n \in 1 .. Size(q) : Sound(Words(q)[n])
  <2>1. /\ q \in 0 .. len /\ len \in 0 .. len /\ q < len
        /\ len - 1 \in 0 .. MAX_INSNS /\ (len - 1) + 1 = len
    BY <1>0
  <2>2. Size(len - 1) = 1
    BY <1>0 DEF Size
  <2>3. b[q] < b[len] /\ b[len] = b[len - 1] + 1 /\ b[len - 1] <= REACH /\ b[len - 1] \in Nat
    BY <1>0, <1>1, <2>1, <2>2
  <2>4. /\ layout.restricted_exit - b[q] \in Int /\ -REACH <= layout.restricted_exit - b[q]
        /\ layout.restricted_exit - b[q] < REACH
    <3>1. layout.restricted_exit = b[len] /\ REACH \in Nat /\ FRAME \in 13 .. 15
      BY <1>0, <1>1
    <3> QED
      BY <1>2, <1>4, <2>3, <3>1
  <2>5. Sound(Words(q)[1])
    BY <1>5, <1>7, <2>4, BranchWord DEF Sound
  <2>6. Size(q) = 1
    BY <1>7 DEF Size
  <2> QED
    BY <2>5, <2>6
<1>8. \A n \in 1 .. Size(q) : Sound(Words(q)[n])
  BY <1>5, <1>6, <1>7
<1> QED
  BY <1>0, <1>1, <1>2, <1>3, <1>4, <1>5, <1>8 DEF b

\* The words ws are in place: all emitted, the rest of the image left alone.
InPlace(total, ws, size) ==
    /\ failed' = FALSE /\ index' = index + size
    /\ DOMAIN image' = 0 .. total - 1
    /\ \A n \in 1 .. size : image'[index + n - 1] = ws[n]
    /\ \A x \in 0 .. total - 1 :
          x < index \/ x >= index + size => image'[x] = image[x]
    /\ pass = "check" => image' = image

\* A section whose words can be encoded, whose place is in the image and, in
\* the last pass, whose words are there already, goes through.
LEMMA EmitInPlace ==
    ASSUME NEW total \in Nat, NEW ws \in Seq(Native), NEW size \in Nat, Len(ws) = size,
           \A n \in 1 .. size : Sound(ws[n]),
           pass \in {"write", "check"}, failed = FALSE,
           words = total, total <= MAX_WORDS, MAX_WORDS \in Nat,
           DOMAIN image = 0 .. total - 1,
           index \in Nat, index + size <= total, Emit(ws, TRUE),
           pass = "check" => \A n \in 1 .. size : image[index + n - 1] = ws[n]
    PROVE  InPlace(total, ws, size)
<1>1. Fits(ws)
  <2>1. Limit = total
    BY DEF Limit, Smaller
  <2>2. \A n \in 1 .. Len(ws) : Encodable(ws[n])
    BY DEF Sound
  <2> QED
    BY <2>1, <2>2 DEF Fits
<1>2. /\ index' = index + size
      /\ failed' = \/ failed \/ ~TRUE
                   \/ /\ pass = "check"
                      /\ \E x \in index .. index + size - 1 : image[x] # ws[x - index + 1]
      /\ image' = IF pass = "write"
                  THEN [x \in DOMAIN image |->
                           IF x \in index .. index + size - 1
                           THEN ws[x - index + 1] ELSE image[x]]
                  ELSE image
  BY <1>1, EmitAll, Zenon
<1>3. CASE pass = "check"
  <2>1. image' = image
    BY <1>2, <1>3
  <2>2. ASSUME NEW x \in index .. index + size - 1 PROVE image[x] = ws[x - index + 1]
    <3>1. x - index + 1 \in 1 .. size /\ index + (x - index + 1) - 1 = x
      BY <2>2
    <3>2. image[index + (x - index + 1) - 1] = ws[x - index + 1]
      BY <1>3, <3>1
    <3> QED
      BY <3>1, <3>2
  <2>3. failed' = FALSE
    BY <1>2, <2>2
  <2> QED
    BY <1>2, <1>3, <2>1, <2>3 DEF InPlace
<1>4. CASE pass = "write"
  <2>1. image' = [x \in 0 .. total - 1 |->
                     IF x \in index .. index + size - 1
                     THEN ws[x - index + 1] ELSE image[x]]
    BY <1>2, <1>4
  <2>2. ASSUME NEW n \in 1 .. size PROVE image'[index + n - 1] = ws[n]
    <3>1. /\ index + n - 1 \in 0 .. total - 1 /\ index + n - 1 \in index .. index + size - 1
          /\ (index + n - 1) - index + 1 = n
      BY <2>2
    <3> QED
      BY <2>1, <3>1
  <2>3. failed' = FALSE
    BY <1>2, <1>4
  <2>4. DOMAIN image' = 0 .. total - 1
    BY <2>1
  <2>5. \A x \in 0 .. total - 1 : x < index \/ x >= index + size => image'[x] = image[x]
    BY <2>1
  <2> QED
    BY <1>2, <1>4, <2>2, <2>3, <2>4, <2>5 DEF InPlace
<1> QED
  BY <1>3, <1>4

\* The passes with an image keep the layout, and with it what is to be written.
LEMMA LayoutKept ==
    ASSUME unit' = unit, layout' = layout
    PROVE  /\ LaidOut' = LaidOut /\ Total' = Total /\ Opening' = Opening
           /\ \A q : Words(q)' = Words(q)
<1>1. /\ Insns' = Insns /\ len' = len /\ FRAME' = FRAME /\ SCRUB' = SCRUB
      /\ REACH' = REACH /\ MAX_WORDS' = MAX_WORDS /\ Entered' = Entered
      /\ \A q : Op(q)' = Op(q) /\ Size(q)' = Size(q)
  BY Steady
<1>2. Total' = Total
  BY <1>1 DEF Total
<1>3. LaidAll' = LaidAll
  BY <1>1 DEF LaidAll, Laid
<1>4. LaidOut' = LaidOut
  BY <1>1, <1>2, <1>3 DEF LaidOut
<1>5. Opening' = Opening
  BY <1>1 DEF Opening, Prologue
<1>6. ASSUME NEW q PROVE Words(q)' = Words(q)
  BY <1>1 DEF Words, Body, TargetOf
<1> QED
  BY <1>2, <1>4, <1>5, <1>6

\* The later passes go through the entry,
LEMMA PassPrologue ==
    ASSUME MemoryInv, PlaceInv, WordsInv, place = "generate", pass # "layout", EmitPrologue
    PROVE  PlaceInv' /\ WordsInv'
<1>0. UnitOK /\ Eligible /\ unit' = unit /\ layout' = layout
  BY DEF MemoryInv, EmitPrologue
<1>1. /\ section = "prologue" /\ section' = "body" /\ insn' = 0
      /\ Emit(Prologue(index, layout), TRUE) /\ UNCHANGED <<place, pass, words>>
  BY DEF EmitPrologue, InPass
<1>2. /\ pass \in {"write", "check"} /\ failed = FALSE /\ Linkable /\ LaidOut
      /\ words = Total /\ DOMAIN image = 0 .. Total - 1 /\ index = 0
      /\ pass = "check" =>
            /\ Opened /\ Closed /\ \A q \in 0 .. len - 1 : Wrote(q)
            /\ \A x \in 0 .. Total - 1 : image[x] # Hole
  BY <1>1 DEF PlaceInv, WordsInv
<1>3. PICK b : b = layout.offset
  OBVIOUS
<1>4. PICK total, size : total = Total /\ size = FRAME + 43
  OBVIOUS
<1>5. /\ total \in Nat /\ total <= MAX_WORDS /\ MAX_WORDS \in Nat /\ size \in Nat
      /\ size <= total /\ b[0] = size /\ len \in Nat
  <2>1. /\ FRAME \in 13 .. 15 /\ SCRUB \in Nat /\ MAX_WORDS \in Nat
        /\ len \in 1 .. MAX_INSNS /\ b[0] = FRAME + 43
        /\ Total = b[len] + 1 + SCRUB /\ Total <= MAX_WORDS /\ Total \in Nat
        /\ \A p, r \in 0 .. len : p < r => b[p] < b[r]
        /\ b[len] = b[len - 1] + 1 /\ b[len - 1] \in Nat
    BY <1>0, <1>2, <1>3, LaidFacts, Zenon
  <2>2. 0 \in 0 .. len /\ len \in 0 .. len /\ 0 < len
    BY <2>1
  <2>3. b[0] < b[len]
    BY <2>1, <2>2
  <2> QED
    BY <1>4, <2>1, <2>3
<1>6. PICK ws : ws = Opening
  OBVIOUS
<1>7. /\ ws \in Seq(Native) /\ Len(ws) = size /\ \A n \in 1 .. size : Sound(ws[n])
      /\ Emit(ws, TRUE)
  BY <1>0, <1>1, <1>2, <1>4, <1>6, OpeningWords DEF Opening
<1>8. pass = "check" => \A n \in 1 .. size : image[index + n - 1] = ws[n]
  BY <1>2, <1>4, <1>5, <1>6 DEF Opened
<1>9. /\ failed' = FALSE /\ index' = index + size
      /\ DOMAIN image' = 0 .. total - 1
      /\ \A n \in 1 .. size : image'[index + n - 1] = ws[n]
      /\ pass = "check" => image' = image
  <2>1. /\ index \in Nat /\ index + size <= total /\ DOMAIN image = 0 .. total - 1
        /\ words = total /\ pass \in {"write", "check"} /\ failed = FALSE
    BY <1>2, <1>4, <1>5
  <2>2. /\ total \in Nat /\ total <= MAX_WORDS /\ MAX_WORDS \in Nat /\ size \in Nat
    BY <1>5
  <2>3. InPlace(total, ws, size)
    BY <1>7, <1>8, <2>1, <2>2, EmitInPlace, ZenonT(30)
  <2> QED
    BY <2>3 DEF InPlace
<1>10. /\ LaidOut' /\ Total' = total /\ Opening' = ws /\ Linkable' /\ len' = len
       /\ FRAME' = FRAME /\ SCRUB' = SCRUB /\ Epilogue' = Epilogue /\ Hole' = Hole
       /\ \A q : Words(q)' = Words(q) /\ Size(q)' = Size(q)
  BY <1>0, <1>2, <1>4, <1>6, Steady, LayoutKept DEF Hole, A64
<1>11. PlaceInv'
  <2>1. insn' \in 0 .. len' /\ index' = layout'.offset[insn']
    BY <1>0, <1>1, <1>2, <1>3, <1>4, <1>5, <1>9, <1>10
  <2> QED
    BY <1>1, <1>2, <1>4, <1>9, <1>10, <2>1 DEF PlaceInv, Sections
<1>12. Opened'
  BY <1>2, <1>4, <1>5, <1>9, <1>10 DEF Opened
<1>13. \A x \in 0 .. total - 1 : pass = "check" \/ x < index' => image'[x] # Hole
  <2>1. ASSUME NEW x \in 0 .. total - 1, x < size PROVE image'[x] # Hole
    <3>1. x + 1 \in 1 .. size /\ index + (x + 1) - 1 = x
      BY <1>2, <1>5, <2>1
    <3>2. image'[index + (x + 1) - 1] = ws[x + 1] /\ Sound(ws[x + 1])
      BY <1>7, <1>9, <3>1
    <3> QED
      BY <3>1, <3>2 DEF Sound
  <2>2. index' = size
    BY <1>2, <1>5, <1>9
  <2> QED
    BY <1>2, <1>4, <1>9, <2>1, <2>2
<1>14. CASE pass = "check"
  <2>1. image' = image /\ Closed /\ \A q \in 0 .. len - 1 : Wrote(q)
    BY <1>2, <1>9, <1>14
  <2>2. Closed'
    BY <1>0, <1>10, <2>1 DEF Closed
  <2>3. \A q \in 0 .. len - 1 : Wrote(q)'
    BY <1>0, <1>10, <2>1 DEF Wrote
  <2> QED
    BY <1>1, <1>10, <1>11, <1>12, <1>13, <1>14, <2>2, <2>3 DEF WordsInv
<1>15. CASE pass = "write"
  BY <1>1, <1>10, <1>11, <1>12, <1>13, <1>15 DEF WordsInv
<1> QED
  BY <1>2, <1>14, <1>15

\* an instruction,
LEMMA PassInsn ==
    ASSUME MemoryInv, PlaceInv, WordsInv, place = "generate", pass # "layout", EmitInsn
    PROVE  PlaceInv' /\ WordsInv'
<1>0. UnitOK /\ Eligible /\ unit' = unit
  BY DEF MemoryInv, EmitInsn
<1>1. /\ section = "body" /\ section' = "body" /\ insn < len /\ insn' = insn + 1
      /\ UNCHANGED <<place, pass, words>>
  BY DEF EmitInsn, InPass
<1>2. /\ pass \in {"write", "check"} /\ failed = FALSE /\ Linkable /\ LaidOut
      /\ words = Total /\ DOMAIN image = 0 .. Total - 1
      /\ insn \in 0 .. len /\ index = layout.offset[insn]
  BY <1>1 DEF PlaceInv
<1>3. /\ Opened
      /\ \A q \in 0 .. len - 1 : pass = "check" \/ q < insn => Wrote(q)
      /\ pass = "check" => Closed
      /\ \A x \in 0 .. Total - 1 : pass = "check" \/ x < index => image[x] # Hole
  BY <1>1 DEF WordsInv
<1> PICK b : b = layout.offset
  OBVIOUS
<1> PICK total, at : total = Total /\ at = insn
  OBVIOUS
<1>4. /\ len \in 1 .. MAX_INSNS /\ MAX_INSNS \in Nat /\ at \in 0 .. len - 1
      /\ total \in Nat /\ total <= MAX_WORDS /\ MAX_WORDS \in Nat
      /\ SCRUB \in Nat /\ total = b[len] + 1 + SCRUB
      /\ layout \in Layouts /\ b \in [0 .. MAX_INSNS -> Nat]
      /\ \A p, r \in 0 .. len : p < r => b[p] < b[r]
      /\ FRAME \in 13 .. 15
  <2>1. /\ len \in 1 .. MAX_INSNS /\ MAX_INSNS \in Nat
        /\ total \in Nat /\ total <= MAX_WORDS /\ MAX_WORDS \in Nat
        /\ SCRUB \in Nat /\ total = b[len] + 1 + SCRUB
        /\ layout \in Layouts /\ b \in [0 .. MAX_INSNS -> Nat]
        /\ \A p, r \in 0 .. len : p < r => b[p] < b[r]
        /\ FRAME \in 13 .. 15
    BY <1>0, <1>2, LaidFacts, Zenon
  <2>2. at \in 0 .. len - 1
    BY <1>1, <1>2, <2>1
  <2> QED
    BY <2>1, <2>2, Zenon
<1>5. PICK ws : ws = Words(at)
  OBVIOUS
<1>6. PICK size : size = Size(at)
  OBVIOUS
<1>7. /\ ws \in Seq(Native) /\ Len(ws) = size /\ size \in 1 .. 5
      /\ \A n \in 1 .. size : Sound(ws[n])
      /\ b[at] \in Nat /\ b[at] >= FRAME + 43
      /\ b[at + 1] = b[at] + size /\ b[at + 1] <= b[len]
  BY <1>0, <1>2, <1>4, <1>5, <1>6, InsnWords, Zenon
<1>8. layout' = layout /\ Emit(ws, TRUE)
  <2>1. Recorded(index, layout.offset[insn]) = [value |-> index, same |-> TRUE]
    BY <1>2 DEF Recorded
  <2>2. [layout EXCEPT !.offset[insn] = index] = layout
    <3>1. [layout.offset EXCEPT ![insn] = index] = layout.offset
      BY <1>2, <1>4
    <3>2. [layout EXCEPT !.offset[insn] = index] = [layout EXCEPT !.offset = layout.offset]
      BY <3>1
    <3> QED
      BY <1>4, <3>2 DEF Layouts
  <2>3. /\ layout' = [layout EXCEPT !.offset[insn] = index]
        /\ Emit(Body(insn, index, [layout EXCEPT !.offset[insn] = index]), TRUE)
    <3> DEFINE r == Recorded(index, layout.offset[insn])
    <3>1. r.value = index /\ r.same = TRUE
      BY <2>1
    <3>2. /\ layout' = [layout EXCEPT !.offset[insn] = r.value]
          /\ Emit(Body(insn, index, [layout EXCEPT !.offset[insn] = r.value]), r.same)
      BY DEF EmitInsn
    <3> HIDE DEF r
    <3> QED
      BY <3>1, <3>2
  <2> QED
    BY <1>2, <1>5, <2>2, <2>3 DEF Words
<1>9. pass = "check" => \A n \in 1 .. size : image[index + n - 1] = ws[n]
  <2>1. pass = "check" => Wrote(at)
    BY <1>3, <1>4
  <2> QED
    BY <1>2, <1>5, <1>6, <2>1 DEF Wrote
<1>10. /\ index = b[at] /\ index \in Nat /\ size \in Nat /\ index + size <= total
       /\ FRAME + 43 <= index
  <2>1. index = b[at] /\ b[len] \in Nat
    BY <1>2, <1>4
  <2>2. b[at] + size <= b[len] /\ b[at] \in Nat /\ size \in Nat /\ FRAME + 43 <= b[at]
    <3>1. /\ size \in 1 .. 5 /\ b[at] \in Nat /\ b[at] >= FRAME + 43
          /\ b[at + 1] = b[at] + size /\ b[at + 1] <= b[len]
      BY <1>7, Zenon
    <3>2. FRAME \in Nat
      BY <1>4
    <3> QED
      BY <3>1, <3>2
  <2>3. total = b[len] + 1 + SCRUB /\ SCRUB \in Nat
    BY <1>4, Zenon
  <2> QED
    BY <2>1, <2>2, <2>3
<1>11. /\ failed' = FALSE /\ index' = index + size
       /\ DOMAIN image' = 0 .. total - 1
       /\ \A n \in 1 .. size : image'[index + n - 1] = ws[n]
       /\ \A x \in 0 .. total - 1 : x < index \/ x >= index + size => image'[x] = image[x]
       /\ pass = "check" => image' = image
  <2>1. /\ DOMAIN image = 0 .. total - 1 /\ words = total /\ failed = FALSE
        /\ pass \in {"write", "check"}
    BY <1>2
  <2>2. total \in Nat /\ total <= MAX_WORDS /\ MAX_WORDS \in Nat
    BY <1>4, Zenon
  <2>3. /\ ws \in Seq(Native) /\ size \in Nat /\ Len(ws) = size
        /\ \A n \in 1 .. size : Sound(ws[n])
    BY <1>7, <1>10, Zenon
  <2> QED
    <3>1. Emit(ws, TRUE) /\ index \in Nat /\ index + size <= total
      BY <1>8, <1>10
    <3>2. InPlace(total, ws, size)
      BY <1>9, <2>1, <2>2, <2>3, <3>1, EmitInPlace, ZenonT(30)
    <3> QED
      BY <3>2 DEF InPlace
<1>12. /\ LaidOut' /\ Total' = total /\ Opening' = Opening /\ Linkable' /\ len' = len
       /\ FRAME' = FRAME /\ SCRUB' = SCRUB /\ Epilogue' = Epilogue /\ Hole' = Hole
       /\ \A q : Words(q)' = Words(q) /\ Size(q)' = Size(q)
  BY <1>0, <1>2, <1>8, Steady, LayoutKept DEF Hole, A64
<1>13. PlaceInv'
  <2>1. insn' \in 0 .. len' /\ index' = layout'.offset[insn']
    <3>1. index' = b[at + 1]
      BY <1>7, <1>10, <1>11
    <3>2. layout'.offset = b /\ insn' = at + 1
      BY <1>1, <1>8
    <3>3. insn' \in 0 .. len
      BY <1>4, <3>2
    <3> QED
      BY <1>12, <3>1, <3>2, <3>3
  <2> QED
    BY <1>1, <1>2, <1>11, <1>12, <2>1 DEF PlaceInv, Sections
<1>14. Opened'
  <2>1. ASSUME NEW n \in 1 .. FRAME + 43 PROVE image'[n - 1] = image[n - 1]
    <3>0. FRAME \in Nat /\ total \in Nat
      BY <1>4
    <3>1. n - 1 \in 0 .. total - 1 /\ n - 1 < index
      BY <1>10, <3>0
    <3> QED
      BY <1>11, <3>1
  <2> QED
    BY <1>3, <1>12, <2>1 DEF Opened
<1>15. ASSUME NEW q \in 0 .. len - 1, pass = "check" \/ q < insn + 1
       PROVE  Wrote(q)'
  <2>1. CASE q = at
    <3>1. \A n \in 1 .. Size(q) : image'[b[q] + n - 1] = Words(q)[n]
      BY <1>5, <1>6, <1>10, <1>11, <2>1
    <3> QED
      BY <1>8, <1>12, <3>1 DEF Wrote
  <2>2. CASE q # at
    <3>1. Wrote(q)
      BY <1>3, <1>4, <1>15, <2>2
    <3>2. ASSUME NEW n \in 1 .. Size(q) PROVE image'[b[q] + n - 1] = image[b[q] + n - 1]
      <4>1. CASE pass = "check"
        BY <1>11, <4>1
      <4>2. CASE pass # "check"
        <5>0. len \in Nat /\ at \in 0 .. len - 1 /\ q < at + 1 /\ q # at
          BY <1>4, <1>15, <2>2, <4>2
        <5>1. q < at /\ q + 1 \in 0 .. len /\ at \in 0 .. len
          BY <5>0
        <5>2. /\ b[q] \in Nat /\ b[q + 1] = b[q] + Size(q) /\ Size(q) \in 1 .. 5
          BY <1>0, <1>2, InsnWords, Zenon
        <5>3. b[q + 1] <= b[at]
          <6>1. q + 1 = at \/ q + 1 < at
            BY <5>0, <5>1
          <6>2. q + 1 < at => b[q + 1] < b[at]
            BY <1>4, <5>1
          <6> QED
            BY <1>10, <5>2, <6>1, <6>2
        <5>4. b[q] + n - 1 \in 0 .. total - 1 /\ b[q] + n - 1 < index
          <6>1. total \in Nat /\ index \in Nat /\ index <= total /\ b[at] = index
            <7>1. total \in Nat
              BY <1>4, Zenon
            <7> QED
              BY <1>10, <7>1
          <6>2. PICK s \in 1 .. 5 : s = Size(q)
            BY <5>2
          <6>3. b[q] + s <= index /\ n \in 1 .. s /\ b[q] \in Nat
            BY <5>2, <5>3, <6>1, <6>2
          <6> QED
            BY <6>1, <6>3
        <5> QED
          BY <1>11, <5>4
      <4> QED
        BY <4>1, <4>2
    <3>3. \A n \in 1 .. Size(q) : image'[b[q] + n - 1] = Words(q)[n]
      BY <3>1, <3>2 DEF Wrote
    <3> QED
      BY <1>8, <1>12, <3>3 DEF Wrote
  <2> QED
    BY <2>1, <2>2
<1>16. \A x \in 0 .. total - 1 : pass = "check" \/ x < index' => image'[x] # Hole
  <2>1. ASSUME NEW x \in 0 .. total - 1, index <= x, x < index + size
        PROVE  image'[x] # Hole
    <3>1. x - index + 1 \in 1 .. size /\ index + (x - index + 1) - 1 = x
      <4>1. index \in Nat /\ size \in Nat /\ x \in Int
        BY <1>10, <2>1
      <4> QED
        BY <2>1, <4>1
    <3>2. image'[index + (x - index + 1) - 1] = ws[x - index + 1] /\ Sound(ws[x - index + 1])
      BY <1>7, <1>11, <3>1
    <3> QED
      BY <3>1, <3>2 DEF Sound
  <2>2. ASSUME NEW x \in 0 .. total - 1, pass = "check" \/ x < index', x < index \/ x >= index + size
        PROVE  image'[x] # Hole
    BY <1>3, <1>10, <1>11, <2>2
  <2> QED
    BY <1>10, <2>1, <2>2
<1>17. pass = "check" => Closed'
  BY <1>3, <1>8, <1>11, <1>12 DEF Closed
<1>18. WordsInv'
  BY <1>1, <1>12, <1>14, <1>15, <1>16, <1>17 DEF WordsInv
<1> QED
  BY <1>13, <1>18

\* the end of the instructions
LEMMA PassEndBody ==
    ASSUME MemoryInv, PlaceInv, WordsInv, place = "generate", pass # "layout", EndBody
    PROVE  PlaceInv' /\ WordsInv'
<1>0. UnitOK /\ Eligible /\ unit' = unit
  BY DEF MemoryInv, EndBody
<1>1. /\ section = "body" /\ section' = "epilogue" /\ insn = len
      /\ UNCHANGED <<place, pass, insn, index, words, image>>
  BY DEF EndBody, InPass
<1>2. /\ pass \in {"write", "check"} /\ failed = FALSE /\ Linkable /\ LaidOut
      /\ words = Total /\ DOMAIN image = 0 .. Total - 1 /\ index = layout.offset[len]
  BY <1>1 DEF PlaceInv
<1>3. layout \in Layouts /\ len \in 0 .. MAX_INSNS
  BY <1>0, <1>2, UnitAdmitted DEF LaidOut
<1>4. layout' = layout /\ failed' = FALSE
  <2>1. Recorded(index, layout.offset[insn]) = [value |-> index, same |-> TRUE]
    BY <1>1, <1>2 DEF Recorded
  <2>2. [layout EXCEPT !.offset[insn] = index] = layout
    <3>1. layout.offset \in [0 .. MAX_INSNS -> Int]
      BY <1>3 DEF Layouts
    <3>2. [layout.offset EXCEPT ![insn] = index] = layout.offset
      BY <1>1, <1>2, <1>3, <3>1
    <3>3. [layout EXCEPT !.offset[insn] = index] = [layout EXCEPT !.offset = layout.offset]
      BY <3>2
    <3> QED
      BY <1>3, <3>3 DEF Layouts
  <2>3. /\ layout' = [layout EXCEPT !.offset[insn] = index]
        /\ failed' = (failed \/ ~TRUE)
    BY <2>1 DEF EndBody
  <2> QED
    BY <1>2, <2>2, <2>3
<1>5. /\ LaidOut' /\ Total' = Total /\ Opening' = Opening /\ Linkable' /\ len' = len
      /\ FRAME' = FRAME /\ SCRUB' = SCRUB /\ Epilogue' = Epilogue /\ Hole' = Hole
      /\ \A q : Words(q)' = Words(q) /\ Size(q)' = Size(q)
  BY <1>0, <1>2, <1>4, Steady, LayoutKept DEF Hole, A64
<1>6. /\ Opened /\ \A q \in 0 .. len - 1 : Wrote(q)
      /\ pass = "check" => Closed
      /\ \A x \in 0 .. Total - 1 : pass = "check" \/ x < index => image[x] # Hole
  <2>1. /\ Opened /\ \A q \in 0 .. len - 1 : pass = "check" \/ q < insn => Wrote(q)
        /\ pass = "check" => Closed
        /\ \A x \in 0 .. Total - 1 : pass = "check" \/ x < index => image[x] # Hole
    BY <1>1 DEF WordsInv
  <2>2. \A q \in 0 .. len - 1 : q < insn
    BY <1>1, <1>3
  <2> QED
    BY <2>1, <2>2
<1>7. PlaceInv'
  BY <1>1, <1>2, <1>4, <1>5 DEF PlaceInv, Sections
<1>8. Opened' /\ (pass = "check" => Closed')
  BY <1>1, <1>4, <1>5, <1>6 DEF Opened, Closed
<1>9. \A q \in 0 .. len - 1 : Wrote(q)'
  BY <1>1, <1>4, <1>5, <1>6 DEF Wrote
<1>10. WordsInv'
  BY <1>1, <1>5, <1>6, <1>8, <1>9 DEF WordsInv
<1> QED
  BY <1>7, <1>10

\* and the way out.
LEMMA PassEpilogue ==
    ASSUME MemoryInv, PlaceInv, WordsInv, place = "generate", pass # "layout", EmitEpilogue
    PROVE  PlaceInv' /\ WordsInv'
<1>0. UnitOK /\ Eligible /\ unit' = unit
  BY DEF MemoryInv, EmitEpilogue
<1>1. /\ section = "epilogue" /\ section' = "end"
      /\ UNCHANGED <<place, pass, insn, words>>
  BY DEF EmitEpilogue, InPass
<1>2. /\ pass \in {"write", "check"} /\ failed = FALSE /\ Linkable /\ LaidOut
      /\ words = Total /\ DOMAIN image = 0 .. Total - 1 /\ index = layout.offset[len]
  BY <1>1 DEF PlaceInv
<1>3. /\ Opened /\ \A q \in 0 .. len - 1 : Wrote(q)
      /\ pass = "check" => Closed
      /\ \A x \in 0 .. Total - 1 : pass = "check" \/ x < index => image[x] # Hole
  BY <1>1 DEF WordsInv
<1> PICK b : b = layout.offset
  OBVIOUS
<1> PICK total, ws, size : total = Total /\ ws = Epilogue /\ size = 1 + SCRUB
  OBVIOUS
<1>4. /\ len \in 1 .. MAX_INSNS /\ MAX_INSNS \in Nat
      /\ total \in Nat /\ total <= MAX_WORDS /\ MAX_WORDS \in Nat
      /\ SCRUB \in Nat /\ total = b[len] + 1 + SCRUB /\ layout \in Layouts
      /\ layout.restricted_exit = b[len] /\ layout.executive_exit = b[len] + 1
      /\ layout.executive_words = SCRUB /\ b \in [0 .. MAX_INSNS -> Nat]
      /\ FRAME \in 13 .. 15 /\ b[0] = FRAME + 43
      /\ \A p, r \in 0 .. len : p < r => b[p] < b[r]
  BY <1>0, <1>2, LaidFacts, Zenon
<1>5. /\ ws \in Seq(Native) /\ Len(ws) = size /\ \A n \in 1 .. size : Sound(ws[n])
  <2>1. Building
    BY <1>0, UnitFacts
  <2> QED
    BY <2>1, EpilogueWords
<1>6. /\ index = b[len] /\ index \in Nat /\ size \in Nat /\ size = 1 + SCRUB
      /\ index + size = total /\ FRAME + 43 <= index
  <2>1. index = b[len] /\ index \in Nat
    BY <1>2, <1>4
  <2>2. SCRUB \in Nat /\ total = b[len] + 1 + SCRUB /\ FRAME \in 13 .. 15 /\ b[0] = FRAME + 43
    BY <1>4, Zenon
  <2>3. 0 \in 0 .. len /\ len \in 0 .. len /\ 0 < len
    BY <1>4
  <2>4. b[0] < b[len]
    BY <1>4, <2>3
  <2> QED
    BY <2>1, <2>2, <2>4
<1>7. layout' = layout /\ Emit(ws, TRUE)
  <2> DEFINE r == Recorded(index, layout.restricted_exit)
             e == Recorded(index + 1, layout.executive_exit)
             end == index + Len(Through(Epilogue))
             w == Recorded(ExecutiveWords(end), layout.executive_words)
  <2>1. /\ layout' = [layout EXCEPT !.restricted_exit = r.value, !.executive_exit = e.value,
                                    !.executive_words = w.value]
        /\ Emit(Epilogue, r.same /\ e.same /\ w.same)
    BY DEF EmitEpilogue
  <2>2. Fits(Epilogue)
    <3>1. Limit = total
      BY <1>2, <1>4 DEF Limit, Smaller
    <3>2. \A n \in 1 .. size : Encodable(ws[n])
      BY <1>5 DEF Sound
    <3> QED
      BY <1>5, <1>6, <3>1, <3>2 DEF Fits
  <2>3. end = total
    BY <1>5, <1>6, <2>2 DEF Through
  <2> HIDE DEF end
  <2>4. ExecutiveWords(end) = SCRUB
    <3>1. SCRUB \in Nat
      BY <1>4, Zenon
    <3>2. total - (index + 1) = SCRUB
      BY <1>6, <3>1
    <3> QED
      BY <2>3, <3>2 DEF ExecutiveWords
  <2>5. /\ r.value = layout.restricted_exit /\ r.same = TRUE
        /\ e.value = layout.executive_exit /\ e.same = TRUE
        /\ w.value = layout.executive_words /\ w.same = TRUE
    <3>1. /\ layout.restricted_exit = index /\ layout.executive_exit = index + 1
          /\ layout.executive_words = ExecutiveWords(end)
      BY <1>4, <1>6, <2>4
    <3> QED
      BY <1>2, <3>1 DEF Recorded
  <2> HIDE DEF r, e, w
  <2>6. layout' = [layout EXCEPT !.restricted_exit = layout.restricted_exit,
                                 !.executive_exit = layout.executive_exit,
                                 !.executive_words = layout.executive_words]
    BY <2>1, <2>5
  <2>7. layout' = layout
    BY <1>4, <2>6 DEF Layouts
  <2> QED
    BY <2>1, <2>5, <2>7
<1>8. pass = "check" => \A n \in 1 .. size : image[index + n - 1] = ws[n]
  BY <1>2, <1>3 DEF Closed
<1>9. /\ failed' = FALSE /\ index' = index + size
      /\ DOMAIN image' = 0 .. total - 1
      /\ \A n \in 1 .. size : image'[index + n - 1] = ws[n]
      /\ \A x \in 0 .. total - 1 : x < index \/ x >= index + size => image'[x] = image[x]
      /\ pass = "check" => image' = image
  <2>1. /\ DOMAIN image = 0 .. total - 1 /\ words = total /\ failed = FALSE
        /\ pass \in {"write", "check"}
    BY <1>2
  <2>2. total \in Nat /\ total <= MAX_WORDS /\ MAX_WORDS \in Nat
    BY <1>4, Zenon
  <2>3. Emit(ws, TRUE) /\ index \in Nat /\ index + size <= total /\ size \in Nat
    <3>1. /\ index \in Nat /\ size \in Nat /\ index + size = total
      BY <1>6, Zenon
    <3>2. index + size <= total
      BY <2>2, <3>1
    <3> QED
      BY <1>7, <3>1, <3>2
  <2>4. InPlace(total, ws, size)
    BY <1>5, <1>8, <2>1, <2>2, <2>3, EmitInPlace, ZenonT(30)
  <2> QED
    BY <2>4 DEF InPlace
<1>10. /\ LaidOut' /\ Total' = total /\ Opening' = Opening /\ Linkable' /\ len' = len
       /\ FRAME' = FRAME /\ SCRUB' = SCRUB /\ Epilogue' = Epilogue /\ Hole' = Hole
       /\ \A q : Words(q)' = Words(q) /\ Size(q)' = Size(q)
  BY <1>0, <1>2, <1>7, Steady, LayoutKept DEF Hole, A64
<1>11. PlaceInv'
  BY <1>1, <1>2, <1>6, <1>9, <1>10 DEF PlaceInv, Sections
<1>12. Opened'
  <2>1. ASSUME NEW n \in 1 .. FRAME + 43 PROVE image'[n - 1] = image[n - 1]
    <3>0. FRAME \in 13 .. 15 /\ total \in Nat
      BY <1>4, Zenon
    <3>1. n - 1 \in 0 .. total - 1 /\ n - 1 < index
      BY <1>6, <3>0
    <3> QED
      BY <1>9, <3>1
  <2> QED
    BY <1>3, <1>10, <2>1 DEF Opened
<1>13. ASSUME NEW q \in 0 .. len - 1 PROVE Wrote(q)'
  <2>1. ASSUME NEW n \in 1 .. Size(q) PROVE image'[b[q] + n - 1] = image[b[q] + n - 1]
    <3>1. /\ b[q] \in Nat /\ b[q + 1] = b[q] + Size(q) /\ Size(q) \in 1 .. 5
          /\ b[q + 1] <= b[len]
      BY <1>0, <1>2, InsnWords, Zenon
    <3>2. PICK s \in 1 .. 5 : s = Size(q)
      BY <3>1
    <3>3. b[q] + s <= index /\ n \in 1 .. s /\ b[q] \in Nat
      BY <1>6, <3>1, <3>2
    <3>4. b[q] + n - 1 \in 0 .. total - 1 /\ b[q] + n - 1 < index
      BY <1>6, <3>3
    <3> QED
      BY <1>9, <3>4
  <2>2. \A n \in 1 .. Size(q) : image'[b[q] + n - 1] = Words(q)[n]
    BY <1>3, <2>1 DEF Wrote
  <2> QED
    BY <1>7, <1>10, <2>2 DEF Wrote
<1>14. \A x \in 0 .. total - 1 : image'[x] # Hole
  <2>1. ASSUME NEW x \in 0 .. total - 1, index <= x PROVE image'[x] # Hole
    <3>1. x - index + 1 \in 1 .. size /\ index + (x - index + 1) - 1 = x
      BY <1>6, <2>1
    <3>2. image'[index + (x - index + 1) - 1] = ws[x - index + 1] /\ Sound(ws[x - index + 1])
      BY <1>5, <1>9, <3>1
    <3> QED
      BY <3>1, <3>2 DEF Sound
  <2>2. ASSUME NEW x \in 0 .. total - 1, x < index PROVE image'[x] # Hole
    BY <1>3, <1>9, <2>2
  <2> QED
    BY <1>6, <2>1, <2>2
<1>15. Closed'
  <2>1. \A n \in 1 .. 1 + SCRUB : image'[b[len] + n - 1] = Epilogue[n]
    BY <1>6, <1>9
  <2> QED
    BY <1>7, <1>10, <2>1 DEF Closed
<1>16. WordsInv'
  BY <1>1, <1>10, <1>12, <1>13, <1>14, <1>15 DEF WordsInv
<1> QED
  BY <1>11, <1>16

\* An image is made for the layout found, and checked when it is written.
LEMMA PassBegins ==
    ASSUME MemoryInv, LayoutInv, PlaceInv, WordsInv, AllocImage \/ WriteDone
    PROVE  PlaceInv' /\ WordsInv'
<1>0. UnitOK /\ unit' = unit /\ layout' = layout
  BY DEF MemoryInv, AllocImage, WriteDone
<1>1. /\ LaidOut' = LaidOut /\ Total' = Total /\ Opening' = Opening /\ Linkable' = Linkable
      /\ len' = len /\ FRAME' = FRAME /\ SCRUB' = SCRUB /\ Epilogue' = Epilogue
      /\ Hole' = Hole /\ \A q : Words(q)' = Words(q) /\ Size(q)' = Size(q)
  BY <1>0, Steady, LayoutKept DEF Hole, A64
<1>2. CASE AllocImage
  <2>1. /\ place = "generate" /\ section = "end" /\ pass = "layout" /\ ~failed
        /\ place' = place /\ pass' = "write" /\ section' = "prologue"
        /\ index' = 0 /\ words' = index /\ failed' = failed
        /\ DOMAIN image' = 0 .. index - 1
    BY <1>2 DEF AllocImage, InPass, LayoutBad, NextPass
  <2>2. /\ LaidOut /\ index = Total /\ Linkable
    BY <2>1 DEF LayoutInv
  <2>3. PlaceInv'
    BY <1>1, <2>1, <2>2 DEF PlaceInv, Sections
  <2>4. WordsInv'
    BY <1>1, <2>1 DEF WordsInv
  <2> QED
    BY <2>3, <2>4
<1>3. CASE WriteDone
  <2>1. /\ place = "generate" /\ section = "end" /\ pass = "write"
        /\ place' = place /\ pass' = "check" /\ section' = "prologue" /\ index' = 0
        /\ words' = words /\ image' = image /\ failed' = failed
    BY <1>3 DEF WriteDone, InPass, NextPass, AfterWrite
  <2>2. /\ LaidOut /\ index = Total /\ Linkable /\ failed = FALSE
        /\ words = Total /\ DOMAIN image = 0 .. Total - 1
    BY <2>1 DEF PlaceInv
  <2>3. /\ Opened /\ Closed /\ \A q \in 0 .. len - 1 : Wrote(q)
        /\ \A x \in 0 .. Total - 1 : x < index => image[x] # Hole
    BY <2>1 DEF WordsInv
  <2>4. Opened' /\ Closed'
    BY <1>0, <1>1, <2>1, <2>3 DEF Opened, Closed
  <2>5. \A q \in 0 .. len - 1 : Wrote(q)'
    BY <1>0, <1>1, <2>1, <2>3 DEF Wrote
  <2>6. \A x \in 0 .. Total - 1 : image'[x] # Hole'
    <3>0. Eligible
      BY <2>1 DEF MemoryInv
    <3>1. Total \in Nat
      BY <1>0, <2>2, <3>0, LaidFacts
    <3> QED
      BY <1>1, <2>1, <2>2, <2>3, <3>1
  <2>7. PlaceInv'
    BY <1>1, <2>1, <2>2 DEF PlaceInv, Sections
  <2>8. WordsInv'
    BY <1>1, <2>1, <2>4, <2>5, <2>6 DEF WordsInv
  <2> QED
    BY <2>7, <2>8
<1> QED
  BY <1>2, <1>3

\* The passes over the image find those places again, step by step.
LEMMA PassStep ==
    ASSUME MemoryInv, LayoutInv, PlaceInv, WordsInv, CompileNext
    PROVE  PlaceInv' /\ WordsInv'
<1>1. CASE Generate
  <2>1. place = "generate" /\ place' = place /\ pass' = pass
    BY <1>1 DEF Generate, EmitPrologue, EmitInsn, EndBody, EmitEpilogue, InPass
  <2>2. CASE pass = "layout"
    BY <2>1, <2>2 DEF PlaceInv, WordsInv
  <2> QED
    BY <1>1, <2>1, <2>2, PassPrologue, PassInsn, PassEndBody, PassEpilogue DEF Generate
<1>2. CASE AllocImage \/ WriteDone
  BY <1>2, PassBegins
<1>3. CASE Admit
  <2>1. pass' = "layout"
    BY <1>3 DEF Admit, NextPass
  <2> QED
    BY <2>1 DEF PlaceInv, WordsInv
<1>4. ASSUME NotOurs \/ Match \/ Ineligible \/ NoMemoryForContext \/ AllocContext
             \/ NotAdmitted \/ LayoutFails \/ NoMemoryForImage \/ Check
      PROVE  PlaceInv' /\ WordsInv'
  <2>1. place' # "generate"
    BY <1>4 DEF NotOurs, Match, Ineligible, NoMemoryForContext, AllocContext, NotAdmitted,
                LayoutFails, NoMemoryForImage, Check, Leave
  <2> QED
    BY <2>1 DEF PlaceInv, WordsInv
<1> QED
  BY <1>1, <1>2, <1>3, <1>4 DEF CompileNext

\* Only a complete image is published, and it stays.
LEMMA PublishedStep ==
    ASSUME MemoryInv, PlaceInv, WordsInv, PublishedInv, CompileNext
    PROVE  PublishedInv'
<1>1. CASE Check /\ published'
  <2>1. /\ place = "generate" /\ pass = "check"
        /\ UNCHANGED <<unit, layout, image>>
    BY <1>1 DEF Check, InPass, GenerateVars
  <2>2. /\ LaidOut /\ Linkable /\ Eligible /\ DOMAIN image = 0 .. Total - 1
        /\ Opened /\ Closed /\ \A q \in 0 .. len - 1 : Wrote(q)
        /\ \A x \in 0 .. Total - 1 : image[x] # Hole
    BY <2>1 DEF PlaceInv, WordsInv, MemoryInv
  <2>3. /\ LaidOut' /\ Total' = Total /\ Opening' = Opening /\ Linkable' /\ Eligible'
        /\ len' = len /\ FRAME' = FRAME /\ SCRUB' = SCRUB /\ Epilogue' = Epilogue
        /\ Hole' = Hole /\ \A q : Words(q)' = Words(q) /\ Size(q)' = Size(q)
    BY <2>1, <2>2, Steady, LayoutKept DEF Hole, A64
  <2>4. Opened' /\ Closed'
    BY <2>1, <2>2, <2>3 DEF Opened, Closed
  <2>5. \A q \in 0 .. len - 1 : Wrote(q)'
    BY <2>1, <2>2, <2>3 DEF Wrote
  <2> QED
    BY <2>1, <2>2, <2>3, <2>4, <2>5 DEF PublishedInv
<1>2. CASE ~published'
  BY <1>2 DEF PublishedInv
<1>3. CASE ~Check
  <2>1. published' = published /\ place # "done"
    BY <1>3 DEF CompileNext, NotOurs, Match, Ineligible, NoMemoryForContext, AllocContext,
                Admit, NotAdmitted, Generate, EmitPrologue, EmitInsn, EndBody, EmitEpilogue,
                LayoutFails, NoMemoryForImage, AllocImage, WriteDone, InPass
  <2> QED
    BY <2>1 DEF PublishedInv, MemoryInv
<1> QED
  BY <1>1, <1>2, <1>3

\* What is published, or at rest, stays as it is.
LEMMA Rests ==
    ASSUME ImageInv, UNCHANGED imageVars
    PROVE  ImageInv'
<1>1. UNCHANGED <<unit, place, pass, section, insn, index, words, layout, image,
                  failed, held, cbpf_gate, published>>
  BY DEF imageVars
<1>2. /\ Insns' = Insns /\ len' = len /\ UnitOK' = UnitOK /\ FRAME' = FRAME
      /\ SCRUB' = SCRUB /\ Epilogue' = Epilogue /\ Eligible' = Eligible
      /\ Linkable' = Linkable /\ HasCall' = HasCall /\ Entered' = Entered
      /\ LaidOut' = LaidOut /\ Total' = Total /\ Opening' = Opening
      /\ \A q : Op(q)' = Op(q) /\ Size(q)' = Size(q) /\ Words(q)' = Words(q)
      /\ REACH' = REACH
  BY <1>1, Steady, LayoutKept
<1>3. /\ LaidAll' = LaidAll /\ LaidKnown' = LaidKnown
  BY <1>1, <1>2 DEF LaidAll, LaidKnown, Known, Laid
<1>4. Opened' = Opened /\ Closed' = Closed /\ \A q : Wrote(q)' = Wrote(q)
  BY <1>1, <1>2 DEF Opened, Closed, Wrote
<1>5. NothingLeftBehind' = NothingLeftBehind
  BY <1>1, <1>2 DEF NothingLeftBehind
<1>6. Hole' = Hole /\ NoLayout' = NoLayout
  BY DEF Hole, NoLayout, A64
<1>7. MemoryInv' /\ UnlaidInv'
  BY <1>1, <1>2, <1>5, <1>6 DEF ImageInv, MemoryInv, UnlaidInv
<1>8. LayoutInv'
  BY <1>1, <1>2, <1>3, <1>6 DEF ImageInv, LayoutInv
<1>9. PlaceInv'
  BY <1>1, <1>2 DEF ImageInv, PlaceInv
<1>10. WordsInv' /\ PublishedInv'
  BY <1>1, <1>2, <1>4, <1>6 DEF ImageInv, WordsInv, PublishedInv
<1> QED
  BY <1>7, <1>8, <1>9, <1>10 DEF ImageInv

\* Only generate lays anything out.
LEMMA UnlaidStep ==
    ASSUME MemoryInv, UnlaidInv, CompileNext
    PROVE  UnlaidInv'
<1>1. CASE Match \/ AllocContext
  BY <1>1 DEF Match, AllocContext, UnlaidInv, GenerateVars
<1>2. CASE ~(Match \/ AllocContext)
  <2>1. place' \in {"generate", "done"}
    BY <1>2 DEF CompileNext, NotOurs, Match, Ineligible, NoMemoryForContext, AllocContext,
                Admit, NotAdmitted, Generate, EmitPrologue, EmitInsn, EndBody, EmitEpilogue,
                LayoutFails, NoMemoryForImage, AllocImage, WriteDone, Check, InPass, Leave
  <2> QED
    BY <2>1 DEF UnlaidInv
<1> QED
  BY <1>1, <1>2

\* At the start nothing is allocated, laid out or published.
LEMMA ImageInit == CompileInit => ImageInv
<1> SUFFICES ASSUME CompileInit PROVE ImageInv
  OBVIOUS
<1>1. MemoryInv
  BY DEF CompileInit, MemoryInv, UnitOK, NothingLeftBehind
<1>2. UnlaidInv /\ LayoutInv /\ PlaceInv /\ WordsInv /\ PublishedInv
  BY DEF CompileInit, UnlaidInv, LayoutInv, PlaceInv, WordsInv, PublishedInv
<1> QED
  BY <1>1, <1>2 DEF ImageInv

\* Whatever is allocated, laid out and written is as the invariant says, at
\* every step of the compiler.
THEOREM ImageInvariant == CompileSpec => []ImageInv
<1>1. CompileInit => ImageInv
  BY ImageInit
<1>2. ImageInv /\ [CompileNext]_imageVars => ImageInv'
  <2>1. ASSUME ImageInv, CompileNext PROVE ImageInv'
    BY <2>1, MemoryStep, UnlaidStep, LayoutStep, PassStep, PublishedStep DEF ImageInv
  <2>2. ASSUME ImageInv, UNCHANGED imageVars PROVE ImageInv'
    BY <2>2, Rests
  <2> QED
    BY <2>1, <2>2
<1> QED
  BY <1>1, <1>2, PTL DEF CompileSpec

\* However the compiler ends, the context is freed, and the image unless it is
\* published, and a program with a gate call is flagged (cbpf_jit.c:73, 440-444).
THEOREM CompilerNothingLeftBehind == CompileSpec => []NothingLeftBehind
<1>1. ImageInv => NothingLeftBehind
  BY DEF ImageInv, MemoryInv
<1> QED
  BY <1>1, ImageInvariant, PTL

\* A complete image that is laid out is linked.
LEMMA CompleteLinked ==
    ASSUME UnitOK, PublishedInv, published
    PROVE  Linked
<1>1. /\ Linkable /\ LaidOut /\ Eligible /\ DOMAIN image = 0 .. Total - 1
      /\ Opened /\ Closed /\ \A q \in 0 .. len - 1 : Wrote(q)
      /\ \A x \in 0 .. Total - 1 : image[x] # Hole
  BY DEF PublishedInv
<1> PICK b : b = layout.offset
  OBVIOUS
<1> PICK executive : executive = b[len] + 1
  OBVIOUS
<1>2. /\ FRAME \in 13 .. 15 /\ SCRUB \in Nat /\ len \in 1 .. MAX_INSNS
      /\ layout \in Layouts /\ b \in [0 .. MAX_INSNS -> Nat] /\ b[0] = FRAME + 43
      /\ \A p \in 0 .. len - 1 : b[p + 1] = b[p] + Size(p)
      /\ Total = b[len] + 1 + SCRUB /\ MAX_INSNS \in Nat
  BY <1>1, LaidFacts, Zenon
<1>3. /\ b[len] \in Nat /\ executive \in Nat /\ FRAME \in Nat /\ SCRUB \in Nat
      /\ Total = executive + SCRUB
  <2>1. b[len] \in Nat /\ FRAME \in Nat
    BY <1>2
  <2>2. Total = b[len] + 1 + SCRUB /\ SCRUB \in Nat
    BY <1>2, Zenon
  <2> QED
    BY <2>1, <2>2
<1>4. Begins(b)
  <2>1. Len(Prologue(0, NoLayout)) = FRAME + 43
    <3>1. Building /\ 0 \in Int
      BY UnitFacts
    <3> QED
      BY <3>1, PrologueWords, NoLayoutType
  <2>2. ASSUME NEW q \in 0 .. len - 1 PROVE Len(Body(q, 0, NoLayout)) = Size(q)
    <3>1. 0 \in Int
      OBVIOUS
    <3> QED
      BY <1>1, <3>1, BodyWords, NoLayoutType
  <2> QED
    BY <1>2, <2>1, <2>2 DEF Begins
<1>5. DOMAIN image = 0 .. executive + SCRUB - 1
  <2>1. Total - 1 = executive + SCRUB - 1
    BY <1>3
  <2> QED
    BY <1>1, <2>1
<1>6. ASSUME NEW q \in 0 .. len - 1
      PROVE  /\ Insns[q + 1].op = "JEQ" => Reaches(b[q], "cbz", b[TargetOf(q)])
             /\ Insns[q + 1].op = "EXIT" => Reaches(b[q], "b", b[len])
             /\ Insns[q + 1].op = "CALL" => image[b[q] + 1] = A64("movz", q)
  <2>1. /\ b[q] \in Nat /\ Size(q) \in 1 .. 5
        /\ Op(q) = "JEQ" => Words(q)[1] = A64("cbz", b[TargetOf(q)] - b[q])
        /\ Op(q) = "EXIT" => Words(q)[1] = A64("b", b[len] - b[q])
        /\ Op(q) = "CALL" => Words(q)[2] = A64("movz", q)
    BY <1>1, InsnWords, Zenon
  <2>2. /\ \A n \in 1 .. Size(q) : image[b[q] + n - 1] = Words(q)[n]
        /\ Op(q) = Insns[q + 1].op
    BY <1>1 DEF Wrote, Op
  <2>3. image[b[q]] = Words(q)[1]
    <3>1. 1 \in 1 .. Size(q) /\ b[q] + 1 - 1 = b[q]
      BY <2>1
    <3> QED
      BY <2>2, <3>1
  <2>4. CASE Op(q) = "JEQ"
    <3>1. b[TargetOf(q)] \in Nat
      <4>1. TargetOf(q) \in q + 1 .. len - 1
        BY <1>1, <2>4, UnitAdmitted
      <4>2. TargetOf(q) \in 0 .. MAX_INSNS /\ b \in [0 .. MAX_INSNS -> Nat]
        <5>1. /\ len \in 1 .. MAX_INSNS /\ MAX_INSNS \in Nat
              /\ b \in [0 .. MAX_INSNS -> Nat]
          BY <1>2
        <5> QED
          BY <4>1, <5>1, SMTT(30)
      <4> QED
        BY <4>2
    <3>2. image[b[q]] = A64("cbz", b[TargetOf(q)] - b[q])
      BY <2>1, <2>3, <2>4
    <3>3. b[q] + (b[TargetOf(q)] - b[q]) = b[TargetOf(q)]
      BY <2>1, <3>1
    <3> QED
      BY <2>2, <2>4, <3>2, <3>3 DEF Reaches, A64
  <2>5. CASE Op(q) = "EXIT"
    <3>1. image[b[q]] = A64("b", b[len] - b[q])
      BY <2>1, <2>3, <2>5
    <3>2. b[q] + (b[len] - b[q]) = b[len]
      BY <1>3, <2>1
    <3> QED
      BY <2>2, <2>5, <3>1, <3>2 DEF Reaches, A64
  <2>6. CASE Op(q) = "CALL"
    <3>1. Size(q) = 5 /\ 2 \in 1 .. 5 /\ b[q] + 2 - 1 = b[q] + 1
      BY <2>1, <2>6 DEF Size
    <3> QED
      BY <2>1, <2>2, <2>6, <3>1
  <2> QED
    BY <2>2, <2>4, <2>5, <2>6
<1>7. image[b[len]].name = "ret_clr"
  <2>1. Building
    BY UnitFacts
  <2>2. Epilogue[1] = A64("ret_clr", 0) /\ 1 \in 1 .. 1 + SCRUB /\ b[len] + 1 - 1 = b[len]
    BY <1>2, <1>3, <2>1, EpilogueWords
  <2>3. image[b[len]] = Epilogue[1]
    BY <1>1, <2>2 DEF Closed
  <2> QED
    BY <2>2, <2>3 DEF A64
<1>8. /\ Opening[FRAME + 1] = A64("adr", executive - FRAME)
      /\ Opening[FRAME + 2] = A64("movz", SCRUB * 4)
      /\ Opening[FRAME + 15] = A64("b", executive - (FRAME + 14))
  <2>1. /\ Opening[FRAME + 1] = A64("adr", b[len] + 1 - FRAME)
        /\ Opening[FRAME + 2] = A64("movz", SCRUB * 4)
        /\ Opening[FRAME + 15] = A64("b", b[len] + 1 - (FRAME + 14))
    BY <1>1, OpeningWords, Zenon
  <2>2. b[len] + 1 - FRAME = executive - FRAME /\ b[len] + 1 - (FRAME + 14) = executive - (FRAME + 14)
    BY <1>3
  <2> QED
    BY <2>1, <2>2
<1>9. /\ image[FRAME] = Opening[FRAME + 1] /\ image[FRAME + 1] = Opening[FRAME + 2]
      /\ image[FRAME + 14] = Opening[FRAME + 15]
  <2>1. /\ FRAME + 1 \in 1 .. FRAME + 43 /\ (FRAME + 1) - 1 = FRAME
        /\ FRAME + 2 \in 1 .. FRAME + 43 /\ (FRAME + 2) - 1 = FRAME + 1
        /\ FRAME + 15 \in 1 .. FRAME + 43 /\ (FRAME + 15) - 1 = FRAME + 14
    BY <1>2, SMTT(30)
  <2>2. \A n \in 1 .. FRAME + 43 : image[n - 1] = Opening[n]
    BY <1>1 DEF Opened
  <2> QED
    BY <2>1, <2>2
<1>10. /\ Reaches(FRAME, "adr", executive) /\ image[FRAME + 1].arg = 4 * SCRUB
       /\ Reaches(FRAME + 14, "b", executive)
  <2>1. /\ FRAME + (executive - FRAME) = executive
        /\ FRAME + 14 + (executive - (FRAME + 14)) = executive /\ SCRUB * 4 = 4 * SCRUB
    BY <1>3
  <2> QED
    BY <1>8, <1>9, <2>1 DEF Reaches, A64
<1>11. FRAME \in 0 .. b[0] - 1 /\ FRAME + 14 \in 0 .. b[0] - 1
  <2>1. FRAME \in 13 .. 15 /\ b[0] = FRAME + 43
    BY <1>2, Zenon
  <2> QED
    BY <2>1
<1>12. \A x \in DOMAIN image : image[x] # Hole
  BY <1>1
<1> QED
  BY <1>4, <1>5, <1>6, <1>7, <1>10, <1>11, <1>12 DEF Linked

\* The check at the end refuses nothing that the layout pass accepted, and a
\* published image is linked: every branch lands where the bytecode says
\* (cbpf_jit.c:392, 402-415).
THEOREM CompilerImageLinked == CompileSpec => []ImageLinked
<1>1. ImageInv => PassesAgree
  <2> SUFFICES ASSUME ImageInv, place = "generate", pass # "layout"
               PROVE  ~failed /\ index <= words
    BY DEF PassesAgree
  <2>1. /\ failed = FALSE /\ Linkable /\ LaidOut /\ words = Total /\ section \in Sections
        /\ section = "prologue" => index = 0
        /\ section = "body" => insn \in 0 .. len /\ index = layout.offset[insn]
        /\ section = "epilogue" => index = layout.offset[len]
        /\ section = "end" => index = Total
        /\ UnitOK /\ Eligible
    BY DEF ImageInv, PlaceInv, MemoryInv
  <2> PICK b : b = layout.offset
    OBVIOUS
  <2>2. /\ len \in 1 .. MAX_INSNS /\ b \in [0 .. MAX_INSNS -> Nat] /\ SCRUB \in Nat
        /\ \A p, r \in 0 .. len : p < r => b[p] < b[r]
        /\ Total = b[len] + 1 + SCRUB /\ Total \in Nat /\ MAX_INSNS \in Nat
    BY <2>1, LaidFacts, Zenon
  <2>3. b[len] \in Nat /\ b[len] <= Total
    BY <2>2
  <2>4. CASE section = "body"
    <3>1. insn \in 0 .. len /\ index = b[insn] /\ len \in 0 .. len
      BY <2>1, <2>2, <2>4
    <3>2. b[insn] <= b[len]
      <4>1. insn = len \/ insn < len
        BY <2>2, <3>1
      <4>2. insn < len => b[insn] < b[len]
        BY <2>2, <3>1, Zenon
      <4>3. b[insn] \in Nat
        BY <2>2, <3>1
      <4> QED
        BY <2>3, <4>1, <4>2, <4>3
    <3>3. b[insn] \in Nat
      BY <2>2, <3>1
    <3> QED
      BY <2>1, <2>2, <2>3, <3>1, <3>2, <3>3, SMTT(30)
  <2> QED
    BY <2>1, <2>2, <2>3, <2>4 DEF Sections
<1>2. ImageInv => (published => Linked)
  BY CompleteLinked DEF ImageInv, MemoryInv
<1>3. ImageInv => ImageLinked
  BY <1>1, <1>2 DEF ImageLinked
<1> QED
  BY <1>3, ImageInvariant, PTL

-----------------------------------------------------------------------------
(* The two together.                                                          *)

\* The unit's instructions are those of the program the pass looks at.
SameProgram ==
    unit.insns = [n \in 1 .. L |-> [op |-> prog[n - 1].op, off |-> prog[n - 1].off]]

\* What code generation takes for granted of an admitted program is what the
\* analysis makes sure of: the grammar, branches forward to an instruction, and
\* an exit at the end (cbpf_jit.c:116-187).
THEOREM JitAdmitsLinkable ==
    Spec => [](phase \in {"admitted", "run"} /\ SameProgram => Linkable)
<1>1. ASSUME IInv, phase \in {"admitted", "run"}, SameProgram
      PROVE  Linkable
  <2>1. /\ ProgInv /\ ~flow[L].reached /\ L \in 1 .. 64
        /\ \A q \in 0 .. L - 1 : WentBy(q)
    BY <1>1 DEF IInv, AdmittedInv, ProgInv
  <2>2. /\ Insns = [n \in 1 .. L |-> [op |-> prog[n - 1].op, off |-> prog[n - 1].off]]
        /\ len = L
    BY <1>1, <2>1 DEF SameProgram, Insns, len
  <2>3. ASSUME NEW q \in 0 .. L - 1
        PROVE  /\ prog[q].op \in Grammar /\ prog[q].off \in Int
               /\ prog[q].op = "JEQ" => 0 < prog[q].off /\ Target(prog[q], q) < L
    <3>1. PICK count \in Nat : Admissible(prog[q], flow[q], q, L, count)
      BY <2>1 DEF WentBy
    <3>2. /\ prog[q].op \in Grammar
          /\ prog[q].op = "JEQ" => ForwardBranch(prog[q], q, L)
      BY <3>1, AdmissibleFacts, Zenon DEF Grammar
    <3>3. prog[q].off \in Int
      BY <2>1 DEF ProgInv, Insn
    <3> QED
      BY <3>2, <3>3 DEF ForwardBranch
  <2>4. ASSUME NEW q \in 0 .. len - 1
        PROVE  /\ Insns[q + 1].op \in Grammar
               /\ Insns[q + 1].op = "JEQ" => q < TargetOf(q) /\ TargetOf(q) < len
    <3>1. /\ q \in 0 .. L - 1 /\ q + 1 \in 1 .. L /\ (q + 1) - 1 = q
      BY <2>1, <2>2
    <3>2. Insns[q + 1].op = prog[q].op /\ Insns[q + 1].off = prog[q].off
      BY <2>2, <3>1
    <3>3. /\ prog[q].op \in Grammar /\ prog[q].off \in Int
          /\ prog[q].op = "JEQ" => 0 < prog[q].off /\ q + 1 + prog[q].off < L
      BY <2>3, <3>1, Zenon DEF Target
    <3>4. TargetOf(q) = q + 1 + prog[q].off
      BY <3>2 DEF TargetOf
    <3> PICK f : f = prog[q].off
      OBVIOUS
    <3>5. q \in Nat /\ f \in Int /\ TargetOf(q) = q + 1 + f
          /\ (0 < f => q < q + 1 + f)
      BY <3>1, <3>3, <3>4
    <3> QED
      BY <2>2, <3>2, <3>3, <3>5
  <2>5. Insns[len].op = "EXIT"
    <3> DEFINE last == L - 1
    <3>1. last \in 0 .. L - 1 /\ last + 1 = L /\ L \in 1 .. L /\ Insns[L].op = prog[last].op
      BY <2>1, <2>2
    <3>2. ~FallsThrough(prog[last], flow[last])
      <4>1. FallsThrough(prog[last], flow[last]) => Below(After(prog[last], flow[last]), flow[L])
        BY <2>1, <3>1 DEF WentBy
      <4> QED
        BY <2>1, <4>1 DEF Below
    <3>3. prog[last].op # "JEQ"
      <4>1. prog[last].op = "JEQ" => 0 < prog[last].off /\ L + prog[last].off < L
                                     /\ prog[last].off \in Int
        BY <2>3, <3>1 DEF Target
      <4> QED
        BY <2>1, <4>1
    <3> QED
      BY <2>2, <3>1, <3>2, <3>3 DEF FallsThrough
  <2> QED
    BY <2>4, <2>5 DEF Linkable
<1> QED
  BY <1>1, JitInit, JitStep, PTL DEF Spec

-----------------------------------------------------------------------------
(* The loader (guest.c).  Its programs are fixed: the pass and the run are    *)
(* followed instruction by instruction, and what is noted of an instruction   *)
(* is what a later one of its path uses.                                      *)

\* The number of instructions of a fixture.
Span(t) == IF t = 1 THEN 27 ELSE 26

\* What facts s say of every register that a path from instruction q still
\* reads, in program and in the fixtures that are made from it.
ProgramBelief(q, s) ==
    /\ q = 1 => s.reg[1] = {"ZERO"}
    /\ q \in {2, 7} => s.reg[0] = {"HANDLE", "ZERO"}
    /\ q \in {3, 8} => s.reg[0] = {"HANDLE"}
    /\ q \in 4 .. 12 => s.reg[6] = {"HANDLE"}
    /\ q \in (5 .. 12) \cup {19} => s.spill = {"HANDLE"}
    /\ q = 6 => scalar(s.reg[1])
    /\ q \in 9 .. 15 => s.reg[7] = {"HANDLE"}
    /\ q \in {10, 20} => s.reg[8] = {"HANDLE"}
    /\ q \in {11, 13, 16, 21} => s.reg[1] = {"HANDLE"}
    /\ q \in {14, 18, 23, 25} => scalar(s.reg[0])
    /\ q \in 15 .. 17 => scalar(s.reg[9])

\* The same for alternate, which has other registers and another exit.
AlternateBelief(q, s) ==
    /\ q = 1 => s.reg[1] = {"ZERO"}
    /\ q \in {2, 7} => s.reg[0] = {"HANDLE", "ZERO"}
    /\ q = 3 => s.reg[8] = {"HANDLE", "ZERO"}
    /\ q = 4 => s.reg[8] = {"HANDLE"}
    /\ q \in (5 .. 9) \cup {20} => s.spill = {"HANDLE"}
    /\ q = 6 => s.reg[1] = {"ZERO"}
    /\ q = 8 => s.reg[6] = {"HANDLE", "ZERO"}
    /\ q \in 9 .. 15 => s.reg[6] = {"HANDLE"}
    /\ q \in {10, 21} => s.reg[7] = {"HANDLE"}
    /\ q \in {11, 13, 16, 22} => s.reg[1] = {"HANDLE"}
    /\ q \in {14, 19, 24, 26} => scalar(s.reg[0])
    /\ q \in 15 .. 17 => scalar(s.reg[9])
    /\ q = 18 => scalar(s.reg[8])

Belief(t, q, s) == IF t = 1 THEN AlternateBelief(q, s) ELSE ProgramBelief(q, s)

\* Where a NULL branch stands, and where it leads.
NullBranch(t) == IF t = 1 THEN {3, 8} ELSE {2, 7}
NullTarget(t, q) == IF t = 1 THEN IF q = 3 THEN 25 ELSE 20
                    ELSE IF q = 2 THEN 24 ELSE 19
\* The exits of a fixture, and the acquiring calls before instruction q.
Exits(t) == IF t = 1 THEN {19, 24, 26} ELSE {18, 23, 25}

CallsMet(q) == (IF 1 < q THEN 1 ELSE 0) + (IF 6 < q THEN 1 ELSE 0)

\* Instruction i is admitted whatever stands around it, and only falls through.
Straight(i, s) ==
    /\ \A at, size, count : Admissible(i, s, at, size, count)
    /\ FallsThrough(i, s) /\ ~Branches(i, s)
    /\ call_operation(i) # AcquireOp

\* Facts t are facts s but for register d, of the kinds k.
Puts(s, t, d, k) ==
    /\ t \in Facts /\ t.reached = s.reached /\ t.spill = s.spill
    /\ \A r \in Reg : t.reg[r] = IF r = d THEN k ELSE s.reg[r]

\* Facts with other facts of one register.
LEMMA PutIs ==
    ASSUME NEW s \in Facts, NEW d \in Reg, NEW k \in SUBSET Kind,
           NEW t, t = [s EXCEPT !.reg[d] = k]
    PROVE  Puts(s, t, d, k)
BY PutFacts, SMTT(30) DEF Puts

\* Where each instruction takes the facts: a constant,
LEMMA ImmTurn ==
    ASSUME NEW s \in Facts, NEW d \in Reg, NEW v
    PROVE  /\ Straight(IMM(d, v), s)
           /\ Puts(s, After(IMM(d, v), s), d, IF v = 0 THEN {"ZERO"} ELSE {"SCALAR"})
<1> DEFINE i == IMM(d, v)
<1>1. i.op = "MOV_K" /\ i.dst = d /\ i.src = 0 /\ i.off = 0 /\ i.imm = v
  BY DEF IMM, Fields
<1> HIDE DEF i
<1>2. Straight(i, s)
  BY <1>1 DEF Straight, Admissible, FallsThrough, Branches, call_operation, AcquireOp
<1>3. PICK k \in SUBSET Kind : k = IF v = 0 THEN {"ZERO"} ELSE {"SCALAR"}
  BY DEF Kind
<1>4. After(i, s) = [s EXCEPT !.reg[d] = k]
  BY <1>1, <1>3, AfterCases
<1>5. Puts(s, After(i, s), d, k)
  BY <1>4, PutIs
<1> QED
  BY <1>2, <1>3, <1>5, Zenon DEF i

\* a copy,
LEMMA CopyTurn ==
    ASSUME NEW s \in Facts, NEW d \in Reg, NEW f \in Reg, defined(s.reg[f])
    PROVE  Straight(COPY(d, f), s) /\ Puts(s, After(COPY(d, f), s), d, s.reg[f])
<1> DEFINE i == COPY(d, f)
<1>1. i.op = "MOV_X" /\ i.dst = d /\ i.src = f /\ i.off = 0 /\ i.imm = 0
  BY DEF COPY, Fields
<1> HIDE DEF i
<1>2. Straight(i, s)
  BY <1>1 DEF Straight, Admissible, FallsThrough, Branches, call_operation, AcquireOp
<1>3. PICK k \in SUBSET Kind : k = s.reg[f]
  BY DEF Facts
<1>4. After(i, s) = [s EXCEPT !.reg[d] = k]
  BY <1>1, <1>3, AfterCases
<1>5. Puts(s, After(i, s), d, k)
  BY <1>4, PutIs
<1>6. Puts(s, After(i, s), d, s.reg[f])
  BY <1>3, <1>5
<1> QED
  BY <1>2, <1>6, Zenon DEF i

\* a reload,
LEMMA LoadTurn ==
    ASSUME NEW s \in Facts, NEW d \in Reg, defined(s.spill)
    PROVE  Straight(LOAD(d), s) /\ Puts(s, After(LOAD(d), s), d, s.spill)
<1> DEFINE i == LOAD(d)
<1>1. i.op = "LDX" /\ i.dst = d /\ i.src = FramePointer /\ i.off = -8 /\ i.imm = 0
  BY DEF LOAD, Fields
<1> HIDE DEF i
<1>2. Straight(i, s)
  BY <1>1 DEF Straight, Admissible, FallsThrough, Branches, call_operation, AcquireOp
<1>3. PICK k \in SUBSET Kind : k = s.spill
  BY DEF Facts
<1>4. After(i, s) = [s EXCEPT !.reg[d] = k]
  BY <1>1, <1>3, AfterCases
<1>5. Puts(s, After(i, s), d, k)
  BY <1>4, PutIs
<1>6. Puts(s, After(i, s), d, s.spill)
  BY <1>3, <1>5
<1> QED
  BY <1>2, <1>6, Zenon DEF i

\* a spill,
LEMMA StoreTurn ==
    ASSUME NEW s \in Facts, NEW f \in Reg, defined(s.reg[f])
    PROVE  /\ Straight(STORE(f), s)
           /\ After(STORE(f), s) \in Facts /\ After(STORE(f), s).reached = s.reached
           /\ After(STORE(f), s).spill = s.reg[f]
           /\ \A r \in Reg : After(STORE(f), s).reg[r] = s.reg[r]
<1> DEFINE i == STORE(f)
<1>1. i.op = "STX" /\ i.dst = FramePointer /\ i.src = f /\ i.off = -8 /\ i.imm = 0
  BY DEF STORE, Fields
<1> HIDE DEF i
<1>2. Straight(i, s)
  BY <1>1 DEF Straight, Admissible, FallsThrough, Branches, call_operation, AcquireOp
<1>3. PICK k \in SUBSET Kind : k = s.reg[f]
  BY DEF Facts
<1>4. After(i, s) = [s EXCEPT !.spill = k]
  BY <1>1, <1>3, AfterCases
<1>5. /\ [s EXCEPT !.spill = k] \in Facts /\ [s EXCEPT !.spill = k].reached = s.reached
      /\ [s EXCEPT !.spill = k].spill = k /\ [s EXCEPT !.spill = k].reg = s.reg
  BY <1>3 DEF Facts
<1> QED
  BY <1>2, <1>3, <1>4, <1>5 DEF i

\* a call that uses a handle,
LEMMA UseTurn ==
    ASSUME NEW s \in Facts, NEW k \in {ReadOp, ReleaseOp}, s.reg[1] = {"HANDLE"}
    PROVE  /\ Straight(CALL(k), s)
           /\ After(CALL(k), s) \in Facts /\ After(CALL(k), s).reached = s.reached
           /\ After(CALL(k), s).spill = s.spill
           /\ scalar(After(CALL(k), s).reg[0])
           /\ \A r \in 6 .. 9 : After(CALL(k), s).reg[r] = s.reg[r]
<1> DEFINE i == CALL(k)
<1>1. i.op = "CALL" /\ call_operation(i) = k
  BY DEF CALL, Fields, call_operation, AcquireOp, ReadOp, ReleaseOp
<1> HIDE DEF i
<1>2. Straight(i, s)
  BY <1>1 DEF Straight, Admissible, FallsThrough, Branches, HandleArgument,
              AcquireOp, ReadOp, ReleaseOp
<1>3. scalar(CallResult(k))
  BY DEF CallResult, scalar, AcquireOp, ReadOp, ReleaseOp
<1>4. After(i, s) = AfterCall(i, s) /\ 6 .. 9 \subseteq Reg /\ 0 \in Reg
      /\ \A r \in 6 .. 9 : r # 0 /\ r \notin 1 .. 5
  BY <1>1, AfterCases DEF Reg
<1> QED
  BY <1>1, <1>2, <1>3, <1>4, AfterCallFacts DEF i

\* a call that makes one,
LEMMA AcquireTurn ==
    ASSUME NEW s \in Facts, scalar(s.reg[1]), NEW count \in {0, 1}
    PROVE  /\ \A at, size : Admissible(CALL(AcquireOp), s, at, size, count)
           /\ FallsThrough(CALL(AcquireOp), s) /\ ~Branches(CALL(AcquireOp), s)
           /\ call_operation(CALL(AcquireOp)) = AcquireOp
           /\ After(CALL(AcquireOp), s) \in Facts
           /\ After(CALL(AcquireOp), s).reached = s.reached
           /\ After(CALL(AcquireOp), s).spill = s.spill
           /\ After(CALL(AcquireOp), s).reg[0] = {"HANDLE", "ZERO"}
           /\ \A r \in 6 .. 9 : After(CALL(AcquireOp), s).reg[r] = s.reg[r]
<1> DEFINE i == CALL(AcquireOp)
<1>1. i.op = "CALL" /\ call_operation(i) = AcquireOp
  BY DEF CALL, Fields, call_operation, AcquireOp
<1> HIDE DEF i
<1>2. (\A at, size : Admissible(i, s, at, size, count))
      /\ FallsThrough(i, s) /\ ~Branches(i, s)
  BY <1>1 DEF Admissible, FallsThrough, Branches, AcquisitionFits
<1>3. CallResult(AcquireOp) = {"HANDLE", "ZERO"}
  BY DEF CallResult
<1>4. After(i, s) = AfterCall(i, s) /\ 6 .. 9 \subseteq Reg /\ 0 \in Reg
      /\ \A r \in 6 .. 9 : r # 0 /\ r \notin 1 .. 5
  BY <1>1, AfterCases DEF Reg
<1> QED
  BY <1>1, <1>2, <1>3, <1>4, AfterCallFacts DEF i

\* the branch on one that may be NULL,
LEMMA NullTurn ==
    ASSUME NEW s \in Facts, NEW d \in Reg, s.reg[d] = {"HANDLE", "ZERO"},
           NEW f \in Nat \ {0}, NEW at \in Nat, NEW size \in Nat, at + 1 + f < size
    PROVE  LET i == IFZERO(d, f)
           IN  /\ \A count : Admissible(i, s, at, size, count)
               /\ FallsThrough(i, s) /\ Branches(i, s) /\ Target(i, at) = at + 1 + f
               /\ call_operation(i) # AcquireOp
               /\ Puts(s, After(i, s), d, {"HANDLE"})
               /\ Puts(s, Taken(i, s), d, {"ZERO"})
<1> DEFINE i == IFZERO(d, f)
<1>1. i.op = "JEQ" /\ i.dst = d /\ i.src = 0 /\ i.off = f /\ i.imm = 0
  BY DEF IFZERO, Fields
<1> HIDE DEF i
<1>2. After(i, s) = [s EXCEPT !.reg[d] = {"HANDLE"}]
      /\ Taken(i, s) = [s EXCEPT !.reg[d] = {"ZERO"}]
  <2>1. s.reg[d] \ {"ZERO"} = {"HANDLE"}
    OBVIOUS
  <2>2. After(i, s) = [s EXCEPT !.reg[d] = @ \ {"ZERO"}]
    BY <1>1, AfterCases
  <2>3. After(i, s) = [s EXCEPT !.reg[d] = {"HANDLE"}]
    BY <2>1, <2>2
  <2> QED BY <1>1, <2>3 DEF Taken
<1>3. {"HANDLE"} \in SUBSET Kind /\ {"ZERO"} \in SUBSET Kind
  BY DEF Kind
<1>4. Puts(s, After(i, s), d, {"HANDLE"}) /\ Puts(s, Taken(i, s), d, {"ZERO"})
  BY <1>2, <1>3, PutIs
<1>5. FallsThrough(i, s) /\ Branches(i, s) /\ Target(i, at) = at + 1 + f
      /\ call_operation(i) # AcquireOp
  BY <1>1, <1>4 DEF FallsThrough, Branches, Target, call_operation, AcquireOp, Puts
<1>6. \A count : Admissible(i, s, at, size, count)
  BY <1>1 DEF Admissible, ForwardBranch, defined, Target
<1> QED
  BY <1>4, <1>5, <1>6, Zenon DEF i

\* and an exit.
LEMMA ExitTurn ==
    ASSUME NEW s \in Facts, scalar(s.reg[0])
    PROVE  /\ \A at, size, count : Admissible(EXIT, s, at, size, count)
           /\ ~FallsThrough(EXIT, s) /\ ~Branches(EXIT, s)
           /\ call_operation(EXIT) # AcquireOp /\ EXIT.op = "EXIT"
<1> PICK i : i = EXIT
  OBVIOUS
<1>1. i.op = "EXIT" /\ i.dst = 0 /\ i.src = 0 /\ i.off = 0 /\ i.imm = 0
  BY DEF EXIT, Fields
<1> QED
  BY <1>1 DEF Admissible, FallsThrough, Branches, call_operation, AcquireOp

\* The program, and
LEMMA ProgramText ==
    /\ DOMAIN program = 0 .. 25
    /\ program[0] = IMM(1, 0) /\ program[1] = CALL(AcquireOp)
    /\ program[2] = IFZERO(0, 21)
    /\ program[3] = COPY(6, 0) /\ program[4] = STORE(6)
    /\ program[5] = IMM(1, 0) /\ program[6] = CALL(AcquireOp)
    /\ program[7] = IFZERO(0, 11)
    /\ program[8] = COPY(7, 0) /\ program[9] = LOAD(8)
    /\ program[10] = COPY(1, 8) /\ program[11] = CALL(ReleaseOp)
    /\ program[12] = COPY(1, 7) /\ program[13] = CALL(ReadOp)
    /\ program[14] = COPY(9, 0)
    /\ program[15] = COPY(1, 7) /\ program[16] = CALL(ReleaseOp)
    /\ program[17] = COPY(0, 9) /\ program[18] = EXIT
    /\ program[19] = LOAD(8) /\ program[20] = COPY(1, 8)
    /\ program[21] = CALL(ReleaseOp)
    /\ program[22] = IMM(0, 7) /\ program[23] = EXIT
    /\ program[24] = IMM(0, 0) /\ program[25] = EXIT
<1>1. DOMAIN program = 0 .. 25
  BY SMTT(60) DEF program, Code, NULL_TO, RELOAD
<1>2. /\ program[0] = IMM(1, 0) /\ program[1] = CALL(AcquireOp)
      /\ program[2] = IFZERO(0, 21)
      /\ program[3] = COPY(6, 0) /\ program[4] = STORE(6)
      /\ program[5] = IMM(1, 0) /\ program[6] = CALL(AcquireOp)
      /\ program[7] = IFZERO(0, 11)
  BY SMTT(60) DEF program, Code, NULL_TO, RELOAD
<1>3. /\ program[8] = COPY(7, 0) /\ program[9] = LOAD(8)
      /\ program[10] = COPY(1, 8) /\ program[11] = CALL(ReleaseOp)
      /\ program[12] = COPY(1, 7) /\ program[13] = CALL(ReadOp)
      /\ program[14] = COPY(9, 0)
      /\ program[15] = COPY(1, 7) /\ program[16] = CALL(ReleaseOp)
      /\ program[17] = COPY(0, 9) /\ program[18] = EXIT
  BY SMTT(60) DEF program, Code, NULL_TO, RELOAD
<1>4. /\ program[19] = LOAD(8) /\ program[20] = COPY(1, 8)
      /\ program[21] = CALL(ReleaseOp)
      /\ program[22] = IMM(0, 7) /\ program[23] = EXIT
      /\ program[24] = IMM(0, 0) /\ program[25] = EXIT
  BY SMTT(60) DEF program, Code, NULL_TO, RELOAD
<1> QED
  BY <1>1, <1>2, <1>3, <1>4

\* the one with other registers;
LEMMA AlternateText ==
    /\ DOMAIN alternate = 0 .. 26
    /\ alternate[0] = IMM(1, 0) /\ alternate[1] = CALL(AcquireOp)
    /\ alternate[2] = COPY(8, 0) /\ alternate[3] = IFZERO(8, 21)
    /\ alternate[4] = STORE(8)
    /\ alternate[5] = IMM(1, 0) /\ alternate[6] = CALL(AcquireOp)
    /\ alternate[7] = COPY(6, 0) /\ alternate[8] = IFZERO(6, 11)
    /\ alternate[9] = LOAD(7) /\ alternate[10] = COPY(1, 7)
    /\ alternate[11] = CALL(ReleaseOp)
    /\ alternate[12] = COPY(1, 6) /\ alternate[13] = CALL(ReadOp)
    /\ alternate[14] = COPY(9, 0)
    /\ alternate[15] = COPY(1, 6) /\ alternate[16] = CALL(ReleaseOp)
    /\ alternate[17] = COPY(8, 9) /\ alternate[18] = COPY(0, 8)
    /\ alternate[19] = EXIT
    /\ alternate[20] = LOAD(7) /\ alternate[21] = COPY(1, 7)
    /\ alternate[22] = CALL(ReleaseOp)
    /\ alternate[23] = IMM(0, 9) /\ alternate[24] = EXIT
    /\ alternate[25] = IMM(0, 0) /\ alternate[26] = EXIT
<1>1. DOMAIN alternate = 0 .. 26
  BY SMTT(60) DEF alternate, Code
<1>2. /\ alternate[0] = IMM(1, 0) /\ alternate[1] = CALL(AcquireOp)
      /\ alternate[2] = COPY(8, 0) /\ alternate[3] = IFZERO(8, 21)
      /\ alternate[4] = STORE(8)
      /\ alternate[5] = IMM(1, 0) /\ alternate[6] = CALL(AcquireOp)
      /\ alternate[7] = COPY(6, 0) /\ alternate[8] = IFZERO(6, 11)
  BY SMTT(60) DEF alternate, Code
<1>3. /\ alternate[9] = LOAD(7) /\ alternate[10] = COPY(1, 7)
      /\ alternate[11] = CALL(ReleaseOp)
      /\ alternate[12] = COPY(1, 6) /\ alternate[13] = CALL(ReadOp)
      /\ alternate[14] = COPY(9, 0)
      /\ alternate[15] = COPY(1, 6) /\ alternate[16] = CALL(ReleaseOp)
      /\ alternate[17] = COPY(8, 9) /\ alternate[18] = COPY(0, 8)
  BY SMTT(60) DEF alternate, Code
<1>4. /\ alternate[19] = EXIT
      /\ alternate[20] = LOAD(7) /\ alternate[21] = COPY(1, 7)
      /\ alternate[22] = CALL(ReleaseOp)
      /\ alternate[23] = IMM(0, 9) /\ alternate[24] = EXIT
      /\ alternate[25] = IMM(0, 0) /\ alternate[26] = EXIT
  BY SMTT(60) DEF alternate, Code
<1> QED
  BY <1>1, <1>2, <1>3, <1>4

\* The instructions of program and of what is made from it.
SameText(t, p) ==
    /\ \A q \in (0 .. 25) \ {5, 12, 13} : p[q] = program[q]
    /\ p[5] = IMM(1, IF t \in {2, 3} THEN t - 1 ELSE 0)
    /\ p[12] \in {COPY(1, 7), COPY(1, 6), LOAD(1)} /\ (t < 4 => p[12] = COPY(1, 7))
    /\ p[13] \in {CALL(ReadOp), CALL(ReleaseOp)} /\ (t < 4 => p[13] = CALL(ReadOp))

\* five fixtures are made from program.
LEMMA FixtureText ==
    ASSUME NEW t \in Case \ {1}
    PROVE  DOMAIN Selected(t) = 0 .. 25 /\ SameText(t, Selected(t))
<1> PICK p : p = program
  OBVIOUS
<1>1. DOMAIN p = 0 .. 25 /\ p[5] = IMM(1, 0) /\ p[12] = COPY(1, 7) /\ p[13] = CALL(ReadOp)
  BY ProgramText
<1>2. p = [q \in 0 .. 25 |-> p[q]]
  BY ProgramText DEF program, Code
<1>3. CASE t = 0
  <2>1. Selected(t) = p
    BY <1>3 DEF Selected
  <2> QED BY <1>1, <1>3, <2>1 DEF SameText
<1>4. CASE t = 2
  <2>1. Selected(t) = [p EXCEPT ![5] = IMM(1, 1)]
    BY <1>4 DEF Selected
  <2> QED BY <1>1, <1>4, <2>1 DEF SameText
<1>5. CASE t = 3
  <2>1. Selected(t) = [p EXCEPT ![5] = IMM(1, 2)]
    BY <1>5 DEF Selected
  <2> QED BY <1>1, <1>5, <2>1 DEF SameText
<1>6. CASE t = 4
  <2>1. Selected(t) = [p EXCEPT ![12] = COPY(1, 6)]
    BY <1>6 DEF Selected
  <2> QED BY <1>1, <1>6, <2>1 DEF SameText
<1>7. CASE t = 5
  <2>1. Selected(t) = [p EXCEPT ![12] = LOAD(1)]
    BY <1>7 DEF Selected
  <2> QED BY <1>1, <1>7, <2>1 DEF SameText
<1>8. CASE t = 6
  <2>1. Selected(t) = [p EXCEPT ![12] = COPY(1, 6), ![13] = CALL(ReleaseOp)]
    BY <1>8 DEF Selected
  <2> QED BY <1>1, <1>8, <2>1 DEF SameText
<1> QED
  BY <1>3, <1>4, <1>5, <1>6, <1>7, <1>8 DEF Case

\* How long a fixture is.
LEMMA SelectedLength ==
    ASSUME NEW t \in Case
    PROVE  DOMAIN Selected(t) = 0 .. Span(t) - 1 /\ Length(Selected(t)) = Span(t)
<1>1. DOMAIN Selected(t) = 0 .. Span(t) - 1
  <2>1. CASE t = 1
    BY <2>1, AlternateText DEF Selected, Span
  <2>2. CASE t # 1
    BY <2>2, FixtureText DEF Span
  <2> QED BY <2>1, <2>2
<1>2. Cardinality(0 .. Span(t) - 1) = Span(t)
  BY FS_Interval DEF Span
<1> QED
  BY <1>1, <1>2 DEF Length

\* The pass takes the facts s on past instruction i, at q in fixture t: it is
\* admitted, and what it passes to each successor is believed there.
Onward(t, q, i, s) ==
    /\ Admissible(i, s, q, Span(t), CallsMet(q))
    /\ q \in Exits(t) \/ FallsThrough(i, s)
    /\ FallsThrough(i, s) =>
          /\ q + 1 < Span(t) /\ After(i, s) \in Facts /\ After(i, s).reached
          /\ Belief(t, q + 1, After(i, s))
    /\ Branches(i, s) <=> q \in NullBranch(t)
    /\ q \in NullBranch(t) =>
          /\ Target(i, q) = NullTarget(t, q)
          /\ Taken(i, s) \in Facts /\ Taken(i, s).reached
          /\ Belief(t, NullTarget(t, q), Taken(i, s))
    /\ call_operation(i) = AcquireOp <=> q \in {1, 6}
    /\ q \in Exits(t) => i.op = "EXIT"

\* An instruction of fixture t that the pass treats alone.
PlainAt(t, q) == q \in 0 .. Span(t) - 2 /\ q \notin Exits(t) \cup NullBranch(t) \cup {1, 6}

\* Most instructions are no NULL branch, acquisition or exit,
LEMMA StraightOnward ==
    ASSUME NEW t \in Case, NEW q, PlainAt(t, q), NEW i, NEW s, Straight(i, s),
           After(i, s) \in Facts, After(i, s).reached, Belief(t, q + 1, After(i, s))
    PROVE  Onward(t, q, i, s)
BY DEF Onward, Straight, PlainAt, Span

\* and exits end a path.
LEMMA ExitOnward ==
    ASSUME NEW t \in Case, NEW q \in Exits(t), NEW s \in Facts, scalar(s.reg[0])
    PROVE  Onward(t, q, EXIT, s)
<1>1. q \notin NullBranch(t) /\ q \notin {1, 6}
  BY DEF Exits, NullBranch
<1> QED
  BY <1>1, ExitTurn DEF Onward

\* The pass, at each instruction of program and what is made from it, and
LEMMA ProgramOnward ==
    ASSUME NEW t \in Case, t # 1, NEW q \in 0 .. 25, NEW s \in Facts, s.reached,
           ProgramBelief(q, s)
    PROVE  Onward(t, q, Selected(t)[q], s)
<1> DEFINE i == Selected(t)[q]
           a == After(i, s)
<1> SUFFICES Onward(t, q, i, s)
  OBVIOUS
<1>1. 0 \in Reg /\ 1 \in Reg /\ 6 \in Reg /\ 7 \in Reg /\ 8 \in Reg /\ 9 \in Reg
  BY DEF Reg
<1>2. /\ defined({"HANDLE"}) /\ defined({"HANDLE", "ZERO"})
      /\ scalar({"ZERO"}) /\ scalar({"SCALAR"}) /\ \A k : scalar(k) => defined(k)
  BY DEF defined, scalar
<1>3. /\ q \notin {5, 12, 13} => i = program[q]
      /\ q = 5 => \E v : i = IMM(1, v)
      /\ q = 12 => i \in {COPY(1, 7), COPY(1, 6), LOAD(1)}
      /\ q = 13 => i \in {CALL(ReadOp), CALL(ReleaseOp)}
  BY FixtureText DEF SameText
<1>4. ASSUME PlainAt(t, q), Straight(i, s), a \in Facts, a.reached, ProgramBelief(q + 1, a)
      PROVE  Onward(t, q, i, s)
  BY <1>4, StraightOnward DEF Belief
<1> HIDE DEF i, a
<1>5. CASE q = 0
  <2>1. i = IMM(1, 0)
    BY <1>3, <1>5, ProgramText
  <2>2. Straight(i, s) /\ Puts(s, a, 1, {"ZERO"})
    BY <1>1, <2>1, ImmTurn DEF a
  <2>3. PlainAt(t, q)
    BY <1>5 DEF PlainAt, Span, Exits, NullBranch
  <2>4. a \in Facts /\ a.reached /\ ProgramBelief(q + 1, a)
    BY <1>1, <1>2, <1>5, <2>2 DEF Puts, ProgramBelief
  <2> QED BY <1>4, <2>2, <2>3, <2>4
<1>6. CASE q = 5
  <2>1. PICK v : i = IMM(1, v)
    BY <1>3, <1>6
  <2>2. Straight(i, s) /\ Puts(s, a, 1, IF v = 0 THEN {"ZERO"} ELSE {"SCALAR"})
    BY <1>1, <2>1, ImmTurn DEF a
  <2>3. PlainAt(t, q)
    BY <1>6 DEF PlainAt, Span, Exits, NullBranch
  <2>4. a \in Facts /\ a.reached /\ ProgramBelief(q + 1, a)
    BY <1>1, <1>2, <1>6, <2>2 DEF Puts, ProgramBelief
  <2> QED BY <1>4, <2>2, <2>3, <2>4
<1>7. CASE q = 22
  <2>1. i = IMM(0, 7)
    BY <1>3, <1>7, ProgramText
  <2>2. Straight(i, s) /\ Puts(s, a, 0, {"SCALAR"})
    BY <1>1, <2>1, ImmTurn DEF a
  <2>3. PlainAt(t, q)
    BY <1>7 DEF PlainAt, Span, Exits, NullBranch
  <2>4. a \in Facts /\ a.reached /\ ProgramBelief(q + 1, a)
    BY <1>1, <1>2, <1>7, <2>2 DEF Puts, ProgramBelief
  <2> QED BY <1>4, <2>2, <2>3, <2>4
<1>8. CASE q = 24
  <2>1. i = IMM(0, 0)
    BY <1>3, <1>8, ProgramText
  <2>2. Straight(i, s) /\ Puts(s, a, 0, {"ZERO"})
    BY <1>1, <2>1, ImmTurn DEF a
  <2>3. PlainAt(t, q)
    BY <1>8 DEF PlainAt, Span, Exits, NullBranch
  <2>4. a \in Facts /\ a.reached /\ ProgramBelief(q + 1, a)
    BY <1>1, <1>2, <1>8, <2>2 DEF Puts, ProgramBelief
  <2> QED BY <1>4, <2>2, <2>3, <2>4
<1>9. CASE q = 3
  <2>1. i = COPY(6, 0) /\ defined(s.reg[0])
    BY <1>2, <1>3, <1>9, ProgramText, SMTT(30) DEF ProgramBelief
  <2>2. Straight(i, s) /\ Puts(s, a, 6, s.reg[0])
    BY <1>1, <2>1, CopyTurn DEF a
  <2>3. PlainAt(t, q)
    BY <1>9 DEF PlainAt, Span, Exits, NullBranch
  <2>4. a \in Facts /\ a.reached /\ ProgramBelief(q + 1, a)
    BY <1>1, <1>9, <2>2 DEF Puts, ProgramBelief
  <2> QED BY <1>4, <2>2, <2>3, <2>4
<1>10. CASE q = 4
  <2>1. i = STORE(6) /\ defined(s.reg[6])
    BY <1>2, <1>3, <1>10, ProgramText, SMTT(30) DEF ProgramBelief
  <2>2. /\ Straight(i, s) /\ a \in Facts /\ a.reached /\ a.spill = s.reg[6]
        /\ \A r \in Reg : a.reg[r] = s.reg[r]
    BY <1>1, <2>1, StoreTurn DEF a
  <2>3. PlainAt(t, q)
    BY <1>10 DEF PlainAt, Span, Exits, NullBranch
  <2>4. ProgramBelief(q + 1, a)
    BY <1>1, <1>10, <2>2 DEF ProgramBelief
  <2> QED BY <1>4, <2>2, <2>3, <2>4
<1>11. CASE q = 8
  <2>1. i = COPY(7, 0) /\ defined(s.reg[0])
    BY <1>2, <1>3, <1>11, ProgramText, SMTT(30) DEF ProgramBelief
  <2>2. Straight(i, s) /\ Puts(s, a, 7, s.reg[0])
    BY <1>1, <2>1, CopyTurn DEF a
  <2>3. PlainAt(t, q)
    BY <1>11 DEF PlainAt, Span, Exits, NullBranch
  <2>4. a \in Facts /\ a.reached /\ ProgramBelief(q + 1, a)
    BY <1>1, <1>11, <2>2 DEF Puts, ProgramBelief
  <2> QED BY <1>4, <2>2, <2>3, <2>4
<1>12. CASE q = 9
  <2>1. i = LOAD(8) /\ defined(s.spill)
    BY <1>2, <1>3, <1>12, ProgramText, SMTT(30) DEF ProgramBelief
  <2>2. Straight(i, s) /\ Puts(s, a, 8, s.spill)
    BY <1>1, <2>1, LoadTurn DEF a
  <2>3. PlainAt(t, q)
    BY <1>12 DEF PlainAt, Span, Exits, NullBranch
  <2>4. a \in Facts /\ a.reached /\ ProgramBelief(q + 1, a)
    BY <1>1, <1>12, <2>2 DEF Puts, ProgramBelief
  <2> QED BY <1>4, <2>2, <2>3, <2>4
<1>13. CASE q = 10
  <2>1. i = COPY(1, 8) /\ defined(s.reg[8])
    BY <1>2, <1>3, <1>13, ProgramText, SMTT(30) DEF ProgramBelief
  <2>2. Straight(i, s) /\ Puts(s, a, 1, s.reg[8])
    BY <1>1, <2>1, CopyTurn DEF a
  <2>3. PlainAt(t, q)
    BY <1>13 DEF PlainAt, Span, Exits, NullBranch
  <2>4. a \in Facts /\ a.reached /\ ProgramBelief(q + 1, a)
    BY <1>1, <1>13, <2>2 DEF Puts, ProgramBelief
  <2> QED BY <1>4, <2>2, <2>3, <2>4
<1>14. CASE q = 14
  <2>1. i = COPY(9, 0) /\ defined(s.reg[0])
    BY <1>2, <1>3, <1>14, ProgramText, SMTT(30) DEF ProgramBelief
  <2>2. Straight(i, s) /\ Puts(s, a, 9, s.reg[0])
    BY <1>1, <2>1, CopyTurn DEF a
  <2>3. PlainAt(t, q)
    BY <1>14 DEF PlainAt, Span, Exits, NullBranch
  <2>4. a \in Facts /\ a.reached /\ ProgramBelief(q + 1, a)
    BY <1>1, <1>14, <2>2 DEF Puts, ProgramBelief
  <2> QED BY <1>4, <2>2, <2>3, <2>4
<1>15. CASE q = 15
  <2>1. i = COPY(1, 7) /\ defined(s.reg[7])
    BY <1>2, <1>3, <1>15, ProgramText, SMTT(30) DEF ProgramBelief
  <2>2. Straight(i, s) /\ Puts(s, a, 1, s.reg[7])
    BY <1>1, <2>1, CopyTurn DEF a
  <2>3. PlainAt(t, q)
    BY <1>15 DEF PlainAt, Span, Exits, NullBranch
  <2>4. a \in Facts /\ a.reached /\ ProgramBelief(q + 1, a)
    BY <1>1, <1>15, <2>2 DEF Puts, ProgramBelief
  <2> QED BY <1>4, <2>2, <2>3, <2>4
<1>16. CASE q = 17
  <2>1. i = COPY(0, 9) /\ defined(s.reg[9])
    BY <1>2, <1>3, <1>16, ProgramText, SMTT(30) DEF ProgramBelief
  <2>2. Straight(i, s) /\ Puts(s, a, 0, s.reg[9])
    BY <1>1, <2>1, CopyTurn DEF a
  <2>3. PlainAt(t, q)
    BY <1>16 DEF PlainAt, Span, Exits, NullBranch
  <2>4. a \in Facts /\ a.reached /\ ProgramBelief(q + 1, a)
    BY <1>1, <1>16, <2>2 DEF Puts, ProgramBelief
  <2> QED BY <1>4, <2>2, <2>3, <2>4
<1>17. CASE q = 19
  <2>1. i = LOAD(8) /\ defined(s.spill)
    BY <1>2, <1>3, <1>17, ProgramText, SMTT(30) DEF ProgramBelief
  <2>2. Straight(i, s) /\ Puts(s, a, 8, s.spill)
    BY <1>1, <2>1, LoadTurn DEF a
  <2>3. PlainAt(t, q)
    BY <1>17 DEF PlainAt, Span, Exits, NullBranch
  <2>4. a \in Facts /\ a.reached /\ ProgramBelief(q + 1, a)
    BY <1>1, <1>17, <2>2 DEF Puts, ProgramBelief
  <2> QED BY <1>4, <2>2, <2>3, <2>4
<1>18. CASE q = 20
  <2>1. i = COPY(1, 8) /\ defined(s.reg[8])
    BY <1>2, <1>3, <1>18, ProgramText, SMTT(30) DEF ProgramBelief
  <2>2. Straight(i, s) /\ Puts(s, a, 1, s.reg[8])
    BY <1>1, <2>1, CopyTurn DEF a
  <2>3. PlainAt(t, q)
    BY <1>18 DEF PlainAt, Span, Exits, NullBranch
  <2>4. a \in Facts /\ a.reached /\ ProgramBelief(q + 1, a)
    BY <1>1, <1>18, <2>2 DEF Puts, ProgramBelief
  <2> QED BY <1>4, <2>2, <2>3, <2>4
<1>19. CASE q \in {11, 13, 16, 21}
  <2>1. PICK k \in {ReadOp, ReleaseOp} : i = CALL(k)
    BY <1>3, <1>19, ProgramText
  <2>2. s.reg[1] = {"HANDLE"}
    BY <1>19 DEF ProgramBelief
  <2>3. /\ Straight(i, s) /\ a \in Facts /\ a.reached /\ a.spill = s.spill
        /\ scalar(a.reg[0]) /\ \A r \in 6 .. 9 : a.reg[r] = s.reg[r]
    BY <2>1, <2>2, UseTurn DEF a
  <2>4. PlainAt(t, q)
    BY <1>19 DEF PlainAt, Span, Exits, NullBranch
  <2>5. ProgramBelief(q + 1, a)
    BY <1>19, <2>3 DEF ProgramBelief
  <2> QED BY <1>4, <2>3, <2>4, <2>5
<1>20. CASE q = 12
  <2>1. /\ i \in {COPY(1, 7), COPY(1, 6), LOAD(1)}
        /\ defined(s.reg[7]) /\ defined(s.reg[6]) /\ defined(s.spill)
        /\ s.reg[7] = {"HANDLE"} /\ s.reg[6] = {"HANDLE"} /\ s.spill = {"HANDLE"}
    BY <1>2, <1>3, <1>20 DEF ProgramBelief
  <2>2. Straight(i, s) /\ Puts(s, a, 1, {"HANDLE"})
    <3>1. CASE i = COPY(1, 7)
      BY <1>1, <2>1, <3>1, CopyTurn DEF a
    <3>2. CASE i = COPY(1, 6)
      BY <1>1, <2>1, <3>2, CopyTurn DEF a
    <3>3. CASE i = LOAD(1)
      BY <1>1, <2>1, <3>3, LoadTurn DEF a
    <3> QED BY <2>1, <3>1, <3>2, <3>3
  <2>3. PlainAt(t, q)
    BY <1>20 DEF PlainAt, Span, Exits, NullBranch
  <2>4. a \in Facts /\ a.reached /\ ProgramBelief(q + 1, a)
    BY <1>1, <1>20, <2>2 DEF Puts, ProgramBelief
  <2> QED BY <1>4, <2>2, <2>3, <2>4
<1>21. CASE q \in {1, 6}
  <2>1. i = CALL(AcquireOp) /\ CallsMet(q) \in {0, 1}
    BY <1>3, <1>21, ProgramText DEF CallsMet
  <2>2. scalar(s.reg[1])
    BY <1>2, <1>21 DEF ProgramBelief
  <2>3. /\ Admissible(i, s, q, Span(t), CallsMet(q))
        /\ FallsThrough(i, s) /\ ~Branches(i, s) /\ call_operation(i) = AcquireOp
        /\ a \in Facts /\ a.reached /\ a.spill = s.spill /\ a.reg[0] = {"HANDLE", "ZERO"}
        /\ \A r \in 6 .. 9 : a.reg[r] = s.reg[r]
    BY <2>1, <2>2, AcquireTurn DEF a
  <2>4. ProgramBelief(q + 1, a)
    BY <1>21, <2>3 DEF ProgramBelief
  <2>5. q \notin NullBranch(t) /\ q \notin Exits(t) /\ q + 1 < Span(t)
    BY <1>21 DEF NullBranch, Exits, Span
  <2> QED BY <1>21, <2>3, <2>4, <2>5 DEF Onward, Belief, a
<1>22. CASE q = 2
  <2> DEFINE b == Taken(i, s)
  <2>1. i = IFZERO(0, 21) /\ s.reg[0] = {"HANDLE", "ZERO"}
    BY <1>3, <1>22, ProgramText, SMTT(30) DEF ProgramBelief
  <2>2. /\ q \in NullBranch(t) /\ q \notin Exits(t) /\ q \notin {1, 6}
        /\ NullTarget(t, q) = 24 /\ q + 1 + 21 = 24
        /\ q + 1 < Span(t) /\ q + 1 + 21 < Span(t) /\ 21 \in Nat \ {0}
        /\ Span(t) \in Nat /\ q \in Nat
    BY <1>22 DEF Span, NullTarget, NullBranch, Exits
  <2>3. /\ Admissible(i, s, q, Span(t), CallsMet(q))
        /\ FallsThrough(i, s) /\ Branches(i, s) /\ Target(i, q) = NullTarget(t, q)
        /\ call_operation(i) # AcquireOp
        /\ Puts(s, a, 0, {"HANDLE"}) /\ Puts(s, b, 0, {"ZERO"})
    BY <1>1, <2>1, <2>2, NullTurn, SMTT(60) DEF a
  <2> HIDE DEF b
  <2>4. a \in Facts /\ a.reached /\ ProgramBelief(q + 1, a)
    BY <1>1, <1>22, <2>3 DEF Puts, ProgramBelief
  <2>5. b \in Facts /\ b.reached /\ ProgramBelief(24, b)
    BY <1>1, <1>22, <2>3 DEF Puts, ProgramBelief
  <2> QED BY <2>2, <2>3, <2>4, <2>5 DEF Onward, Belief, a, b
<1>23. CASE q = 7
  <2> DEFINE b == Taken(i, s)
  <2>1. i = IFZERO(0, 11) /\ s.reg[0] = {"HANDLE", "ZERO"}
    BY <1>3, <1>23, ProgramText, SMTT(30) DEF ProgramBelief
  <2>2. /\ q \in NullBranch(t) /\ q \notin Exits(t) /\ q \notin {1, 6}
        /\ NullTarget(t, q) = 19 /\ q + 1 + 11 = 19
        /\ q + 1 < Span(t) /\ q + 1 + 11 < Span(t) /\ 11 \in Nat \ {0}
        /\ Span(t) \in Nat /\ q \in Nat
    BY <1>23 DEF Span, NullTarget, NullBranch, Exits
  <2>3. /\ Admissible(i, s, q, Span(t), CallsMet(q))
        /\ FallsThrough(i, s) /\ Branches(i, s) /\ Target(i, q) = NullTarget(t, q)
        /\ call_operation(i) # AcquireOp
        /\ Puts(s, a, 0, {"HANDLE"}) /\ Puts(s, b, 0, {"ZERO"})
    BY <1>1, <2>1, <2>2, NullTurn, SMTT(60) DEF a
  <2> HIDE DEF b
  <2>4. a \in Facts /\ a.reached /\ ProgramBelief(q + 1, a)
    BY <1>1, <1>23, <2>3 DEF Puts, ProgramBelief
  <2>5. b \in Facts /\ b.reached /\ ProgramBelief(19, b)
    BY <1>1, <1>23, <2>3 DEF Puts, ProgramBelief
  <2> QED BY <2>2, <2>3, <2>4, <2>5 DEF Onward, Belief, a, b
<1>24. CASE q \in {18, 23, 25}
  <2>1. i = EXIT /\ q \in Exits(t) /\ scalar(s.reg[0])
    BY <1>3, <1>24, ProgramText DEF Exits, ProgramBelief
  <2> QED BY <2>1, ExitOnward
<1> QED
  BY <1>5, <1>6, <1>7, <1>8, <1>9, <1>10, <1>11, <1>12, <1>13, <1>14, <1>15, <1>16,
     <1>17, <1>18, <1>19, <1>20, <1>21, <1>22, <1>23, <1>24

\* of alternate.
LEMMA AlternateOnward ==
    ASSUME NEW t \in Case, t = 1, NEW q \in 0 .. 26, NEW s \in Facts, s.reached,
           AlternateBelief(q, s)
    PROVE  Onward(t, q, Selected(t)[q], s)
<1> DEFINE i == Selected(t)[q]
           a == After(i, s)
<1> SUFFICES Onward(t, q, i, s)
  OBVIOUS
<1>1. 0 \in Reg /\ 1 \in Reg /\ 6 \in Reg /\ 7 \in Reg /\ 8 \in Reg /\ 9 \in Reg
  BY DEF Reg
<1>2. /\ defined({"HANDLE"}) /\ defined({"HANDLE", "ZERO"})
      /\ scalar({"ZERO"}) /\ scalar({"SCALAR"}) /\ \A k : scalar(k) => defined(k)
  BY DEF defined, scalar
<1>3. i = alternate[q]
  BY DEF Selected
<1>4. ASSUME PlainAt(t, q), Straight(i, s), a \in Facts, a.reached, AlternateBelief(q + 1, a)
      PROVE  Onward(t, q, i, s)
  BY <1>4, StraightOnward DEF Belief
<1> HIDE DEF i, a
<1>5. CASE q = 0
  <2>1. i = IMM(1, 0)
    BY <1>3, <1>5, AlternateText
  <2>2. Straight(i, s) /\ Puts(s, a, 1, {"ZERO"})
    BY <1>1, <2>1, ImmTurn DEF a
  <2>3. PlainAt(t, q)
    BY <1>5 DEF PlainAt, Span, Exits, NullBranch
  <2>4. a \in Facts /\ a.reached /\ AlternateBelief(q + 1, a)
    BY <1>1, <1>2, <1>5, <2>2 DEF Puts, AlternateBelief
  <2> QED BY <1>4, <2>2, <2>3, <2>4
<1>6. CASE q = 5
  <2>1. i = IMM(1, 0)
    BY <1>3, <1>6, AlternateText
  <2>2. Straight(i, s) /\ Puts(s, a, 1, {"ZERO"})
    BY <1>1, <2>1, ImmTurn DEF a
  <2>3. PlainAt(t, q)
    BY <1>6 DEF PlainAt, Span, Exits, NullBranch
  <2>4. a \in Facts /\ a.reached /\ AlternateBelief(q + 1, a)
    BY <1>1, <1>2, <1>6, <2>2 DEF Puts, AlternateBelief
  <2> QED BY <1>4, <2>2, <2>3, <2>4
<1>7. CASE q = 23
  <2>1. i = IMM(0, 9)
    BY <1>3, <1>7, AlternateText
  <2>2. Straight(i, s) /\ Puts(s, a, 0, {"SCALAR"})
    BY <1>1, <2>1, ImmTurn DEF a
  <2>3. PlainAt(t, q)
    BY <1>7 DEF PlainAt, Span, Exits, NullBranch
  <2>4. a \in Facts /\ a.reached /\ AlternateBelief(q + 1, a)
    BY <1>1, <1>2, <1>7, <2>2 DEF Puts, AlternateBelief
  <2> QED BY <1>4, <2>2, <2>3, <2>4
<1>8. CASE q = 25
  <2>1. i = IMM(0, 0)
    BY <1>3, <1>8, AlternateText
  <2>2. Straight(i, s) /\ Puts(s, a, 0, {"ZERO"})
    BY <1>1, <2>1, ImmTurn DEF a
  <2>3. PlainAt(t, q)
    BY <1>8 DEF PlainAt, Span, Exits, NullBranch
  <2>4. a \in Facts /\ a.reached /\ AlternateBelief(q + 1, a)
    BY <1>1, <1>2, <1>8, <2>2 DEF Puts, AlternateBelief
  <2> QED BY <1>4, <2>2, <2>3, <2>4
<1>9. CASE q = 2
  <2>1. i = COPY(8, 0) /\ defined(s.reg[0])
    BY <1>2, <1>3, <1>9, AlternateText, SMTT(30) DEF AlternateBelief
  <2>2. Straight(i, s) /\ Puts(s, a, 8, s.reg[0])
    BY <1>1, <2>1, CopyTurn DEF a
  <2>3. PlainAt(t, q)
    BY <1>9 DEF PlainAt, Span, Exits, NullBranch
  <2>4. a \in Facts /\ a.reached /\ AlternateBelief(q + 1, a)
    BY <1>1, <1>9, <2>2 DEF Puts, AlternateBelief
  <2> QED BY <1>4, <2>2, <2>3, <2>4
<1>10. CASE q = 4
  <2>1. i = STORE(8) /\ defined(s.reg[8])
    BY <1>2, <1>3, <1>10, AlternateText, SMTT(30) DEF AlternateBelief
  <2>2. /\ Straight(i, s) /\ a \in Facts /\ a.reached /\ a.spill = s.reg[8]
        /\ \A r \in Reg : a.reg[r] = s.reg[r]
    BY <1>1, <2>1, StoreTurn DEF a
  <2>3. PlainAt(t, q)
    BY <1>10 DEF PlainAt, Span, Exits, NullBranch
  <2>4. AlternateBelief(q + 1, a)
    BY <1>1, <1>10, <2>2 DEF AlternateBelief
  <2> QED BY <1>4, <2>2, <2>3, <2>4
<1>11. CASE q = 7
  <2>1. i = COPY(6, 0) /\ defined(s.reg[0])
    BY <1>2, <1>3, <1>11, AlternateText, SMTT(30) DEF AlternateBelief
  <2>2. Straight(i, s) /\ Puts(s, a, 6, s.reg[0])
    BY <1>1, <2>1, CopyTurn DEF a
  <2>3. PlainAt(t, q)
    BY <1>11 DEF PlainAt, Span, Exits, NullBranch
  <2>4. a \in Facts /\ a.reached /\ AlternateBelief(q + 1, a)
    BY <1>1, <1>11, <2>2 DEF Puts, AlternateBelief
  <2> QED BY <1>4, <2>2, <2>3, <2>4
<1>12. CASE q = 9
  <2>1. i = LOAD(7) /\ defined(s.spill)
    BY <1>2, <1>3, <1>12, AlternateText, SMTT(30) DEF AlternateBelief
  <2>2. Straight(i, s) /\ Puts(s, a, 7, s.spill)
    BY <1>1, <2>1, LoadTurn DEF a
  <2>3. PlainAt(t, q)
    BY <1>12 DEF PlainAt, Span, Exits, NullBranch
  <2>4. a \in Facts /\ a.reached /\ AlternateBelief(q + 1, a)
    BY <1>1, <1>12, <2>2 DEF Puts, AlternateBelief
  <2> QED BY <1>4, <2>2, <2>3, <2>4
<1>13. CASE q = 10
  <2>1. i = COPY(1, 7) /\ defined(s.reg[7])
    BY <1>2, <1>3, <1>13, AlternateText, SMTT(30) DEF AlternateBelief
  <2>2. Straight(i, s) /\ Puts(s, a, 1, s.reg[7])
    BY <1>1, <2>1, CopyTurn DEF a
  <2>3. PlainAt(t, q)
    BY <1>13 DEF PlainAt, Span, Exits, NullBranch
  <2>4. a \in Facts /\ a.reached /\ AlternateBelief(q + 1, a)
    BY <1>1, <1>13, <2>2 DEF Puts, AlternateBelief
  <2> QED BY <1>4, <2>2, <2>3, <2>4
<1>14. CASE q = 12
  <2>1. i = COPY(1, 6) /\ defined(s.reg[6])
    BY <1>2, <1>3, <1>14, AlternateText, SMTT(30) DEF AlternateBelief
  <2>2. Straight(i, s) /\ Puts(s, a, 1, s.reg[6])
    BY <1>1, <2>1, CopyTurn DEF a
  <2>3. PlainAt(t, q)
    BY <1>14 DEF PlainAt, Span, Exits, NullBranch
  <2>4. a \in Facts /\ a.reached /\ AlternateBelief(q + 1, a)
    BY <1>1, <1>14, <2>2 DEF Puts, AlternateBelief
  <2> QED BY <1>4, <2>2, <2>3, <2>4
<1>15. CASE q = 14
  <2>1. i = COPY(9, 0) /\ defined(s.reg[0])
    BY <1>2, <1>3, <1>15, AlternateText, SMTT(30) DEF AlternateBelief
  <2>2. Straight(i, s) /\ Puts(s, a, 9, s.reg[0])
    BY <1>1, <2>1, CopyTurn DEF a
  <2>3. PlainAt(t, q)
    BY <1>15 DEF PlainAt, Span, Exits, NullBranch
  <2>4. a \in Facts /\ a.reached /\ AlternateBelief(q + 1, a)
    BY <1>1, <1>15, <2>2 DEF Puts, AlternateBelief
  <2> QED BY <1>4, <2>2, <2>3, <2>4
<1>16. CASE q = 15
  <2>1. i = COPY(1, 6) /\ defined(s.reg[6])
    BY <1>2, <1>3, <1>16, AlternateText, SMTT(30) DEF AlternateBelief
  <2>2. Straight(i, s) /\ Puts(s, a, 1, s.reg[6])
    BY <1>1, <2>1, CopyTurn DEF a
  <2>3. PlainAt(t, q)
    BY <1>16 DEF PlainAt, Span, Exits, NullBranch
  <2>4. a \in Facts /\ a.reached /\ AlternateBelief(q + 1, a)
    BY <1>1, <1>16, <2>2 DEF Puts, AlternateBelief
  <2> QED BY <1>4, <2>2, <2>3, <2>4
<1>17. CASE q = 17
  <2>1. i = COPY(8, 9) /\ defined(s.reg[9])
    BY <1>2, <1>3, <1>17, AlternateText, SMTT(30) DEF AlternateBelief
  <2>2. Straight(i, s) /\ Puts(s, a, 8, s.reg[9])
    BY <1>1, <2>1, CopyTurn DEF a
  <2>3. PlainAt(t, q)
    BY <1>17 DEF PlainAt, Span, Exits, NullBranch
  <2>4. a \in Facts /\ a.reached /\ AlternateBelief(q + 1, a)
    BY <1>1, <1>17, <2>2 DEF Puts, AlternateBelief
  <2> QED BY <1>4, <2>2, <2>3, <2>4
<1>18. CASE q = 18
  <2>1. i = COPY(0, 8) /\ defined(s.reg[8])
    BY <1>2, <1>3, <1>18, AlternateText, SMTT(30) DEF AlternateBelief
  <2>2. Straight(i, s) /\ Puts(s, a, 0, s.reg[8])
    BY <1>1, <2>1, CopyTurn DEF a
  <2>3. PlainAt(t, q)
    BY <1>18 DEF PlainAt, Span, Exits, NullBranch
  <2>4. a \in Facts /\ a.reached /\ AlternateBelief(q + 1, a)
    BY <1>1, <1>18, <2>2 DEF Puts, AlternateBelief
  <2> QED BY <1>4, <2>2, <2>3, <2>4
<1>19. CASE q = 20
  <2>1. i = LOAD(7) /\ defined(s.spill)
    BY <1>2, <1>3, <1>19, AlternateText, SMTT(30) DEF AlternateBelief
  <2>2. Straight(i, s) /\ Puts(s, a, 7, s.spill)
    BY <1>1, <2>1, LoadTurn DEF a
  <2>3. PlainAt(t, q)
    BY <1>19 DEF PlainAt, Span, Exits, NullBranch
  <2>4. a \in Facts /\ a.reached /\ AlternateBelief(q + 1, a)
    BY <1>1, <1>19, <2>2 DEF Puts, AlternateBelief
  <2> QED BY <1>4, <2>2, <2>3, <2>4
<1>20. CASE q = 21
  <2>1. i = COPY(1, 7) /\ defined(s.reg[7])
    BY <1>2, <1>3, <1>20, AlternateText, SMTT(30) DEF AlternateBelief
  <2>2. Straight(i, s) /\ Puts(s, a, 1, s.reg[7])
    BY <1>1, <2>1, CopyTurn DEF a
  <2>3. PlainAt(t, q)
    BY <1>20 DEF PlainAt, Span, Exits, NullBranch
  <2>4. a \in Facts /\ a.reached /\ AlternateBelief(q + 1, a)
    BY <1>1, <1>20, <2>2 DEF Puts, AlternateBelief
  <2> QED BY <1>4, <2>2, <2>3, <2>4
<1>21. CASE q \in {11, 13, 16, 22}
  <2>1. PICK k \in {ReadOp, ReleaseOp} : i = CALL(k)
    BY <1>3, <1>21, AlternateText
  <2>2. s.reg[1] = {"HANDLE"}
    BY <1>21 DEF AlternateBelief
  <2>3. /\ Straight(i, s) /\ a \in Facts /\ a.reached /\ a.spill = s.spill
        /\ scalar(a.reg[0]) /\ \A r \in 6 .. 9 : a.reg[r] = s.reg[r]
    BY <2>1, <2>2, UseTurn DEF a
  <2>4. PlainAt(t, q)
    BY <1>21 DEF PlainAt, Span, Exits, NullBranch
  <2>5. AlternateBelief(q + 1, a)
    BY <1>21, <2>3 DEF AlternateBelief
  <2> QED BY <1>4, <2>3, <2>4, <2>5
<1>22. CASE q \in {1, 6}
  <2>1. i = CALL(AcquireOp) /\ CallsMet(q) \in {0, 1}
    BY <1>3, <1>22, AlternateText DEF CallsMet
  <2>2. scalar(s.reg[1])
    BY <1>2, <1>22 DEF AlternateBelief
  <2>3. /\ Admissible(i, s, q, Span(t), CallsMet(q))
        /\ FallsThrough(i, s) /\ ~Branches(i, s) /\ call_operation(i) = AcquireOp
        /\ a \in Facts /\ a.reached /\ a.spill = s.spill /\ a.reg[0] = {"HANDLE", "ZERO"}
        /\ \A r \in 6 .. 9 : a.reg[r] = s.reg[r]
    BY <2>1, <2>2, AcquireTurn DEF a
  <2>4. AlternateBelief(q + 1, a)
    BY <1>22, <2>3 DEF AlternateBelief
  <2>5. q \notin NullBranch(t) /\ q \notin Exits(t) /\ q + 1 < Span(t)
    BY <1>22 DEF NullBranch, Exits, Span
  <2> QED BY <1>22, <2>3, <2>4, <2>5 DEF Onward, Belief, a
<1>23. CASE q = 3
  <2> DEFINE b == Taken(i, s)
  <2>1. i = IFZERO(8, 21) /\ s.reg[8] = {"HANDLE", "ZERO"}
    BY <1>3, <1>23, AlternateText, SMTT(30) DEF AlternateBelief
  <2>2. /\ q \in NullBranch(t) /\ q \notin Exits(t) /\ q \notin {1, 6}
        /\ NullTarget(t, q) = 25 /\ q + 1 + 21 = 25
        /\ q + 1 < Span(t) /\ q + 1 + 21 < Span(t) /\ 21 \in Nat \ {0}
        /\ Span(t) \in Nat /\ q \in Nat
    BY <1>23 DEF Span, NullTarget, NullBranch, Exits
  <2>3. /\ Admissible(i, s, q, Span(t), CallsMet(q))
        /\ FallsThrough(i, s) /\ Branches(i, s) /\ Target(i, q) = NullTarget(t, q)
        /\ call_operation(i) # AcquireOp
        /\ Puts(s, a, 8, {"HANDLE"}) /\ Puts(s, b, 8, {"ZERO"})
    BY <1>1, <2>1, <2>2, NullTurn, SMTT(60) DEF a
  <2> HIDE DEF b
  <2>4. a \in Facts /\ a.reached /\ AlternateBelief(q + 1, a)
    BY <1>1, <1>23, <2>3 DEF Puts, AlternateBelief
  <2>5. b \in Facts /\ b.reached /\ AlternateBelief(25, b)
    BY <1>1, <1>23, <2>3 DEF Puts, AlternateBelief
  <2> QED BY <2>2, <2>3, <2>4, <2>5 DEF Onward, Belief, a, b
<1>24. CASE q = 8
  <2> DEFINE b == Taken(i, s)
  <2>1. i = IFZERO(6, 11) /\ s.reg[6] = {"HANDLE", "ZERO"}
    BY <1>3, <1>24, AlternateText, SMTT(30) DEF AlternateBelief
  <2>2. /\ q \in NullBranch(t) /\ q \notin Exits(t) /\ q \notin {1, 6}
        /\ NullTarget(t, q) = 20 /\ q + 1 + 11 = 20
        /\ q + 1 < Span(t) /\ q + 1 + 11 < Span(t) /\ 11 \in Nat \ {0}
        /\ Span(t) \in Nat /\ q \in Nat
    BY <1>24 DEF Span, NullTarget, NullBranch, Exits
  <2>3. /\ Admissible(i, s, q, Span(t), CallsMet(q))
        /\ FallsThrough(i, s) /\ Branches(i, s) /\ Target(i, q) = NullTarget(t, q)
        /\ call_operation(i) # AcquireOp
        /\ Puts(s, a, 6, {"HANDLE"}) /\ Puts(s, b, 6, {"ZERO"})
    BY <1>1, <2>1, <2>2, NullTurn, SMTT(60) DEF a
  <2> HIDE DEF b
  <2>4. a \in Facts /\ a.reached /\ AlternateBelief(q + 1, a)
    BY <1>1, <1>24, <2>3 DEF Puts, AlternateBelief
  <2>5. b \in Facts /\ b.reached /\ AlternateBelief(20, b)
    BY <1>1, <1>24, <2>3 DEF Puts, AlternateBelief
  <2> QED BY <2>2, <2>3, <2>4, <2>5 DEF Onward, Belief, a, b
<1>25. CASE q \in {19, 24, 26}
  <2>1. i = EXIT /\ q \in Exits(t) /\ scalar(s.reg[0])
    BY <1>3, <1>25, AlternateText DEF Exits, AlternateBelief
  <2> QED BY <2>1, ExitOnward
<1> QED
  BY <1>5, <1>6, <1>7, <1>8, <1>9, <1>10, <1>11, <1>12, <1>13, <1>14, <1>15, <1>16,
     <1>17, <1>18, <1>19, <1>20, <1>21, <1>22, <1>23, <1>24, <1>25

\* Facts that meet are of one mind.
LEMMA JoinBelief ==
    ASSUME NEW t, NEW q, NEW d \in Facts, NEW s \in Facts, s.reached,
           Belief(t, q, s), d.reached => Belief(t, q, d)
    PROVE  join(d, s) \in Facts /\ join(d, s).reached /\ Belief(t, q, join(d, s))
<1>1. CASE ~d.reached
  BY <1>1 DEF join
<1>2. CASE d.reached
  <2> DEFINE f == [r \in Reg |-> d.reg[r] \cup s.reg[r]]
             e == d.spill \cup s.spill
  <2>1. join(d, s) = [d EXCEPT !.reg = f, !.spill = e]
    BY <1>2 DEF join
  <2>2. /\ f \in [Reg -> SUBSET Kind] /\ e \in SUBSET Kind
        /\ \A r \in Reg : f[r] = d.reg[r] \cup s.reg[r]
    BY DEF Facts
  <2> HIDE DEF f, e
  <2>3. /\ join(d, s) \in Facts /\ join(d, s).reg = f /\ join(d, s).spill = e
        /\ join(d, s).reached
    BY <1>2, <2>1, <2>2 DEF Facts
  <2>4. \A a, b : scalar(a) /\ scalar(b) => scalar(a \cup b)
    BY DEF scalar
  <2> PICK j : j = join(d, s)
    OBVIOUS
  <2>5. f[0] = d.reg[0] \cup s.reg[0] /\ f[1] = d.reg[1] \cup s.reg[1]
        /\ f[6] = d.reg[6] \cup s.reg[6] /\ f[7] = d.reg[7] \cup s.reg[7]
        /\ f[8] = d.reg[8] \cup s.reg[8] /\ f[9] = d.reg[9] \cup s.reg[9]
    BY <2>2 DEF Reg
  <2>6. \A a, b, k : a = k /\ b = k => a \cup b = k
    OBVIOUS
  <2>7. j.reg = f /\ j.spill = d.spill \cup s.spill
    BY <2>3 DEF e
  <2>8. CASE t = 1
    <3>1. AlternateBelief(q, s) /\ AlternateBelief(q, d)
      BY <1>2, <2>8 DEF Belief
    <3>2. AlternateBelief(q, j)
      BY <2>4, <2>5, <2>7, <3>1 DEF AlternateBelief
    <3> QED BY <2>3, <2>8, <3>2 DEF Belief
  <2>9. CASE t # 1
    <3>1. ProgramBelief(q, s) /\ ProgramBelief(q, d)
      BY <1>2, <2>9 DEF Belief
    <3>2. ProgramBelief(q, j)
      BY <2>4, <2>5, <2>7, <3>1 DEF ProgramBelief
    <3> QED BY <2>3, <2>9, <3>2 DEF Belief
  <2> QED BY <2>8, <2>9
<1> QED
  BY <1>1, <1>2

\* Where the pass has got to in a fixture: it has reached the instruction that
\* is next, and beliefs hold of all it reached.
PassGoesOn ==
    /\ pc \in 0 .. Span(test)
    /\ flow \in [0 .. Span(test) -> Facts]
    /\ \A q \in 0 .. Span(test) :
          flow[q].reached => q # Span(test) /\ Belief(test, q, flow[q])
    /\ pc # Span(test) => flow[pc].reached
    /\ \A q \in NullBranch(test) : q < pc => flow[NullTarget(test, q)].reached
    /\ acquisitions = CallsMet(pc)
    /\ \A q \in Exits(test) : q < pc => has_exit

\* The pass turns no instruction of a fixture down ...
LEMMA FixtureOnward ==
    ASSUME NEW t \in Case, NEW q \in 0 .. Span(t) - 1, NEW s \in Facts, s.reached,
           Belief(t, q, s)
    PROVE  Onward(t, q, Selected(t)[q], s)
<1>1. CASE t = 1
  BY <1>1, AlternateOnward DEF Span, Belief
<1>2. CASE t # 1
  BY <1>2, ProgramOnward DEF Span, Belief
<1> QED
  BY <1>1, <1>2

\* The pass turns no fixture down.
LEMMA PassMoves ==
    ASSUME test \in Case, prog = Selected(test), phase = "admit", PassGoesOn,
           Pass, test' = test
    PROVE  phase' = "admitted" \/ (phase' = "admit" /\ PassGoesOn')
<1> DEFINE n == Span(test)
           i == prog[pc]
           s == flow[pc]
<1>1. Length(prog) = n /\ n \in {26, 27} /\ pc \in 0 .. n
  BY SelectedLength DEF PassGoesOn, Span
<1>2. ASSUME pc < n
      PROVE  /\ s \in Facts /\ s.reached /\ Onward(test, pc, i, s)
             /\ Admissible(i, s, pc, n, acquisitions)
  <2>1. pc \in 0 .. n - 1 /\ pc \in 0 .. n /\ pc # n
    BY <1>1, <1>2
  <2>2. s \in Facts /\ s.reached /\ Belief(test, pc, s)
    BY <2>1 DEF PassGoesOn
  <2>3. Onward(test, pc, i, s)
    BY <2>1, <2>2, FixtureOnward
  <2>4. acquisitions = CallsMet(pc)
    BY DEF PassGoesOn
  <2> QED BY <2>2, <2>3, <2>4 DEF Onward
<1> HIDE DEF n, i, s
<1>3. ASSUME RejectInsn PROVE FALSE
  BY <1>1, <1>2, <1>3 DEF RejectInsn, i, s
<1>4. ASSUME Decide PROVE phase' = "admitted"
  <2>1. pc = n /\ 25 \in 0 .. 26
    BY <1>1, <1>4 DEF Decide
  <2>2. has_exit
    <3>1. \E q \in Exits(test) : q < n
      BY DEF Exits, Span, n
    <3> QED BY <2>1, <3>1 DEF PassGoesOn
  <2>3. acquisitions > 0
    BY <1>1, <2>1 DEF PassGoesOn, CallsMet
  <2>4. ~flow[n].reached
    BY <1>1 DEF PassGoesOn, n
  <2> QED BY <1>1, <1>4, <2>2, <2>3, <2>4 DEF Decide, Accepted
<1>5. ASSUME AdmitInsn
      PROVE  phase' = "admit" /\ PassGoesOn'
  <2>1. /\ pc < n /\ pc' = pc + 1 /\ phase' = "admit"
        /\ acquisitions' = IF call_operation(i) = AcquireOp THEN acquisitions + 1
                           ELSE acquisitions
        /\ has_exit' = (has_exit \/ i.op = "EXIT")
    BY <1>1, <1>5 DEF AdmitInsn, i
  <2> DEFINE B == Branches(i, s)
             F == FallsThrough(i, s)
             t == Target(i, pc)
             taken == Taken(i, s)
             after == After(i, s)
  <2>2. flow' = [q \in 0 .. n |-> IF B /\ q = t THEN join(flow[q], taken)
                                  ELSE IF F /\ q = pc + 1 THEN join(flow[q], after)
                                  ELSE flow[q]]
    BY <1>1, <1>5, Zenon DEF AdmitInsn, i, s
  <2>3. /\ Onward(test, pc, i, s) /\ pc \in 0 .. n - 1 /\ pc + 1 \in 0 .. n
    BY <1>1, <1>2, <2>1
  <2> HIDE DEF B, F, t, taken, after
  <2>4. /\ pc \in Exits(test) \/ F
        /\ F => /\ pc + 1 < n /\ after \in Facts /\ after.reached
                /\ Belief(test, pc + 1, after)
        /\ B <=> pc \in NullBranch(test)
        /\ B => /\ t = NullTarget(test, pc)
                /\ taken \in Facts /\ taken.reached /\ Belief(test, t, taken)
        /\ call_operation(i) = AcquireOp <=> pc \in {1, 6}
        /\ pc \in Exits(test) => i.op = "EXIT"
    BY <2>3 DEF Onward, B, F, t, taken, after, n
  <2>5. \A q \in NullBranch(test) :
           q \in 0 .. n - 1 /\ NullTarget(test, q) \in q + 2 .. n - 1
    BY DEF NullBranch, NullTarget, n, Span
  <2>6. ASSUME NEW q \in 0 .. n
        PROVE  /\ flow'[q] \in Facts
               /\ flow[q].reached => flow'[q].reached
               /\ flow'[q].reached => q # n /\ Belief(test, q, flow'[q])
    <3>1. flow[q] \in Facts /\ (flow[q].reached => q # n /\ Belief(test, q, flow[q]))
      BY DEF PassGoesOn, n
    <3>2. CASE B /\ q = t
      <4>1. flow'[q] = join(flow[q], taken) /\ q # n
        BY <2>2, <2>4, <2>5, <3>2
      <4> QED BY <2>4, <3>1, <3>2, <4>1, JoinBelief
    <3>3. CASE ~(B /\ q = t) /\ F /\ q = pc + 1
      <4>1. flow'[q] = join(flow[q], after) /\ q # n
        BY <2>2, <2>4, <3>3
      <4>2. after \in Facts /\ after.reached /\ Belief(test, q, after)
        BY <2>4, <3>3
      <4>3. LET j == join(flow[q], after)
            IN  j \in Facts /\ j.reached /\ Belief(test, q, j)
        BY <3>1, <4>2, JoinBelief
      <4> QED BY <4>1, <4>3
    <3>4. CASE ~(B /\ q = t) /\ ~(F /\ q = pc + 1)
      <4>1. flow'[q] = flow[q]
        BY <2>2, <3>4
      <4> QED BY <3>1, <4>1
    <3> QED BY <3>2, <3>3, <3>4
  <2>7. B => flow'[t].reached
    <3> SUFFICES ASSUME B PROVE flow'[t].reached
      OBVIOUS
    <3>1. t \in 0 .. n /\ pc + 1 # t
      BY <1>1, <2>3, <2>4, <2>5
    <3>2. flow'[t] = join(flow[t], taken)
      BY <2>2, <3>1
    <3>3. flow[t] \in Facts /\ (flow[t].reached => Belief(test, t, flow[t]))
      BY <3>1 DEF PassGoesOn, n
    <3>4. join(flow[t], taken).reached
      BY <2>4, <3>3, JoinBelief
    <3> QED BY <3>2, <3>4
  <2>8. F => flow'[pc + 1].reached
    <3> SUFFICES ASSUME F PROVE flow'[pc + 1].reached
      OBVIOUS
    <3> PICK e : e = pc + 1
      OBVIOUS
    <3>1. e \in 0 .. n /\ ~(B /\ e = t)
      BY <2>3, <2>4, <2>5
    <3>2. flow'[e] = join(flow[e], after)
      BY <2>2, <3>1
    <3>3. flow[e] \in Facts /\ (flow[e].reached => Belief(test, e, flow[e]))
      BY <3>1 DEF PassGoesOn, n
    <3>4. after \in Facts /\ after.reached /\ Belief(test, e, after)
      BY <2>4
    <3>5. join(flow[e], after).reached
      BY <3>3, <3>4, JoinBelief
    <3> QED BY <3>2, <3>5
  <2>9. \A q \in NullBranch(test) : q < pc + 1 => flow'[NullTarget(test, q)].reached
    <3>1. ASSUME NEW q \in NullBranch(test), q < pc + 1
          PROVE  flow'[NullTarget(test, q)].reached
      <4>1. NullTarget(test, q) \in 0 .. n /\ q \in Nat /\ pc \in Nat
        BY <1>1, <2>3, <2>5
      <4>2. CASE q < pc
        BY <2>6, <4>1, <4>2 DEF PassGoesOn
      <4>3. CASE q = pc
        BY <2>4, <2>7, <4>3
      <4> QED BY <3>1, <4>1, <4>2, <4>3
    <3> QED BY <3>1
  <2>10. pc + 1 # n => flow'[pc + 1].reached
    <3>1. ASSUME pc \in Exits(test), pc + 1 # n
          PROVE  \E q \in NullBranch(test) : q < pc + 1 /\ NullTarget(test, q) = pc + 1
      BY <3>1 DEF Exits, NullBranch, NullTarget, n, Span
    <3> QED BY <2>4, <2>8, <2>9, <3>1
  <2>11. acquisitions' = CallsMet(pc + 1)
    <3>1. acquisitions = CallsMet(pc) /\ pc \in Nat
      BY <2>3 DEF PassGoesOn
    <3> QED BY <2>1, <2>4, <3>1 DEF CallsMet
  <2>12. \A q \in Exits(test) : q < pc + 1 => has_exit'
    <3>1. \A q \in Exits(test) : q \in Nat /\ (q < pc + 1 => q < pc \/ q = pc)
      BY <2>3 DEF Exits
    <3> QED BY <2>1, <2>4, <3>1 DEF PassGoesOn
  <2>13. flow' \in [0 .. n -> Facts]
    BY <2>2, <2>6
  <2> QED BY <2>1, <2>3, <2>6, <2>9, <2>10, <2>11, <2>12, <2>13 DEF PassGoesOn, n
<1> QED
  BY <1>3, <1>4, <1>5 DEF Pass

\* What a run of fixture t has on entry to instruction q: registers g, cells c.
CellsAre(c, a, b) == c[0] = a /\ c[1] = b

\* Only case 0 gets past both NULL branches; case 2 leaves by the second one.
ProgramRun(t, q, g, c) ==
    /\ q \in 0 .. 23
    /\ q = 7 => t \in {0, 2}
    /\ q \in 8 .. 18 => t = 0
    /\ q \in 19 .. 23 => t = 2
    /\ q \in 0 .. 1 => CellsAre(c, "null", "null")
    /\ q \in (2 .. 6) \cup (19 .. 21) => CellsAre(c, "live", "null")
    /\ q = 7 => CellsAre(c, "live", IF t = 0 THEN "live" ELSE "null")
    /\ q \in 8 .. 11 => CellsAre(c, "live", "live")
    /\ q \in 12 .. 16 => CellsAre(c, "ended", "live")
    /\ q \in 17 .. 18 => CellsAre(c, "ended", "ended")
    /\ q \in 22 .. 23 => CellsAre(c, "ended", "null")
    /\ q = 1 => g[1] = Word(0)
    /\ q \in 2 .. 3 => g[0] = Handle(0)
    /\ q = 4 => g[6] = Handle(0)
    /\ q \in (5 .. 9) \cup {19} => g[FramePointer] = Handle(0)
    /\ q = 6 => g[1] = Word(IF t = 0 THEN 0 ELSE t - 1)
    /\ q = 7 => g[0] = IF t = 0 THEN Handle(1) ELSE Word(0)
    /\ q = 8 => g[0] = Handle(1)
    /\ q \in 9 .. 15 => g[7] = Handle(1)
    /\ q \in {10, 20} => g[8] = Handle(0)
    /\ q \in {11, 21} => g[1] = Handle(0)
    /\ q \in {13, 16} => g[1] = Handle(1)
    /\ q \in {14, 18} => g[0] = Word(42)
    /\ q \in 15 .. 17 => g[9] = Word(42)
    /\ q = 23 => g[0] = Word(7)

\* Alternate gets past both.
AlternateRun(q, g, c) ==
    /\ q \in 0 .. 19
    /\ q \in 0 .. 1 => CellsAre(c, "null", "null")
    /\ q \in 2 .. 6 => CellsAre(c, "live", "null")
    /\ q \in 7 .. 11 => CellsAre(c, "live", "live")
    /\ q \in 12 .. 16 => CellsAre(c, "ended", "live")
    /\ q \in 17 .. 19 => CellsAre(c, "ended", "ended")
    /\ q \in {1, 6} => g[1] = Word(0)
    /\ q = 2 => g[0] = Handle(0)
    /\ q \in 3 .. 4 => g[8] = Handle(0)
    /\ q \in 5 .. 9 => g[FramePointer] = Handle(0)
    /\ q = 7 => g[0] = Handle(1)
    /\ q \in 8 .. 15 => g[6] = Handle(1)
    /\ q = 10 => g[7] = Handle(0)
    /\ q = 11 => g[1] = Handle(0)
    /\ q \in {13, 16} => g[1] = Handle(1)
    /\ q = 14 => g[0] = Word(42)
    /\ q \in 15 .. 17 => g[9] = Word(42)
    /\ q = 18 => g[8] = Word(42)
    /\ q = 19 => g[0] = Word(42)

RunBelief(t, q, g, c) == IF t = 1 THEN AlternateRun(q, g, c) ELSE ProgramRun(t, q, g, c)

\* Registers h are registers g but for location l, which holds v.
LoadsOne(g, h, l, v) ==
    DOMAIN h = Location /\ \A x \in Location : h[x] = IF x = l THEN v ELSE g[x]

\* What a call keeps.
KeepsSaved(g, h) == DOMAIN h = Location /\ \A x \in 6 .. 10 : h[x] = g[x]

\* The run of a fixture is at one of its instructions.
RunningInsn ==
    /\ phase = "run" /\ Run /\ pc \in DOMAIN prog
    /\ DOMAIN regs = Location /\ cells \in [0 .. 1 -> {"null", "live", "ended"}]

\* The instruction was carried out, and the next one is target.
GoesTo(target) == phase' = "run" /\ pc' = target

\* Registers and the spill slot are locations.
LEMMA Places ==
    /\ \A x \in 0 .. 10 : x \in Location
    /\ FramePointer = 10
BY DEF Location, Reg, FramePointer

\* Words and handles are told apart.
LEMMA Values ==
    /\ \A m, n : Word(m) = Word(n) => m = n
    /\ \A m, n : Handle(m) = Handle(n) => m = n
    /\ \A m, n : Word(m) # Handle(n)
    /\ FieldValue = 42
BY DEF Word, Handle, FieldValue

\* One operation only can carry out an instruction.
LEMMA RunByOp ==
    ASSUME RunningInsn
    PROVE  LET op == prog[pc].op
           IN  /\ op = "MOV_X" => MovX
               /\ op = "MOV_K" => MovK
               /\ op = "STX" => Stx
               /\ op = "LDX" => Ldx
               /\ op = "JEQ" => Jeq
               /\ op = "CALL" => AcquireNull \/ Acquire \/ Read \/ Release \/ GateFails
               /\ op = "EXIT" => Exit
<1>1. ~Start /\ ~EntryRefused
  BY DEF RunningInsn, Start, EntryRefused
<1> QED
  BY <1>1 DEF RunningInsn, Run, MovX, MovK, Stx, Ldx, Jeq, AcquireNull, Acquire, Read,
              Release, GateFails, Exit, At

\* What a run does at each instruction: one that writes a location,
LEMMA PutRuns ==
    ASSUME RunningInsn, NEW l \in Location, NEW v, Put(l, v)
    PROVE  GoesTo(pc + 1) /\ LoadsOne(regs, regs', l, v) /\ cells' = cells
BY DEF RunningInsn, Put, GoesTo, LoadsOne

\* a constant,
LEMMA ImmRuns ==
    ASSUME RunningInsn, NEW d \in Reg, NEW v, prog[pc] = IMM(d, v)
    PROVE  GoesTo(pc + 1) /\ LoadsOne(regs, regs', d, Word(v)) /\ cells' = cells
<1>1. prog[pc].op = "MOV_K" /\ prog[pc].dst = d /\ prog[pc].imm = v /\ d \in Location
  BY DEF IMM, Fields, Location
<1> QED BY <1>1, RunByOp, PutRuns DEF MovK

\* a copy,
LEMMA CopyRuns ==
    ASSUME RunningInsn, NEW d \in Reg, NEW f, prog[pc] = COPY(d, f)
    PROVE  GoesTo(pc + 1) /\ LoadsOne(regs, regs', d, regs[f]) /\ cells' = cells
<1>1. prog[pc].op = "MOV_X" /\ prog[pc].dst = d /\ prog[pc].src = f /\ d \in Location
  BY DEF COPY, Fields, Location
<1> QED BY <1>1, RunByOp, PutRuns DEF MovX

\* a reload,
LEMMA LoadRuns ==
    ASSUME RunningInsn, NEW d \in Reg, prog[pc] = LOAD(d)
    PROVE  GoesTo(pc + 1) /\ LoadsOne(regs, regs', d, regs[FramePointer]) /\ cells' = cells
<1>1. prog[pc].op = "LDX" /\ prog[pc].dst = d /\ d \in Location
  BY DEF LOAD, Fields, Location
<1> QED BY <1>1, RunByOp, PutRuns DEF Ldx

\* a spill,
LEMMA StoreRuns ==
    ASSUME RunningInsn, NEW f, prog[pc] = STORE(f)
    PROVE  GoesTo(pc + 1) /\ LoadsOne(regs, regs', FramePointer, regs[f]) /\ cells' = cells
<1>1. prog[pc].op = "STX" /\ prog[pc].src = f /\ FramePointer \in Location
  BY DEF STORE, Fields, Location
<1> QED BY <1>1, RunByOp, PutRuns DEF Stx

\* the branch on NULL,
LEMMA NullRuns ==
    ASSUME RunningInsn, NEW d, NEW f, prog[pc] = IFZERO(d, f)
    PROVE  /\ GoesTo(IF regs[d] = Word(0) THEN pc + 1 + f ELSE pc + 1)
           /\ regs' = regs /\ cells' = cells
<1>1. prog[pc].op = "JEQ" /\ prog[pc].dst = d /\ prog[pc].off = f
  BY DEF IFZERO, Fields
<1> QED BY <1>1, RunByOp DEF Jeq, runVars, Target, GoesTo, RunningInsn

\* a call,
LEMMA CallIs ==
    ASSUME NEW k \in {AcquireOp, ReadOp, ReleaseOp}, prog[pc] = CALL(k)
    PROVE  prog[pc].op = "CALL" /\ Operation = k
BY DEF CALL, Fields, Operation, call_operation, AcquireOp, ReadOp, ReleaseOp

\* which keeps what it keeps:
LEMMA Returns ==
    ASSUME RunningInsn, NEW v, Return(v)
    PROVE  GoesTo(pc + 1) /\ regs'[0] = v /\ KeepsSaved(regs, regs')
BY DEF RunningInsn, Return, GoesTo, KeepsSaved, Location, Reg, FramePointer

\* reading,
LEMMA ReadRuns ==
    ASSUME RunningInsn, NEW n \in 0 .. 1, regs[1] = Handle(n), cells[n] = "live",
           prog[pc] = CALL(ReadOp)
    PROVE  GoesTo(pc + 1) /\ regs'[0] = Word(42) /\ KeepsSaved(regs, regs') /\ cells' = cells
<1>1. prog[pc].op = "CALL" /\ Operation = ReadOp /\ Usable(n)
  BY CallIs DEF Usable
<1>2. Read
  <2>1. ReadOp # AcquireOp /\ ReadOp # ReleaseOp /\ ReadOp # 0
    BY DEF ReadOp, AcquireOp, ReleaseOp
  <2> QED BY <1>1, <2>1, RunByOp DEF AcquireNull, Acquire, Release, GateFails, Refused, Inexact
<1> QED BY <1>2, Returns, Values DEF Read

\* releasing,
LEMMA ReleaseRuns ==
    ASSUME RunningInsn, NEW n \in 0 .. 1, regs[1] = Handle(n), cells[n] = "live",
           prog[pc] = CALL(ReleaseOp)
    PROVE  /\ GoesTo(pc + 1) /\ KeepsSaved(regs, regs')
           /\ \A m \in 0 .. 1 : cells'[m] = IF m = n THEN "ended" ELSE cells[m]
           /\ cells' \in [0 .. 1 -> {"null", "live", "ended"}]
<1>1. prog[pc].op = "CALL" /\ Operation = ReleaseOp /\ Usable(n)
  BY CallIs DEF Usable
<1>2. Release
  <2>1. ReleaseOp # AcquireOp /\ ReadOp # ReleaseOp /\ ReleaseOp # 0
    BY DEF ReadOp, AcquireOp, ReleaseOp
  <2> QED BY <1>1, <2>1, RunByOp DEF AcquireNull, Acquire, Read, GateFails, Refused, Inexact
<1>3. PICK m \in 0 .. 1 : Usable(m) /\ cells' = [cells EXCEPT ![m] = "ended"]
  BY <1>2 DEF Release
<1>4. m = n
  BY <1>3, Values DEF Usable
<1> QED BY <1>2, <1>3, <1>4, Returns DEF Release, RunningInsn

\* acquiring, which may fail,
LEMMA AcquireRuns ==
    ASSUME RunningInsn, NEW m \in {0, 1, 2}, regs[1] = Word(m), prog[pc] = CALL(AcquireOp),
           NEW n \in 0 .. 1, CellsAre(cells, IF n = 0 THEN "null" ELSE "live", "null")
    PROVE  \/ phase' = "aborted"
           \/ /\ m # 2 /\ GoesTo(pc + 1) /\ KeepsSaved(regs, regs')
              /\ regs'[0] = IF m = 0 THEN Handle(n) ELSE Word(0)
              /\ m = 1 => cells' = cells
              /\ m = 0 => \A x \in 0 .. 1 : cells'[x] = IF x = n THEN "live" ELSE cells[x]
              /\ cells' \in [0 .. 1 -> {"null", "live", "ended"}]
<1>1. prog[pc].op = "CALL" /\ Operation = AcquireOp /\ ReadOp # AcquireOp /\ ReleaseOp # AcquireOp
  BY CallIs DEF ReadOp, AcquireOp, ReleaseOp
<1>2. Acquired = n
  BY AcquiredFacts DEF Acquired, RunningInsn, CellsAre
<1>3. AcquireNull \/ Acquire \/ GateFails
  BY <1>1, RunByOp DEF Read, Release
<1>4. CASE GateFails
  BY <1>4 DEF GateFails
<1>5. CASE AcquireNull
  <2>1. m = 1 /\ cells' = cells /\ Return(Word(0))
    BY <1>5, Values DEF AcquireNull
  <2> QED BY <2>1, Returns DEF RunningInsn
<1>6. CASE Acquire
  <2>1. m = 0 /\ cells' = [cells EXCEPT ![n] = "live"] /\ Return(Handle(n))
    BY <1>2, <1>6, Values DEF Acquire
  <2> QED BY <2>1, Returns DEF RunningInsn
<1> QED BY <1>3, <1>4, <1>5, <1>6

\* and an exit.
LEMMA ExitRuns ==
    ASSUME RunningInsn, prog[pc] = EXIT
    PROVE  phase' = "returned" /\ result' = regs[0] /\ cells' = cells
<1>1. prog[pc].op = "EXIT"
  BY DEF EXIT, Fields
<1> QED BY <1>1, RunByOp DEF Exit

\* What a step of a fixture's run leads to.
FixtureRun ==
    \/ phase' = "aborted"
    \/ /\ phase' = "run" /\ DOMAIN regs' = Location
       /\ cells' \in [0 .. 1 -> {"null", "live", "ended"}]
       /\ RunBelief(test, pc', regs', cells')
    \/ /\ phase' = "returned" /\ result' = Word(Expected(test)) /\ test # 3
       /\ \A n \in 0 .. 1 : cells'[n] # "live"

\* The run, at each instruction of program and of the fixtures that are executed, and
LEMMA ProgramRuns ==
    ASSUME RunningInsn, test \in Case \ {1}, ~Reject(test), prog = Selected(test),
           test' = test, ProgramRun(test, pc, regs, cells)
    PROVE  FixtureRun
<1> DEFINE i == prog[pc]
<1> USE DEF CellsAre
<1>1. \A x \in 0 .. 9 : x \in Reg
  BY DEF Reg
<1>2. /\ pc \notin {5, 12, 13} => i = program[pc]
      /\ pc = 5 => i = IMM(1, IF test \in {2, 3} THEN test - 1 ELSE 0)
      /\ pc = 12 => i = COPY(1, 7)
      /\ pc = 13 => i = CALL(ReadOp)
      /\ pc \in 0 .. 23 /\ test \in {0, 2, 3}
  <2>1. pc \in 0 .. 23 /\ pc \in 0 .. 25 /\ test \in {0, 2, 3} /\ test < 4
    BY DEF Case, Reject, ProgramRun
  <2> QED BY <2>1, FixtureText DEF SameText
<1>3. ASSUME GoesTo(pc + 1), DOMAIN regs' = Location,
             cells' \in [0 .. 1 -> {"null", "live", "ended"}], ProgramRun(test, pc + 1, regs', cells')
      PROVE  FixtureRun
  BY <1>3 DEF FixtureRun, GoesTo, RunBelief
<1>4. cells' = cells => cells' \in [0 .. 1 -> {"null", "live", "ended"}]
  BY DEF RunningInsn
<1> HIDE DEF i
<1>5. CASE pc = 0
  <2>1. i = IMM(1, 0)
    BY <1>2, <1>5, ProgramText
  <2>2. GoesTo(pc + 1) /\ LoadsOne(regs, regs', 1, Word(0)) /\ cells' = cells
    BY <1>1, <2>1, ImmRuns DEF i
  <2>3. ProgramRun(test, pc + 1, regs', cells')
    BY <1>2, <1>5, <2>2, Places DEF LoadsOne, ProgramRun
  <2> QED BY <1>3, <1>4, <2>2, <2>3 DEF LoadsOne
<1>6. CASE pc = 1
  <2> PICK m : m = 0
    OBVIOUS
  <2>1. /\ i = CALL(AcquireOp) /\ m \in {0, 1, 2} /\ regs[1] = Word(m)
        /\ CellsAre(cells, "null", "null")
    BY <1>2, <1>6, ProgramText DEF ProgramRun
  <2>2. \/ phase' = "aborted"
        \/ /\ m # 2 /\ GoesTo(pc + 1) /\ KeepsSaved(regs, regs')
           /\ regs'[0] = IF m = 0 THEN Handle(0) ELSE Word(0)
           /\ m = 1 => cells' = cells
           /\ m = 0 => \A x \in 0 .. 1 : cells'[x] = IF x = 0 THEN "live" ELSE cells[x]
           /\ cells' \in [0 .. 1 -> {"null", "live", "ended"}]
    BY <2>1, AcquireRuns DEF i
  <2>3. CASE phase' = "aborted"
    BY <2>3 DEF FixtureRun
  <2>4. CASE phase' # "aborted"
    <3>1. ProgramRun(test, pc + 1, regs', cells')
      BY <1>2, <1>6, <2>1, <2>2, <2>4, Places DEF KeepsSaved, ProgramRun
    <3> QED BY <1>3, <2>2, <2>4, <3>1 DEF KeepsSaved
  <2> QED BY <2>3, <2>4
<1>7. CASE pc = 2
  <2>1. i = IFZERO(0, 21)
    BY <1>2, <1>7, ProgramText
  <2>2. /\ GoesTo(IF regs[0] = Word(0) THEN pc + 1 + 21 ELSE pc + 1)
        /\ regs' = regs /\ cells' = cells
    BY <2>1, NullRuns DEF i
  <2>3. GoesTo(pc + 1)
    BY <1>7, <2>2, Values DEF ProgramRun
  <2>4. ProgramRun(test, pc + 1, regs', cells')
    BY <1>2, <1>7, <2>2 DEF ProgramRun
  <2> QED BY <1>3, <1>4, <2>2, <2>3, <2>4 DEF RunningInsn
<1>8. CASE pc = 3
  <2>1. i = COPY(6, 0)
    BY <1>2, <1>8, ProgramText
  <2>2. GoesTo(pc + 1) /\ LoadsOne(regs, regs', 6, regs[0]) /\ cells' = cells
    BY <1>1, <2>1, CopyRuns DEF i
  <2>3. ProgramRun(test, pc + 1, regs', cells')
    BY <1>2, <1>8, <2>2, Places DEF LoadsOne, ProgramRun
  <2> QED BY <1>3, <1>4, <2>2, <2>3 DEF LoadsOne
<1>9. CASE pc = 4
  <2>1. i = STORE(6)
    BY <1>2, <1>9, ProgramText
  <2>2. GoesTo(pc + 1) /\ LoadsOne(regs, regs', FramePointer, regs[6]) /\ cells' = cells
    BY <1>1, <2>1, StoreRuns DEF i
  <2>3. ProgramRun(test, pc + 1, regs', cells')
    BY <1>2, <1>9, <2>2, Places DEF LoadsOne, ProgramRun
  <2> QED BY <1>3, <1>4, <2>2, <2>3 DEF LoadsOne
<1>10. CASE pc = 5
  <2>1. i = IMM(1, IF test \in {2, 3} THEN test - 1 ELSE 0)
    BY <1>2, <1>10, ProgramText
  <2>2. /\ GoesTo(pc + 1) /\ cells' = cells
        /\ LoadsOne(regs, regs', 1, Word(IF test \in {2, 3} THEN test - 1 ELSE 0))
    BY <1>1, <2>1, ImmRuns DEF i
  <2>3. ProgramRun(test, pc + 1, regs', cells')
    BY <1>2, <1>10, <2>2, Places DEF LoadsOne, ProgramRun
  <2> QED BY <1>3, <1>4, <2>2, <2>3 DEF LoadsOne
<1>11. CASE pc = 6
  <2> PICK m : m = IF test = 0 THEN 0 ELSE test - 1
    OBVIOUS
  <2>1. /\ i = CALL(AcquireOp) /\ m \in {0, 1, 2} /\ regs[1] = Word(m)
        /\ CellsAre(cells, "live", "null")
    BY <1>2, <1>11, ProgramText DEF ProgramRun
  <2>2. \/ phase' = "aborted"
        \/ /\ m # 2 /\ GoesTo(pc + 1) /\ KeepsSaved(regs, regs')
           /\ regs'[0] = IF m = 0 THEN Handle(1) ELSE Word(0)
           /\ m = 1 => cells' = cells
           /\ m = 0 => \A x \in 0 .. 1 : cells'[x] = IF x = 1 THEN "live" ELSE cells[x]
           /\ cells' \in [0 .. 1 -> {"null", "live", "ended"}]
    BY <2>1, AcquireRuns DEF i
  <2>3. CASE phase' = "aborted"
    BY <2>3 DEF FixtureRun
  <2>4. CASE phase' # "aborted"
    <3>1. ProgramRun(test, pc + 1, regs', cells')
      BY <1>2, <1>11, <2>1, <2>2, <2>4, Places DEF KeepsSaved, ProgramRun
    <3> QED BY <1>3, <2>2, <2>4, <3>1 DEF KeepsSaved
  <2> QED BY <2>3, <2>4
<1>12. CASE pc = 7
  <2>1. i = IFZERO(0, 11)
    BY <1>2, <1>12, ProgramText
  <2>2. /\ GoesTo(IF regs[0] = Word(0) THEN pc + 1 + 11 ELSE pc + 1)
        /\ regs' = regs /\ cells' = cells
    BY <2>1, NullRuns DEF i
  <2>3. CASE regs[0] = Word(0)
    <3>1. GoesTo(19)
      BY <1>12, <2>2, <2>3
    <3>2. test = 2
      BY <1>12, <2>3, Values DEF ProgramRun
    <3>3. ProgramRun(test, 19, regs', cells')
      BY <1>12, <2>2, <3>2, Values DEF ProgramRun
    <3> QED BY <1>2, <1>4, <2>2, <3>1, <3>3 DEF FixtureRun, GoesTo, RunBelief, RunningInsn
  <2>4. CASE regs[0] # Word(0)
    <3>1. test = 0 /\ GoesTo(pc + 1)
      BY <1>12, <2>2, <2>4 DEF ProgramRun
    <3>2. ProgramRun(test, pc + 1, regs', cells')
      BY <1>12, <2>2, <3>1, Values DEF ProgramRun
    <3> QED BY <1>3, <1>4, <2>2, <3>1, <3>2 DEF RunningInsn
  <2> QED BY <2>3, <2>4
<1>13. CASE pc = 8
  <2>1. i = COPY(7, 0)
    BY <1>2, <1>13, ProgramText
  <2>2. GoesTo(pc + 1) /\ LoadsOne(regs, regs', 7, regs[0]) /\ cells' = cells
    BY <1>1, <2>1, CopyRuns DEF i
  <2>3. ProgramRun(test, pc + 1, regs', cells')
    BY <1>2, <1>13, <2>2, Places DEF LoadsOne, ProgramRun
  <2> QED BY <1>3, <1>4, <2>2, <2>3 DEF LoadsOne
<1>14. CASE pc = 9
  <2>1. i = LOAD(8)
    BY <1>2, <1>14, ProgramText
  <2>2. GoesTo(pc + 1) /\ LoadsOne(regs, regs', 8, regs[FramePointer]) /\ cells' = cells
    BY <1>1, <2>1, LoadRuns DEF i
  <2>3. ProgramRun(test, pc + 1, regs', cells')
    BY <1>2, <1>14, <2>2, Places DEF LoadsOne, ProgramRun
  <2> QED BY <1>3, <1>4, <2>2, <2>3 DEF LoadsOne
<1>15. CASE pc = 10
  <2>1. i = COPY(1, 8)
    BY <1>2, <1>15, ProgramText
  <2>2. GoesTo(pc + 1) /\ LoadsOne(regs, regs', 1, regs[8]) /\ cells' = cells
    BY <1>1, <2>1, CopyRuns DEF i
  <2>3. ProgramRun(test, pc + 1, regs', cells')
    BY <1>2, <1>15, <2>2, Places DEF LoadsOne, ProgramRun
  <2> QED BY <1>3, <1>4, <2>2, <2>3 DEF LoadsOne
<1>16. CASE pc = 11
  <2>1. i = CALL(ReleaseOp) /\ regs[1] = Handle(0) /\ cells[0] = "live"
    BY <1>2, <1>16, ProgramText DEF ProgramRun
  <2>2. /\ GoesTo(pc + 1) /\ KeepsSaved(regs, regs')
        /\ \A m \in 0 .. 1 : cells'[m] = IF m = 0 THEN "ended" ELSE cells[m]
        /\ cells' \in [0 .. 1 -> {"null", "live", "ended"}]
    BY <2>1, ReleaseRuns DEF i
  <2>3. ProgramRun(test, pc + 1, regs', cells')
    BY <1>2, <1>16, <2>2, Places DEF KeepsSaved, ProgramRun
  <2> QED BY <1>3, <2>2, <2>3 DEF KeepsSaved
<1>17. CASE pc = 12
  <2>1. i = COPY(1, 7)
    BY <1>2, <1>17, ProgramText
  <2>2. GoesTo(pc + 1) /\ LoadsOne(regs, regs', 1, regs[7]) /\ cells' = cells
    BY <1>1, <2>1, CopyRuns DEF i
  <2>3. ProgramRun(test, pc + 1, regs', cells')
    BY <1>2, <1>17, <2>2, Places DEF LoadsOne, ProgramRun
  <2> QED BY <1>3, <1>4, <2>2, <2>3 DEF LoadsOne
<1>18. CASE pc = 13
  <2>1. i = CALL(ReadOp) /\ regs[1] = Handle(1) /\ cells[1] = "live"
    BY <1>2, <1>18, ProgramText DEF ProgramRun
  <2>2. GoesTo(pc + 1) /\ regs'[0] = Word(42) /\ KeepsSaved(regs, regs') /\ cells' = cells
    BY <2>1, ReadRuns DEF i
  <2>3. ProgramRun(test, pc + 1, regs', cells')
    BY <1>2, <1>18, <2>2, Places DEF KeepsSaved, ProgramRun
  <2> QED BY <1>3, <1>4, <2>2, <2>3 DEF KeepsSaved
<1>19. CASE pc = 14
  <2>1. i = COPY(9, 0)
    BY <1>2, <1>19, ProgramText
  <2>2. GoesTo(pc + 1) /\ LoadsOne(regs, regs', 9, regs[0]) /\ cells' = cells
    BY <1>1, <2>1, CopyRuns DEF i
  <2>3. ProgramRun(test, pc + 1, regs', cells')
    BY <1>2, <1>19, <2>2, Places DEF LoadsOne, ProgramRun
  <2> QED BY <1>3, <1>4, <2>2, <2>3 DEF LoadsOne
<1>20. CASE pc = 15
  <2>1. i = COPY(1, 7)
    BY <1>2, <1>20, ProgramText
  <2>2. GoesTo(pc + 1) /\ LoadsOne(regs, regs', 1, regs[7]) /\ cells' = cells
    BY <1>1, <2>1, CopyRuns DEF i
  <2>3. ProgramRun(test, pc + 1, regs', cells')
    BY <1>2, <1>20, <2>2, Places DEF LoadsOne, ProgramRun
  <2> QED BY <1>3, <1>4, <2>2, <2>3 DEF LoadsOne
<1>21. CASE pc = 16
  <2>1. i = CALL(ReleaseOp) /\ regs[1] = Handle(1) /\ cells[1] = "live"
    BY <1>2, <1>21, ProgramText DEF ProgramRun
  <2>2. /\ GoesTo(pc + 1) /\ KeepsSaved(regs, regs')
        /\ \A m \in 0 .. 1 : cells'[m] = IF m = 1 THEN "ended" ELSE cells[m]
        /\ cells' \in [0 .. 1 -> {"null", "live", "ended"}]
    BY <2>1, ReleaseRuns DEF i
  <2>3. ProgramRun(test, pc + 1, regs', cells')
    BY <1>2, <1>21, <2>2, Places DEF KeepsSaved, ProgramRun
  <2> QED BY <1>3, <2>2, <2>3 DEF KeepsSaved
<1>22. CASE pc = 17
  <2>1. i = COPY(0, 9)
    BY <1>2, <1>22, ProgramText
  <2>2. GoesTo(pc + 1) /\ LoadsOne(regs, regs', 0, regs[9]) /\ cells' = cells
    BY <1>1, <2>1, CopyRuns DEF i
  <2>3. ProgramRun(test, pc + 1, regs', cells')
    BY <1>2, <1>22, <2>2, Places DEF LoadsOne, ProgramRun
  <2> QED BY <1>3, <1>4, <2>2, <2>3 DEF LoadsOne
<1>23. CASE pc = 18
  <2>1. i = EXIT
    BY <1>2, <1>23, ProgramText
  <2>2. phase' = "returned" /\ result' = regs[0] /\ cells' = cells
    BY <2>1, ExitRuns DEF i
  <2> QED BY <1>2, <1>23, <2>2 DEF FixtureRun, Expected, ProgramRun
<1>24. CASE pc = 19
  <2>1. i = LOAD(8)
    BY <1>2, <1>24, ProgramText
  <2>2. GoesTo(pc + 1) /\ LoadsOne(regs, regs', 8, regs[FramePointer]) /\ cells' = cells
    BY <1>1, <2>1, LoadRuns DEF i
  <2>3. ProgramRun(test, pc + 1, regs', cells')
    BY <1>2, <1>24, <2>2, Places DEF LoadsOne, ProgramRun
  <2> QED BY <1>3, <1>4, <2>2, <2>3 DEF LoadsOne
<1>25. CASE pc = 20
  <2>1. i = COPY(1, 8)
    BY <1>2, <1>25, ProgramText
  <2>2. GoesTo(pc + 1) /\ LoadsOne(regs, regs', 1, regs[8]) /\ cells' = cells
    BY <1>1, <2>1, CopyRuns DEF i
  <2>3. ProgramRun(test, pc + 1, regs', cells')
    BY <1>2, <1>25, <2>2, Places DEF LoadsOne, ProgramRun
  <2> QED BY <1>3, <1>4, <2>2, <2>3 DEF LoadsOne
<1>26. CASE pc = 21
  <2>1. i = CALL(ReleaseOp) /\ regs[1] = Handle(0) /\ cells[0] = "live"
    BY <1>2, <1>26, ProgramText DEF ProgramRun
  <2>2. /\ GoesTo(pc + 1) /\ KeepsSaved(regs, regs')
        /\ \A m \in 0 .. 1 : cells'[m] = IF m = 0 THEN "ended" ELSE cells[m]
        /\ cells' \in [0 .. 1 -> {"null", "live", "ended"}]
    BY <2>1, ReleaseRuns DEF i
  <2>3. ProgramRun(test, pc + 1, regs', cells')
    BY <1>2, <1>26, <2>2, Places DEF KeepsSaved, ProgramRun
  <2> QED BY <1>3, <2>2, <2>3 DEF KeepsSaved
<1>27. CASE pc = 22
  <2>1. i = IMM(0, 7)
    BY <1>2, <1>27, ProgramText
  <2>2. GoesTo(pc + 1) /\ LoadsOne(regs, regs', 0, Word(7)) /\ cells' = cells
    BY <1>1, <2>1, ImmRuns DEF i
  <2>3. ProgramRun(test, pc + 1, regs', cells')
    BY <1>2, <1>27, <2>2, Places DEF LoadsOne, ProgramRun
  <2> QED BY <1>3, <1>4, <2>2, <2>3 DEF LoadsOne
<1>28. CASE pc = 23
  <2>1. i = EXIT
    BY <1>2, <1>28, ProgramText
  <2>2. phase' = "returned" /\ result' = regs[0] /\ cells' = cells
    BY <2>1, ExitRuns DEF i
  <2> QED BY <1>2, <1>28, <2>2 DEF FixtureRun, Expected, ProgramRun
<1> QED
  BY <1>2, <1>5, <1>6, <1>7, <1>8, <1>9, <1>10, <1>11, <1>12, <1>13, <1>14, <1>15,
     <1>16, <1>17, <1>18, <1>19, <1>20, <1>21, <1>22, <1>23, <1>24, <1>25, <1>26,
     <1>27, <1>28
\* of alternate.
LEMMA AlternateRuns ==
    ASSUME RunningInsn, test = 1, prog = Selected(test), test' = test,
           AlternateRun(pc, regs, cells)
    PROVE  FixtureRun
<1> DEFINE i == prog[pc]
<1> USE DEF CellsAre
<1>1. \A x \in 0 .. 9 : x \in Reg
  BY DEF Reg
<1>2. i = alternate[pc] /\ pc \in 0 .. 19 /\ test = 1
  BY DEF Selected, AlternateRun
<1>3. ASSUME GoesTo(pc + 1), DOMAIN regs' = Location,
             cells' \in [0 .. 1 -> {"null", "live", "ended"}], AlternateRun(pc + 1, regs', cells')
      PROVE  FixtureRun
  BY <1>3 DEF FixtureRun, GoesTo, RunBelief
<1>4. cells' = cells => cells' \in [0 .. 1 -> {"null", "live", "ended"}]
  BY DEF RunningInsn
<1> HIDE DEF i
<1>5. CASE pc = 0
  <2>1. i = IMM(1, 0)
    BY <1>2, <1>5, AlternateText
  <2>2. GoesTo(pc + 1) /\ LoadsOne(regs, regs', 1, Word(0)) /\ cells' = cells
    BY <1>1, <2>1, ImmRuns DEF i
  <2>3. AlternateRun(pc + 1, regs', cells')
    BY <1>2, <1>5, <2>2, Places DEF LoadsOne, AlternateRun
  <2> QED BY <1>3, <1>4, <2>2, <2>3 DEF LoadsOne
<1>6. CASE pc = 1
  <2> PICK m : m = 0
    OBVIOUS
  <2>1. /\ i = CALL(AcquireOp) /\ m \in {0, 1, 2} /\ regs[1] = Word(m)
        /\ CellsAre(cells, "null", "null")
    BY <1>2, <1>6, AlternateText DEF AlternateRun
  <2>2. \/ phase' = "aborted"
        \/ /\ m # 2 /\ GoesTo(pc + 1) /\ KeepsSaved(regs, regs')
           /\ regs'[0] = IF m = 0 THEN Handle(0) ELSE Word(0)
           /\ m = 1 => cells' = cells
           /\ m = 0 => \A x \in 0 .. 1 : cells'[x] = IF x = 0 THEN "live" ELSE cells[x]
           /\ cells' \in [0 .. 1 -> {"null", "live", "ended"}]
    BY <2>1, AcquireRuns DEF i
  <2>3. CASE phase' = "aborted"
    BY <2>3 DEF FixtureRun
  <2>4. CASE phase' # "aborted"
    <3>1. AlternateRun(pc + 1, regs', cells')
      BY <1>2, <1>6, <2>1, <2>2, <2>4, Places DEF KeepsSaved, AlternateRun
    <3> QED BY <1>3, <2>2, <2>4, <3>1 DEF KeepsSaved
  <2> QED BY <2>3, <2>4
<1>7. CASE pc = 2
  <2>1. i = COPY(8, 0)
    BY <1>2, <1>7, AlternateText
  <2>2. GoesTo(pc + 1) /\ LoadsOne(regs, regs', 8, regs[0]) /\ cells' = cells
    BY <1>1, <2>1, CopyRuns DEF i
  <2>3. AlternateRun(pc + 1, regs', cells')
    BY <1>2, <1>7, <2>2, Places DEF LoadsOne, AlternateRun
  <2> QED BY <1>3, <1>4, <2>2, <2>3 DEF LoadsOne
<1>8. CASE pc = 3
  <2>1. i = IFZERO(8, 21)
    BY <1>2, <1>8, AlternateText
  <2>2. /\ GoesTo(IF regs[8] = Word(0) THEN pc + 1 + 21 ELSE pc + 1)
        /\ regs' = regs /\ cells' = cells
    BY <2>1, NullRuns DEF i
  <2>3. GoesTo(pc + 1)
    BY <1>8, <2>2, Values DEF AlternateRun
  <2>4. AlternateRun(pc + 1, regs', cells')
    BY <1>2, <1>8, <2>2 DEF AlternateRun
  <2> QED BY <1>3, <1>4, <2>2, <2>3, <2>4 DEF RunningInsn
<1>9. CASE pc = 4
  <2>1. i = STORE(8)
    BY <1>2, <1>9, AlternateText
  <2>2. GoesTo(pc + 1) /\ LoadsOne(regs, regs', FramePointer, regs[8]) /\ cells' = cells
    BY <1>1, <2>1, StoreRuns DEF i
  <2>3. AlternateRun(pc + 1, regs', cells')
    BY <1>2, <1>9, <2>2, Places DEF LoadsOne, AlternateRun
  <2> QED BY <1>3, <1>4, <2>2, <2>3 DEF LoadsOne
<1>10. CASE pc = 5
  <2>1. i = IMM(1, 0)
    BY <1>2, <1>10, AlternateText
  <2>2. GoesTo(pc + 1) /\ LoadsOne(regs, regs', 1, Word(0)) /\ cells' = cells
    BY <1>1, <2>1, ImmRuns DEF i
  <2>3. AlternateRun(pc + 1, regs', cells')
    BY <1>2, <1>10, <2>2, Places DEF LoadsOne, AlternateRun
  <2> QED BY <1>3, <1>4, <2>2, <2>3 DEF LoadsOne
<1>11. CASE pc = 6
  <2> PICK m : m = 0
    OBVIOUS
  <2>1. /\ i = CALL(AcquireOp) /\ m \in {0, 1, 2} /\ regs[1] = Word(m)
        /\ CellsAre(cells, "live", "null")
    BY <1>2, <1>11, AlternateText DEF AlternateRun
  <2>2. \/ phase' = "aborted"
        \/ /\ m # 2 /\ GoesTo(pc + 1) /\ KeepsSaved(regs, regs')
           /\ regs'[0] = IF m = 0 THEN Handle(1) ELSE Word(0)
           /\ m = 1 => cells' = cells
           /\ m = 0 => \A x \in 0 .. 1 : cells'[x] = IF x = 1 THEN "live" ELSE cells[x]
           /\ cells' \in [0 .. 1 -> {"null", "live", "ended"}]
    BY <2>1, AcquireRuns DEF i
  <2>3. CASE phase' = "aborted"
    BY <2>3 DEF FixtureRun
  <2>4. CASE phase' # "aborted"
    <3>1. AlternateRun(pc + 1, regs', cells')
      BY <1>2, <1>11, <2>1, <2>2, <2>4, Places DEF KeepsSaved, AlternateRun
    <3> QED BY <1>3, <2>2, <2>4, <3>1 DEF KeepsSaved
  <2> QED BY <2>3, <2>4
<1>12. CASE pc = 7
  <2>1. i = COPY(6, 0)
    BY <1>2, <1>12, AlternateText
  <2>2. GoesTo(pc + 1) /\ LoadsOne(regs, regs', 6, regs[0]) /\ cells' = cells
    BY <1>1, <2>1, CopyRuns DEF i
  <2>3. AlternateRun(pc + 1, regs', cells')
    BY <1>2, <1>12, <2>2, Places DEF LoadsOne, AlternateRun
  <2> QED BY <1>3, <1>4, <2>2, <2>3 DEF LoadsOne
<1>13. CASE pc = 8
  <2>1. i = IFZERO(6, 11)
    BY <1>2, <1>13, AlternateText
  <2>2. /\ GoesTo(IF regs[6] = Word(0) THEN pc + 1 + 11 ELSE pc + 1)
        /\ regs' = regs /\ cells' = cells
    BY <2>1, NullRuns DEF i
  <2>3. GoesTo(pc + 1)
    BY <1>13, <2>2, Values DEF AlternateRun
  <2>4. AlternateRun(pc + 1, regs', cells')
    BY <1>2, <1>13, <2>2 DEF AlternateRun
  <2> QED BY <1>3, <1>4, <2>2, <2>3, <2>4 DEF RunningInsn
<1>14. CASE pc = 9
  <2>1. i = LOAD(7)
    BY <1>2, <1>14, AlternateText
  <2>2. GoesTo(pc + 1) /\ LoadsOne(regs, regs', 7, regs[FramePointer]) /\ cells' = cells
    BY <1>1, <2>1, LoadRuns DEF i
  <2>3. AlternateRun(pc + 1, regs', cells')
    BY <1>2, <1>14, <2>2, Places DEF LoadsOne, AlternateRun
  <2> QED BY <1>3, <1>4, <2>2, <2>3 DEF LoadsOne
<1>15. CASE pc = 10
  <2>1. i = COPY(1, 7)
    BY <1>2, <1>15, AlternateText
  <2>2. GoesTo(pc + 1) /\ LoadsOne(regs, regs', 1, regs[7]) /\ cells' = cells
    BY <1>1, <2>1, CopyRuns DEF i
  <2>3. AlternateRun(pc + 1, regs', cells')
    BY <1>2, <1>15, <2>2, Places DEF LoadsOne, AlternateRun
  <2> QED BY <1>3, <1>4, <2>2, <2>3 DEF LoadsOne
<1>16. CASE pc = 11
  <2>1. i = CALL(ReleaseOp) /\ regs[1] = Handle(0) /\ cells[0] = "live"
    BY <1>2, <1>16, AlternateText DEF AlternateRun
  <2>2. /\ GoesTo(pc + 1) /\ KeepsSaved(regs, regs')
        /\ \A m \in 0 .. 1 : cells'[m] = IF m = 0 THEN "ended" ELSE cells[m]
        /\ cells' \in [0 .. 1 -> {"null", "live", "ended"}]
    BY <2>1, ReleaseRuns DEF i
  <2>3. AlternateRun(pc + 1, regs', cells')
    BY <1>2, <1>16, <2>2, Places DEF KeepsSaved, AlternateRun
  <2> QED BY <1>3, <2>2, <2>3 DEF KeepsSaved
<1>17. CASE pc = 12
  <2>1. i = COPY(1, 6)
    BY <1>2, <1>17, AlternateText
  <2>2. GoesTo(pc + 1) /\ LoadsOne(regs, regs', 1, regs[6]) /\ cells' = cells
    BY <1>1, <2>1, CopyRuns DEF i
  <2>3. AlternateRun(pc + 1, regs', cells')
    BY <1>2, <1>17, <2>2, Places DEF LoadsOne, AlternateRun
  <2> QED BY <1>3, <1>4, <2>2, <2>3 DEF LoadsOne
<1>18. CASE pc = 13
  <2>1. i = CALL(ReadOp) /\ regs[1] = Handle(1) /\ cells[1] = "live"
    BY <1>2, <1>18, AlternateText DEF AlternateRun
  <2>2. GoesTo(pc + 1) /\ regs'[0] = Word(42) /\ KeepsSaved(regs, regs') /\ cells' = cells
    BY <2>1, ReadRuns DEF i
  <2>3. AlternateRun(pc + 1, regs', cells')
    BY <1>2, <1>18, <2>2, Places DEF KeepsSaved, AlternateRun
  <2> QED BY <1>3, <1>4, <2>2, <2>3 DEF KeepsSaved
<1>19. CASE pc = 14
  <2>1. i = COPY(9, 0)
    BY <1>2, <1>19, AlternateText
  <2>2. GoesTo(pc + 1) /\ LoadsOne(regs, regs', 9, regs[0]) /\ cells' = cells
    BY <1>1, <2>1, CopyRuns DEF i
  <2>3. AlternateRun(pc + 1, regs', cells')
    BY <1>2, <1>19, <2>2, Places DEF LoadsOne, AlternateRun
  <2> QED BY <1>3, <1>4, <2>2, <2>3 DEF LoadsOne
<1>20. CASE pc = 15
  <2>1. i = COPY(1, 6)
    BY <1>2, <1>20, AlternateText
  <2>2. GoesTo(pc + 1) /\ LoadsOne(regs, regs', 1, regs[6]) /\ cells' = cells
    BY <1>1, <2>1, CopyRuns DEF i
  <2>3. AlternateRun(pc + 1, regs', cells')
    BY <1>2, <1>20, <2>2, Places DEF LoadsOne, AlternateRun
  <2> QED BY <1>3, <1>4, <2>2, <2>3 DEF LoadsOne
<1>21. CASE pc = 16
  <2>1. i = CALL(ReleaseOp) /\ regs[1] = Handle(1) /\ cells[1] = "live"
    BY <1>2, <1>21, AlternateText DEF AlternateRun
  <2>2. /\ GoesTo(pc + 1) /\ KeepsSaved(regs, regs')
        /\ \A m \in 0 .. 1 : cells'[m] = IF m = 1 THEN "ended" ELSE cells[m]
        /\ cells' \in [0 .. 1 -> {"null", "live", "ended"}]
    BY <2>1, ReleaseRuns DEF i
  <2>3. AlternateRun(pc + 1, regs', cells')
    BY <1>2, <1>21, <2>2, Places DEF KeepsSaved, AlternateRun
  <2> QED BY <1>3, <2>2, <2>3 DEF KeepsSaved
<1>22. CASE pc = 17
  <2>1. i = COPY(8, 9)
    BY <1>2, <1>22, AlternateText
  <2>2. GoesTo(pc + 1) /\ LoadsOne(regs, regs', 8, regs[9]) /\ cells' = cells
    BY <1>1, <2>1, CopyRuns DEF i
  <2>3. AlternateRun(pc + 1, regs', cells')
    BY <1>2, <1>22, <2>2, Places DEF LoadsOne, AlternateRun
  <2> QED BY <1>3, <1>4, <2>2, <2>3 DEF LoadsOne
<1>23. CASE pc = 18
  <2>1. i = COPY(0, 8)
    BY <1>2, <1>23, AlternateText
  <2>2. GoesTo(pc + 1) /\ LoadsOne(regs, regs', 0, regs[8]) /\ cells' = cells
    BY <1>1, <2>1, CopyRuns DEF i
  <2>3. AlternateRun(pc + 1, regs', cells')
    BY <1>2, <1>23, <2>2, Places DEF LoadsOne, AlternateRun
  <2> QED BY <1>3, <1>4, <2>2, <2>3 DEF LoadsOne
<1>24. CASE pc = 19
  <2>1. i = EXIT
    BY <1>2, <1>24, AlternateText
  <2>2. phase' = "returned" /\ result' = regs[0] /\ cells' = cells
    BY <2>1, ExitRuns DEF i
  <2> QED BY <1>2, <1>24, <2>2 DEF FixtureRun, Expected, AlternateRun
<1> QED
  BY <1>2, <1>5, <1>6, <1>7, <1>8, <1>9, <1>10, <1>11, <1>12, <1>13, <1>14, <1>15,
     <1>16, <1>17, <1>18, <1>19, <1>20, <1>21, <1>22, <1>23, <1>24

\* Where the run of the present fixture is.
InRun ==
    \/ phase = "aborted"
    \/ /\ phase = "run" /\ DOMAIN regs = Location
       /\ cells \in [0 .. 1 -> {"null", "live", "ended"}]
       /\ RunBelief(test, pc, regs, cells)
    \/ /\ phase = "returned" /\ result = Word(Expected(test)) /\ test # 3
       /\ \A n \in 0 .. 1 : cells[n] # "live"

\* Nothing has run since the case was selected.
Untouched == DOMAIN regs = Location /\ cells = [n \in 0 .. 1 |-> "null"]

\* The case that is tried is the one selected, and the pass, then the run, are
\* where the fixture takes them.
FixtureInv ==
    /\ test \in Case
    /\ stage \in {"load", "compile", "execute", "next", "end"}
    /\ stage \in {"load", "compile", "execute"} => prog = Selected(test)
    /\ stage = "load" => phase = "admit"
    /\ stage \in {"load", "compile"} =>
          /\ phase \in {"admit", "admitted"}
          /\ phase = "admit" => PassGoesOn
          /\ Untouched
    /\ stage = "execute" => (phase = "admitted" /\ Untouched) \/ InRun

\* The cases that went by went as expected; a run that failed, or was refused,
\* gave 0.
VerdictInv ==
    /\ stage = "execute" =>
          /\ ~Reject(test)
          /\ phase \in {"run", "returned"} => test \in ran
          /\ phase = "aborted" => result = Word(0)
    /\ executed => ~Reject(test)
    /\ DOMAIN outcome = Case
    /\ ran \subseteq { t \in Case : ~Reject(t) }
    /\ \A t \in Case : outcome[t] = "PASS" => t \in ran \/ Reject(t) \/ Expected(t) = 0

LoaderInv == FixtureInv /\ VerdictInv

\* The facts the pass starts with.
LEMMA FirstFacts ==
    AtEntry \in Facts /\ Nothing \in Facts /\ AtEntry.reached /\ ~Nothing.reached
<1>1. {"UNINIT"} \in SUBSET Kind /\ {} \in SUBSET Kind
  BY DEF Kind
<1>2. [r \in Reg |-> {"UNINIT"}] \in [Reg -> SUBSET Kind]
      /\ [r \in Reg |-> {}] \in [Reg -> SUBSET Kind]
  BY <1>1
<1> QED
  BY <1>1, <1>2 DEF Facts, AtEntry, Nothing

\* The pass is about to start.
PassFresh ==
    /\ test \in Case /\ prog = Selected(test) /\ pc = 0 /\ acquisitions = 0
    /\ flow = [q \in 0 .. Length(prog) |-> IF q = 0 THEN AtEntry ELSE Nothing]

\* The pass begins as it goes on, and
LEMMA PassStarts == PassFresh => PassGoesOn
<1> SUFFICES ASSUME PassFresh PROVE PassGoesOn
  OBVIOUS
<1>1. Length(prog) = Span(test) /\ Span(test) \in {26, 27}
  BY SelectedLength DEF Span, PassFresh
<1> PICK n : n = Span(test)
  OBVIOUS
<1>2. flow = [q \in 0 .. n |-> IF q = 0 THEN AtEntry ELSE Nothing] /\ n \in {26, 27}
  BY <1>1 DEF PassFresh
<1>3. /\ flow \in [0 .. n -> Facts] /\ flow[0].reached
      /\ \A q \in 0 .. n : flow[q].reached => q = 0
  <2>1. flow \in [0 .. n -> Facts]
    <3>1. AtEntry \in Facts /\ Nothing \in Facts
      BY FirstFacts
    <3> QED BY <1>2, <3>1
  <2>2. flow[0] = AtEntry /\ \A q \in 0 .. n : q # 0 => flow[q] = Nothing
    <3>1. 0 \in 0 .. n
      BY <1>2
    <3> QED BY <1>2, <3>1
  <2>3. AtEntry.reached = TRUE /\ Nothing.reached = FALSE
    BY DEF AtEntry, Nothing
  <2>4. flow[0].reached
    BY <2>2, <2>3
  <2>5. \A q \in 0 .. n : flow[q].reached => q = 0
    BY <2>2, <2>3, Zenon
  <2> QED BY <2>1, <2>4, <2>5
<1>4. \A s : Belief(test, 0, s)
  BY DEF Belief, ProgramBelief, AlternateBelief
<1>5. \A q \in NullBranch(test) \cup Exits(test) : ~(q < 0)
  BY DEF NullBranch, Exits
<1>6. CallsMet(0) = 0
  BY DEF CallsMet
<1> QED
  BY <1>2, <1>3, <1>4, <1>5, <1>6 DEF PassGoesOn, PassFresh

\* so does a run.
LEMMA RunStarts ==
    ASSUME NEW t \in Case, NEW g, NEW c, c[0] = "null", c[1] = "null"
    PROVE  RunBelief(t, 0, g, c)
BY DEF RunBelief, ProgramRun, AlternateRun, CellsAre

\* A run is where the fixture's text puts it.
LEMMA RunMoves ==
    ASSUME test \in Case, ~Reject(test), prog = Selected(test), InRun, phase = "run",
           Run, test' = test
    PROVE  InRun'
<1>1. /\ DOMAIN regs = Location /\ cells \in [0 .. 1 -> {"null", "live", "ended"}]
      /\ RunBelief(test, pc, regs, cells)
  BY DEF InRun
<1>2. pc \in DOMAIN prog
  <2>1. CASE test = 1
    <3>1. DOMAIN prog = 0 .. Span(test) - 1 /\ Span(test) = 27
      BY <2>1, SelectedLength DEF Span
    <3>2. pc \in 0 .. 19
      BY <1>1, <2>1 DEF RunBelief, AlternateRun
    <3> QED BY <3>1, <3>2
  <2>2. CASE test # 1
    <3>1. DOMAIN prog = 0 .. Span(test) - 1 /\ Span(test) = 26
      BY <2>2, SelectedLength DEF Span
    <3>2. pc \in 0 .. 23
      BY <1>1, <2>2 DEF RunBelief, ProgramRun
    <3> QED BY <3>1, <3>2
  <2> QED BY <2>1, <2>2
<1>3. RunningInsn
  BY <1>1, <1>2 DEF RunningInsn
<1>4. FixtureRun
  <2>1. CASE test = 1
    BY <1>1, <1>3, <2>1, AlternateRuns DEF RunBelief
  <2>2. CASE test # 1
    BY <1>1, <1>3, <2>2, ProgramRuns DEF RunBelief
  <2> QED BY <2>1, <2>2
<1> QED
  BY <1>4 DEF FixtureRun, InRun

\* The loader, from its first case
LEMMA LoaderInit == GuestInit => LoaderInv
<1> SUFFICES ASSUME GuestInit PROVE LoaderInv
  OBVIOUS
<1>1. /\ test = 0 /\ test \in Case /\ prog = Selected(test) /\ stage = "load" /\ phase = "admit"
      /\ DOMAIN regs = Location /\ cells = [n \in 0 .. 1 |-> "null"]
  BY DEF GuestInit, Init, Case
<1>2. PassGoesOn
  BY <1>1, PassStarts DEF GuestInit, Init, PassFresh
<1>3. /\ ran = {} /\ executed = FALSE
      /\ DOMAIN outcome = Case /\ \A t \in Case : outcome[t] # "PASS"
  BY DEF GuestInit
<1> QED
  BY <1>1, <1>2, <1>3 DEF LoaderInv, FixtureInv, VerdictInv, Untouched

\* How a case ends.
LEMMA ConcludeKeeps ==
    ASSUME LoaderInv, NEW ok \in BOOLEAN, Conclude(ok),
           ok => test \in ran \/ Reject(test) \/ Expected(test) = 0
    PROVE  LoaderInv'
<1>1. /\ outcome' = [outcome EXCEPT ![test] = IF ok THEN "PASS" ELSE "FAIL"]
      /\ stage' \in {"next", "end"} /\ UNCHANGED <<test, executed, ran>>
  BY DEF Conclude
<1>2. FixtureInv'
  BY <1>1 DEF LoaderInv, FixtureInv
<1>3. DOMAIN outcome' = Case /\ test \in Case
      /\ \A t \in Case : outcome'[t] = IF t = test THEN IF ok THEN "PASS" ELSE "FAIL"
                                       ELSE outcome[t]
  BY <1>1 DEF LoaderInv, FixtureInv, VerdictInv
<1> QED
  BY <1>1, <1>2, <1>3 DEF LoaderInv, VerdictInv

\* to its verdict.
LEMMA LoaderStep == LoaderInv /\ [GuestNext]_<<vars, guestVars>> => LoaderInv'
<1> SUFFICES ASSUME LoaderInv, [GuestNext]_<<vars, guestVars>>
             PROVE  LoaderInv'
  OBVIOUS
<1>1. CASE VerifierRejects
  BY <1>1, ConcludeKeeps DEF VerifierRejects
<1>2. CASE VerifierAccepts
  <2>1. PassGoesOn' <=> PassGoesOn
    BY <1>2 DEF VerifierAccepts, PassGoesOn, vars
  <2> QED BY <1>2, <2>1 DEF VerifierAccepts, vars, LoaderInv, FixtureInv, VerdictInv,
                            Untouched
<1>3. CASE Compile
  <2>1. stage = "compile" /\ Pass /\ UNCHANGED guestVars
    BY <1>3 DEF Compile
  <2>2. phase = "admit" /\ UNCHANGED <<prog, regs, cells>>
    BY <2>1 DEF Pass, AdmitInsn, RejectInsn, Decide, runVars
  <2>3. phase' = "admitted" \/ (phase' = "admit" /\ PassGoesOn')
    BY <2>1, <2>2, PassMoves DEF LoaderInv, FixtureInv, guestVars
  <2> QED BY <2>1, <2>2, <2>3 DEF LoaderInv, FixtureInv, VerdictInv, Untouched, guestVars
<1>4. CASE NoImage
  BY <1>4, ConcludeKeeps DEF NoImage
<1>5. CASE LoadedUnexpectedly
  BY <1>5, ConcludeKeeps DEF LoadedUnexpectedly
<1>6. CASE TestRun
  <2>1. /\ stage = "compile" /\ stage' = "execute" /\ phase = "admitted" /\ ~Reject(test)
        /\ UNCHANGED <<prog, phase, regs, cells, test, outcome, ran>>
    BY <1>6 DEF TestRun, Unexpected, vars, passVars, runVars
  <2>2. FixtureInv'
    BY <2>1 DEF LoaderInv, FixtureInv, Untouched
  <2>3. VerdictInv'
    BY <2>1 DEF LoaderInv, VerdictInv
  <2> QED BY <2>2, <2>3 DEF LoaderInv
<1>11. CASE ProgramStarts
  <2>1. /\ stage = "execute" /\ stage' = "execute" /\ ran' = ran \cup {test}
        /\ Start /\ UNCHANGED <<test, executed, outcome>>
    BY <1>11 DEF ProgramStarts
  <2>2. phase = "admitted" /\ Untouched
    BY <2>1 DEF Start, LoaderInv, FixtureInv, InRun
  <2>3. /\ phase' = "run" /\ pc' = 0 /\ DOMAIN regs' = Location
        /\ cells' = [n \in 0 .. 1 |-> "null"] /\ prog' = prog
    BY <2>1, <2>2 DEF Start, Untouched
  <2>4. InRun'
    BY <2>1, <2>3, RunStarts DEF InRun, LoaderInv, FixtureInv
  <2>5. FixtureInv'
    BY <2>1, <2>3, <2>4 DEF LoaderInv, FixtureInv
  <2>6. VerdictInv'
    BY <2>1, <2>3 DEF LoaderInv, FixtureInv, VerdictInv
  <2> QED BY <2>5, <2>6 DEF LoaderInv
<1>12. CASE ProgramRefused
  <2>1. /\ stage = "execute" /\ phase' = "aborted" /\ result' = Word(0) /\ prog' = prog
        /\ UNCHANGED guestVars
    BY <1>12 DEF ProgramRefused, EntryRefused
  <2>2. FixtureInv'
    BY <2>1 DEF LoaderInv, FixtureInv, InRun, guestVars
  <2>3. VerdictInv'
    BY <2>1 DEF LoaderInv, VerdictInv, guestVars
  <2> QED BY <2>2, <2>3 DEF LoaderInv
<1>7. CASE Execute
  <2>1. stage = "execute" /\ phase = "run" /\ Run /\ UNCHANGED guestVars
    BY <1>7 DEF Execute
  <2>2. prog' = prog
    BY <2>1 DEF Run, Start, EntryRefused, MovX, MovK, Stx, Ldx, Put, Jeq, AcquireNull,
                Acquire, Read, Release, Return, GateFails, Exit
  <2>3. InRun'
    BY <2>1, RunMoves DEF LoaderInv, FixtureInv, VerdictInv, guestVars
  <2>4. phase' = "aborted" => result' = Word(0)
    BY <2>1 DEF Run, Start, EntryRefused, MovX, MovK, Stx, Ldx, Put, Jeq, AcquireNull,
                Acquire, Read, Release, Return, GateFails, Exit
  <2>5. FixtureInv'
    BY <2>1, <2>2, <2>3 DEF LoaderInv, FixtureInv, guestVars
  <2>6. VerdictInv'
    BY <2>1, <2>4 DEF LoaderInv, VerdictInv, guestVars
  <2> QED BY <2>5, <2>6 DEF LoaderInv
<1>8. CASE CheckValue
  <2>1. /\ stage = "execute" /\ phase \in {"returned", "aborted"}
        /\ Conclude(result = Word(Expected(test)))
    BY <1>8 DEF CheckValue
  <2> PICK ok \in BOOLEAN : ok = (result = Word(Expected(test)))
    OBVIOUS
  <2>2. Conclude(ok)
    BY <2>1
  <2>3. ok => test \in ran \/ Expected(test) = 0
    <3>1. CASE phase = "returned"
      BY <2>1, <3>1 DEF LoaderInv, VerdictInv
    <3>2. CASE phase = "aborted"
      <4>1. result = Word(0)
        BY <2>1, <3>2 DEF LoaderInv, VerdictInv
      <4> QED BY <4>1, Values
    <3> QED BY <2>1, <3>1, <3>2
  <2> QED BY <2>2, <2>3, ConcludeKeeps
<1>13. CASE TestRunFails
  BY <1>13, ConcludeKeeps DEF TestRunFails
<1>9. CASE NextCase
  <2>1. stage = "next" /\ UNCHANGED <<outcome, ran>>
        /\ executed' \in {executed, FALSE}
    BY <1>9 DEF NextCase
  <2>2. CASE test = 6
    <3>1. stage' = "end" /\ UNCHANGED <<test, executed>>
      BY <1>9, <2>2 DEF NextCase
    <3> QED BY <2>1, <3>1 DEF LoaderInv, FixtureInv, VerdictInv
  <2>3. CASE test # 6
    <3>1. /\ test' = test + 1 /\ stage' = "load" /\ prog' = Selected(test')
          /\ phase' = "admit" /\ pc' = 0 /\ acquisitions' = 0 /\ executed' = FALSE
          /\ flow' = [q \in 0 .. Length(prog') |-> IF q = 0 THEN AtEntry ELSE Nothing]
          /\ regs' = [l \in Location |-> Word(0)] /\ cells' = [n \in 0 .. 1 |-> "null"]
      BY <1>9, <2>3 DEF NextCase, NextProgram, NextTest
    <3>2. test' \in Case
      BY <2>3, <3>1 DEF LoaderInv, FixtureInv, Case
    <3>3. PassGoesOn'
      <4>1. PassFresh'
        BY <3>1, <3>2 DEF PassFresh
      <4> QED BY <4>1, PassStarts, PTL
    <3>4. FixtureInv'
      BY <3>1, <3>2, <3>3 DEF FixtureInv, Untouched
    <3>5. VerdictInv'
      BY <2>1, <3>1 DEF LoaderInv, VerdictInv
    <3> QED BY <3>4, <3>5 DEF LoaderInv
  <2> QED BY <2>2, <2>3
<1>10. CASE UNCHANGED <<vars, guestVars>>
  <2>1. /\ UNCHANGED <<prog, phase, pc, flow, acquisitions, has_exit, regs, cells, result>>
        /\ UNCHANGED <<test, stage, executed, outcome, ran>>
    BY <1>10 DEF vars, passVars, runVars, guestVars
  <2>2. FixtureInv'
    <3>1. (PassGoesOn' <=> PassGoesOn) /\ (InRun' <=> InRun) /\ (Untouched' <=> Untouched)
      BY <2>1, Zenon DEF PassGoesOn, InRun, Untouched
    <3> QED BY <2>1, <3>1 DEF LoaderInv, FixtureInv
  <2>3. VerdictInv'
    BY <2>1 DEF LoaderInv, VerdictInv
  <2> QED BY <2>2, <2>3 DEF LoaderInv
<1> QED
  BY <1>1, <1>2, <1>3, <1>4, <1>5, <1>6, <1>7, <1>8, <1>9, <1>10, <1>11, <1>12, <1>13
     DEF GuestNext

\* Whatever Linux's verifier, the entry and the gates say, the loader brings no
\* fixture to TEST_RUN that it wants rejected, and passes only if the three that
\* are to bring back a value ran; and each fixture is what it is taken for: the
\* pass admits it, and a run that is not cut short brings back the expected
\* value with all it acquired released (guest.c:27-50, 91, 128, 168, 178).
THEOREM LoaderVerdictEarned == GuestSpec => []LoaderVerdict
<1>1. LoaderInv => LoaderVerdict
  <2> SUFFICES ASSUME LoaderInv PROVE LoaderVerdict
    OBVIOUS
  <2>1. RejectsNeverRun
    <3>1. ASSUME Passed
          PROVE  \A t \in Case : ~Reject(t) /\ Expected(t) # 0 => t \in ran
      BY <3>1 DEF Passed, LoaderInv, VerdictInv
    <3> QED BY <3>1 DEF RejectsNeverRun, LoaderInv, VerdictInv
  <2>2. FixturesConform
    BY DEF FixturesConform, LoaderInv, FixtureInv, InRun
  <2> QED BY <2>1, <2>2 DEF LoaderVerdict
<1> QED
  BY <1>1, LoaderInit, LoaderStep, PTL DEF GuestSpec

\* And on the loader's programs, one pass and one run after the other, the
\* analysis is sound: the facts cover every run, nothing is used before it is
\* written, and the gates get what they want (cbpf_jit.c:103, 123-180;
\* guest.c:27-50).
THEOREM LoaderAnalysisSound ==
    ASSUME \A t \in Case : Selected(t) \in Programs
    PROVE  GuestSpec => [](FactsCoverRun /\ NoUndefinedUse /\ GateArguments)
<1>1. GuestInit => IInv
  BY JitInit DEF GuestInit
<1>2. IInv /\ LoaderInv /\ [GuestNext]_<<vars, guestVars>> => IInv'
  <2> SUFFICES ASSUME IInv, LoaderInv, [GuestNext]_<<vars, guestVars>>
               PROVE  IInv'
    OBVIOUS
  <2>1. [Next]_vars \/ NextCase
    <3>1. CASE \/ VerifierRejects \/ VerifierAccepts \/ NoImage \/ LoadedUnexpectedly
               \/ TestRun \/ CheckValue \/ TestRunFails
      <4>1. UNCHANGED vars
        BY <3>1 DEF VerifierRejects, VerifierAccepts, NoImage, LoadedUnexpectedly,
                    TestRun, CheckValue, TestRunFails
      <4> QED BY <4>1
    <3>2. CASE Compile
      BY <3>2 DEF Compile, Next
    <3>3. CASE ProgramStarts \/ ProgramRefused \/ Execute
      <4>1. Run
        BY <3>3 DEF ProgramStarts, ProgramRefused, Execute, Run
      <4> QED BY <4>1 DEF Next
    <3>4. CASE UNCHANGED <<vars, guestVars>>
      <4>1. UNCHANGED vars
        BY <3>4
      <4> QED BY <4>1
    <3> QED BY <3>1, <3>2, <3>3, <3>4 DEF GuestNext
  <2>2. ASSUME NextCase, ~[Next]_vars
        PROVE  IInv'
    <3>1. /\ test # 6 /\ test' = test + 1 /\ prog' = Selected(test')
          /\ phase' = "admit" /\ pc' = 0 /\ acquisitions' = 0 /\ has_exit' = FALSE
          /\ flow' = [q \in 0 .. Length(prog') |-> IF q = 0 THEN AtEntry ELSE Nothing]
          /\ regs' = [l \in Location |-> Word(0)] /\ known' = {}
          /\ cells' = [i \in 0 .. 1 |-> "null"] /\ result' = Word(0)
      BY <2>2 DEF NextCase, NextProgram, NextTest
    <3>2. prog' \in Programs
      BY <3>1 DEF LoaderInv, FixtureInv, Case
    <3>3. Init'
      BY <3>1, <3>2 DEF Init, Word
    <3> QED BY <3>3, JitInit, PTL
  <2>3. [Next]_vars => IInv'
    BY JitStep
  <2> QED BY <2>1, <2>2, <2>3
<1>3. IInv => FactsCoverRun /\ NoUndefinedUse /\ GateArguments
  BY CoverHolds, UseHolds, ArgumentsHold
<1> QED
  BY <1>1, <1>2, <1>3, LoaderInit, LoaderStep, PTL DEF GuestSpec
=============================================================================
