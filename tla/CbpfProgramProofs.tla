-------------------------- MODULE CbpfProgramProofs --------------------------
(* For any sets of CPUs, programs and links: a program with gate calls is on  *)
(* no hook, and native code gets past its entry only inside the test run that *)
(* made its context.  From boot on, such programs exist only where the gate   *)
(* passed the controls, and the controls pass no gate with one of the faults. *)
EXTENDS CbpfKernelLife, TLAPS

\* The flag covers what was matched, and hooks only hold loaded programs, so a
\* program that is just being loaded is on none.
ProgramInv ==
    /\ loaded \subseteq Program
    /\ native \subseteq matched
    /\ matched \subseteq cbpf_gate
    /\ cbpf_gate \subseteq loaded
    /\ link \in [Link -> Program \cup {NoProgram}]
    /\ \A p \in Program : Hooked(p) => p \in loaded /\ p \notin matched

\* What holds of one CPU: a program runs at most once on it, a test run of a
\* flagged program is what it was doing first, and only that run is restricted.
Good(a, e, fs, u) ==
    /\ a \in Program \cup {NoProgram} /\ e \in BOOLEAN
    /\ fs \in Seq(Frame) /\ u \in Program \cup {NoProgram}
    /\ \A n \in 1 .. Len(fs) : fs[n].restricted => fs[n].by = "test_invoke"
    /\ \A n \in 1 .. Len(fs) :
          fs[n].by = "test_invoke" => n = Len(fs) /\ fs[n].prog = a
    /\ \A m, n \in 1 .. Len(fs) : fs[m].prog = fs[n].prog => m = n
    /\ u # NoProgram => u = a /\ e
    /\ a # NoProgram <=> \E n \in 1 .. Len(fs) : fs[n].by = "test_invoke"

\* It holds of every CPU.
CpuInv ==
    /\ active \in [CPU -> Program \cup {NoProgram}]
    /\ entered \in [CPU -> BOOLEAN]
    /\ stack \in [CPU -> Seq(Frame)]
    /\ authority \in [CPU -> Program \cup {NoProgram}]
    /\ \A c \in CPU : Good(active[c], entered[c], stack[c], authority[c])

-----------------------------------------------------------------------------
(* Programs and hooks. *)

\* Nothing is loaded at first.
LEMMA ProgramInit == Init => ProgramInv
  BY NoProgramAssumption DEF Init, ProgramInv, Hooked

\* No step puts a flagged program on a hook, or flags one that is.
LEMMA ProgramStep == ProgramInv /\ [Next]_vars => ProgramInv'
<1> SUFFICES ASSUME ProgramInv, [Next]_vars PROVE ProgramInv'
  OBVIOUS
<1> USE NoProgramAssumption DEF ProgramInv, Hooked
<1>1. CASE UNCHANGED programVars
  BY <1>1 DEF programVars
<1>2. ASSUME NEW p \in Program, LoadOrdinary(p) PROVE ProgramInv'
  BY <1>2 DEF LoadOrdinary
<1>3. ASSUME NEW p \in Program, LoadMatching(p) PROVE ProgramInv'
  BY <1>3 DEF LoadMatching, Flags
<1>4. ASSUME NEW p \in Program, Unload(p) PROVE ProgramInv'
  BY <1>4 DEF Unload
<1>5. ASSUME NEW p \in Program, Attach(p) PROVE ProgramInv'
  BY <1>5 DEF Attach, MayAttach
<1>6. ASSUME NEW p \in Program, Detach(p) PROVE ProgramInv'
  BY <1>6 DEF Detach
<1>7. ASSUME NEW l \in Link, NEW p \in Program, LinkCreate(l, p) PROVE ProgramInv'
  BY <1>7 DEF LinkCreate
<1>8. ASSUME NEW l \in Link, NEW p \in Program, LinkUpdate(l, p) PROVE ProgramInv'
  BY <1>8 DEF LinkUpdate, MayReplace
<1>9. ASSUME NEW l \in Link, LinkRelease(l) PROVE ProgramInv'
  BY <1>9 DEF LinkRelease
<1>10. CASE OnCPU
  <2>1. UNCHANGED programVars
    BY <1>10 DEF OnCPU, Enter, Leave, TestRunOrdinary, TestInvoke, RunHooked, RunStray
  <2> QED BY <2>1, <1>1
<1>11. CASE Links
  BY <1>11, <1>7, <1>8, <1>9 DEF Links
<1>12. CASE UNCHANGED vars
  BY <1>12, <1>1 DEF vars, programVars
<1> QED
  BY <1>2, <1>3, <1>4, <1>5, <1>6, <1>10, <1>11, <1>12 DEF Next

\* The program life keeps flagged programs off every hook (integration.patch).
THEOREM ProgramNeverHooked == Spec => []FlaggedNeverHooked
<1>1. ProgramInv => FlaggedNeverHooked
  BY DEF ProgramInv, FlaggedNeverHooked
<1> QED
  BY <1>1, ProgramInit, ProgramStep, PTL DEF Spec

-----------------------------------------------------------------------------
(* One CPU. *)

\* What the stack of a CPU is after a program was put on it.
LEMMA Pushed ==
    ASSUME NEW fs \in Seq(Frame), NEW f \in Frame
    PROVE  /\ <<f>> \o fs \in Seq(Frame)
           /\ Len(<<f>> \o fs) = Len(fs) + 1
           /\ (<<f>> \o fs)[1] = f
           /\ \A n \in 2 .. Len(fs) + 1 : (<<f>> \o fs)[n] = fs[n - 1]
<1>1. <<f>> \in Seq(Frame) /\ Len(<<f>>) = 1 /\ <<f>>[1] = f
  OBVIOUS
<1> QED
  BY <1>1

\* A program on a path of its own, not yet on this CPU, changes nothing for the
\* one that has the context.
LEMMA GoodPath ==
    ASSUME NEW a, NEW e, NEW fs, NEW u, Good(a, e, fs, u),
           NEW f \in Frame, f.by # "test_invoke", ~f.restricted,
           \A n \in 1 .. Len(fs) : fs[n].prog # f.prog
    PROVE  Good(a, e, <<f>> \o fs, u)
<1> DEFINE t == <<f>> \o fs
<1>1. fs \in Seq(Frame) /\ Len(fs) \in Nat
  BY DEF Good
<1>2. /\ t \in Seq(Frame) /\ Len(t) = Len(fs) + 1 /\ t[1] = f
      /\ \A n \in 2 .. Len(fs) + 1 : t[n] = fs[n - 1]
  BY <1>1, Pushed
<1> HIDE DEF t
<1>3. \A n \in 1 .. Len(t) : n = 1 \/ (n - 1 \in 1 .. Len(fs) /\ t[n] = fs[n - 1])
  BY <1>1, <1>2
<1>4. \A n \in 1 .. Len(fs) : n + 1 \in 1 .. Len(t) /\ t[n + 1] = fs[n]
  BY <1>1, <1>2
<1>5. \A n \in 1 .. Len(t) : t[n].restricted => t[n].by = "test_invoke"
  BY <1>2, <1>3 DEF Good
<1>6. \A n \in 1 .. Len(t) : t[n].by = "test_invoke" => n = Len(t) /\ t[n].prog = a
  BY <1>1, <1>2, <1>3 DEF Good
<1>7. \A m, n \in 1 .. Len(t) : t[m].prog = t[n].prog => m = n
  <2> SUFFICES ASSUME NEW m \in 1 .. Len(t), NEW n \in 1 .. Len(t), t[m].prog = t[n].prog
               PROVE  m = n
    OBVIOUS
  <2>1. CASE m = 1 \/ n = 1
    BY <2>1, <1>2, <1>3
  <2>2. CASE m # 1 /\ n # 1
    <3>1. m - 1 \in 1 .. Len(fs) /\ n - 1 \in 1 .. Len(fs) /\ fs[m - 1].prog = fs[n - 1].prog
      BY <2>2, <1>3
    <3>2. m - 1 = n - 1
      BY <3>1 DEF Good
    <3> QED BY <3>2, <1>1, <1>2
  <2> QED BY <2>1, <2>2
<1>8. a # NoProgram <=> \E n \in 1 .. Len(t) : t[n].by = "test_invoke"
  <2>1. ASSUME a # NoProgram PROVE \E n \in 1 .. Len(t) : t[n].by = "test_invoke"
    <3>1. PICK n \in 1 .. Len(fs) : fs[n].by = "test_invoke"
      BY <2>1 DEF Good
    <3> QED BY <3>1, <1>4
  <2>2. ASSUME NEW n \in 1 .. Len(t), t[n].by = "test_invoke" PROVE a # NoProgram
    <3>1. n # 1
      BY <1>2, <2>2
    <3>2. n - 1 \in 1 .. Len(fs) /\ fs[n - 1].by = "test_invoke"
      BY <3>1, <2>2, <1>3
    <3> QED BY <3>2 DEF Good
  <2> QED BY <2>1, <2>2
<1>9. Good(a, e, t, u)
  BY <1>2, <1>5, <1>6, <1>7, <1>8 DEF Good
<1> QED
  BY <1>9 DEF t

\* A test run of a flagged program on an idle CPU makes its context.
LEMMA GoodInvoke ==
    ASSUME NEW e, NEW u, Good(NoProgram, e, <<>>, u), NEW p \in Program,
           NEW f \in Frame, f.prog = p, f.by = "test_invoke", ~f.restricted
    PROVE  Good(p, FALSE, <<f>> \o <<>>, u)
<1>1. u = NoProgram
  BY DEF Good
<1>2. <<f>> \o <<>> = <<f>>
  OBVIOUS
<1>3. <<f>> \in Seq(Frame) /\ Len(<<f>>) = 1 /\ <<f>>[1] = f
  OBVIOUS
<1> DEFINE t == <<f>>
<1>4. t \in Seq(Frame) /\ Len(t) = 1 /\ t[1] = f
  BY <1>3
<1> HIDE DEF t
<1>5. Good(p, FALSE, t, u)
  BY <1>1, <1>4, NoProgramAssumption DEF Good
<1> QED
  BY <1>2, <1>5 DEF t

\* Whoever gets past the entry is the run that made the context.
LEMMA GoodEnter ==
    ASSUME NEW a, NEW e, NEW fs, NEW u, Good(a, e, fs, u), fs # <<>>,
           a # NoProgram, e = FALSE, a = fs[1].prog,
           NEW t \in Seq(Frame), Len(t) = Len(fs),
           \A n \in 1 .. Len(fs) : t[n].prog = fs[n].prog /\ t[n].by = fs[n].by,
           \A n \in 2 .. Len(fs) : t[n].restricted = fs[n].restricted
    PROVE  Good(a, TRUE, t, fs[1].prog)
<1>1. fs \in Seq(Frame) /\ Len(fs) \in Nat /\ 1 \in 1 .. Len(fs)
  BY DEF Good
<1>2. PICK n \in 1 .. Len(fs) : fs[n].by = "test_invoke"
  BY DEF Good
<1>3. fs[n].prog = fs[1].prog
  BY <1>2 DEF Good
<1>4. n = 1
  BY <1>1, <1>3 DEF Good
<1>5. fs[1].by = "test_invoke"
  BY <1>2, <1>4
<1>6. \A k \in 1 .. Len(t) : t[k].restricted => t[k].by = "test_invoke"
  <2> TAKE k \in 1 .. Len(t)
  <2>1. CASE k = 1
    BY <2>1, <1>5, <1>1
  <2>2. CASE k # 1
    <3>1. k \in 2 .. Len(fs) /\ k \in 1 .. Len(fs)
      BY <2>2, <1>1
    <3> QED BY <3>1 DEF Good
  <2> QED BY <2>1, <2>2
<1>7. \A k \in 1 .. Len(t) : t[k].by = "test_invoke" => k = Len(t) /\ t[k].prog = a
  BY DEF Good
<1>8. \A k, m \in 1 .. Len(t) : t[k].prog = t[m].prog => k = m
  BY DEF Good
<1>9. \E k \in 1 .. Len(t) : t[k].by = "test_invoke"
  BY <1>1, <1>5
<1> QED
  BY <1>6, <1>7, <1>8, <1>9 DEF Good

\* When the run that made the context leaves, it leaves the CPU idle.
LEMMA GoodLeave ==
    ASSUME NEW a, NEW e, NEW fs, NEW u, Good(a, e, fs, u), fs # <<>>
    PROVE  /\ fs[1].by = "test_invoke" => Good(NoProgram, FALSE, Tail(fs), NoProgram)
           /\ fs[1].by # "test_invoke" => Good(a, e, Tail(fs), u)
<1> DEFINE t == Tail(fs)
<1>1. fs \in Seq(Frame) /\ Len(fs) \in Nat /\ 1 \in 1 .. Len(fs)
  BY DEF Good
<1>2. t \in Seq(Frame) /\ Len(t) = Len(fs) - 1 /\ \A n \in 1 .. Len(t) : t[n] = fs[n + 1]
  BY <1>1
<1> HIDE DEF t
<1>3. \A n \in 1 .. Len(t) : n + 1 \in 1 .. Len(fs) /\ t[n] = fs[n + 1]
  BY <1>1, <1>2
<1>4. ASSUME fs[1].by = "test_invoke" PROVE Good(NoProgram, FALSE, t, NoProgram)
  <2>1. Len(fs) = 1
    BY <1>1, <1>4 DEF Good
  <2>2. Len(t) = 0
    BY <2>1, <1>2
  <2> QED BY <2>2, <1>2 DEF Good
<1>5. ASSUME fs[1].by # "test_invoke" PROVE Good(a, e, t, u)
  <2>1. \A n \in 1 .. Len(t) : t[n].restricted => t[n].by = "test_invoke"
    BY <1>3 DEF Good
  <2>2. \A n \in 1 .. Len(t) : t[n].by = "test_invoke" => n = Len(t) /\ t[n].prog = a
    <3> TAKE n \in 1 .. Len(t)
    <3> HAVE t[n].by = "test_invoke"
    <3>1. n + 1 = Len(fs) /\ fs[n + 1].prog = a
      BY <1>3 DEF Good
    <3> QED BY <3>1, <1>2, <1>3, <1>1
  <2>3. \A m, n \in 1 .. Len(t) : t[m].prog = t[n].prog => m = n
    <3> TAKE m, n \in 1 .. Len(t)
    <3> HAVE t[m].prog = t[n].prog
    <3>1. m + 1 = n + 1
      BY <1>3 DEF Good
    <3> QED BY <3>1, <1>1, <1>2
  <2>4. ASSUME a # NoProgram PROVE \E n \in 1 .. Len(t) : t[n].by = "test_invoke"
    <3>1. PICK n \in 1 .. Len(fs) : fs[n].by = "test_invoke"
      BY <2>4 DEF Good
    <3>2. n # 1
      BY <3>1, <1>5
    <3>3. n - 1 \in 1 .. Len(t) /\ (n - 1) + 1 = n
      BY <3>2, <1>1, <1>2
    <3> QED BY <3>1, <3>3, <1>3
  <2>5. ASSUME NEW n \in 1 .. Len(t), t[n].by = "test_invoke" PROVE a # NoProgram
    BY <2>5, <1>3 DEF Good
  <2> QED BY <2>1, <2>2, <2>3, <2>4, <2>5, <1>2 DEF Good
<1> QED
  BY <1>4, <1>5 DEF t

\* A step of one CPU is judged by what it leaves on that CPU.
LEMMA OneCpu ==
    ASSUME CpuInv, NEW c \in CPU, NEW a, NEW e, NEW fs, NEW u, Good(a, e, fs, u),
           active' = [active EXCEPT ![c] = a], entered' = [entered EXCEPT ![c] = e],
           stack' = [stack EXCEPT ![c] = fs], authority' = [authority EXCEPT ![c] = u]
    PROVE  CpuInv'
<1>1. /\ a \in Program \cup {NoProgram} /\ e \in BOOLEAN
      /\ fs \in Seq(Frame) /\ u \in Program \cup {NoProgram}
  BY DEF Good
<1>2. /\ active' \in [CPU -> Program \cup {NoProgram}]
      /\ entered' \in [CPU -> BOOLEAN]
      /\ stack' \in [CPU -> Seq(Frame)]
      /\ authority' \in [CPU -> Program \cup {NoProgram}]
  BY <1>1 DEF CpuInv
<1>3. ASSUME NEW d \in CPU PROVE Good(active'[d], entered'[d], stack'[d], authority'[d])
  <2>1. CASE d = c
    BY <2>1 DEF CpuInv
  <2>2. CASE d # c
    <3>1. active'[d] = active[d] /\ entered'[d] = entered[d]
          /\ stack'[d] = stack[d] /\ authority'[d] = authority[d]
      BY <2>2 DEF CpuInv
    <3> QED BY <3>1 DEF CpuInv
  <2> QED BY <2>1, <2>2
<1> QED
  BY <1>2, <1>3 DEF CpuInv

\* What a CPU has, and that leaving it as it is changes nothing.
LEMMA CpuParts ==
    ASSUME CpuInv, NEW c \in CPU
    PROVE  /\ Good(active[c], entered[c], stack[c], authority[c])
           /\ stack[c] \in Seq(Frame) /\ Len(stack[c]) \in Nat
           /\ DOMAIN stack[c] = 1 .. Len(stack[c])
           /\ active = [active EXCEPT ![c] = active[c]]
           /\ entered = [entered EXCEPT ![c] = entered[c]]
           /\ authority = [authority EXCEPT ![c] = authority[c]]
  BY DEF CpuInv

\* A run that is not a test run of a flagged program.
LEMMA CpuPath ==
    ASSUME CpuInv, NEW c \in CPU, NEW p \in Program, NEW by \in {"test_run", "path"},
           Push(c, p, by), UNCHANGED <<active, entered, authority>>,
           \A n \in DOMAIN stack[c] : stack[c][n].prog # p
    PROVE  CpuInv'
<1> DEFINE f == [prog |-> p, by |-> by, restricted |-> FALSE]
<1>1. f \in Frame /\ f.by # "test_invoke" /\ ~f.restricted /\ f.prog = p
  BY DEF Frame
<1>2. stack' = [stack EXCEPT ![c] = <<f>> \o stack[c]]
  BY DEF Push
<1> HIDE DEF f
<1> DEFINE t == <<f>> \o stack[c]
<1>3. Good(active[c], entered[c], t, authority[c])
  BY <1>1, CpuParts, GoodPath
<1>5. stack' = [stack EXCEPT ![c] = t]
  BY <1>2
<1> HIDE DEF t
<1>4. /\ active' = [active EXCEPT ![c] = active[c]]
      /\ entered' = [entered EXCEPT ![c] = entered[c]]
      /\ authority' = [authority EXCEPT ![c] = authority[c]]
  BY CpuParts
<1> DEFINE a == active[c]
           e == entered[c]
           u == authority[c]
<1>6. /\ Good(a, e, t, u)
      /\ active' = [active EXCEPT ![c] = a] /\ entered' = [entered EXCEPT ![c] = e]
      /\ authority' = [authority EXCEPT ![c] = u]
  BY <1>3, <1>4
<1> HIDE DEF a, e, u
<1> QED
  BY <1>5, <1>6, OneCpu

\* A test run of a flagged program.
LEMMA CpuInvoke ==
    ASSUME CpuInv, NEW c \in CPU, NEW p \in Program, TestInvoke(c, p)
    PROVE  CpuInv'
<1> DEFINE f == [prog |-> p, by |-> "test_invoke", restricted |-> FALSE]
<1>1. f \in Frame /\ f.by = "test_invoke" /\ ~f.restricted /\ f.prog = p
  BY DEF Frame
<1>2. /\ stack' = [stack EXCEPT ![c] = <<f>> \o <<>>]
      /\ active' = [active EXCEPT ![c] = p] /\ entered' = [entered EXCEPT ![c] = FALSE]
      /\ authority' = [authority EXCEPT ![c] = authority[c]]
  BY CpuParts DEF TestInvoke, Push
<1> HIDE DEF f
<1>3. Good(NoProgram, entered[c], <<>>, authority[c])
  BY CpuParts DEF TestInvoke
<1>4. Good(p, FALSE, <<f>> \o <<>>, authority[c])
  BY <1>1, <1>3, GoodInvoke
<1> QED
  BY <1>2, <1>4, OneCpu

\* An entry that is not refused.
LEMMA CpuEnter ==
    ASSUME CpuInv, NEW c \in CPU, Enter(c)
    PROVE  CpuInv'
<1> DEFINE fs == stack[c]
           f == [fs[1] EXCEPT !.restricted = TRUE]
           t == [fs EXCEPT ![1] = f]
<1>1. fs \in Seq(Frame) /\ Len(fs) \in Nat /\ fs # <<>> /\ 1 \in 1 .. Len(fs)
  BY CpuParts DEF Enter
<1>2. fs[1] \in Frame
  BY <1>1
<1>3. f \in Frame /\ f.prog = fs[1].prog /\ f.by = fs[1].by
  BY <1>2 DEF Frame
<1>4. /\ active' = [active EXCEPT ![c] = active[c]]
      /\ entered' = [entered EXCEPT ![c] = TRUE]
      /\ stack' = [stack EXCEPT ![c] = t]
      /\ authority' = [authority EXCEPT ![c] = fs[1].prog]
      /\ active[c] # NoProgram /\ ~entered[c] /\ active[c] = fs[1].prog
  BY CpuParts, Zenon DEF Enter, Refused, Top
<1> HIDE DEF f
<1>5. /\ t \in Seq(Frame) /\ Len(t) = Len(fs) /\ t[1] = f
      /\ \A n \in 2 .. Len(fs) : t[n] = fs[n]
  BY <1>1, <1>3
<1> HIDE DEF t
<1>6. /\ \A n \in 1 .. Len(fs) : t[n].prog = fs[n].prog /\ t[n].by = fs[n].by
      /\ \A n \in 2 .. Len(fs) : t[n].restricted = fs[n].restricted
  BY <1>1, <1>3, <1>5
<1>7. Good(active[c], entered[c], fs, authority[c])
  BY CpuParts
<1> HIDE DEF fs
<1>8. Good(active[c], TRUE, t, fs[1].prog)
  <2> DEFINE a == active[c]
             e == entered[c]
             u == authority[c]
  <2>1. Good(a, e, fs, u) /\ a # NoProgram /\ ~e /\ a = fs[1].prog
    BY <1>4, <1>7
  <2>3. e = FALSE
    BY <2>1 DEF Good
  <2> HIDE DEF a, e, u
  <2>2. Good(a, TRUE, t, fs[1].prog)
    BY <1>1, <1>5, <1>6, <2>1, <2>3, GoodEnter
  <2> QED BY <2>2 DEF a
<1> QED
  BY <1>4, <1>8, OneCpu

\* The end of a run.
LEMMA CpuLeave ==
    ASSUME CpuInv, NEW c \in CPU, Leave(c)
    PROVE  CpuInv'
<1>1. stack[c] # <<>> /\ stack' = [stack EXCEPT ![c] = Tail(stack[c])]
  BY DEF Leave
<1>2. CASE stack[c][1].by = "test_invoke"
  <2>1. Good(NoProgram, FALSE, Tail(stack[c]), NoProgram)
    BY <1>1, <1>2, CpuParts, GoodLeave
  <2>2. /\ active' = [active EXCEPT ![c] = NoProgram]
        /\ entered' = [entered EXCEPT ![c] = FALSE]
        /\ authority' = [authority EXCEPT ![c] = NoProgram]
    BY <1>2 DEF Leave, Top
  <2> QED BY <1>1, <2>1, <2>2, OneCpu
<1>3. CASE stack[c][1].by # "test_invoke"
  <2>1. Good(active[c], entered[c], Tail(stack[c]), authority[c])
    BY <1>1, <1>3, CpuParts, GoodLeave
  <2>2. UNCHANGED <<active, entered, authority>>
    BY <1>3 DEF Leave, Top
  <2>3. /\ active' = [active EXCEPT ![c] = active[c]]
        /\ entered' = [entered EXCEPT ![c] = entered[c]]
        /\ authority' = [authority EXCEPT ![c] = authority[c]]
    BY <2>2, CpuParts
  <2> QED BY <1>1, <2>1, <2>3, OneCpu
<1> QED
  BY <1>2, <1>3

\* Every CPU is idle at first.
LEMMA CpuInit == Init => CpuInv
  BY NoProgramAssumption DEF Init, CpuInv, Good

\* No step breaks what holds of the CPUs.
LEMMA CpuStep == CpuInv /\ [Next]_vars => CpuInv'
<1> SUFFICES ASSUME CpuInv, [Next]_vars PROVE CpuInv'
  OBVIOUS
<1>1. CASE UNCHANGED cpuVars
  BY <1>1 DEF cpuVars, CpuInv
<1>2. ASSUME NEW p \in Program,
             LoadOrdinary(p) \/ LoadMatching(p) \/ Unload(p) \/ Attach(p) \/ Detach(p)
      PROVE  UNCHANGED cpuVars
  BY <1>2 DEF LoadOrdinary, LoadMatching, Unload, Attach, Detach, cpuVars
<1>3. CASE Links
  BY <1>3, <1>1 DEF Links, LinkCreate, LinkUpdate, LinkRelease, cpuVars
<1>4. CASE UNCHANGED vars
  BY <1>4, <1>1 DEF vars, cpuVars
<1>5. CASE OnCPU
  <2>1. PICK c \in CPU :
           \/ Enter(c) \/ Leave(c)
           \/ \E p \in Program :
                 TestRunOrdinary(c, p) \/ TestInvoke(c, p) \/ RunHooked(c, p) \/ RunStray(c, p)
    BY <1>5 DEF OnCPU
  <2>2. ASSUME NEW p \in Program, TestRunOrdinary(c, p) PROVE CpuInv'
    <3>1. DOMAIN stack[c] = {}
      BY <2>2, CpuParts DEF TestRunOrdinary
    <3> QED BY <2>2, <3>1, CpuPath DEF TestRunOrdinary
  <2>3. ASSUME NEW p \in Program, RunHooked(c, p) \/ RunStray(c, p) PROVE CpuInv'
    BY <2>3, CpuPath DEF RunHooked, RunStray
  <2> QED BY <2>1, <2>2, <2>3, CpuEnter, CpuLeave, CpuInvoke
<1> QED
  BY <1>1, <1>2, <1>3, <1>4, <1>5 DEF Next

\* Restricted code and the gates' authority belong to the test run that made
\* the context, on its own CPU (cbpf_runtime.c:387, 494).
THEOREM ProgramEntryNeedsContext == Spec => []EntryNeedsContext
<1>1. CpuInv => EntryNeedsContext
  <2> SUFFICES ASSUME CpuInv, NEW c \in CPU
               PROVE  /\ \A n \in DOMAIN stack[c] :
                            stack[c][n].restricted =>
                                /\ stack[c][n].by = "test_invoke"
                                /\ stack[c][n].prog = active[c]
                      /\ authority[c] # NoProgram => authority[c] = active[c] /\ entered[c]
                      /\ active[c] # NoProgram <=>
                            \E n \in DOMAIN stack[c] : stack[c][n].by = "test_invoke"
    BY DEF EntryNeedsContext
  <2> QED BY CpuParts DEF Good
<1> QED
  BY <1>1, CpuInit, CpuStep, PTL DEF Spec

-----------------------------------------------------------------------------
(* From boot on. *)

\* Faults that only the last control sees, or none.
Late == fault \in {"none", "first_cell", "read_consumes"}

\* The invocation of a control, and the context of its callback.
Invocation == [cells : [0 .. 1 -> {"null", "tagged", "cleared"}], views : [0 .. 1 -> Int],
               acquired : Int, released : Int, reads : Int, cleanup : Int,
               failed : BOOLEAN]

Context == [aliases : [0 .. 1 -> Int], calls : Int, completed : Int, value : Int,
            dispatched : BOOLEAN]

\* The invocation's cells and counts, and the provider's count with them.
Holds(c0, c1, acquired, released, reads, count) ==
    /\ s.cells[0] = c0 /\ s.cells[1] = c1
    /\ s.views[0] = (IF 0 < acquired THEN 100 ELSE 0)
    /\ s.views[1] = (IF 1 < acquired THEN 101 ELSE 0)
    /\ s.acquired = acquired /\ s.released = released
    /\ s.reads = reads /\ s.cleanup = 0
    /\ refs = count

\* How far the callback got.
Counted(calls, completed, value) ==
    ctx.calls = calls /\ ctx.completed = completed /\ ctx.value = value

\* Nothing is held: what a control starts from.
Baseline == refs = 1 /\ ~control /\ s = Boot!FreshInvocation

\* Where a control can be.
Places == {"begin", "acquire", "release", "reuse", "callback", "verdict", "out",
           "registered", "refused"}

\* The types of the variables.
TypeInv ==
    /\ fault \in Faults /\ inexact \in BOOLEAN
    /\ check \in 1 .. 5 /\ step \in Places
    /\ s \in Invocation /\ ctx \in Context
    /\ pass \in BOOLEAN /\ control \in BOOLEAN /\ refs \in Int

\* What the controls decided so far.
DecisionInv ==
    /\ inexact => step \in {"out", "refused"} /\ ~pass
    /\ ~Late => check = 1
    /\ step = "registered" => fault = "none"
    /\ step = "refused" => fault # "none" \/ inexact
    /\ step = "begin" => Baseline
    /\ Boot!Ending /\ fault = "none" => Baseline

\* The control with two acquisitions; the two that call back.
Independent == Boot!This.independent
IsCallback == Boot!This.callback

\* What an acquisition finds: nothing held, or the first of two.
AcquireInv ==
    step = "acquire" =>
        /\ Counted(0, 0, 0)
        /\ \/ Holds("null", "null", 0, 0, 0, 1)
           \/ Independent /\ Holds("tagged", "null", 1, 0, 0, 2) /\ ctx.aliases[0] = 100

\* What the two uses by a guard find.
GuardInv ==
    /\ step = "release" =>
          /\ ~IsCallback /\ ctx.aliases[0] = 100
          /\ Holds("tagged", "null", 1, 0, 0, 2)
    /\ step = "reuse" =>
          /\ ~IsCallback /\ ctx.aliases[0] = 100
          /\ Holds("cleared", "null", 1, 1, 0, 1)
          /\ fault \notin {"tag_kept", "count_kept"}

\* What each call of the callback finds: with two acquisitions, the other one
\* is still held at the second call.
CallbackInv ==
    step = "callback" =>
        /\ IsCallback /\ Late /\ ctx.aliases[0] = 100
        /\ Independent => ctx.aliases[1] = 101
        /\ \/ Counted(0, 0, 0) /\ ~Independent /\ Holds("tagged", "null", 1, 0, 0, 2)
           \/ Counted(0, 0, 0) /\ Independent /\ Holds("tagged", "tagged", 2, 0, 0, 3)
           \/ Counted(1, 1, 0) /\ ~Independent /\ Holds("cleared", "null", 1, 1, 0, 1)
           \/ Counted(1, 1, 0) /\ Independent /\ Holds("cleared", "tagged", 2, 1, 0, 2)

\* What the verdict on the callback finds.
VerdictInv ==
    step = "verdict" =>
        /\ IsCallback /\ Late /\ ctx.aliases[0] = 100
        /\ ~Independent =>
              /\ Counted(2, 1, 0) /\ ~ctx.dispatched /\ s.failed
              /\ Holds("cleared", "null", 1, 1, 0, 1)
        /\ Independent /\ fault = "none" =>
              /\ Counted(2, 2, 42) /\ ctx.dispatched /\ ~s.failed
              /\ ctx.aliases[1] = 101
              /\ Holds("cleared", "cleared", 2, 2, 1, 1)
        /\ Independent /\ fault # "none" => ~ctx.dispatched

\* What the end of a control finds.
OutInv ==
    step = "out" =>
        /\ pass => /\ Late /\ (check = 5 => fault = "none")
                   /\ refs = 1 /\ s.cells[0] # "tagged" /\ s.cells[1] # "tagged"
        /\ ~pass /\ fault = "none" =>
              /\ inexact
              /\ \/ Holds("null", "null", 0, 0, 0, 1)
                 \/ Holds("tagged", "null", 1, 0, 0, 2)

\* Between its start and its end a control has not failed and not passed.
RunningInv ==
    step \in {"acquire", "release", "reuse", "callback", "verdict"} =>
        /\ ~pass /\ (step # "verdict" => ~s.failed)
        /\ step # "verdict" => ~ctx.dispatched

\* All of it, at boot.
BootInv ==
    /\ TypeInv /\ DecisionInv /\ AcquireInv /\ GuardInv /\ CallbackInv
    /\ VerdictInv /\ OutInv /\ RunningInv

\* There are no programs with gate calls before the controls let them.
LifeInv == BootInv /\ (matched # {} => step = "registered")

-----------------------------------------------------------------------------
\* The five controls.
LEMMA ControlFacts ==
    ASSUME check \in 1 .. 5
    PROVE  /\ Len(Boot!Checks) = 5
           /\ Independent \in BOOLEAN /\ IsCallback \in BOOLEAN
           /\ Boot!This.operation \in {0, 2, 3}
           /\ ~IsCallback => Boot!This.operation \in {2, 3}
           /\ Independent => IsCallback
           /\ Independent <=> check = 5
           /\ IsCallback <=> check \in {4, 5}
<1>1. /\ Len(Boot!Checks) = 5
      /\ Boot!Checks[1] = Boot!Guard(2) /\ Boot!Checks[2] = Boot!Guard(2)
      /\ Boot!Checks[3] = Boot!Guard(3) /\ Boot!Checks[4] = Boot!Callback(FALSE)
      /\ Boot!Checks[5] = Boot!Callback(TRUE)
  BY DEF Boot!Checks
<1>2. check \in {1, 2, 3, 4, 5}
  OBVIOUS
<1>3. \A n \in {0, 2, 3}, b \in BOOLEAN :
         /\ Boot!Guard(n).operation = n /\ Boot!Guard(n).callback = FALSE
         /\ Boot!Guard(n).independent = FALSE
         /\ Boot!Callback(b).operation = 0 /\ Boot!Callback(b).callback = TRUE
         /\ Boot!Callback(b).independent = b
  BY DEF Boot!Guard, Boot!Callback
<1>4. /\ Boot!This = Boot!Checks[check] /\ Independent = Boot!This.independent
      /\ IsCallback = Boot!This.callback
  BY DEF Boot!This, Independent, IsCallback
<1>5. CASE check \in {1, 2}
  BY <1>1, <1>3, <1>4, <1>5
<1>6. CASE check = 3
  BY <1>1, <1>3, <1>4, <1>6
<1>7. CASE check = 4
  BY <1>1, <1>3, <1>4, <1>7
<1>8. CASE check = 5
  BY <1>1, <1>3, <1>4, <1>8
<1> QED
  BY <1>2, <1>5, <1>6, <1>7, <1>8

\* A new invocation, and a new context.
LEMMA FreshFacts ==
    /\ Boot!FreshInvocation \in Invocation /\ Boot!FreshContext \in Context
    /\ LET f == Boot!FreshInvocation
       IN  /\ f.cells[0] = "null" /\ f.cells[1] = "null" /\ f.views[0] = 0 /\ f.views[1] = 0
           /\ f.acquired = 0 /\ f.released = 0 /\ f.reads = 0 /\ f.cleanup = 0 /\ ~f.failed
    /\ LET x == Boot!FreshContext
       IN  x.calls = 0 /\ x.completed = 0 /\ x.value = 0 /\ ~x.dispatched
BY DEF Boot!FreshInvocation, Boot!FreshContext, Invocation, Context, Boot!CellIndex, Boot!NoView

\* A view of the first cell, or of the second, resolves to that cell.
LEMMA FirstResolved ==
    ASSUME NEW inv \in Invocation, inv.views[0] = 100, 0 < inv.acquired,
           1 < inv.acquired => inv.views[1] = 101
    PROVE  Boot!Resolved(inv, 100) = 0
<1>1. /\ 0 \in Boot!CellIndex /\ 0 < inv.acquired /\ inv.views[0] = 100
      /\ \A i \in Boot!CellIndex : i < inv.acquired /\ inv.views[i] = 100 => i = 0
  BY DEF Boot!CellIndex, Invocation
<1> QED
  BY <1>1, Zenon DEF Boot!Resolved

\* the second needs a gate that looks further than the first.
LEMMA SecondResolved ==
    ASSUME NEW inv \in Invocation, inv.views[0] = 100, inv.views[1] = 101, inv.acquired = 2,
           fault # "first_cell"
    PROVE  Boot!Resolved(inv, 101) = 1
<1>1. /\ 1 \in Boot!CellIndex /\ 1 < inv.acquired /\ inv.views[1] = 101
      /\ \A i \in Boot!CellIndex : i < inv.acquired /\ inv.views[i] = 101 => i = 1
  BY DEF Boot!CellIndex, Invocation
<1> QED
  BY <1>1, Zenon DEF Boot!Resolved

\* The fields of an invocation, and an invocation with one changed.
LEMMA Fields ==
    ASSUME NEW inv \in Invocation
    PROVE  /\ inv.cells \in [0 .. 1 -> {"null", "tagged", "cleared"}]
           /\ inv.views \in [0 .. 1 -> Int]
           /\ inv.acquired \in Int /\ inv.released \in Int /\ inv.reads \in Int
           /\ inv.cleanup \in Int /\ inv.failed \in BOOLEAN
           /\ inv = [cells |-> inv.cells, views |-> inv.views, acquired |-> inv.acquired,
                     released |-> inv.released, reads |-> inv.reads,
                     cleanup |-> inv.cleanup, failed |-> inv.failed]
BY DEF Invocation

\* with a refusal,
Denied(inv) == [inv EXCEPT !.failed = (fault # "failure_not_recorded")]

\* which only a gate that records its failures shows,
LEMMA DeniedFields ==
    ASSUME NEW inv \in Invocation
    PROVE  /\ Denied(inv) \in Invocation
           /\ Denied(inv).failed = (fault # "failure_not_recorded")
           /\ Denied(inv).cells = inv.cells /\ Denied(inv).views = inv.views
           /\ Denied(inv).acquired = inv.acquired /\ Denied(inv).released = inv.released
           /\ Denied(inv).reads = inv.reads /\ Denied(inv).cleanup = inv.cleanup
<1> PICK b \in BOOLEAN : b = (fault # "failure_not_recorded")
  OBVIOUS
<1> PICK w : w = Denied(inv)
  OBVIOUS
<1>1. w = [inv EXCEPT !.failed = b]
  BY Zenon DEF Denied
<1>2. w = [cells |-> inv.cells, views |-> inv.views, acquired |-> inv.acquired,
           released |-> inv.released, reads |-> inv.reads,
           cleanup |-> inv.cleanup, failed |-> b]
  BY <1>1, Fields
<1>3. /\ w \in Invocation /\ w.failed = b
      /\ w.cells = inv.cells /\ w.views = inv.views
      /\ w.acquired = inv.acquired /\ w.released = inv.released
      /\ w.reads = inv.reads /\ w.cleanup = inv.cleanup
  BY <1>2, Fields DEF Invocation
<1> QED
  BY <1>3, Zenon

\* and a gate that records them does.
LEMMA DeniedFailed ==
    ASSUME NEW inv \in Invocation, fault # "failure_not_recorded"
    PROVE  Denied(inv).failed
BY DeniedFields, Zenon

\* One more read.
ReadOnce(inv) == [inv EXCEPT !.reads = @ + 1]

\* It counts, and changes nothing else.
LEMMA ReadFields ==
    ASSUME NEW inv \in Invocation
    PROVE  /\ ReadOnce(inv) \in Invocation /\ ReadOnce(inv).reads = inv.reads + 1
           /\ ReadOnce(inv).cells = inv.cells /\ ReadOnce(inv).views = inv.views
           /\ ReadOnce(inv).acquired = inv.acquired /\ ReadOnce(inv).released = inv.released
           /\ ReadOnce(inv).cleanup = inv.cleanup /\ ReadOnce(inv).failed = inv.failed
<1>1. ReadOnce(inv) =
         [cells |-> inv.cells, views |-> inv.views, acquired |-> inv.acquired,
          released |-> inv.released, reads |-> inv.reads + 1,
          cleanup |-> inv.cleanup, failed |-> inv.failed]
  BY Fields DEF ReadOnce
<1> QED
  BY <1>1, Fields DEF Invocation

\* Consumption of cell i by a call.
Consume(inv, i) == Boot!Consumed(inv, i, FALSE)

\* It clears the cell, or in a gate that keeps tags only counts.
LEMMA ConsumedFacts ==
    ASSUME NEW inv \in Invocation, NEW i \in 0 .. 1
    PROVE  LET w == Consume(inv, i)
           IN  /\ w \in Invocation
               /\ w.cells[i] = (IF fault = "tag_kept" THEN inv.cells[i] ELSE "cleared")
               /\ w.cells[1 - i] = inv.cells[1 - i]
               /\ w.views = inv.views /\ w.acquired = inv.acquired
               /\ w.released = inv.released + 1
               /\ w.reads = inv.reads /\ w.cleanup = inv.cleanup /\ w.failed = inv.failed
<1> DEFINE c == IF fault = "tag_kept" THEN inv.cells[i] ELSE "cleared"
           f == [inv.cells EXCEPT ![i] = c]
           w == Consume(inv, i)
<1>1. c \in {"null", "tagged", "cleared"}
  BY DEF Invocation
<1> HIDE DEF c
<1>2. /\ f \in [0 .. 1 -> {"null", "tagged", "cleared"}] /\ f[i] = c
      /\ f[1 - i] = inv.cells[1 - i]
  BY <1>1 DEF Invocation
<1>3. w = [cells |-> f, views |-> inv.views, acquired |-> inv.acquired,
           released |-> inv.released + 1, reads |-> inv.reads,
           cleanup |-> inv.cleanup, failed |-> inv.failed]
  <2>1. w = [inv EXCEPT !.cells = f, !.released = inv.released + 1, !.cleanup = inv.cleanup]
    BY DEF Consume, Boot!Consumed, c
  <2> HIDE DEF w, f
  <2> PICK w1 : w1 = [inv EXCEPT !.cells = f]
    OBVIOUS
  <2> PICK w2 : w2 = [w1 EXCEPT !.released = inv.released + 1]
    OBVIOUS
  <2>2. w = [w2 EXCEPT !.cleanup = inv.cleanup]
    BY <2>1
  <2>3. w1 = [cells |-> f, views |-> inv.views, acquired |-> inv.acquired,
              released |-> inv.released, reads |-> inv.reads,
              cleanup |-> inv.cleanup, failed |-> inv.failed]
    BY Fields
  <2>4. w2 = [cells |-> f, views |-> inv.views, acquired |-> inv.acquired,
              released |-> inv.released + 1, reads |-> inv.reads,
              cleanup |-> inv.cleanup, failed |-> inv.failed]
    BY <2>3
  <2> QED
    BY <2>2, <2>4
<1> HIDE DEF f, w
<1>4. /\ w \in Invocation /\ w.cells = f /\ w.views = inv.views /\ w.acquired = inv.acquired
      /\ w.released = inv.released + 1
      /\ w.reads = inv.reads /\ w.cleanup = inv.cleanup /\ w.failed = inv.failed
  BY <1>2, <1>3, Fields DEF Invocation
<1> QED
  BY <1>2, <1>4 DEF c, w

\* What a call does with a cell that is held,
LEMMA ReleasesHeld ==
    ASSUME NEW inv, NEW count, NEW alias, NEW i \in 0 .. 1,
           Boot!Resolved(inv, alias) = i, ~inv.failed, inv.cells[i] = "tagged"
    PROVE  Boot!GateUse(inv, count, 3, alias) =
              Boot!Came(Consume(inv, i), Boot!Dropped(count), 0)
<1>1. i \in Boot!CellIndex /\ 3 # 2
  BY DEF Boot!CellIndex
<1>2. Boot!Live(inv, i)
  BY <1>1 DEF Boot!Live
<1> QED
  BY <1>1, <1>2, Zenon DEF Boot!GateUse, Consume

\* when it is a read, which may consume,
LEMMA ReadsHeld ==
    ASSUME NEW inv, NEW count, NEW alias, NEW i \in 0 .. 1,
           Boot!Resolved(inv, alias) = i, ~inv.failed, inv.cells[i] = "tagged"
    PROVE  /\ fault = "read_consumes" =>
                 Boot!GateUse(inv, count, 2, alias) =
                    Boot!Came(ReadOnce(Consume(inv, i)), Boot!Dropped(count), 42)
           /\ fault # "read_consumes" =>
                 Boot!GateUse(inv, count, 2, alias) = Boot!Came(ReadOnce(inv), count, 42)
<1>1. i \in Boot!CellIndex
  BY DEF Boot!CellIndex
<1>2. Boot!Live(inv, i)
  BY <1>1 DEF Boot!Live
<1> QED
  BY <1>1, <1>2, Zenon DEF Boot!GateUse, Boot!FieldValue, Consume, ReadOnce

\* and with one that is not.
LEMMA RefusesStale ==
    ASSUME NEW inv, NEW count, NEW operation, NEW alias, NEW i \in 0 .. 1,
           Boot!Resolved(inv, alias) = i, inv.cells[i] # "tagged", fault # "stale_accepted"
    PROVE  Boot!GateUse(inv, count, operation, alias) =
              Boot!Came(Denied(inv), count, Boot!CBPF_FAILURE)
<1>1. ~Boot!Live(inv, i)
  BY DEF Boot!Live
<1> QED
  BY <1>1, Zenon DEF Boot!GateUse, Denied

\* Whatever it does, it gives back an invocation and a count.
LEMMA UseTypes ==
    ASSUME NEW inv \in Invocation, NEW count \in Int, NEW operation \in {2, 3}, NEW alias,
           fault \in Faults
    PROVE  LET gate == Boot!GateUse(inv, count, operation, alias)
           IN  gate.s \in Invocation /\ gate.refs \in Int /\ gate.x0 \in Int
<1> DEFINE gate == Boot!GateUse(inv, count, operation, alias)
           i == Boot!Resolved(inv, alias)
           fails == inv.failed \/ ~Boot!Live(inv, i)
<1>1. CASE fails
  <2>1. gate = Boot!Came(Denied(inv), count, Boot!CBPF_FAILURE)
    BY <1>1, Zenon DEF Boot!GateUse, Denied
  <2>2. Denied(inv) \in Invocation
    BY DeniedFields
  <2> QED
    BY <2>1, <2>2 DEF Boot!Came, Boot!CBPF_FAILURE
<1>2. CASE ~fails
  <2>1. i \in 0 .. 1
    BY <1>2 DEF Boot!Live, Boot!CellIndex
  <2> PICK w : w = Consume(inv, i)
    OBVIOUS
  <2>2. w \in Invocation
    BY <2>1, ConsumedFacts
  <2>3. Boot!Dropped(count) \in Int
    BY DEF Boot!Dropped
  <2>4. \/ gate = Boot!Came(ReadOnce(w), Boot!Dropped(count), 42)
        \/ gate = Boot!Came(ReadOnce(inv), count, 42)
        \/ gate = Boot!Came(w, Boot!Dropped(count), 0)
    <3>1. gate =
             (IF operation = 2
              THEN IF fault = "read_consumes"
                   THEN Boot!Came(ReadOnce(w), Boot!Dropped(count), 42)
                   ELSE Boot!Came(ReadOnce(inv), count, 42)
              ELSE Boot!Came(w, Boot!Dropped(count), 0))
      BY <1>2, Zenon DEF Boot!GateUse, Boot!FieldValue, Consume, ReadOnce
    <3> QED
      BY <3>1, Zenon
  <2>5. ReadOnce(w) \in Invocation /\ ReadOnce(inv) \in Invocation
    BY <2>2, ReadFields
  <2>6. \A v \in Invocation, n \in Int, x \in Int :
           LET g == Boot!Came(v, n, x) IN g.s \in Invocation /\ g.refs \in Int /\ g.x0 \in Int
    BY DEF Boot!Came
  <2>7. 0 \in Int /\ 42 \in Int
    OBVIOUS
  <2> HIDE DEF gate
  <2>8. gate.s \in Invocation /\ gate.refs \in Int /\ gate.x0 \in Int
    BY <2>2, <2>3, <2>4, <2>5, <2>6, <2>7
  <2> QED
    BY <2>8 DEF gate
<1> QED
  BY <1>1, <1>2

\* A call that finds its cell live does not report a failure.
LEMMA LiveSucceeds ==
    ASSUME NEW inv, NEW count, NEW operation \in {2, 3}, NEW alias,
           ~inv.failed, Boot!Live(inv, Boot!Resolved(inv, alias))
    PROVE  Boot!GateUse(inv, count, operation, alias).x0 # Boot!CBPF_FAILURE
<1> DEFINE i == Boot!Resolved(inv, alias)
<1>1. \/ \E v : \E n : Boot!GateUse(inv, count, operation, alias) = Boot!Came(v, n, 42)
      \/ \E v : \E n : Boot!GateUse(inv, count, operation, alias) = Boot!Came(v, n, 0)
  <2>1. Boot!GateUse(inv, count, operation, alias) =
             (IF operation = 2
              THEN IF fault = "read_consumes"
                   THEN Boot!Came([Consume(inv, i) EXCEPT !.reads = @ + 1],
                                  Boot!Dropped(count), 42)
                   ELSE Boot!Came([inv EXCEPT !.reads = @ + 1], count, 42)
              ELSE Boot!Came(Consume(inv, i), Boot!Dropped(count), 0))
    BY Zenon DEF Boot!GateUse, Boot!FieldValue, Consume
  <2> QED
    BY <2>1, Zenon
<1>2. \A v, n, x : Boot!Came(v, n, x).x0 = x
  BY DEF Boot!Came
<1>3. Boot!CBPF_FAILURE \notin {0, 42}
  BY DEF Boot!CBPF_FAILURE
<1> QED
  BY <1>1, <1>2, <1>3

\* An acquisition: cell i is tagged, and has its view.
Granted(inv, i) ==
    [inv EXCEPT !.cells[i] = "tagged", !.views[i] = Boot!View(i), !.acquired = @ + 1]

\* Only that cell, its view and the number of cells change.
LEMMA AcquiredFields ==
    ASSUME NEW inv \in Invocation, NEW i \in 0 .. 1
    PROVE  /\ Granted(inv, i) \in Invocation
           /\ Granted(inv, i).cells[i] = "tagged"
           /\ Granted(inv, i).cells[1 - i] = inv.cells[1 - i]
           /\ Granted(inv, i).views[i] = 100 + i
           /\ Granted(inv, i).views[1 - i] = inv.views[1 - i]
           /\ Granted(inv, i).acquired = inv.acquired + 1
           /\ Granted(inv, i).released = inv.released
           /\ Granted(inv, i).reads = inv.reads /\ Granted(inv, i).cleanup = inv.cleanup
           /\ Granted(inv, i).failed = inv.failed
<1> DEFINE f == [inv.cells EXCEPT ![i] = "tagged"]
           g == [inv.views EXCEPT ![i] = 100 + i]
<1>1. /\ f \in [0 .. 1 -> {"null", "tagged", "cleared"}] /\ f[i] = "tagged"
      /\ f[1 - i] = inv.cells[1 - i]
      /\ g \in [0 .. 1 -> Int] /\ g[i] = 100 + i /\ g[1 - i] = inv.views[1 - i]
  BY Fields
<1> PICK w1 : w1 = [inv EXCEPT !.cells = f]
  OBVIOUS
<1> PICK w2 : w2 = [w1 EXCEPT !.views = g]
  OBVIOUS
<1>2. w1 = [cells |-> f, views |-> inv.views, acquired |-> inv.acquired,
            released |-> inv.released, reads |-> inv.reads,
            cleanup |-> inv.cleanup, failed |-> inv.failed]
  <2> HIDE DEF f
  <2> QED
    BY Fields
<1>3. w2 = [cells |-> f, views |-> g, acquired |-> inv.acquired,
            released |-> inv.released, reads |-> inv.reads,
            cleanup |-> inv.cleanup, failed |-> inv.failed]
  <2> HIDE DEF f, g
  <2> QED
    BY <1>2
<1>4. Granted(inv, i) = [w2 EXCEPT !.acquired = inv.acquired + 1]
  <2>1. w1.views = inv.views /\ w2.acquired = inv.acquired
    BY <1>2, <1>3
  <2> QED
    BY <2>1 DEF Boot!View, Granted
<1> HIDE DEF f, g
<1>5. Granted(inv, i) =
         [cells |-> f, views |-> g, acquired |-> inv.acquired + 1,
          released |-> inv.released, reads |-> inv.reads,
          cleanup |-> inv.cleanup, failed |-> inv.failed]
  BY <1>3, <1>4
<1> QED
  BY <1>1, <1>5, Fields DEF Invocation

\* A context with an alias kept.
LEMMA AliasFields ==
    ASSUME NEW x \in Context, NEW i \in 0 .. 1, NEW v \in Int
    PROVE  LET w == [x EXCEPT !.aliases[i] = v]
           IN  /\ w \in Context
               /\ w.aliases[i] = v /\ w.aliases[1 - i] = x.aliases[1 - i]
               /\ w.calls = x.calls /\ w.completed = x.completed
               /\ w.value = x.value /\ w.dispatched = x.dispatched
<1> DEFINE f == [x.aliases EXCEPT ![i] = v]
           w == [x EXCEPT !.aliases[i] = v]
<1>1. /\ x.aliases \in [0 .. 1 -> Int] /\ x.calls \in Int /\ x.completed \in Int
      /\ x.value \in Int /\ x.dispatched \in BOOLEAN
      /\ x = [aliases |-> x.aliases, calls |-> x.calls, completed |-> x.completed,
              value |-> x.value, dispatched |-> x.dispatched]
  BY DEF Context
<1>2. f \in [0 .. 1 -> Int] /\ f[i] = v /\ f[1 - i] = x.aliases[1 - i]
  BY <1>1
<1>3. w = [x EXCEPT !.aliases = f]
  OBVIOUS
<1> HIDE DEF f, w
<1>4. w = [aliases |-> f, calls |-> x.calls, completed |-> x.completed,
           value |-> x.value, dispatched |-> x.dispatched]
  BY <1>1, <1>3
<1>5. /\ w \in Context /\ w.aliases = f
      /\ w.calls = x.calls /\ w.completed = x.completed
      /\ w.value = x.value /\ w.dispatched = x.dispatched
  BY <1>1, <1>2, <1>4 DEF Context
<1> QED
  BY <1>2, <1>5 DEF w

-----------------------------------------------------------------------------
\* What no step changes while a control runs.
LEMMA SameControl ==
    ASSUME check' = check, fault' = fault
    PROVE  /\ Independent' = Independent /\ IsCallback' = IsCallback /\ Late' = Late
           /\ Boot!Dropped(refs)' = (IF fault = "count_kept" THEN refs' ELSE refs' - 1)
BY DEF Independent, IsCallback, Late, Boot!This, Boot!Dropped

\* A control starts with nothing held.
LEMMA BeginStep ==
    ASSUME BootInv, Boot!Begin
    PROVE  BootInv'
<1>1. /\ step = "begin" /\ Baseline /\ ~inexact
      /\ fault' = fault /\ inexact' = inexact /\ check' = check
      /\ s' = Boot!FreshInvocation /\ ctx' = Boot!FreshContext /\ pass' = FALSE
      /\ step' = "acquire" /\ control' = TRUE /\ refs' = 1
  BY DEF BootInv, DecisionInv, Baseline, Boot!Begin
<1>2. TypeInv'
  <2>1. fault \in Faults /\ inexact \in BOOLEAN /\ check \in 1 .. 5
    BY DEF BootInv, TypeInv
  <2>2. s' \in Invocation /\ ctx' \in Context
    BY <1>1, FreshFacts
  <2>3. /\ fault' \in Faults /\ inexact' \in BOOLEAN /\ check' \in 1 .. 5
        /\ pass' \in BOOLEAN /\ control' \in BOOLEAN /\ refs' \in Int
    <3>1. refs' \in Int
      BY <1>1
    <3> QED
      BY <1>1, <2>1, <3>1, Zenon
  <2>4. step' \in Places
    BY <1>1 DEF Places
  <2> QED
    BY <2>2, <2>3, <2>4 DEF TypeInv
<1>3. DecisionInv'
  BY <1>1, SameControl DEF BootInv, DecisionInv, Boot!Ending
<1>4. AcquireInv'
  BY <1>1, FreshFacts DEF AcquireInv, Counted, Holds
<1>5. RunningInv'
  BY <1>1, FreshFacts DEF RunningInv
<1>6. GuardInv' /\ CallbackInv' /\ VerdictInv' /\ OutInv'
  BY <1>1 DEF GuardInv, CallbackInv, VerdictInv, OutInv
<1> QED
  BY <1>2, <1>3, <1>4, <1>5, <1>6 DEF BootInv

\* What a gate gives back.
LEMMA CameFields ==
    ASSUME NEW v, NEW n, NEW x
    PROVE  /\ Boot!Came(v, n, x).s = v /\ Boot!Came(v, n, x).refs = n
           /\ Boot!Came(v, n, x).x0 = x
BY DEF Boot!Came

\* What an acquiring control finds.
LEMMA AcquireFacts ==
    ASSUME BootInv, Boot!Acquire
    PROVE  /\ step = "acquire" /\ ~s.failed /\ ~pass /\ ~inexact /\ ~ctx.dispatched
           /\ fault' = fault /\ control' = control /\ check' = check /\ pass' = pass
           /\ s \in Invocation /\ ctx \in Context /\ refs \in Int /\ check \in 1 .. 5
           /\ Counted(0, 0, 0)
           /\ \/ Holds("null", "null", 0, 0, 0, 1)
              \/ Independent /\ Holds("tagged", "null", 1, 0, 0, 2) /\ ctx.aliases[0] = 100
           /\ s.acquired \in 0 .. 1
<1>1. /\ step = "acquire"
      /\ fault' = fault /\ control' = control /\ check' = check /\ pass' = pass
  BY DEF Boot!Acquire
<1>2. /\ ~s.failed /\ ~pass /\ ~inexact /\ ~ctx.dispatched /\ Counted(0, 0, 0)
      /\ \/ Holds("null", "null", 0, 0, 0, 1)
         \/ Independent /\ Holds("tagged", "null", 1, 0, 0, 2) /\ ctx.aliases[0] = 100
  BY <1>1 DEF BootInv, RunningInv, AcquireInv, DecisionInv
<1>3. s.acquired \in 0 .. 1
  BY <1>2 DEF Holds
<1> QED
  BY <1>1, <1>2, <1>3 DEF BootInv, TypeInv

\* A capability that cannot be made exact ends the control.
LEMMA AcquireInexact ==
    ASSUME BootInv, Boot!Acquire,
           Boot!Enter(Boot!GateAcquire(FALSE)), inexact' = (inexact \/ ~FALSE),
           ~Boot!Good(Boot!GateAcquire(FALSE)) => step' = "out" /\ ctx' = ctx
    PROVE  BootInv'
<1> PICK w : w = Denied(s)
  OBVIOUS
<1>1. Boot!GateAcquire(FALSE) = Boot!Came(w, refs, Boot!CBPF_FAILURE)
  BY Zenon DEF Boot!GateAcquire, Boot!Failed, Denied
<1>2. s \in Invocation
  BY AcquireFacts
<1>3. /\ s' = w /\ refs' = refs /\ step' = "out" /\ ctx' = ctx
      /\ inexact' = TRUE
  <2> DEFINE gate == Boot!GateAcquire(FALSE)
  <2>1. gate.s = w /\ gate.refs = refs /\ gate.x0 = Boot!CBPF_FAILURE
    <3> HIDE DEF gate
    <3>1. gate = Boot!Came(w, refs, Boot!CBPF_FAILURE)
      BY <1>1 DEF gate
    <3> QED
      BY <3>1, CameFields
  <2>2. ~Boot!Good(gate)
    BY <2>1, Zenon DEF Boot!Good
  <2> QED
    BY <2>1, <2>2 DEF Boot!Enter
<1>4. /\ s' \in Invocation /\ s'.cells = s.cells /\ s'.views = s.views
      /\ s'.acquired = s.acquired /\ s'.released = s.released /\ s'.reads = s.reads
      /\ s'.cleanup = s.cleanup
  BY <1>2, <1>3, DeniedFields
<1>5. TypeInv'
  BY <1>3, <1>4, AcquireFacts DEF BootInv, TypeInv, Places
<1>6. DecisionInv'
  BY <1>3, AcquireFacts, SameControl DEF BootInv, DecisionInv, Boot!Ending
<1>7. OutInv'
  BY <1>3, <1>4, AcquireFacts DEF OutInv, Holds
<1>8. AcquireInv' /\ GuardInv' /\ CallbackInv' /\ VerdictInv' /\ RunningInv'
  BY <1>3 DEF AcquireInv, GuardInv, CallbackInv, VerdictInv, RunningInv
<1> QED
  BY <1>5, <1>6, <1>7, <1>8 DEF BootInv

\* One that is exact gives the control its next view.
LEMMA AcquireExact ==
    ASSUME BootInv, Boot!Acquire,
           Boot!Enter(Boot!GateAcquire(TRUE)), inexact' = (inexact \/ ~TRUE),
           LET gate == Boot!GateAcquire(TRUE)
           IN  IF Boot!Good(gate)
               THEN /\ ctx' = [ctx EXCEPT !.aliases[s.acquired] = gate.x0]
                    /\ step' = IF gate.s.acquired < Boot!Acquisitions THEN "acquire"
                               ELSE IF Boot!This.callback THEN "callback" ELSE "release"
               ELSE step' = "out" /\ ctx' = ctx
    PROVE  BootInv'
<1> PICK k \in 0 .. 1 : k = s.acquired
  BY AcquireFacts
<1> PICK w : w = Granted(s, k)
  OBVIOUS
<1> DEFINE gate == Boot!GateAcquire(TRUE)
<1>0. /\ s \in Invocation /\ ctx \in Context /\ refs \in Int /\ check \in 1 .. 5
      /\ step = "acquire" /\ ~s.failed /\ ~pass /\ ~inexact /\ ~ctx.dispatched
      /\ fault' = fault /\ control' = control /\ check' = check /\ pass' = pass
      /\ Counted(0, 0, 0)
      /\ \/ Holds("null", "null", 0, 0, 0, 1)
         \/ Independent /\ Holds("tagged", "null", 1, 0, 0, 2) /\ ctx.aliases[0] = 100
  BY AcquireFacts
<1>1. gate = Boot!Came(w, refs + 1, 100 + k)
  <2>1. ~(s.failed \/ s.acquired = 2 \/ ~TRUE)
    BY <1>0
  <2>2. gate = Boot!Came(Granted(s, s.acquired), refs + 1, Boot!View(s.acquired))
    BY <2>1, Zenon DEF Boot!GateAcquire, Granted
  <2>3. Boot!View(s.acquired) = 100 + k
    BY DEF Boot!View
  <2> HIDE DEF gate
  <2> QED
    BY <2>2, <2>3, Zenon
<1>2. gate.s = w /\ gate.refs = refs + 1 /\ gate.x0 = 100 + k
  <2> HIDE DEF gate
  <2> QED
    BY <1>1, CameFields
<1>3. /\ w \in Invocation
      /\ w.cells[k] = "tagged" /\ w.cells[1 - k] = s.cells[1 - k]
      /\ w.views[k] = 100 + k /\ w.views[1 - k] = s.views[1 - k]
      /\ w.acquired = k + 1 /\ w.released = s.released
      /\ w.reads = s.reads /\ w.cleanup = s.cleanup /\ w.failed = s.failed
  <2>1. s \in Invocation
    BY <1>0, Zenon
  <2> QED
    BY <2>1, AcquiredFields
<1>4. Independent \in BOOLEAN /\ IsCallback \in BOOLEAN /\ (Independent => IsCallback)
      /\ (IsCallback => check \in {4, 5})
  BY <1>0, ControlFacts
<1>5. Boot!Good(gate)
  <2>1. k = 0 => Boot!Counts(w, 1, 0, 0) /\ refs + 1 = 2
    BY <1>0, <1>3 DEF Holds, Boot!Counts
  <2>2. k = 1 => Independent
    BY <1>0 DEF Holds
  <2>3. ~w.failed /\ 100 + k # Boot!CBPF_FAILURE
    BY <1>0, <1>3 DEF Boot!CBPF_FAILURE
  <2>4. k = 0 \/ Boot!This.callback
    BY <1>4, <2>2 DEF IsCallback
  <2> QED
    BY <1>2, <2>1, <2>3, <2>4 DEF Boot!Good
<1>6. /\ s' = w /\ refs' = refs + 1 /\ inexact' = FALSE
      /\ ctx' = [ctx EXCEPT !.aliases[k] = 100 + k]
      /\ step' = (IF k + 1 < (IF Independent THEN 2 ELSE 1) THEN "acquire"
                  ELSE IF IsCallback THEN "callback" ELSE "release")
  BY <1>0, <1>2, <1>3, <1>5 DEF Boot!Enter, Boot!Acquisitions, Independent, IsCallback
<1>7. /\ ctx' \in Context /\ ctx'.aliases[k] = 100 + k
      /\ ctx'.aliases[1 - k] = ctx.aliases[1 - k]
      /\ ctx'.calls = ctx.calls /\ ctx'.completed = ctx.completed
      /\ ctx'.value = ctx.value /\ ctx'.dispatched = ctx.dispatched
  BY <1>0, <1>6, AliasFields
<1>8. Independent' = Independent /\ IsCallback' = IsCallback /\ Late' = Late
  BY <1>0, SameControl
<1>9. Counted(0, 0, 0)'
  BY <1>0, <1>7 DEF Counted
<1>10. k = 0 => Holds("tagged", "null", 1, 0, 0, 2)' /\ ctx'.aliases[0] = 100
  BY <1>0, <1>3, <1>6, <1>7 DEF Holds
<1>11. k = 1 => /\ Holds("tagged", "tagged", 2, 0, 0, 3)'
                /\ ctx'.aliases[0] = 100 /\ ctx'.aliases[1] = 101 /\ Independent
  BY <1>0, <1>3, <1>6, <1>7 DEF Holds
<1>12. step' \in {"acquire", "callback", "release"}
  BY <1>4, <1>6
<1>13. TypeInv'
  BY <1>0, <1>3, <1>6, <1>7, <1>12 DEF BootInv, TypeInv, Places
<1>14. DecisionInv'
  BY <1>0, <1>6, <1>8, <1>12 DEF BootInv, DecisionInv, Boot!Ending
<1>15. AcquireInv'
  BY <1>4, <1>6, <1>8, <1>9, <1>10 DEF AcquireInv
<1>16. GuardInv'
  BY <1>4, <1>6, <1>8, <1>10, <1>11, <1>12 DEF GuardInv
<1>17. CallbackInv'
  <2>1. IsCallback => Late
    BY <1>4 DEF BootInv, DecisionInv
  <2> QED
    BY <1>4, <1>6, <1>8, <1>9, <1>10, <1>11, <2>1 DEF CallbackInv
<1>18. RunningInv'
  BY <1>0, <1>3, <1>6, <1>7 DEF RunningInv
<1>19. VerdictInv' /\ OutInv'
  BY <1>12 DEF VerdictInv, OutInv
<1> QED
  BY <1>13, <1>14, <1>15, <1>16, <1>17, <1>18, <1>19 DEF BootInv

\* An acquisition leaves what the next step of its control needs.
LEMMA AcquireStep ==
    ASSUME BootInv, Boot!Acquire
    PROVE  BootInv'
<1> PICK exact \in BOOLEAN :
      LET gate == Boot!GateAcquire(exact)
      IN  /\ Boot!Enter(gate)
          /\ inexact' = (inexact \/ ~exact)
          /\ IF Boot!Good(gate)
             THEN /\ ctx' = [ctx EXCEPT !.aliases[s.acquired] = gate.x0]
                  /\ step' = IF gate.s.acquired < Boot!Acquisitions THEN "acquire"
                             ELSE IF Boot!This.callback THEN "callback" ELSE "release"
             ELSE step' = "out" /\ ctx' = ctx
  BY Zenon DEF Boot!Acquire
<1>1. CASE exact = TRUE
  BY <1>1, AcquireExact, Zenon
<1>2. CASE exact = FALSE
  BY <1>2, AcquireInexact, Zenon
<1> QED
  BY <1>1, <1>2

\* The first cell is consumed, from a state where it is held.
LEMMA FirstReleased ==
    ASSUME s \in Invocation, refs \in Int, ~s.failed,
           NEW second \in {"null", "tagged"}, NEW acquired \in 1 .. 2,
           s.cells[0] = "tagged", s.cells[1] = second,
           s.views[0] = 100, 1 < acquired => s.views[1] = 101,
           s.acquired = acquired, s.released = 0, s.reads = 0, s.cleanup = 0,
           refs = acquired + 1
    PROVE  LET gate == Boot!GateUse(s, refs, 3, 100)
           IN  /\ gate.x0 = 0 /\ ~gate.s.failed
               /\ gate.s \in Invocation /\ gate.refs \in Int
               /\ gate.s.views = s.views /\ Boot!Counts(gate.s, acquired, 1, 0)
               /\ gate.s.cells[0] = (IF fault = "tag_kept" THEN "tagged" ELSE "cleared")
               /\ gate.s.cells[1] = second
               /\ gate.refs = (IF fault = "count_kept" THEN acquired + 1 ELSE acquired)
<1> DEFINE gate == Boot!GateUse(s, refs, 3, 100)
<1> PICK w : w = Consume(s, 0)
  OBVIOUS
<1> PICK d : d = Boot!Dropped(refs)
  OBVIOUS
<1>1. Boot!Resolved(s, 100) = 0
  BY FirstResolved
<1>2. 0 \in 0 .. 1
  OBVIOUS
<1>3. gate = Boot!Came(w, d, 0)
  BY <1>1, <1>2, ReleasesHeld
<1> HIDE DEF gate
<1>4. gate.s = w /\ gate.refs = d /\ gate.x0 = 0
  BY <1>3, CameFields
<1>5. /\ w \in Invocation
      /\ w.cells[0] = (IF fault = "tag_kept" THEN s.cells[0] ELSE "cleared")
      /\ w.cells[1 - 0] = s.cells[1 - 0]
      /\ w.views = s.views /\ w.acquired = s.acquired
      /\ w.released = s.released + 1
      /\ w.reads = s.reads /\ w.cleanup = s.cleanup /\ w.failed = s.failed
  BY <1>2, ConsumedFacts, Zenon
<1>6. Boot!Counts(w, acquired, 1, 0)
  BY <1>2, <1>5 DEF Boot!Counts
<1>7. d = (IF fault = "count_kept" THEN acquired + 1 ELSE acquired)
  BY <1>2 DEF Boot!Dropped
<1>9. d \in Int /\ w.cells[1] = s.cells[1]
  BY <1>5, <1>7
<1>8. /\ gate.x0 = 0 /\ ~gate.s.failed
      /\ gate.s \in Invocation /\ gate.refs \in Int
      /\ gate.s.views = s.views /\ Boot!Counts(gate.s, acquired, 1, 0)
      /\ gate.s.cells[0] = (IF fault = "tag_kept" THEN "tagged" ELSE "cleared")
      /\ gate.s.cells[1] = second
      /\ gate.refs = (IF fault = "count_kept" THEN acquired + 1 ELSE acquired)
  BY <1>2, <1>4, <1>5, <1>6, <1>7, <1>9
<1> QED
  BY <1>8 DEF gate

\* A gate that keeps the tag or the count is caught by the first release.
LEMMA ReleaseStep ==
    ASSUME BootInv, Boot!Release
    PROVE  BootInv'
<1> DEFINE gate == Boot!GateUse(s, refs, 3, 100)
<1>0. /\ step = "release" /\ ~pass /\ ~s.failed /\ ~inexact /\ ~IsCallback
      /\ ctx.aliases[0] = 100 /\ Holds("tagged", "null", 1, 0, 0, 1 + 1)
      /\ s \in Invocation /\ refs \in Int /\ ~ctx.dispatched
  BY DEF BootInv, TypeInv, RunningInv, DecisionInv, GuardInv, Boot!Release
<1>1. /\ gate.x0 = 0 /\ ~gate.s.failed
      /\ gate.s \in Invocation /\ gate.refs \in Int
      /\ gate.s.views = s.views /\ Boot!Counts(gate.s, 1, 1, 0)
      /\ gate.s.cells[0] = (IF fault = "tag_kept" THEN "tagged" ELSE "cleared")
      /\ gate.s.cells[1] = "null"
      /\ gate.refs = (IF fault = "count_kept" THEN 1 + 1 ELSE 1)
  <2>1. "null" \in {"null", "tagged"} /\ 1 \in 1 .. 2
    OBVIOUS
  <2> QED
    BY <1>0, <2>1, FirstReleased DEF Holds
<1>2. /\ s' = gate.s /\ refs' = gate.refs
      /\ step' = IF gate.x0 = 0 /\ ~gate.s.failed /\ Boot!Ended(gate.s, gate.refs)
                 THEN "reuse" ELSE "out"
      /\ UNCHANGED <<fault, inexact, control, check, ctx, pass>>
  BY <1>0 DEF Boot!Release, Boot!Enter
<1> HIDE DEF gate
<1>3. Boot!Ended(gate.s, gate.refs) <=> fault \notin {"tag_kept", "count_kept"}
  <2>1. ctx.aliases[0] = gate.s.views[0]
    BY <1>0, <1>1 DEF Holds
  <2>2. gate.s.cells[0] # "tagged" <=> fault # "tag_kept"
    BY <1>1
  <2>3. gate.refs = 1 <=> fault # "count_kept"
    BY <1>1
  <2> QED
    BY <1>1, <2>1, <2>2, <2>3, Zenon DEF Boot!Ended
<1>4. /\ step' \in {"reuse", "out"}
      /\ step' = "reuse" <=> fault \notin {"tag_kept", "count_kept"}
  BY <1>1, <1>2, <1>3
<1>5. Independent' = Independent /\ IsCallback' = IsCallback /\ Late' = Late
  BY <1>2, SameControl
<1>6. TypeInv'
  BY <1>1, <1>2, <1>4 DEF BootInv, TypeInv, Places
<1>7. DecisionInv'
  BY <1>0, <1>2, <1>4, <1>5 DEF BootInv, DecisionInv, Boot!Ending
<1>8. GuardInv'
  <2>1. step' = "reuse" => Holds("cleared", "null", 1, 1, 0, 1)'
    BY <1>0, <1>1, <1>2, <1>4 DEF Holds, Boot!Counts
  <2> QED
    BY <1>0, <1>2, <1>4, <1>5, <2>1 DEF GuardInv
<1>9. OutInv'
  BY <1>0, <1>2, <1>4 DEF OutInv
<1>10. RunningInv'
  BY <1>0, <1>1, <1>2, <1>4 DEF RunningInv
<1>11. AcquireInv' /\ CallbackInv' /\ VerdictInv'
  BY <1>4 DEF AcquireInv, CallbackInv, VerdictInv
<1> QED
  BY <1>6, <1>7, <1>8, <1>9, <1>10, <1>11 DEF BootInv

\* The first cell is used when it is no longer held: a gate that refuses
\* records it.
LEMMA FirstStale ==
    ASSUME s \in Invocation, refs \in Int, ~s.failed, NEW second, NEW acquired \in 1 .. 2,
           NEW operation \in {2, 3}, fault # "stale_accepted",
           s.cells[0] = "cleared", s.cells[1] = second,
           s.views[0] = 100, 1 < acquired => s.views[1] = 101,
           s.acquired = acquired, s.released = 1, s.reads = 0, s.cleanup = 0,
           refs = acquired
    PROVE  LET gate == Boot!GateUse(s, refs, operation, 100)
           IN  /\ gate.x0 = Boot!CBPF_FAILURE
               /\ gate.s.failed = (fault # "failure_not_recorded")
               /\ gate.s \in Invocation /\ gate.refs = refs
               /\ gate.s.views = s.views /\ gate.s.cells = s.cells
               /\ Boot!Counts(gate.s, acquired, 1, 0)
<1> DEFINE gate == Boot!GateUse(s, refs, operation, 100)
<1> PICK w : w = Denied(s)
  OBVIOUS
<1> PICK b \in BOOLEAN : b = (fault # "failure_not_recorded")
  OBVIOUS
<1>1. Boot!Resolved(s, 100) = 0
  BY FirstResolved
<1>2. s.cells[0] # "tagged" /\ 0 \in 0 .. 1
  OBVIOUS
<1>3. gate = Boot!Came(Denied(s), refs, Boot!CBPF_FAILURE)
  BY <1>1, <1>2, RefusesStale
<1>4. gate = Boot!Came(w, refs, Boot!CBPF_FAILURE)
  BY <1>3, Zenon
<1> HIDE DEF gate
<1>5. gate.s = w /\ gate.refs = refs /\ gate.x0 = Boot!CBPF_FAILURE
  BY <1>4, CameFields
<1>6. /\ w \in Invocation /\ w.failed = b /\ w.cells = s.cells /\ w.views = s.views
      /\ w.acquired = s.acquired /\ w.released = s.released
      /\ w.reads = s.reads /\ w.cleanup = s.cleanup
  BY DeniedFields, Zenon
<1>7. Boot!Counts(w, acquired, 1, 0)
  BY <1>6 DEF Boot!Counts
<1>8. /\ gate.x0 = Boot!CBPF_FAILURE
      /\ gate.s.failed = (fault # "failure_not_recorded")
      /\ gate.s \in Invocation /\ gate.refs = refs
      /\ gate.s.views = s.views /\ gate.s.cells = s.cells
      /\ Boot!Counts(gate.s, acquired, 1, 0)
  BY <1>5, <1>6, <1>7, Zenon
<1> QED
  BY <1>8 DEF gate

\* One that accepts a stale view, or does not record the refusal, by its reuse.
LEMMA ReuseStep ==
    ASSUME BootInv, Boot!Reuse
    PROVE  BootInv'
<1> PICK operation : operation = Boot!This.operation
  OBVIOUS
<1> DEFINE gate == Boot!GateUse(s, refs, operation, 100)
<1>0. /\ step = "reuse" /\ ~s.failed /\ ~inexact /\ ~IsCallback
      /\ ctx.aliases[0] = 100 /\ Holds("cleared", "null", 1, 1, 0, 1)
      /\ fault \notin {"tag_kept", "count_kept"} /\ fault \in Faults
      /\ s \in Invocation /\ refs \in Int /\ check \in 1 .. 5
  BY DEF BootInv, TypeInv, RunningInv, DecisionInv, GuardInv, Boot!Reuse
<1>1. operation \in {2, 3} /\ check # 5
  BY <1>0, ControlFacts
<1>2. /\ s' = gate.s /\ refs' = gate.refs /\ step' = "out"
      /\ pass' = (gate.x0 = Boot!CBPF_FAILURE /\ gate.s.failed
                  /\ Boot!Ended(gate.s, gate.refs))
      /\ UNCHANGED <<fault, inexact, control, check, ctx>>
  BY <1>0 DEF Boot!Reuse, Boot!Enter
<1>3. gate.s \in Invocation /\ gate.refs \in Int
  BY <1>0, <1>1, UseTypes
<1>4. fault = "stale_accepted" => gate.x0 # Boot!CBPF_FAILURE
  <2> SUFFICES ASSUME fault = "stale_accepted" PROVE gate.x0 # Boot!CBPF_FAILURE
    OBVIOUS
  <2>1. Boot!Resolved(s, 100) = 0
    BY <1>0, FirstResolved DEF Holds
  <2>2. Boot!Live(s, Boot!Resolved(s, 100))
    BY <2>1 DEF Boot!Live, Boot!CellIndex
  <2> QED
    BY <1>0, <1>1, <2>2, LiveSucceeds
<1>5. fault # "stale_accepted" =>
         /\ gate.x0 = Boot!CBPF_FAILURE
         /\ gate.s.failed = (fault # "failure_not_recorded")
         /\ gate.refs = refs /\ gate.s.views = s.views /\ gate.s.cells = s.cells
         /\ Boot!Counts(gate.s, 1, 1, 0)
  <2>1. 1 \in 1 .. 2
    OBVIOUS
  <2> QED
    BY <1>0, <1>1, <2>1, FirstStale DEF Holds
<1> HIDE DEF gate
<1>6. pass' => fault \notin {"stale_accepted", "failure_not_recorded"}
  BY <1>2, <1>4, <1>5
<1>7. fault \in {"none", "first_cell", "read_consumes"} =>
         pass' /\ refs' = 1 /\ s'.cells[0] = "cleared" /\ s'.cells[1] = "null"
  <2> SUFFICES ASSUME fault \in {"none", "first_cell", "read_consumes"}
               PROVE  pass' /\ refs' = 1 /\ s'.cells[0] = "cleared" /\ s'.cells[1] = "null"
    OBVIOUS
  <2>3. /\ refs = 1 /\ s.views[0] = 100 /\ s.cells[0] = "cleared" /\ s.cells[1] = "null"
    BY <1>0 DEF Holds
  <2>4. /\ gate.x0 = Boot!CBPF_FAILURE /\ gate.s.failed = (fault # "failure_not_recorded")
        /\ gate.refs = refs /\ gate.s.views = s.views /\ gate.s.cells = s.cells
        /\ Boot!Counts(gate.s, 1, 1, 0)
    BY <1>5, Zenon
  <2>1. /\ gate.x0 = Boot!CBPF_FAILURE /\ gate.s.failed
        /\ gate.refs = 1 /\ gate.s.views[0] = 100
        /\ gate.s.cells[0] = "cleared" /\ gate.s.cells[1] = "null"
        /\ Boot!Counts(gate.s, 1, 1, 0)
    BY <2>3, <2>4
  <2>2. Boot!Ended(gate.s, gate.refs)
    BY <1>0, <2>1 DEF Boot!Ended
  <2> QED
    BY <1>2, <2>1, <2>2
<1>8. Late \/ fault \in {"stale_accepted", "failure_not_recorded"}
  BY <1>0, FaultsAssumption DEF Late
<1>9. pass' \in BOOLEAN
  BY <1>2
<1>10. Late' = Late
  BY <1>2, SameControl
<1>11. TypeInv'
  BY <1>2, <1>3, <1>9 DEF BootInv, TypeInv, Places
<1>12. DecisionInv'
  BY <1>0, <1>2, <1>10 DEF BootInv, DecisionInv, Boot!Ending
<1>13. OutInv'
  <2>1. pass' => Late' /\ refs' = 1 /\ s'.cells[0] # "tagged" /\ s'.cells[1] # "tagged"
    BY <1>6, <1>7, <1>8, <1>10 DEF Late
  <2>2. fault' = "none" => pass'
    BY <1>2, <1>7
  <2>3. check' # 5
    BY <1>1, <1>2
  <2> QED
    BY <2>1, <2>2, <2>3 DEF OutInv
<1>14. AcquireInv' /\ GuardInv' /\ CallbackInv' /\ VerdictInv' /\ RunningInv'
  BY <1>2 DEF AcquireInv, GuardInv, CallbackInv, VerdictInv, RunningInv
<1> QED
  BY <1>11, <1>12, <1>13, <1>14 DEF BootInv

-----------------------------------------------------------------------------
\* One iteration of the callback: its alias, its read if it makes one, and its
\* last call.
CallAlias == ctx.aliases[IF Independent THEN ctx.calls ELSE 0]
CallReads == Independent /\ ctx.calls = 1
CallRead == IF CallReads THEN Boot!GateUse(s, refs, 2, CallAlias) ELSE Boot!Came(s, refs, 0)
CallLast == IF CallRead.s.failed THEN CallRead
            ELSE Boot!GateUse(CallRead.s, CallRead.refs, 3, CallAlias)

\* What holds where the callback is to be called.
LEMMA CallbackFacts ==
    ASSUME BootInv, Boot!OwnershipCallback
    PROVE  /\ step = "callback" /\ ~pass /\ ~s.failed /\ ~inexact /\ ~ctx.dispatched
           /\ IsCallback /\ Late /\ ctx.aliases[0] = 100
           /\ Independent => ctx.aliases[1] = 101
           /\ \/ Counted(0, 0, 0) /\ ~Independent /\ Holds("tagged", "null", 1, 0, 0, 2)
              \/ Counted(0, 0, 0) /\ Independent /\ Holds("tagged", "tagged", 2, 0, 0, 3)
              \/ Counted(1, 1, 0) /\ ~Independent /\ Holds("cleared", "null", 1, 1, 0, 1)
              \/ Counted(1, 1, 0) /\ Independent /\ Holds("cleared", "tagged", 2, 1, 0, 2)
           /\ s \in Invocation /\ ctx \in Context /\ refs \in Int /\ fault \in Faults
           /\ check \in 1 .. 5
<1>1. step = "callback"
  BY DEF Boot!OwnershipCallback
<1> QED
  BY <1>1 DEF BootInv, TypeInv, RunningInv, DecisionInv, CallbackInv

\* The context's alias is canonical in every iteration.
LEMMA CallbackCanonical ==
    ASSUME BootInv, Boot!OwnershipCallback
    PROVE  Boot!Canonical(CallAlias, IF Independent THEN ctx.calls ELSE 0)
<1>1. CASE Independent /\ ctx.calls = 1
  <2>1. ctx.aliases[1] = 101 /\ s.views[1] = 101
    BY <1>1, CallbackFacts DEF Counted, Holds
  <2> QED BY <1>1, <2>1 DEF Boot!Canonical, Boot!NoView, CallAlias
<1>2. CASE ~(Independent /\ ctx.calls = 1)
  <2>1. ctx.aliases[0] = 100 /\ s.views[0] = 100
    BY CallbackFacts DEF Holds
  <2>2. (IF Independent THEN ctx.calls ELSE 0) = 0
    BY <1>2, CallbackFacts DEF Counted
  <2> QED BY <2>1, <2>2 DEF Boot!Canonical, Boot!NoView, CallAlias
<1> QED
  BY <1>1, <1>2

\* What an iteration leaves.
LEMMA CallbackShape ==
    ASSUME BootInv, Boot!OwnershipCallback, ctx \in Context, CallRead.x0 \in Int,
           NEW ok \in BOOLEAN, ok = ~CallLast.s.failed,
           NEW limit, limit = (IF Independent THEN 2 ELSE 3)
    PROVE  /\ s' = CallLast.s /\ refs' = CallLast.refs
           /\ UNCHANGED <<fault, inexact, control, check, pass>>
           /\ ctx' \in Context /\ ctx'.aliases = ctx.aliases /\ ctx'.calls = ctx.calls + 1
           /\ ctx'.completed = (IF ok THEN ctx.completed + 1 ELSE ctx.completed)
           /\ ctx'.value = (IF CallReads /\ ~CallRead.s.failed THEN CallRead.x0 ELSE ctx.value)
           /\ ctx'.dispatched = (ok /\ ctx.calls + 1 = limit)
           /\ step' = IF ok /\ ctx.calls + 1 < limit THEN "callback" ELSE "verdict"
<1>1. /\ s' = CallLast.s /\ refs' = CallLast.refs
      /\ ctx' = [ctx EXCEPT !.calls = @ + 1,
                            !.completed = IF ~CallLast.s.failed THEN @ + 1 ELSE @,
                            !.value = IF CallReads /\ ~CallRead.s.failed
                                      THEN CallRead.x0 ELSE @,
                            !.dispatched = ~CallLast.s.failed
                                              /\ ctx.calls + 1 = Boot!CallbackLimit]
      /\ step' = IF ~CallLast.s.failed /\ ctx.calls + 1 < Boot!CallbackLimit THEN "callback"
                 ELSE "verdict"
      /\ UNCHANGED <<fault, inexact, control, check, pass>>
  BY CallbackCanonical, Zenon
     DEF Boot!OwnershipCallback, Boot!Enter, CallLast, CallRead, CallReads, CallAlias,
         Independent
<1>2. Boot!CallbackLimit = limit
  BY DEF Boot!CallbackLimit, Independent
<1> PICK r \in BOOLEAN : r = (CallReads /\ ~CallRead.s.failed)
  OBVIOUS
<1> PICK n : n = ctx.calls + 1
  OBVIOUS
<1> PICK m : m = IF ok THEN ctx.completed + 1 ELSE ctx.completed
  OBVIOUS
<1> PICK v : v = IF r THEN CallRead.x0 ELSE ctx.value
  OBVIOUS
<1> PICK b \in BOOLEAN : b = (ok /\ n = limit)
  OBVIOUS
<1>3. n \in Int /\ m \in Int /\ v \in Int
  BY DEF Context
<1>4. ctx' = [ctx EXCEPT !.calls = n, !.completed = m, !.value = v, !.dispatched = b]
  BY <1>1, <1>2
<1>5. /\ ctx' \in Context /\ ctx'.aliases = ctx.aliases
      /\ ctx'.calls = n /\ ctx'.completed = m /\ ctx'.value = v /\ ctx'.dispatched = b
  <2>1. /\ ctx.aliases \in [0 .. 1 -> Int]
        /\ ctx = [aliases |-> ctx.aliases, calls |-> ctx.calls, completed |-> ctx.completed,
                  value |-> ctx.value, dispatched |-> ctx.dispatched]
    BY DEF Context
  <2> PICK w1 : w1 = [ctx EXCEPT !.calls = n]
    OBVIOUS
  <2> PICK w2 : w2 = [w1 EXCEPT !.completed = m]
    OBVIOUS
  <2> PICK w3 : w3 = [w2 EXCEPT !.value = v]
    OBVIOUS
  <2>2. ctx' = [w3 EXCEPT !.dispatched = b]
    BY <1>4
  <2>3. w1 = [aliases |-> ctx.aliases, calls |-> n, completed |-> ctx.completed,
              value |-> ctx.value, dispatched |-> ctx.dispatched]
    BY <2>1
  <2>4. w2 = [aliases |-> ctx.aliases, calls |-> n, completed |-> m,
              value |-> ctx.value, dispatched |-> ctx.dispatched]
    BY <2>3
  <2>5. w3 = [aliases |-> ctx.aliases, calls |-> n, completed |-> m,
              value |-> v, dispatched |-> ctx.dispatched]
    BY <2>4
  <2>6. ctx' = [aliases |-> ctx.aliases, calls |-> n, completed |-> m,
                value |-> v, dispatched |-> b]
    BY <2>2, <2>5
  <2> QED
    BY <1>3, <2>1, <2>6 DEF Context
<1>6. step' = IF ok /\ n < limit THEN "callback" ELSE "verdict"
  BY <1>1, <1>2
<1>7. ctx'.completed = (IF ok THEN ctx.completed + 1 ELSE ctx.completed)
  BY <1>5
<1>8. ctx'.value = (IF CallReads /\ ~CallRead.s.failed THEN CallRead.x0 ELSE ctx.value)
  BY <1>5
<1>9. ctx'.dispatched = (ok /\ ctx.calls + 1 = limit)
  BY <1>5
<1> QED
  BY <1>1, <1>5, <1>6, <1>7, <1>8, <1>9

\* The calls of an iteration give back what calls do.
LEMMA CallTypes ==
    ASSUME BootInv, Boot!OwnershipCallback
    PROVE  /\ CallRead.s \in Invocation /\ CallRead.refs \in Int /\ CallRead.x0 \in Int
           /\ CallLast.s \in Invocation /\ CallLast.refs \in Int
<1>1. s \in Invocation /\ refs \in Int /\ fault \in Faults
  BY CallbackFacts
<1>2. /\ CallRead.s \in Invocation /\ CallRead.refs \in Int /\ CallRead.x0 \in Int
  <2>1. CASE CallReads
    <3>1. 2 \in {2, 3}
      OBVIOUS
    <3> QED
      BY <1>1, <2>1, <3>1, UseTypes DEF CallRead
  <2>2. CASE ~CallReads
    <3>1. CallRead = Boot!Came(s, refs, 0)
      BY <2>2 DEF CallRead
    <3> QED
      BY <1>1, <3>1, CameFields
  <2> QED
    BY <2>1, <2>2
<1>3. CallLast.s \in Invocation /\ CallLast.refs \in Int
  <2> PICK r : r = CallRead
    OBVIOUS
  <2>1. CASE r.s.failed
    BY <1>2, <2>1 DEF CallLast
  <2>2. CASE ~r.s.failed
    <3>1. CallLast = Boot!GateUse(r.s, r.refs, 3, CallAlias) /\ 3 \in {2, 3}
      BY <2>2 DEF CallLast
    <3> QED
      BY <1>1, <1>2, <3>1, UseTypes
  <2> QED
    BY <2>1, <2>2
<1> QED
  BY <1>2, <1>3

\* What an iteration has to show.
LEMMA CallbackKeeps ==
    ASSUME BootInv, Boot!OwnershipCallback, CallbackInv', VerdictInv',
           step' \in {"callback", "verdict"}, ctx' \in Context,
           step' = "callback" => ~s'.failed /\ ~ctx'.dispatched
    PROVE  BootInv'
<1>1. /\ s' = CallLast.s /\ refs' = CallLast.refs
      /\ UNCHANGED <<fault, inexact, control, check, pass>>
  BY CallbackCanonical, Zenon
     DEF Boot!OwnershipCallback, Boot!Enter, CallLast, CallRead, CallReads, CallAlias,
         Independent
<1>2. s' \in Invocation /\ refs' \in Int
  BY <1>1, CallTypes
<1>3. Late' = Late
  BY <1>1, SameControl
<1>4. TypeInv'
  BY <1>1, <1>2 DEF BootInv, TypeInv, Places
<1>5. DecisionInv'
  BY <1>1, <1>3, CallbackFacts DEF BootInv, DecisionInv, Boot!Ending
<1>6. RunningInv'
  BY <1>1, CallbackFacts DEF RunningInv
<1>7. AcquireInv' /\ GuardInv' /\ OutInv'
  BY DEF AcquireInv, GuardInv, OutInv
<1> QED
  BY <1>4, <1>5, <1>6, <1>7 DEF BootInv

\* The first iteration releases the first acquisition.
LEMMA CallFirst ==
    ASSUME BootInv, Boot!OwnershipCallback, ctx.calls = 0
    PROVE  BootInv'
<1>0. /\ s \in Invocation /\ refs \in Int /\ ctx \in Context /\ ~s.failed /\ ~ctx.dispatched
      /\ IsCallback /\ Late /\ ctx.aliases[0] = 100 /\ (Independent => ctx.aliases[1] = 101)
      /\ check \in 1 .. 5
  BY CallbackFacts
<1>1. PICK second \in {"null", "tagged"}, acquired \in 1 .. 2 :
         /\ Holds("tagged", second, acquired, 0, 0, acquired + 1) /\ Counted(0, 0, 0)
         /\ (second = "tagged" <=> Independent) /\ (acquired = 2 <=> Independent)
         /\ (second = "null" <=> ~Independent) /\ (acquired = 1 <=> ~Independent)
  <2>1. \/ Counted(0, 0, 0) /\ ~Independent /\ Holds("tagged", "null", 1, 0, 0, 2)
        \/ Counted(0, 0, 0) /\ Independent /\ Holds("tagged", "tagged", 2, 0, 0, 3)
    BY CallbackFacts DEF Counted
  <2>2. 1 + 1 = 2 /\ 2 + 1 = 3 /\ 1 \in 1 .. 2 /\ 2 \in 1 .. 2
    OBVIOUS
  <2>3. CASE ~Independent
    <3>1. Counted(0, 0, 0) /\ Holds("tagged", "null", 1, 0, 0, 1 + 1)
      BY <2>1, <2>2, <2>3
    <3> QED
      BY <2>2, <2>3, <3>1
  <2>4. CASE Independent
    <3>1. Counted(0, 0, 0) /\ Holds("tagged", "tagged", 2, 0, 0, 2 + 1)
      BY <2>1, <2>2, <2>4
    <3> QED
      BY <2>2, <2>4, <3>1
  <2> QED
    BY <2>3, <2>4
<1> DEFINE gate == Boot!GateUse(s, refs, 3, 100)
<1>2. /\ CallRead = Boot!Came(s, refs, 0) /\ CallAlias = 100
  BY <1>0 DEF CallRead, CallReads, CallAlias
<1>3. CallRead.s = s /\ CallRead.refs = refs /\ CallRead.x0 = 0
  BY <1>2, CameFields
<1>4. CallLast = gate
  BY <1>0, <1>2, <1>3 DEF CallLast
<1>5. /\ gate.x0 = 0 /\ ~gate.s.failed
      /\ gate.s \in Invocation /\ gate.refs \in Int
      /\ gate.s.views = s.views /\ Boot!Counts(gate.s, acquired, 1, 0)
      /\ gate.s.cells[0] = (IF fault = "tag_kept" THEN "tagged" ELSE "cleared")
      /\ gate.s.cells[1] = second
      /\ gate.refs = (IF fault = "count_kept" THEN acquired + 1 ELSE acquired)
  <2>1. /\ s.cells[0] = "tagged" /\ s.cells[1] = second
        /\ s.views[0] = 100 /\ (1 < acquired => s.views[1] = 101)
        /\ s.acquired = acquired /\ s.released = 0 /\ s.reads = 0 /\ s.cleanup = 0
        /\ refs = acquired + 1
    BY <1>1 DEF Holds
  <2> QED
    BY <1>0, <2>1, FirstReleased
<1> HIDE DEF gate
<1> PICK limit : limit = (IF Independent THEN 2 ELSE 3)
  OBVIOUS
<1>6. /\ s' = gate.s /\ refs' = gate.refs
      /\ UNCHANGED <<fault, inexact, control, check, pass>>
      /\ ctx' \in Context /\ ctx'.aliases = ctx.aliases /\ ctx'.calls = 1
      /\ ctx'.completed = 1 /\ ctx'.value = 0 /\ ~ctx'.dispatched
      /\ step' = "callback"
  <2> PICK ok \in BOOLEAN : ok = ~CallLast.s.failed
    OBVIOUS
  <2>0. ok = TRUE
    BY <1>4, <1>5, Zenon
  <2>1. ok /\ ~CallReads /\ CallRead.x0 \in Int /\ ctx \in Context
    <3>1. ~CallReads
      BY DEF CallReads
    <3>2. CallRead.x0 \in Int
      BY <1>3
    <3> QED
      BY <1>0, <2>0, <3>1, <3>2, Zenon
  <2>2. /\ s' = CallLast.s /\ refs' = CallLast.refs
        /\ UNCHANGED <<fault, inexact, control, check, pass>>
        /\ ctx' \in Context /\ ctx'.aliases = ctx.aliases /\ ctx'.calls = ctx.calls + 1
        /\ ctx'.completed = (IF ok THEN ctx.completed + 1 ELSE ctx.completed)
        /\ ctx'.value = (IF CallReads /\ ~CallRead.s.failed THEN CallRead.x0 ELSE ctx.value)
        /\ ctx'.dispatched = (ok /\ ctx.calls + 1 = limit)
        /\ step' = IF ok /\ ctx.calls + 1 < limit THEN "callback" ELSE "verdict"
    BY <2>1, CallbackShape, Zenon
  <2>3. limit \in {2, 3} /\ ctx.completed = 0 /\ ctx.value = 0
    BY <1>1 DEF Counted
  <2>4. /\ ctx'.calls = 1 /\ ctx'.completed = 1 /\ ctx'.value = 0
        /\ step' = "callback"
    BY <2>0, <2>1, <2>2, <2>3
  <2>5. ctx.calls + 1 # limit
    BY <2>3
  <2>6. ~ctx'.dispatched
    BY <2>2, <2>5, Zenon
  <2> QED
    BY <1>4, <2>2, <2>4, <2>6
<1>7. Independent' = Independent /\ IsCallback' = IsCallback /\ Late' = Late
  BY <1>6, SameControl
<1>8. /\ Counted(1, 1, 0)'
      /\ ~Independent => Holds("cleared", "null", 1, 1, 0, 1)'
      /\ Independent => Holds("cleared", "tagged", 2, 1, 0, 2)'
  <2>1. /\ s'.cells[0] = "cleared" /\ s'.cells[1] = second /\ s'.views = s.views
        /\ s'.acquired = acquired /\ s'.released = 1 /\ s'.reads = 0 /\ s'.cleanup = 0
        /\ refs' = acquired
    BY <1>0, <1>5, <1>6 DEF Boot!Counts, Late
  <2>2. /\ s.views[0] = (IF 0 < acquired THEN 100 ELSE 0)
        /\ s.views[1] = (IF 1 < acquired THEN 101 ELSE 0)
    BY <1>1 DEF Holds
  <2> QED
    BY <1>1, <1>6, <2>1, <2>2 DEF Holds, Counted
<1>9. CallbackInv'
  BY <1>0, <1>6, <1>7, <1>8 DEF CallbackInv
<1>10. VerdictInv'
  BY <1>6 DEF VerdictInv
<1> QED
  BY <1>5, <1>6, <1>9, <1>10, CallbackKeeps

\* The second, with one acquisition, is refused and ends the calls.
LEMMA CallStale ==
    ASSUME BootInv, Boot!OwnershipCallback, ctx.calls = 1, ~Independent
    PROVE  BootInv'
<1>0. /\ s \in Invocation /\ refs \in Int /\ ctx \in Context /\ ~s.failed /\ ~ctx.dispatched
      /\ IsCallback /\ Late /\ ctx.aliases[0] = 100
      /\ Counted(1, 1, 0) /\ Holds("cleared", "null", 1, 1, 0, 1)
  BY CallbackFacts DEF Counted
<1> DEFINE gate == Boot!GateUse(s, refs, 3, 100)
<1>2. /\ CallRead = Boot!Came(s, refs, 0) /\ CallAlias = 100
  BY <1>0 DEF CallRead, CallReads, CallAlias
<1>3. CallRead.s = s /\ CallRead.refs = refs /\ CallRead.x0 = 0
  BY <1>2, CameFields
<1>4. CallLast = gate
  BY <1>0, <1>2, <1>3 DEF CallLast
<1>5. /\ gate.s.failed = (fault # "failure_not_recorded")
      /\ gate.s \in Invocation /\ gate.refs = refs
      /\ gate.s.views = s.views /\ gate.s.cells = s.cells
      /\ Boot!Counts(gate.s, 1, 1, 0)
  <2>1. 1 \in 1 .. 2 /\ 3 \in {2, 3} /\ fault # "stale_accepted"
    BY <1>0 DEF Late
  <2> QED
    BY <1>0, <2>1, FirstStale DEF Holds
<1> HIDE DEF gate
<1> PICK limit : limit = (IF Independent THEN 2 ELSE 3)
  OBVIOUS
<1>6. /\ s' = gate.s /\ refs' = gate.refs /\ gate.s.failed
      /\ UNCHANGED <<fault, inexact, control, check, pass>>
      /\ ctx' \in Context /\ ctx'.aliases = ctx.aliases /\ ctx'.calls = 2
      /\ ctx'.completed = 1 /\ ctx'.value = 0 /\ ~ctx'.dispatched
      /\ step' = "verdict"
  <2> PICK ok \in BOOLEAN : ok = ~CallLast.s.failed
    OBVIOUS
  <2>0. gate.s.failed
    BY <1>0, <1>5 DEF Late
  <2>1. ~ok /\ ~CallReads /\ CallRead.x0 \in Int /\ ctx \in Context
    <3>1. ~CallReads
      BY DEF CallReads
    <3>2. CallRead.x0 \in Int
      BY <1>3
    <3>3. ok = FALSE
      BY <1>4, <2>0, Zenon
    <3> QED
      BY <1>0, <3>1, <3>2, <3>3, Zenon
  <2>2. /\ s' = CallLast.s /\ refs' = CallLast.refs
        /\ UNCHANGED <<fault, inexact, control, check, pass>>
        /\ ctx' \in Context /\ ctx'.aliases = ctx.aliases /\ ctx'.calls = ctx.calls + 1
        /\ ctx'.completed = (IF ok THEN ctx.completed + 1 ELSE ctx.completed)
        /\ ctx'.value = (IF CallReads /\ ~CallRead.s.failed THEN CallRead.x0 ELSE ctx.value)
        /\ ctx'.dispatched = (ok /\ ctx.calls + 1 = limit)
        /\ step' = IF ok /\ ctx.calls + 1 < limit THEN "callback" ELSE "verdict"
    BY <2>1, CallbackShape, Zenon
  <2>3. ctx.completed = 1 /\ ctx.value = 0
    BY <1>0 DEF Counted
  <2> QED
    BY <1>4, <2>0, <2>1, <2>2, <2>3
<1>7. Independent' = Independent /\ IsCallback' = IsCallback /\ Late' = Late
  BY <1>6, SameControl
<1>8. Counted(2, 1, 0)' /\ Holds("cleared", "null", 1, 1, 0, 1)'
  BY <1>0, <1>5, <1>6 DEF Holds, Counted, Boot!Counts
<1>9. VerdictInv'
  BY <1>0, <1>6, <1>7, <1>8 DEF VerdictInv
<1>10. CallbackInv'
  BY <1>6 DEF CallbackInv
<1> QED
  BY <1>6, <1>9, <1>10, CallbackKeeps

\* Such a call fails the invocation, with a gate that records it.
LEMMA StaleFails ==
    ASSUME NEW inv \in Invocation, NEW count, NEW operation, NEW alias, NEW i \in 0 .. 1,
           Boot!Resolved(inv, alias) = i, inv.cells[i] # "tagged", fault # "stale_accepted",
           fault # "failure_not_recorded"
    PROVE  Boot!GateUse(inv, count, operation, alias).s.failed
<1>1. Boot!GateUse(inv, count, operation, alias) =
         Boot!Came(Denied(inv), count, Boot!CBPF_FAILURE)
  BY RefusesStale
<1>2. Denied(inv).failed
  BY DeniedFailed
<1>3. Boot!Came(Denied(inv), count, Boot!CBPF_FAILURE).s = Denied(inv)
  BY CameFields
<1> QED
  BY <1>1, <1>2, <1>3, Zenon

\* The second, with two acquisitions, reads and releases the other one; a gate
\* that consumed the wrong cell, or consumes by reading, does not get that far.
LEMMA SecondCalls ==
    ASSUME s \in Invocation, refs \in Int, ~s.failed, Late,
           Holds("cleared", "tagged", 2, 1, 0, 2), CallReads, CallAlias = 101
    PROVE  /\ fault = "none" =>
                 /\ ~CallRead.s.failed /\ CallRead.x0 = 42 /\ ~CallLast.s.failed
                 /\ CallLast.s.cells[0] = "cleared" /\ CallLast.s.cells[1] = "cleared"
                 /\ CallLast.s.views = s.views /\ Boot!Counts(CallLast.s, 2, 2, 1)
                 /\ CallLast.refs = 1
           /\ fault # "none" => CallLast.s.failed
<1>0. /\ s.cells[0] = "cleared" /\ s.cells[1] = "tagged"
      /\ s.views[0] = 100 /\ s.views[1] = 101 /\ s.acquired = 2 /\ s.released = 1
      /\ s.reads = 0 /\ s.cleanup = 0 /\ refs = 2
  BY DEF Holds
<1>1. CallRead = Boot!GateUse(s, refs, 2, 101)
  BY DEF CallRead
<1>2. 0 \in 0 .. 1 /\ 1 \in 0 .. 1
  OBVIOUS
<1>3. CASE fault = "none"
  <2> PICK r : r = ReadOnce(s)
    OBVIOUS
  <2>0. fault # "read_consumes"
    BY <1>3
  <2>1. Boot!Resolved(s, 101) = 1
    BY <1>0, <1>3, SecondResolved
  <2>2. CallRead = Boot!Came(r, refs, 42)
    BY <1>0, <1>1, <1>2, <1>3, <2>1, <2>0, ReadsHeld
  <2>3. CallRead.s = r /\ CallRead.refs = refs /\ CallRead.x0 = 42
    BY <2>2, CameFields
  <2>4. /\ r \in Invocation /\ r.reads = s.reads + 1
        /\ r.cells = s.cells /\ r.views = s.views
        /\ r.acquired = s.acquired /\ r.released = s.released
        /\ r.cleanup = s.cleanup /\ r.failed = s.failed
    BY ReadFields
  <2>5. ~r.failed /\ Boot!Resolved(r, 101) = 1 /\ r.cells[1] = "tagged"
    BY <1>0, <1>3, <2>4, SecondResolved
  <2>6. CallLast = Boot!GateUse(r, refs, 3, 101)
    BY <2>3, <2>5 DEF CallLast
  <2> PICK w : w = Consume(r, 1)
    OBVIOUS
  <2> PICK d : d = Boot!Dropped(refs)
    OBVIOUS
  <2>7. CallLast = Boot!Came(w, d, 0)
    BY <1>2, <2>5, <2>6, ReleasesHeld
  <2>8. CallLast.s = w /\ CallLast.refs = d
    BY <2>7, CameFields
  <2>9. d = 1
    BY <1>0, <1>3 DEF Boot!Dropped
  <2>10. /\ w.cells[1] = (IF fault = "tag_kept" THEN r.cells[1] ELSE "cleared")
         /\ w.cells[1 - 1] = r.cells[1 - 1]
         /\ w.views = r.views /\ w.acquired = r.acquired /\ w.released = r.released + 1
         /\ w.reads = r.reads /\ w.cleanup = r.cleanup /\ w.failed = r.failed
    BY <1>2, <2>4, ConsumedFacts, Zenon
  <2>11. /\ w.cells[1] = "cleared" /\ w.cells[0] = "cleared" /\ w.views = s.views
         /\ Boot!Counts(w, 2, 2, 1) /\ ~w.failed
    BY <1>0, <1>3, <2>4, <2>5, <2>10 DEF Boot!Counts
  <2> QED
    BY <1>3, <2>3, <2>5, <2>8, <2>9, <2>11
<1>4. CASE fault = "first_cell"
  <2>1. Boot!Resolved(s, 101) = 0
    BY <1>4 DEF Boot!Resolved
  <2>2. /\ s.cells[0] # "tagged"
        /\ fault # "stale_accepted" /\ fault # "failure_not_recorded"
    BY <1>0, <1>4
  <2>3. Boot!GateUse(s, refs, 2, 101).s.failed
    BY <1>2, <2>1, <2>2, StaleFails, Zenon
  <2>4. CallRead.s.failed
    BY <1>1, <2>3, Zenon
  <2>5. CallLast = CallRead
    BY <2>4, Zenon DEF CallLast
  <2>6. CallLast.s.failed
    BY <2>4, <2>5, Zenon
  <2> QED
    BY <1>4, <2>6
<1>5. CASE fault = "read_consumes"
  <2> PICK c : c = Consume(s, 1)
    OBVIOUS
  <2> PICK r : r = ReadOnce(c)
    OBVIOUS
  <2> PICK d : d = Boot!Dropped(refs)
    OBVIOUS
  <2>1. Boot!Resolved(s, 101) = 1
    BY <1>0, <1>5, SecondResolved
  <2>2. CallRead = Boot!Came(r, d, 42)
    <3>1. Boot!GateUse(s, refs, 2, 101) =
             Boot!Came(ReadOnce(Consume(s, 1)), Boot!Dropped(refs), 42)
      BY <1>0, <1>2, <1>5, <2>1, ReadsHeld
    <3> QED
      BY <1>1, <3>1
  <2>3. CallRead.s = r /\ CallRead.refs = d
    BY <2>2, CameFields
  <2>4. /\ c \in Invocation
        /\ c.cells[1] = (IF fault = "tag_kept" THEN s.cells[1] ELSE "cleared")
        /\ c.views = s.views /\ c.acquired = s.acquired /\ c.failed = s.failed
    BY <1>2, ConsumedFacts, Zenon
  <2>5. /\ r \in Invocation /\ r.cells = c.cells /\ r.views = c.views
        /\ r.acquired = c.acquired /\ r.failed = c.failed
    BY <2>4, ReadFields
  <2>6. /\ r.cells[1] # "tagged" /\ ~r.failed /\ r.views[0] = 100 /\ r.views[1] = 101
        /\ r.acquired = 2
    BY <1>0, <1>5, <2>4, <2>5
  <2>7. Boot!Resolved(r, 101) = 1
    BY <1>5, <2>5, <2>6, SecondResolved
  <2>8. CallLast = Boot!GateUse(r, d, 3, 101)
    BY <2>3, <2>6 DEF CallLast
  <2>9. Boot!GateUse(r, d, 3, 101).s.failed
    <3>1. /\ fault # "stale_accepted" /\ fault # "failure_not_recorded"
          /\ r.cells[1] # "tagged" /\ r \in Invocation
      BY <1>5, <2>5, <2>6
    <3> QED
      BY <1>2, <2>7, <3>1, StaleFails, Zenon
  <2>10. CallLast.s.failed
    BY <2>8, <2>9, Zenon
  <2> QED
    BY <1>5, <2>10
<1> QED
  BY <1>3, <1>4, <1>5 DEF Late

\* The second call, with two acquisitions: a sound gate completes both, and the
\* callback of any other is not dispatched.
LEMMA CallSecond ==
    ASSUME BootInv, Boot!OwnershipCallback, ctx.calls = 1, Independent
    PROVE  BootInv'
<1>0. /\ s \in Invocation /\ refs \in Int /\ ctx \in Context /\ ~s.failed /\ ~ctx.dispatched
      /\ IsCallback /\ Late /\ ctx.aliases[0] = 100 /\ ctx.aliases[1] = 101
      /\ Counted(1, 1, 0) /\ Holds("cleared", "tagged", 2, 1, 0, 2)
  BY CallbackFacts DEF Counted
<1>1. CallReads /\ CallAlias = 101
  BY <1>0 DEF CallReads, CallAlias
<1>2. /\ fault = "none" =>
            /\ ~CallRead.s.failed /\ CallRead.x0 = 42 /\ ~CallLast.s.failed
            /\ CallLast.s.cells[0] = "cleared" /\ CallLast.s.cells[1] = "cleared"
            /\ CallLast.s.views = s.views /\ Boot!Counts(CallLast.s, 2, 2, 1)
            /\ CallLast.refs = 1
      /\ fault # "none" => CallLast.s.failed
  BY <1>0, <1>1, SecondCalls
<1>3. CallRead.x0 \in Int
  BY CallTypes
<1> PICK limit : limit = (IF Independent THEN 2 ELSE 3)
  OBVIOUS
<1> PICK ok \in BOOLEAN : ok = ~CallLast.s.failed
  OBVIOUS
<1>4. limit = 2 /\ ctx.calls + 1 = 2 /\ ctx.completed = 1
  BY <1>0 DEF Counted
<1>5. /\ s' = CallLast.s /\ refs' = CallLast.refs
      /\ UNCHANGED <<fault, inexact, control, check, pass>>
      /\ ctx' \in Context /\ ctx'.aliases = ctx.aliases /\ ctx'.calls = ctx.calls + 1
      /\ ctx'.completed = (IF ok THEN ctx.completed + 1 ELSE ctx.completed)
      /\ ctx'.value = (IF CallReads /\ ~CallRead.s.failed THEN CallRead.x0 ELSE ctx.value)
      /\ ctx'.dispatched = (ok /\ ctx.calls + 1 = limit)
      /\ step' = IF ok /\ ctx.calls + 1 < limit THEN "callback" ELSE "verdict"
  BY <1>0, <1>3, CallbackShape, Zenon
<1>6. step' = "verdict"
  BY <1>4, <1>5
<1>7. Independent' = Independent /\ IsCallback' = IsCallback /\ Late' = Late
  BY <1>5, SameControl
<1>8. fault = "none" =>
         /\ Counted(2, 2, 42)' /\ ctx'.dispatched /\ ~s'.failed
         /\ Holds("cleared", "cleared", 2, 2, 1, 1)'
  <2> SUFFICES ASSUME fault = "none"
               PROVE  /\ Counted(2, 2, 42)' /\ ctx'.dispatched /\ ~s'.failed
                      /\ Holds("cleared", "cleared", 2, 2, 1, 1)'
    OBVIOUS
  <2>1. ok = TRUE
    BY <1>2, Zenon
  <2>2. /\ ctx'.calls = 2 /\ ctx'.completed = 2
    BY <1>4, <1>5, <2>1
  <2>3. ctx'.value = 42
    BY <1>1, <1>2, <1>5, Zenon
  <2>4. ctx'.dispatched = (ok /\ ctx.calls + 1 = limit) /\ ctx.calls + 1 = limit
    BY <1>4, <1>5
  <2>5. ctx'.dispatched
    BY <2>1, <2>4, Zenon
  <2>6. Holds("cleared", "cleared", 2, 2, 1, 1)'
    <3>1. /\ s'.cells[0] = "cleared" /\ s'.cells[1] = "cleared" /\ s'.views = s.views
          /\ s'.acquired = 2 /\ s'.released = 2 /\ s'.reads = 1 /\ s'.cleanup = 0
          /\ refs' = 1
      BY <1>2, <1>5 DEF Boot!Counts
    <3>2. s.views[0] = 100 /\ s.views[1] = 101
      BY <1>0 DEF Holds
    <3> QED
      BY <3>1, <3>2 DEF Holds
  <2>7. ~s'.failed
    BY <1>2, <1>5, Zenon
  <2> QED
    BY <2>2, <2>3, <2>5, <2>6, <2>7 DEF Counted
<1>9. fault # "none" => ~ctx'.dispatched
  BY <1>2, <1>5, Zenon
<1>10. VerdictInv'
  <2>1. fault' = fault /\ ctx'.aliases = ctx.aliases
    BY <1>5
  <2> QED
    BY <1>0, <1>7, <1>8, <1>9, <2>1 DEF VerdictInv
<1>11. CallbackInv'
  BY <1>6 DEF CallbackInv
<1> QED
  BY <1>5, <1>6, <1>10, <1>11, CallbackKeeps

\* Every iteration of the callback keeps the invariant.
LEMMA CallbackStep ==
    ASSUME BootInv, Boot!OwnershipCallback
    PROVE  BootInv'
<1>1. ctx.calls = 0 \/ ctx.calls = 1
  BY CallbackFacts DEF Counted
<1> QED
  BY <1>1, CallFirst, CallStale, CallSecond, Zenon

\* The verdict on the callbacks passes a gate with no fault, and after the last
\* control no other.
LEMMA VerdictStep ==
    ASSUME BootInv, Boot!Verdict
    PROVE  BootInv'
<1>1. /\ step = "verdict" /\ step' = "out"
      /\ UNCHANGED <<fault, inexact, refs, control, s, check, ctx>>
  BY DEF Boot!Verdict
<1>2. /\ IsCallback /\ Late /\ ctx.aliases[0] = 100 /\ ~inexact /\ check \in 1 .. 5
      /\ s \in Invocation /\ ctx \in Context /\ refs \in Int /\ fault \in Faults
      /\ inexact \in BOOLEAN /\ control \in BOOLEAN
  BY <1>1 DEF BootInv, TypeInv, VerdictInv, DecisionInv
<1> PICK n : n = (IF Independent THEN 2 ELSE 1)
  OBVIOUS
<1> PICK m : m = (IF Independent THEN 42 ELSE 0)
  OBVIOUS
<1> PICK k : k = (IF Independent THEN 1 ELSE 0)
  OBVIOUS
<1>3. /\ pass' = (/\ ctx.dispatched = Independent
                  /\ s.failed = ~Independent
                  /\ ctx.calls = 2
                  /\ ctx.completed = n
                  /\ ctx.value = m
                  /\ Boot!Counts(s, n, n, k)
                  /\ refs = 1
                  /\ \A i \in 0 .. n - 1 :
                        ctx.aliases[i] = s.views[i] /\ s.cells[i] # "tagged")
  BY Zenon DEF Boot!Verdict, Boot!Acquisitions, Boot!FieldValue, Independent
<1>4. pass' \in BOOLEAN
  BY <1>3, Zenon
<1>5. Independent' = Independent /\ IsCallback' = IsCallback /\ Late' = Late
  BY <1>1, SameControl
<1>6. TypeInv'
  BY <1>1, <1>2, <1>4 DEF TypeInv, Places
<1>7. DecisionInv'
  BY <1>1, <1>2, <1>5 DEF BootInv, DecisionInv, Boot!Ending
<1>8. pass' =>
         /\ check = 5 => fault = "none"
         /\ refs = 1 /\ s.cells[0] # "tagged" /\ s.cells[1] # "tagged"
  <2> SUFFICES ASSUME pass'
               PROVE  /\ check = 5 => fault = "none"
                      /\ refs = 1 /\ s.cells[0] # "tagged" /\ s.cells[1] # "tagged"
    OBVIOUS
  <2>1. /\ ctx.dispatched = Independent /\ refs = 1
        /\ \A i \in 0 .. n - 1 : s.cells[i] # "tagged"
    BY <1>3, Zenon
  <2>2. CASE ~Independent
    <3>1. check # 5
      BY <1>2, <2>2, ControlFacts
    <3>2. s.cells[0] = "cleared" /\ s.cells[1] = "null"
      BY <1>1, <2>2 DEF BootInv, VerdictInv, Holds
    <3> QED
      BY <2>1, <3>1, <3>2
  <2>3. CASE Independent
    <3>1. 0 \in 0 .. n - 1 /\ 1 \in 0 .. n - 1
      BY <2>3
    <3>2. s.cells[0] # "tagged" /\ s.cells[1] # "tagged"
      BY <2>1, <3>1
    <3>3. ctx.dispatched
      BY <2>1, <2>3, Zenon
    <3>4. fault = "none"
      BY <1>1, <2>3, <3>3 DEF BootInv, VerdictInv
    <3> QED
      BY <2>1, <3>2, <3>4
  <2> QED
    BY <2>2, <2>3
<1>9. fault = "none" => pass'
  <2> SUFFICES ASSUME fault = "none"
               PROVE  pass'
    OBVIOUS
  <2>1. Independent \in BOOLEAN
    BY <1>2, ControlFacts
  <2>2. CASE Independent
    <3>1. /\ Counted(2, 2, 42) /\ ctx.dispatched /\ ~s.failed /\ ctx.aliases[1] = 101
          /\ Holds("cleared", "cleared", 2, 2, 1, 1) /\ ctx.aliases[0] = 100
      BY <1>1, <2>2 DEF BootInv, VerdictInv
    <3>2. n = 2 /\ m = 42 /\ k = 1
      BY <2>2
    <3>3. /\ ctx.calls = 2 /\ ctx.completed = n /\ ctx.value = m
          /\ Boot!Counts(s, n, n, k) /\ refs = 1
      BY <3>1, <3>2 DEF Counted, Holds, Boot!Counts
    <3>4. \A i \in 0 .. n - 1 : ctx.aliases[i] = s.views[i] /\ s.cells[i] # "tagged"
      BY <3>1, <3>2 DEF Holds
    <3>5. ctx.dispatched = TRUE /\ Independent = TRUE /\ s.failed = FALSE
      <4>1. ctx.dispatched \in BOOLEAN /\ s.failed \in BOOLEAN
        BY <1>2 DEF Context, Invocation
      <4> QED
        BY <2>1, <2>2, <3>1, <4>1, Zenon
    <3>6. ctx.dispatched = Independent /\ s.failed = ~Independent
      BY <3>5, Zenon
    <3> QED
      BY <1>3, <3>3, <3>4, <3>6, Zenon
  <2>3. CASE ~Independent
    <3>1. /\ Counted(2, 1, 0) /\ ~ctx.dispatched /\ s.failed
          /\ Holds("cleared", "null", 1, 1, 0, 1) /\ ctx.aliases[0] = 100
      BY <1>1, <2>3 DEF BootInv, VerdictInv
    <3>2. n = 1 /\ m = 0 /\ k = 0
      BY <2>3
    <3>3. /\ ctx.calls = 2 /\ ctx.completed = n /\ ctx.value = m
          /\ Boot!Counts(s, n, n, k) /\ refs = 1
      BY <3>1, <3>2 DEF Counted, Holds, Boot!Counts
    <3>4. \A i \in 0 .. n - 1 : ctx.aliases[i] = s.views[i] /\ s.cells[i] # "tagged"
      BY <3>1, <3>2 DEF Holds
    <3>5. ctx.dispatched = FALSE /\ Independent = FALSE /\ s.failed = TRUE
      <4>1. ctx.dispatched \in BOOLEAN /\ s.failed \in BOOLEAN
        BY <1>2 DEF Context, Invocation
      <4> QED
        BY <2>1, <2>3, <3>1, <4>1, Zenon
    <3>6. ctx.dispatched = Independent /\ s.failed = ~Independent
      BY <3>5, Zenon
    <3> QED
      BY <1>3, <3>3, <3>4, <3>6, Zenon
  <2> QED
    BY <2>2, <2>3
<1>10. OutInv'
  BY <1>1, <1>2, <1>5, <1>8, <1>9 DEF OutInv
<1>11. AcquireInv' /\ GuardInv' /\ CallbackInv' /\ VerdictInv' /\ RunningInv'
  BY <1>1 DEF AcquireInv, GuardInv, CallbackInv, VerdictInv, RunningInv
<1> QED
  BY <1>6, <1>7, <1>10, <1>11 DEF BootInv

\* The end of a control consumes what is still held; only a gate whose count
\* can be kept cannot be back at the permanent reference.
LEMMA TeardownStep ==
    ASSUME BootInv, Boot!Teardown
    PROVE  BootInv'
<1>1. /\ step = "out" /\ UNCHANGED <<fault, inexact, pass>>
      /\ s' = Boot!FreshInvocation /\ ctx' = Boot!FreshContext /\ control' = FALSE
      /\ step' = (IF ~pass THEN "refused"
                  ELSE IF check < Len(Boot!Checks) THEN "begin" ELSE "registered")
      /\ check' = (IF pass THEN Boot!NextCheck ELSE check)
      /\ refs' = CASE Boot!StillTagged = {} -> refs
                   [] \E i \in Boot!CellIndex : Boot!StillTagged = {i} -> Boot!Dropped(refs)
                   [] Boot!StillTagged = Boot!CellIndex -> Boot!Dropped(Boot!Dropped(refs))
  BY Zenon DEF Boot!Teardown
<1>2. /\ fault \in Faults /\ inexact \in BOOLEAN /\ check \in 1 .. 5
      /\ pass \in BOOLEAN /\ refs \in Int /\ s \in Invocation
      /\ (inexact => ~pass) /\ (~Late => check = 1)
      /\ (pass => /\ Late /\ (check = 5 => fault = "none")
                  /\ refs = 1 /\ s.cells[0] # "tagged" /\ s.cells[1] # "tagged")
      /\ (~pass /\ fault = "none" =>
             /\ inexact
             /\ \/ Holds("null", "null", 0, 0, 0, 1)
                \/ Holds("tagged", "null", 1, 0, 0, 2))
  BY <1>1 DEF BootInv, TypeInv, DecisionInv, OutInv
<1>3. Len(Boot!Checks) = 5
  BY <1>2, ControlFacts
<1>4. Boot!CellIndex = {0, 1}
  BY DEF Boot!CellIndex
<1>5. /\ Boot!StillTagged = {} => refs' = refs
      /\ Boot!StillTagged = {0} => refs' = Boot!Dropped(refs)
      /\ refs' \in Int
  <2>1. Boot!Dropped(refs) \in Int /\ Boot!Dropped(Boot!Dropped(refs)) \in Int
    BY <1>2 DEF Boot!Dropped
  <2>2. CASE Boot!StillTagged = {}
    <3>1. \A i \in Boot!CellIndex : Boot!StillTagged # {i}
      BY <2>2
    <3>2. Boot!StillTagged # Boot!CellIndex /\ Boot!StillTagged # {0}
      BY <1>4, <2>2
    <3> QED
      BY <1>1, <1>2, <2>2, <3>1, <3>2, Zenon
  <2>3. CASE \E i \in Boot!CellIndex : Boot!StillTagged = {i}
    <3>1. Boot!StillTagged # {} /\ Boot!StillTagged # Boot!CellIndex
      BY <1>4, <2>3
    <3> QED
      BY <1>1, <2>1, <2>3, <3>1, Zenon
  <2>4. CASE Boot!StillTagged = Boot!CellIndex
    <3>1. /\ Boot!StillTagged # {} /\ Boot!StillTagged # {0}
          /\ ~ \E i \in Boot!CellIndex : Boot!StillTagged = {i}
      BY <1>4, <2>4
    <3> QED
      BY <1>1, <2>1, <2>4, <3>1, Zenon
  <2>5. Boot!StillTagged \subseteq {0, 1}
    BY <1>4 DEF Boot!StillTagged
  <2>6. \/ Boot!StillTagged = {} \/ Boot!StillTagged = {0} \/ Boot!StillTagged = {1}
        \/ Boot!StillTagged = {0, 1}
    <3>1. CASE 0 \in Boot!StillTagged /\ 1 \in Boot!StillTagged
      BY <2>5, <3>1
    <3>2. CASE 0 \in Boot!StillTagged /\ 1 \notin Boot!StillTagged
      BY <2>5, <3>2
    <3>3. CASE 0 \notin Boot!StillTagged /\ 1 \in Boot!StillTagged
      BY <2>5, <3>3
    <3>4. CASE 0 \notin Boot!StillTagged /\ 1 \notin Boot!StillTagged
      BY <2>5, <3>4
    <3> QED
      BY <3>1, <3>2, <3>3, <3>4
  <2> QED
    BY <1>4, <2>2, <2>3, <2>4, <2>6
<1>6. pass => refs' = 1
  <2> SUFFICES ASSUME pass
               PROVE  refs' = 1
    OBVIOUS
  <2>1. Boot!StillTagged = {}
    BY <1>2, <1>4 DEF Boot!StillTagged
  <2> QED
    BY <1>2, <1>5, <2>1
<1>7. ~pass /\ fault = "none" => refs' = 1
  <2> SUFFICES ASSUME ~pass, fault = "none"
               PROVE  refs' = 1
    OBVIOUS
  <2>1. CASE Holds("null", "null", 0, 0, 0, 1)
    <3>1. Boot!StillTagged = {} /\ refs = 1
      BY <1>4, <2>1 DEF Boot!StillTagged, Holds
    <3> QED
      BY <1>5, <3>1
  <2>2. CASE Holds("tagged", "null", 1, 0, 0, 2)
    <3>1. Boot!StillTagged = {0} /\ refs = 2
      BY <1>4, <2>2 DEF Boot!StillTagged, Holds
    <3>2. Boot!Dropped(refs) = 1
      BY <3>1 DEF Boot!Dropped
    <3> QED
      BY <1>5, <3>1, <3>2
  <2> QED
    BY <1>2, <2>1, <2>2
<1>8. fault' = fault /\ inexact' = inexact /\ pass' = pass /\ Late' = Late
  BY <1>1 DEF Late
<1> DEFINE Typed ==
      /\ fault' \in Faults /\ inexact' \in BOOLEAN /\ pass' \in BOOLEAN
      /\ control' \in BOOLEAN /\ refs' \in Int
      /\ s' \in Invocation /\ ctx' \in Context
<1>9. Typed
  <2>1. Boot!FreshInvocation \in Invocation /\ Boot!FreshContext \in Context
    BY FreshFacts
  <2>2. FALSE \in BOOLEAN
    OBVIOUS
  <2> QED
    BY <1>1, <1>2, <1>5, <1>8, <2>1, <2>2, Zenon
<1>10. step' \in Places /\ check' \in 1 .. 5 => TypeInv'
  BY <1>9, Zenon DEF TypeInv
<1> HIDE DEF Typed
<1>11. refs' = 1 => Baseline'
  BY <1>1, Zenon DEF Baseline
<1>12. /\ step' \in {"begin", "registered", "refused"}
       /\ (inexact => step' = "refused" /\ ~pass)
       /\ (~Late => check' = 1)
       /\ (step' = "registered" => fault = "none")
       /\ (step' = "refused" => fault # "none" \/ inexact)
       /\ (step' = "begin" => Baseline')
       /\ (fault = "none" => Baseline')
       => DecisionInv'
  BY <1>8, Zenon DEF DecisionInv, Boot!Ending
<1>13. CASE pass /\ check < 5
  <2>1. step' = "begin" /\ check' = check + 1
    BY <1>1, <1>3, <1>13 DEF Boot!NextCheck
  <2>2. check' \in 1 .. 5
    BY <1>2, <1>13, <2>1
  <2>3. TypeInv'
    <3>1. step' \in Places
      BY <2>1 DEF Places
    <3> QED
      BY <1>10, <2>2, <3>1, Zenon
  <2>4. DecisionInv'
    <3>1. /\ step' \in {"begin", "registered", "refused"}
          /\ (inexact => step' = "refused" /\ ~pass)
          /\ (~Late => check' = 1)
          /\ (step' = "registered" => fault = "none")
          /\ (step' = "refused" => fault # "none" \/ inexact)
          /\ (step' = "begin" => Baseline')
          /\ (fault = "none" => Baseline')
      BY <1>2, <1>6, <1>13, <1>11, <2>1
    <3> QED
      BY <1>12, <3>1, Zenon
  <2>5. /\ AcquireInv' /\ GuardInv' /\ CallbackInv' /\ VerdictInv' /\ OutInv'
        /\ RunningInv'
    BY <2>1 DEF AcquireInv, GuardInv, CallbackInv, VerdictInv, OutInv, RunningInv
  <2> QED
    BY <2>3, <2>4, <2>5 DEF BootInv
<1>14. CASE pass /\ check = 5
  <2>1. step' = "registered" /\ check' = check /\ fault = "none"
    BY <1>1, <1>2, <1>3, <1>14 DEF Boot!NextCheck
  <2>2. TypeInv'
    <3>1. step' \in Places /\ check' \in 1 .. 5
      BY <1>2, <2>1 DEF Places
    <3> QED
      BY <1>10, <3>1, Zenon
  <2>3. DecisionInv'
    <3>1. /\ step' \in {"begin", "registered", "refused"}
          /\ (inexact => step' = "refused" /\ ~pass)
          /\ (~Late => check' = 1)
          /\ (step' = "registered" => fault = "none")
          /\ (step' = "refused" => fault # "none" \/ inexact)
          /\ (step' = "begin" => Baseline')
          /\ (fault = "none" => Baseline')
      BY <1>2, <1>6, <1>14, <1>11, <2>1
    <3> QED
      BY <1>12, <3>1, Zenon
  <2>4. /\ AcquireInv' /\ GuardInv' /\ CallbackInv' /\ VerdictInv' /\ OutInv'
        /\ RunningInv'
    BY <2>1 DEF AcquireInv, GuardInv, CallbackInv, VerdictInv, OutInv, RunningInv
  <2> QED
    BY <2>2, <2>3, <2>4 DEF BootInv
<1>15. CASE ~pass
  <2>1. step' = "refused" /\ check' = check
    BY <1>1, <1>15
  <2>2. TypeInv'
    <3>1. step' \in Places /\ check' \in 1 .. 5
      BY <1>2, <2>1 DEF Places
    <3> QED
      BY <1>10, <3>1, Zenon
  <2>3. DecisionInv'
    <3>1. /\ step' \in {"begin", "registered", "refused"}
          /\ (inexact => step' = "refused" /\ ~pass)
          /\ (~Late => check' = 1)
          /\ (step' = "registered" => fault = "none")
          /\ (step' = "refused" => fault # "none" \/ inexact)
          /\ (step' = "begin" => Baseline')
          /\ (fault = "none" => Baseline')
      BY <1>2, <1>7, <1>15, <1>11, <2>1
    <3> QED
      BY <1>12, <3>1, Zenon
  <2>4. /\ AcquireInv' /\ GuardInv' /\ CallbackInv' /\ VerdictInv' /\ OutInv'
        /\ RunningInv'
    BY <2>1 DEF AcquireInv, GuardInv, CallbackInv, VerdictInv, OutInv, RunningInv
  <2> QED
    BY <2>2, <2>3, <2>4 DEF BootInv
<1> QED
  BY <1>2, <1>13, <1>14, <1>15

-----------------------------------------------------------------------------
\* Every step of a kernel that boots.
LEMMA BootStepKeeps ==
    ASSUME BootInv, Boot!Next
    PROVE  BootInv'
BY BeginStep, AcquireStep, ReleaseStep, ReuseStep, CallbackStep, VerdictStep, TeardownStep,
   Zenon DEF Boot!Next

\* Nothing is wrong yet when a kernel starts.
LEMMA LifeStarts ==
    ASSUME LifeInit
    PROVE  LifeInv
<1>1. /\ fault \in Faults /\ inexact = FALSE /\ refs = 1 /\ control = FALSE
      /\ s = Boot!FreshInvocation /\ check = 1 /\ step = "begin"
      /\ ctx = Boot!FreshContext /\ pass = FALSE /\ matched = {}
  BY DEF LifeInit, Init, Boot!Init
<1>2. TypeInv
  <2>1. /\ s \in Invocation /\ ctx \in Context /\ refs \in Int /\ step \in Places
        /\ check \in 1 .. 5
    BY <1>1, FreshFacts DEF Places
  <2>2. FALSE \in BOOLEAN
    OBVIOUS
  <2> QED
    BY <1>1, <2>1, <2>2, Zenon DEF TypeInv
<1>3. DecisionInv
  BY <1>1 DEF DecisionInv, Baseline, Boot!Ending
<1>4. /\ AcquireInv /\ GuardInv /\ CallbackInv /\ VerdictInv /\ OutInv /\ RunningInv
  BY <1>1 DEF AcquireInv, GuardInv, CallbackInv, VerdictInv, OutInv, RunningInv
<1> QED
  BY <1>1, <1>2, <1>3, <1>4 DEF LifeInv, BootInv

\* Once the controls have ended, nothing of theirs changes, and programs with
\* gate calls come only where the kfuncs were registered.
LEMMA LifeKeeps ==
    ASSUME LifeInv, LifeNext
    PROVE  LifeInv'
<1>1. CASE BootStep
  <2>1. BootInv' /\ matched' = matched
    BY <1>1, BootStepKeeps DEF LifeInv, BootStep, vars
  <2>2. step # "registered"
    BY <1>1 DEF BootStep, Boot!Next, Boot!Begin, Boot!Acquire, Boot!Release, Boot!Reuse,
                Boot!OwnershipCallback, Boot!Verdict, Boot!Teardown
  <2> QED
    BY <2>1, <2>2 DEF LifeInv
<1>2. CASE Life
  <2>1. UNCHANGED bootVars
    BY <1>2 DEF Life
  <2>2. BootInv' = BootInv /\ step' = step
    BY <2>1 DEF bootVars, BootInv, TypeInv, DecisionInv, AcquireInv, GuardInv, CallbackInv,
                VerdictInv, OutInv, RunningInv, Late, Independent, IsCallback, Counted,
                Holds, Baseline, Boot!This, Boot!Ending
  <2>3. step = "registered" \/ matched' \subseteq matched
    <3>1. CASE \E p \in Program :
                  \/ step = "registered" /\ LoadMatching(p)
                  \/ LoadOrdinary(p) \/ Unload(p) \/ Attach(p) \/ Detach(p)
      BY <3>1 DEF LoadOrdinary, Unload, Attach, Detach
    <3>2. CASE Links
      BY <3>2 DEF Links, LinkCreate, LinkUpdate, LinkRelease
    <3>3. CASE OnCPU
      BY <3>3 DEF OnCPU, Enter, Leave, TestRunOrdinary, TestInvoke, RunHooked, RunStray,
                  programVars
    <3> QED
      BY <1>2, <3>1, <3>2, <3>3 DEF Life
  <2> QED
    BY <2>2, <2>3 DEF LifeInv
<1> QED
  BY <1>1, <1>2 DEF LifeNext

\* A kernel that keeps the invariant offers its gate only if it is sound.
LEMMA LifeInvSound ==
    ASSUME LifeInv
    PROVE  OnlySoundGates
<1>1. Boot!ControlsDecide
  BY DEF LifeInv, BootInv, DecisionInv, Boot!ControlsDecide, Boot!Ending
<1>2. Boot!ControlsLeaveBaseline
  BY DEF LifeInv, BootInv, DecisionInv, Baseline, Boot!ControlsLeaveBaseline, Boot!Ending
<1>3. matched # {} => fault = "none" /\ ~inexact
  BY DEF LifeInv, BootInv, DecisionInv
<1> QED
  BY <1>1, <1>2, <1>3 DEF OnlySoundGates

\* From boot on, programs with gate calls exist only in a kernel whose gate has
\* none of the faults and makes its capabilities exact; every such kernel offers
\* its gate, and every control, passed or not, leaves the next one the baseline
\* (cbpf_runtime.c:223-228, 341-346, 368-374).
THEOREM LifeOnlySoundGates == LifeSpec => []OnlySoundGates
<1>1. LifeInit => LifeInv
  BY LifeStarts
<1>2. LifeInv /\ [LifeNext]_<<vars, bootVars>> => LifeInv'
  <2> SUFFICES ASSUME LifeInv, [LifeNext]_<<vars, bootVars>>
               PROVE  LifeInv'
    OBVIOUS
  <2>1. CASE LifeNext
    BY <2>1, LifeKeeps
  <2>2. CASE UNCHANGED <<vars, bootVars>>
    BY <2>2 DEF vars, bootVars, LifeInv, BootInv, TypeInv, DecisionInv, AcquireInv,
                GuardInv, CallbackInv, VerdictInv, OutInv, RunningInv, Late, Independent,
                IsCallback, Counted, Holds, Baseline, Boot!This, Boot!Ending
  <2> QED
    BY <2>1, <2>2
<1>3. LifeInv => OnlySoundGates
  BY LifeInvSound
<1> QED
  BY <1>1, <1>2, <1>3, PTL DEF LifeSpec

\* The programs of a kernel that boots do what programs do, so what is proved of
\* them above holds from boot on (CbpfProgram).
THEOREM LifeImplementsProgram == LifeSpec => Spec
<1>1. LifeInit => Init
  BY DEF LifeInit
<1>2. [LifeNext]_<<vars, bootVars>> => [Next]_vars
  <2> SUFFICES ASSUME [LifeNext]_<<vars, bootVars>>
               PROVE  [Next]_vars
    OBVIOUS
  <2>1. CASE BootStep
    BY <2>1 DEF BootStep
  <2>2. CASE Life
    BY <2>2 DEF Life, Next
  <2>3. CASE UNCHANGED <<vars, bootVars>>
    BY <2>3
  <2> QED
    BY <2>1, <2>2, <2>3 DEF LifeNext
<1> QED
  BY <1>1, <1>2, PTL DEF LifeSpec, Spec

\* So from boot on, whatever the controls found, a program with gate calls is on
\* no hook, and native code gets past its entry only in the test run that made its
\* context (integration.patch, cbpf_runtime.c:387, 494).
THEOREM LifeNeverHooked == LifeSpec => [](FlaggedNeverHooked /\ EntryNeedsContext)
BY LifeImplementsProgram, ProgramNeverHooked, ProgramEntryNeedsContext, PTL
=============================================================================
