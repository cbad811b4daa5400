---------------------------- MODULE CbpfProgram ----------------------------
(* A loaded program's life in the kernel that linux/ownership/                *)
(* integration.patch makes: which paths a program with gate calls may take,   *)
(* and where its native code finds the private context it needs.              *)
(*                                                                            *)
(* One flag, set when the compiler first sees a gate call, closes every path  *)
(* but BPF_PROG_TEST_RUN; cbpf_enter is the second line, should native code   *)
(* be reached by a path that does not look at the flag.                       *)
EXTENDS Integers, Sequences

CONSTANTS
    CPU,
    Program,
    Link,
    NoProgram

ASSUME NoProgramAssumption == NoProgram \notin Program

VARIABLES
    loaded,     \* programs user space has a descriptor of
    matched,    \* programs in which the compiler met a gate call
    cbpf_gate,  \* programs whose flag is set
    native,     \* programs whose bpf_func is the restricted compiler's image
    attached,   \* programs attached by type, or held in a program array
    link,       \* per link: the program it runs
    active,     \* per CPU: prog of the invocation cbpf_active points to
    entered,    \* per CPU: that invocation has been entered
    stack,      \* per CPU: programs being run, the innermost first
    authority   \* per CPU: the program the gates act for

vars == <<loaded, matched, cbpf_gate, native, attached, link, active, entered, stack,
          authority>>

programVars == <<loaded, matched, cbpf_gate, native, attached, link>>
cpuVars == <<active, entered, stack, authority>>

\* A program being run, how it was started, and whether its code got past
\* its entry.
Frame == [prog : Program, by : {"test_run", "test_invoke", "path"},
          restricted : BOOLEAN]

Init ==
    /\ loaded = {} /\ matched = {} /\ cbpf_gate = {} /\ native = {} /\ attached = {}
    /\ link = [l \in Link |-> NoProgram]
    /\ active = [c \in CPU |-> NoProgram]
    /\ entered = [c \in CPU |-> FALSE]
    /\ stack = [c \in CPU |-> <<>>]
    /\ authority = [c \in CPU |-> NoProgram]

-----------------------------------------------------------------------------
\* BUG: only programs the compiler accepts are flagged.
FlagsAccepted(p, compiled) == IF compiled THEN cbpf_gate \cup {p} ELSE cbpf_gate

\* "Also marks rejected programs so the caller forbids fallback."
Flags(p, compiled) == cbpf_gate \cup {p}

\* A program without gate calls, or one for which no compilation was asked.
LoadOrdinary(p) ==
    /\ p \notin loaded
    /\ loaded' = loaded \cup {p}
    /\ UNCHANGED <<matched, cbpf_gate, native, attached, link, cpuVars>>

\* What the kernel does with a program left without an image is its own affair:
\* it may still hand it out.
LoadMatching(p) ==
    /\ p \notin loaded
    /\ matched' = matched \cup {p}
    /\ \E compiled \in BOOLEAN :
          /\ cbpf_gate' = Flags(p, compiled)
          /\ native' = IF compiled THEN native \cup {p} ELSE native
          /\ loaded' = loaded \cup {p}
    /\ UNCHANGED <<attached, link, cpuVars>>

Hooked(p) == p \in attached \/ \E l \in Link : link[l] = p

\* The last descriptor is closed, and nothing else holds the program.
Unload(p) ==
    /\ p \in loaded /\ ~Hooked(p)
    /\ \A c \in CPU : \A n \in DOMAIN stack[c] : stack[c][n].prog # p
    /\ loaded' = loaded \ {p}
    /\ matched' = matched \ {p}
    /\ cbpf_gate' = cbpf_gate \ {p}
    /\ native' = native \ {p}
    /\ UNCHANGED <<attached, link, cpuVars>>

\* bpf_prog_get_ok, bpf_prog_map_compatible.
MayAttach(p) == p \in loaded /\ p \notin cbpf_gate

Attach(p) ==
    /\ MayAttach(p)
    /\ attached' = attached \cup {p}
    /\ UNCHANGED <<loaded, matched, cbpf_gate, native, link, cpuVars>>

Detach(p) ==
    /\ p \in attached
    /\ attached' = attached \ {p}
    /\ UNCHANGED <<loaded, matched, cbpf_gate, native, link, cpuVars>>

LinkCreate(l, p) ==
    /\ link[l] = NoProgram
    /\ p \in loaded /\ p \notin cbpf_gate
    /\ link' = [link EXCEPT ![l] = p]
    /\ UNCHANGED <<loaded, matched, cbpf_gate, native, attached, cpuVars>>

MayReplace(p) == p \in loaded /\ p \notin cbpf_gate

LinkUpdate(l, p) ==
    /\ link[l] # NoProgram
    /\ MayReplace(p)
    /\ link' = [link EXCEPT ![l] = p]
    /\ UNCHANGED <<loaded, matched, cbpf_gate, native, attached, cpuVars>>

LinkRelease(l) ==
    /\ link[l] # NoProgram
    /\ link' = [link EXCEPT ![l] = NoProgram]
    /\ UNCHANGED <<loaded, matched, cbpf_gate, native, attached, cpuVars>>

-----------------------------------------------------------------------------
Push(c, p, by) ==
    stack' = [stack EXCEPT ![c] =
                 <<[prog |-> p, by |-> by, restricted |-> FALSE]>> \o @]

\* test_run of a program without the flag.
TestRunOrdinary(c, p) ==
    /\ p \in loaded /\ p \notin cbpf_gate /\ stack[c] = <<>>
    /\ Push(c, p, "test_run")
    /\ UNCHANGED <<programVars, active, entered, authority>>

\* test_run of a flagged program: cbpf_test_invoke, on a stack frame of its own.
\* With cbpf_active set it would return 0 at once.
TestInvoke(c, p) ==
    /\ p \in loaded /\ p \in cbpf_gate /\ stack[c] = <<>>
    /\ active[c] = NoProgram
    /\ active' = [active EXCEPT ![c] = p]
    /\ entered' = [entered EXCEPT ![c] = FALSE]
    /\ Push(c, p, "test_invoke")
    /\ UNCHANGED <<programVars, authority>>

\* A hook runs the program attached to it.  A test run has bottom halves off,
\* so what interrupts one on its CPU is another hook's program, not the same.
RunHooked(c, p) ==
    /\ Hooked(p)
    /\ Len(stack[c]) < 2
    /\ \A n \in DOMAIN stack[c] : stack[c][n].prog # p
    /\ Push(c, p, "path")
    /\ UNCHANGED <<programVars, active, entered, authority>>

\* A path of the kernel that does not consult the flag runs bpf_func.
RunStray(c, p) ==
    /\ p \in loaded
    /\ Len(stack[c]) < 2
    /\ \A n \in DOMAIN stack[c] : stack[c][n].prog # p
    /\ Push(c, p, "path")
    /\ UNCHANGED <<programVars, active, entered, authority>>

Top(c) == stack[c][1]

\* BUG: any program may enter once an invocation is active on its CPU.
RefusedAnyProgram(c, p) == active[c] = NoProgram \/ entered[c]

\* cbpf_enter: no context, entered before, or another program's context.
Refused(c, p) == active[c] = NoProgram \/ entered[c] \/ active[c] # p

\* The image's prologue calls cbpf_enter.
Enter(c) ==
    /\ stack[c] # <<>>
    /\ Top(c).prog \in native /\ ~Top(c).restricted
    /\ ~Refused(c, Top(c).prog)
    /\ entered' = [entered EXCEPT ![c] = TRUE]
    /\ stack' = [stack EXCEPT ![c][1].restricted = TRUE]
    /\ authority' = [authority EXCEPT ![c] = Top(c).prog]
    /\ UNCHANGED <<programVars, active>>

\* The program ends: after its run, after a refused entry, or, without an
\* image, after ordinary kfunc bodies that do nothing.
Leave(c) ==
    /\ stack[c] # <<>>
    /\ stack' = [stack EXCEPT ![c] = Tail(@)]
    /\ IF Top(c).by = "test_invoke"
       THEN /\ active' = [active EXCEPT ![c] = NoProgram]
            /\ entered' = [entered EXCEPT ![c] = FALSE]
            /\ authority' = [authority EXCEPT ![c] = NoProgram]
       ELSE UNCHANGED <<active, entered, authority>>
    /\ UNCHANGED programVars

Links ==
    \E l \in Link :
        LinkRelease(l) \/ \E p \in Program : LinkCreate(l, p) \/ LinkUpdate(l, p)

OnCPU ==
    \E c \in CPU :
        \/ Enter(c) \/ Leave(c)
        \/ \E p \in Program :
              \/ TestRunOrdinary(c, p) \/ TestInvoke(c, p)
              \/ RunHooked(c, p) \/ RunStray(c, p)

Next ==
    \/ \E p \in Program :
          \/ LoadOrdinary(p) \/ LoadMatching(p) \/ Unload(p)
          \/ Attach(p) \/ Detach(p)
    \/ Links \/ OnCPU

Spec == Init /\ [][Next]_vars

-----------------------------------------------------------------------------
\* A program with gate calls is on no hook, not even one the compiler refused
\* and left to whatever else the kernel would run it with
\* (cbpf_jit.c:73, integration.patch).
FlaggedNeverHooked ==
    /\ native \subseteq matched
    /\ \A p \in matched : ~Hooked(p)

\* Native code gets past its entry only inside the test run that made the
\* context for it, once, whichever path reached it and whatever it interrupted:
\* the program the gates act for is the invocation's (cbpf_runtime.c:387, 494).
EntryNeedsContext ==
    \A c \in CPU :
        /\ \A n \in DOMAIN stack[c] :
              stack[c][n].restricted =>
                  /\ stack[c][n].by = "test_invoke"
                  /\ stack[c][n].prog = active[c]
        /\ authority[c] # NoProgram => authority[c] = active[c] /\ entered[c]
        /\ active[c] # NoProgram <=>
              \E n \in DOMAIN stack[c] : stack[c][n].by = "test_invoke"
=============================================================================
