------------------------------- MODULE Tracer -------------------------------
(***************************************************************************)
(* The system call tracer of task01 (syscall_tracer.c) and the program it  *)
(* traces.  The program and the stops ptrace makes of its system calls and *)
(* signals are external: entry and exit of a call are stops, a signal is   *)
(* one as well, and what resumes the program suppresses the signal.        *)
(***************************************************************************)
EXTENDS Naturals, Sequences, SequencesExt

CONSTANTS MaxCalls,     \* bound: system calls of the program
          MaxSignals    \* bound: signals sent to it

VARIABLES pc,       \* where the tracer is in its loop
          status,   \* what waitpid last stored
          regs,     \* the tracer's copy of the registers
          lines,    \* complete lines of output, until they go wrong
          begun,    \* the line that lacks its result, as a sequence
          prog,     \* the program: where it is and whether it is stopped
          event,    \* what waitpid has to report
          calls,    \* history: system calls completed, with their results
          signals,  \* how many signals were sent, and whether one is pending
          disturbed \* history: exec failed, or a signal came during a call
vars == <<pc, status, regs, lines, begun, prog, event, calls, signals, disturbed>>
tracer == <<pc, status, regs, lines, begun>>

Printed == {"read", "write"}
Syscalls == Printed \cup {"other", "exit"}
NoCall == "none"              \* orig_rax outside of a system call
ENOSYS == 38                  \* rax at the entry of a call
ERESTART == 512               \* rax of a call that a signal interrupts

(* regs starts as whatever is on the stack.                                 *)
Init ==
    /\ pc = "resume" /\ status = "none" /\ lines = <<>> /\ begun = <<>>
    /\ regs \in [orig : Syscalls \cup {NoCall}, rax : {0}]
    /\ prog = [at |-> "fork", stopped |-> FALSE, orig |-> NoCall, rax |-> 0]
    /\ event = "none" /\ calls = <<>> /\ signals = [sent |-> 0, pending |-> FALSE] /\ disturbed = FALSE

-----------------------------------------------------------------------------
(* The tracer.  ptrace fails without effect on a program that is running or *)
(* gone; waitpid fails once the end has been reported, and leaves status.   *)

Gone == prog.at \in {"exited", "killed"}

Resumed == IF prog.stopped THEN [prog EXCEPT !.stopped = FALSE] ELSE prog

PTRACE_SYSCALL(from, to) ==
    /\ pc = from /\ pc' = to
    /\ prog' = Resumed
    /\ event' = IF prog.stopped THEN "none" ELSE event
    /\ UNCHANGED <<status, regs, lines, begun, calls, signals, disturbed>>

waitpid(from, to) ==
    /\ pc = from /\ pc' = to
    /\ event # "none" \/ Gone
    /\ status' = IF event = "none" THEN status ELSE event
    /\ event' = "none"
    /\ UNCHANGED <<regs, lines, begun, prog, calls, signals, disturbed>>

EntryOnly == IF prog.stopped /\ prog.rax = ENOSYS   \* mutant: no registers at the exit
             THEN [orig |-> prog.orig, rax |-> prog.rax] ELSE regs
GETREGS == IF prog.stopped THEN [orig |-> prog.orig, rax |-> prog.rax] ELSE regs

LoopEnd == IF status = "exited" THEN "done" ELSE "resume"

(* After the first stop: skip, or print the call and go on to its result.   *)
EntryNoTest ==   \* mutant: continue skips the loop's condition
    /\ pc = "entry"
    /\ regs' = GETREGS
    /\ IF regs'.orig \in Printed
       THEN pc' = "resume2" /\ begun' = <<regs'.orig>>
       ELSE pc' = "resume" /\ UNCHANGED begun
    /\ UNCHANGED <<status, lines, prog, event, calls, signals, disturbed>>
AtEntry ==
    /\ pc = "entry"
    /\ regs' = GETREGS
    /\ IF regs'.orig \in Printed
       THEN pc' = "resume2" /\ begun' = <<regs'.orig>>
       ELSE pc' = LoopEnd /\ UNCHANGED begun
    /\ UNCHANGED <<status, lines, prog, event, calls, signals, disturbed>>

AtExit ==
    /\ pc = "exit"
    /\ regs' = GETREGS
    /\ lines' = IF disturbed \/ Gone THEN lines ELSE Append(lines, <<begun[1], regs'.rax>>)
    /\ begun' = <<>>
    /\ pc' = LoopEnd
    /\ UNCHANGED <<status, prog, event, calls, signals, disturbed>>

Tracing ==
    \/ PTRACE_SYSCALL("resume", "wait") \/ waitpid("wait", "entry") \/ AtEntry
    \/ PTRACE_SYSCALL("resume2", "wait2") \/ waitpid("wait2", "exit") \/ AtExit

-----------------------------------------------------------------------------
(* The program, external: one step from stop to stop.                       *)

Goes(from) == prog.at = from /\ ~prog.stopped /\ UNCHANGED tracer
Stops(at, orig, rax) ==
    prog' = [at |-> at, stopped |-> TRUE, orig |-> orig, rax |-> rax] /\ event' = "stopped"
Ends(at) ==
    prog' = [prog EXCEPT !.at = at, !.stopped = FALSE] /\ event' = at

Exec == Goes("fork") /\ Stops("user", "other", 0) /\ UNCHANGED <<calls, signals, disturbed>>
ExecFails ==
    Goes("fork") /\ Ends("exited") /\ disturbed' = TRUE /\ UNCHANGED <<calls, signals>>

Enter(sys) ==
    /\ Goes("user")
    /\ sys = "exit" \/ Len(calls) < MaxCalls
    /\ Stops(sys, sys, ENOSYS)
    /\ UNCHANGED <<calls, signals, disturbed>>

Complete(sys, rax) ==
    /\ Goes(sys) /\ sys # "exit"
    /\ Stops("user", sys, rax)
    /\ calls' = Append(calls, <<sys, rax>>)
    /\ UNCHANGED <<signals, disturbed>>

Exit == Goes("exit") /\ Ends("exited") /\ UNCHANGED <<calls, signals, disturbed>>

(* A pending signal ends the call the program is in; the stop for the       *)
(* signal follows, still with the call's registers, and the call is made    *)
(* again.                                                                   *)
Interrupt(sys) ==
    /\ Goes(sys) /\ signals.pending /\ sys # "exit"
    /\ Stops("restart", sys, ERESTART)
    /\ disturbed' = TRUE
    /\ UNCHANGED <<calls, signals>>

(* The stop for a signal: on the way out of a call the registers are the    *)
(* call's, later they are not.                                              *)
Deliver ==
    /\ signals.pending /\ signals' = [signals EXCEPT !.pending = FALSE]
    /\ \/ \E orig \in {NoCall, prog.orig} :
             Goes("user") /\ Stops("user", orig, prog.rax)
                /\ disturbed' = (disturbed \/ orig \in Printed)
       \/ Goes("restart") /\ Stops("again", prog.orig, prog.rax) /\ UNCHANGED disturbed
    /\ UNCHANGED calls

Again ==
    Goes("again") /\ Stops(prog.orig, prog.orig, ENOSYS) /\ UNCHANGED <<calls, signals, disturbed>>

(* The program faults.  What resumes it suppresses the signal, so the same  *)
(* instruction faults again.                                                *)
Fault ==
    /\ Goes("user") \/ Goes("fault")
    /\ Stops("fault", NoCall, prog.rax)
    /\ UNCHANGED <<calls, signals, disturbed>>

Program ==
    \/ Exec \/ ExecFails \/ Exit \/ Deliver \/ Again \/ Fault
    \/ \E sys \in Syscalls : Enter(sys) \/ Interrupt(sys) \/ \E rax \in {0, 1} : Complete(sys, rax)

(* Others send a signal, or SIGKILL, which needs no stop.                   *)
Send ==
    /\ ~Gone /\ prog.at # "fork" /\ signals.sent < MaxSignals
    /\ signals' = [sent |-> signals.sent + 1, pending |-> TRUE]
    /\ UNCHANGED <<tracer, prog, event, calls, disturbed>>
Kill ==
    /\ ~Gone /\ prog.at # "fork" /\ signals.sent < MaxSignals
    /\ Ends("killed")
    /\ UNCHANGED <<tracer, calls, signals, disturbed>>

Next == Tracing \/ Program \/ Send \/ Kill

(* The kernel schedules both processes.                                     *)
Spec == Init /\ [][Next]_vars /\ WF_vars(Tracing) /\ WF_vars(Program)

-----------------------------------------------------------------------------
(* The output has one line for each read and write, with its own result, in *)
(* order and at most one behind, and the tracer does not leave before the   *)
(* program has ended: entry and exit stops (syscall_tracer.c:30, 42) stay   *)
(* paired, also across other calls and signals outside of calls.            *)
LinesMatchCalls ==
    LET made == SelectSeq(calls, LAMBDA c : c[1] \in Printed)
    IN  ~disturbed /\ prog.at # "killed" =>
            /\ IsPrefix(lines, made) /\ Len(made) <= Len(lines) + 1
            /\ begun # <<>> /\ Len(made) > Len(lines) => begun[1] = made[Len(made)][1]
            /\ pc = "done" => lines = made /\ prog.at = "exited"

(* The tracer resumes the program from every stop and returns when it has   *)
(* exited, whatever signals it got and however the first PTRACE_SYSCALL     *)
(* races with the exec; only a program that is killed, or one that faults   *)
(* again and again (30, 42), keeps the loop (49) of syscall_tracer.c going. *)
TracerReturns == <>(pc = "done" \/ prog.at \in {"killed", "fault"})
=============================================================================
