-------------------------------- MODULE Shell --------------------------------
(***************************************************************************)
(* The shell of task03-processes: the command loop (src/main.c), the       *)
(* pipelines and the builtins (src/execute.c), with the processes a        *)
(* pipeline starts and the pipes between them.                             *)
(*                                                                         *)
(* A program is an arbitrary filter: it copies items from its input to its *)
(* output until end of file, and may give up at any time.  The kernel      *)
(* (pipes, signals, waitpid) is modelled as the shell uses it.             *)
(***************************************************************************)
EXTENDS Integers, Sequences, FiniteSets

CONSTANTS
    Lines,        \* the pipelines the user may type
    MaxLines,     \* bound on the number of lines typed
    MaxCmds,      \* length of the longest pipeline in Lines
    Items,        \* items in a file or typed at the terminal
    PipeSize,     \* items a pipe holds
    MaxProcesses, \* bound on the number of processes
    MaxFailures   \* bound on the failures of pipe2 and fork

Commands == [input_redir : BOOLEAN, output_redir : BOOLEAN]

ASSUME LinesAssumption ==
    \A l \in Lines : /\ l.background \in BOOLEAN
                     /\ l.cmds \in Seq(Commands)
                     /\ Len(l.cmds) \in 1 .. MaxCmds
ASSUME BoundsAssumption ==
    /\ MaxLines \in Nat /\ MaxCmds \in Nat /\ Items \in Nat
    /\ PipeSize \in Nat \ {0} /\ MaxFailures \in Nat /\ MaxProcesses \in Nat

VARIABLES
    sh,           \* where the shell is
    line,         \* number of the line being worked on
    pipeline,     \* its commands, <<>> for a builtin or a refused line
    background,
    pcnt, i,      \* processes forked for it; loop index
    awaited,      \* argument of the wait builtin
    last_status,
    shell_fds,    \* pipe ends the shell has open
    proc,         \* the processes, by pid
    buf,          \* items in each pipe
    output,       \* items the last process of each line has put out
    failures      \* number of failures so far

shell == <<sh, line, pipeline, background, pcnt, i, awaited, last_status, shell_fds, failures>>
vars  == <<shell, proc, buf, output>>

\* Process k of line n, and pipe k of line n, are called <<n, k>>.
Pids == (1 .. MaxLines) \X (1 .. MaxCmds)
NONE == <<0, 0>>
ANY  == <<0, 1>>          \* waitpid(-1, ...)

R(q) == <<q, "read">>
W(q) == <<q, "write">>

NoProcess == [state |-> "none", ended |-> "no", cmd |-> NONE, last |-> FALSE,
              fds |-> {}, in |-> NONE, out |-> NONE, source |-> 0, have |-> 0]

Alive(p) == proc[p].state \in {"forked", "running"}
Child(p) == proc[p].state \in {"forked", "running", "zombie"}

\* Somebody has that end of the pipe open.  Copies made by fork are closed by
\* exec (O_CLOEXEC); standard input and output are not.
Open(end) ==
    \/ end \in shell_fds
    \/ \E p \in Pids : Alive(p) /\ end \in proc[p].fds \cup {R(proc[p].in), W(proc[p].out)}

Init ==
    /\ sh = "prompt"
    /\ line = 0
    /\ pipeline = <<>>
    /\ background = FALSE
    /\ pcnt = 0
    /\ i = 0
    /\ awaited = NONE
    /\ last_status = 0
    /\ shell_fds = {}
    /\ proc = [p \in Pids |-> NoProcess]
    /\ buf = [q \in Pids |-> 0]
    /\ output = [n \in 1 .. MaxLines |-> 0]
    /\ failures = 0
-----------------------------------------------------------------------------
(***************************************************************************)
(* main: read a line, check it, run it                                     *)
(***************************************************************************)
check_consistency(cmds) ==
    \A k \in 1 .. Len(cmds) : cmds[k].output_redir => k = Len(cmds)

ReadLine(l) ==
    /\ sh = "prompt"
    /\ line < MaxLines
    /\ Cardinality({p \in Pids : proc[p] # NoProcess}) + Len(l.cmds) <= MaxProcesses
    /\ line' = line + 1
    /\ background' = l.background
    /\ pcnt' = 0
    /\ i' = 1
    /\ \/ check_consistency(l.cmds) /\ pipeline' = l.cmds /\ sh' = "pipe"
       \/ ~check_consistency(l.cmds) /\ pipeline' = <<>> /\ sh' = "prompt"
    /\ UNCHANGED <<awaited, last_status, shell_fds, proc, buf, output, failures>>

\* A line that is no pipeline.
Builtin ==
    /\ sh = "prompt"
    /\ line < MaxLines
    /\ line' = line + 1
    /\ pipeline' = <<>>
    /\ pcnt' = 0
    /\ UNCHANGED <<background, i, shell_fds, buf, output, failures>>

(* The exit builtin, and end of file on standard input.                    *)
Exit ==
    /\ sh = "prompt"
    /\ sh' = "exited"
    /\ shell_fds' = {}
    /\ UNCHANGED <<awaited, line, pipeline, background, pcnt, i, last_status, proc, buf, output, failures>>

(* wait [PID]; without a PID, waitpid(-1, ...).                            *)
Wait(arg) ==
    /\ Builtin
    /\ awaited' = arg
    /\ sh' = "builtin_wait"
    /\ UNCHANGED <<last_status, proc>>

\* A process that ends: what it had open is closed.
Ended(how) == [proc EXCEPT ![how[1]] =
    [@ EXCEPT !.state = "zombie", !.ended = how[2], !.fds = {}, !.in = NONE, !.out = NONE,
              !.source = 0, !.have = 0]]

(* kill PID: SIGTERM; a zombie can be signalled, a reaped process cannot.  *)
Kill(p) ==
    /\ Builtin
    /\ last_status' = IF Child(p) THEN 0 ELSE 1
    /\ proc' = IF Alive(p) THEN Ended(<<p, "killed">>) ELSE proc
    /\ UNCHANGED <<sh, awaited>>
-----------------------------------------------------------------------------
(***************************************************************************)
(* run_pipeline                                                            *)
(***************************************************************************)
(* return status                                                           *)
Return(status) ==
    /\ last_status' = status
    /\ sh' = "prompt"

(* The wait builtin returns once an awaited child has ended, or at once if *)
(* there is none.                                                          *)
Awaited == {p \in Pids : Child(p) /\ awaited \in {p, ANY}}

WaitBuiltin ==
    /\ sh = "builtin_wait"
    /\ \/ Awaited = {} /\ Return(1) /\ UNCHANGED proc
       \/ \E p \in Awaited :
            /\ proc[p].state = "zombie"
            /\ proc' = [proc EXCEPT ![p].state = "reaped"]
            /\ Return(0)
    /\ awaited' = NONE
    /\ UNCHANGED <<line, pipeline, background, pcnt, i, shell_fds, buf, output, failures>>

(* pipe2(pipes[pcnt], O_CLOEXEC), for every command, the last one too.     *)
Pipe ==
    /\ sh = "pipe"
    /\ shell_fds' = shell_fds \cup {R(<<line, pcnt + 1>>), W(<<line, pcnt + 1>>)}
    /\ sh' = "fork"
    /\ UNCHANGED <<awaited, line, pipeline, background, pcnt, i, last_status, proc, buf, output, failures>>

Fork ==
    /\ sh = "fork"
    /\ proc' = [proc EXCEPT ![<<line, pcnt + 1>>] =
           [NoProcess EXCEPT !.state = "forked", !.cmd = pipeline[pcnt + 1],
                             !.last = (pcnt + 1 = Len(pipeline)), !.fds = shell_fds]]
    /\ pcnt' = pcnt + 1
    /\ sh' = IF pcnt + 1 = Len(pipeline) THEN "close" ELSE "pipe"
    /\ UNCHANGED <<awaited, line, pipeline, background, i, last_status, shell_fds, buf, output, failures>>

(* pipe2 or fork fails.                                                    *)
CannotStart ==
    /\ sh \in {"pipe", "fork"}
    /\ failures < MaxFailures
    /\ failures' = failures + 1
    /\ Return(1)
    /\ UNCHANGED <<awaited, line, pipeline, background, pcnt, i, shell_fds, proc, buf, output>>

(* As ClosePipes, but the write ends stay open.                            *)
CloseReadEnds ==
    /\ sh = "close"
    /\ shell_fds' = shell_fds \ {R(<<line, i>>)}
    /\ \/ i < pcnt /\ i' = i + 1 /\ UNCHANGED <<sh, last_status>>
       \/ i = pcnt /\ background /\ Return(0) /\ UNCHANGED i
       \/ i = pcnt /\ ~background /\ i' = 1 /\ sh' = "wait" /\ UNCHANGED last_status
    /\ UNCHANGED <<awaited, line, pipeline, background, pcnt, proc, buf, output, failures>>

(* The parent closes its ends, pipe by pipe.                               *)
ClosePipes ==
    /\ sh = "close"
    /\ shell_fds' = shell_fds \ {R(<<line, i>>), W(<<line, i>>)}
    /\ \/ i < pcnt /\ i' = i + 1 /\ UNCHANGED <<sh, last_status>>
       \/ i = pcnt /\ background /\ Return(0) /\ UNCHANGED i
       \/ i = pcnt /\ ~background /\ i' = 1 /\ sh' = "wait" /\ UNCHANGED last_status
    /\ UNCHANGED <<awaited, line, pipeline, background, pcnt, proc, buf, output, failures>>

\* WEXITSTATUS(status) is 0 for a process that a signal ended.
WEXITSTATUS(p) == IF proc[p].ended = "failed" THEN 1 ELSE 0

(* As WaitForeground, but it stops short of the last process.              *)
WaitAllButLast ==
    LET p == <<line, i>>
    IN  /\ sh = "wait"
        /\ proc[p].state = "zombie"
        /\ proc' = [proc EXCEPT ![p].state = "reaped"]
        /\ \/ WEXITSTATUS(p) # 0 /\ Return(1) /\ UNCHANGED i
           \/ WEXITSTATUS(p) = 0 /\ i < pcnt - 1 /\ i' = i + 1 /\ UNCHANGED <<sh, last_status>>
           \/ WEXITSTATUS(p) = 0 /\ i >= pcnt - 1 /\ Return(0) /\ UNCHANGED i
        /\ UNCHANGED <<awaited, line, pipeline, background, pcnt, shell_fds, buf, output, failures>>

(* waitpid(processes[i], &status, 0); a failed process ends the loop.      *)
WaitForeground ==
    LET p == <<line, i>>
    IN  /\ sh = "wait"
        /\ proc[p].state = "zombie"
        /\ proc' = [proc EXCEPT ![p].state = "reaped"]
        /\ \/ WEXITSTATUS(p) # 0 /\ Return(1) /\ UNCHANGED i
           \/ WEXITSTATUS(p) = 0 /\ i < pcnt /\ i' = i + 1 /\ UNCHANGED <<sh, last_status>>
           \/ WEXITSTATUS(p) = 0 /\ i = pcnt /\ Return(0) /\ UNCHANGED i
        /\ UNCHANGED <<awaited, line, pipeline, background, pcnt, shell_fds, buf, output, failures>>
-----------------------------------------------------------------------------
(***************************************************************************)
(* The child: redirections, then exec                                      *)
(***************************************************************************)
StdinFirstPipe(p) == IF p[2] = 1 \/ proc[p].cmd.input_redir THEN NONE ELSE <<p[1], 1>>
Stdin(p)  == IF p[2] = 1 \/ proc[p].cmd.input_redir THEN NONE ELSE <<p[1], p[2] - 1>>
Stdout(p) == IF proc[p].cmd.output_redir \/ proc[p].last THEN NONE ELSE p

ChildExec(p) ==
    /\ proc[p].state = "forked"
    /\ proc' = [proc EXCEPT ![p] = [@ EXCEPT
           !.state = "running", !.fds = {}, !.in = Stdin(p), !.out = Stdout(p),
           !.source = IF Stdin(p) = NONE THEN Items ELSE 0]]
    /\ UNCHANGED <<shell, buf, output>>

(* open or execvp fails: exit(1).                                          *)
ChildFails(p) ==
    /\ proc[p].state = "forked"
    /\ proc' = Ended(<<p, "failed">>)
    /\ UNCHANGED <<shell, buf, output>>
-----------------------------------------------------------------------------
(***************************************************************************)
(* Programs and pipes (external)                                           *)
(***************************************************************************)
Running(p) == proc[p].state = "running"

ReadItem(p) ==
    /\ Running(p) /\ proc[p].have = 0
    /\ \/ /\ proc[p].in = NONE /\ proc[p].source > 0
          /\ proc' = [proc EXCEPT ![p].source = @ - 1, ![p].have = 1]
          /\ UNCHANGED buf
       \/ /\ proc[p].in # NONE /\ buf[proc[p].in] > 0
          /\ proc' = [proc EXCEPT ![p].have = 1]
          /\ buf' = [buf EXCEPT ![proc[p].in] = @ - 1]
    /\ UNCHANGED <<shell, output>>

(* A write waits while the pipe is full and somebody can read it.          *)
WriteItem(p) ==
    /\ Running(p) /\ proc[p].have = 1
    /\ proc' = [proc EXCEPT ![p].have = 0]
    /\ \/ /\ proc[p].out = NONE
          /\ output' = [output EXCEPT ![p[1]] = @ + 1]
          /\ UNCHANGED buf
       \/ /\ proc[p].out # NONE /\ Open(R(proc[p].out)) /\ buf[proc[p].out] < PipeSize
          /\ buf' = [buf EXCEPT ![proc[p].out] = @ + 1]
          /\ UNCHANGED output
    /\ UNCHANGED shell

(* SIGPIPE                                                                 *)
BrokenPipe(p) ==
    /\ Running(p) /\ proc[p].have = 1
    /\ proc[p].out # NONE /\ ~Open(R(proc[p].out))
    /\ proc' = Ended(<<p, "killed">>)
    /\ UNCHANGED <<shell, buf, output>>

EndOfFile(p) ==
    /\ Running(p) /\ proc[p].have = 0
    /\ \/ proc[p].in = NONE /\ proc[p].source = 0
       \/ proc[p].in # NONE /\ buf[proc[p].in] = 0 /\ ~Open(W(proc[p].in))
    /\ proc' = Ended(<<p, "done">>)
    /\ UNCHANGED <<shell, buf, output>>

(* The program ends before the end of its input, successfully or not.      *)
Quit(p) ==
    /\ Running(p)
    /\ \E how \in {"quit", "failed"} : proc' = Ended(<<p, how>>)
    /\ UNCHANGED <<shell, buf, output>>
-----------------------------------------------------------------------------
Builtins ==
    \/ Exit
    \/ \E arg \in Pids \cup {ANY} : Wait(arg)
    \/ \E p \in Pids : Kill(p)

RunPipeline == Pipe \/ Fork \/ CannotStart \/ ClosePipes \/ WaitForeground

ShellStep == RunPipeline \/ WaitBuiltin

Process(p) == ChildExec(p) \/ ReadItem(p) \/ WriteItem(p) \/ BrokenPipe(p) \/ EndOfFile(p)

(* The shell has ended and so have all processes.                          *)
Finished ==
    /\ sh = "exited"
    /\ \A p \in Pids : ~Alive(p)
    /\ UNCHANGED vars

Next ==
    \/ \E l \in Lines : ReadLine(l)
    \/ Builtins
    \/ ShellStep
    \/ \E p \in Pids : Process(p) \/ ChildFails(p) \/ Quit(p)
    \/ Finished

Spec == Init /\ [][Next]_vars

(* The scheduler runs the shell and every process; programs go on copying. *)
(* Nobody has to type a line, fail or quit early.                          *)
FairSpec ==
    /\ Spec
    /\ WF_vars(ShellStep)
    /\ \A p \in Pids : WF_vars(Process(p))
-----------------------------------------------------------------------------
Stages(n) == {p \in Pids : p[1] = n /\ proc[p].state # "none"}

(* A foreground pipeline that leaves status 0 is over: each of its          *)
(* processes has ended and been reaped, and none of them failed.            *)
SuccessMeansOver ==
    sh = "prompt" /\ Len(pipeline) > 0 /\ ~background /\ last_status = 0 =>
        /\ Cardinality(Stages(line)) = Len(pipeline)
        /\ \A p \in Stages(line) : proc[p].state = "reaped" /\ WEXITSTATUS(p) = 0

(* If every process of a pipeline runs to its end of file, the last one     *)
(* has put out every item: the stages are connected in order, nothing is    *)
(* lost in a pipe, and no stage sees an end of file that is not there.      *)
OutputIsComplete ==
    \A n \in 1 .. MaxLines :
        /\ \E p \in Stages(n) : proc[p].last
        /\ \A p \in Stages(n) : proc[p].ended = "done"
        => output[n] = Items

(* Unless pipe2 or fork fails, every process a pipeline starts ends and the *)
(* prompt comes back: no copy of a pipe end that fork made, for this line   *)
(* or another, keeps a reader from its end of file or a writer from         *)
(* SIGPIPE.                                                                 *)
EverythingEnds ==
    []<>(failures = 0 => sh \in {"prompt", "exited"} /\ \A p \in Pids : ~Alive(p))

(* When run_pipeline returns, a foreground pipeline has no live process     *)
(* (execute.c: "wait until all child processes terminate").                 *)
ForegroundWaitsForAll ==
    sh = "prompt" /\ Len(pipeline) > 0 /\ ~background => \A p \in Stages(line) : ~Alive(p)
=============================================================================
