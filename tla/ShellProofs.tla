----------------------------- MODULE ShellProofs -----------------------------
(***************************************************************************)
(* Proofs about the shell's pipelines (Shell), for any lines, numbers of   *)
(* commands and processes, capacity of a pipe and number of items.         *)
(*                                                                         *)
(* ShapeInv says where run_pipeline's loops are with the processes of the  *)
(* current line and what each record may hold; SuccessMeansOver follows.   *)
(* Flow adds how many items each process of a line has put out: what was   *)
(* put into a pipe is in it, in the reader's hands or put out by the       *)
(* reader.  The step that needs the shape is the end of file on a pipe: no *)
(* write end is open, so the process before, which was forked with one and *)
(* keeps it as its standard output, has ended.  OutputIsComplete follows   *)
(* by looking at the first process that has put out less than Items.       *)
(***************************************************************************)
EXTENDS Shell, FiniteSetTheorems, WellFoundedInduction, TLAPS

-----------------------------------------------------------------------------
(* The state.                                                               *)

Ends == (Pids \cup {NONE}) \X {"read", "write"}
Record == [state : {"none", "forked", "running", "zombie", "reaped"},
           ended : {"no", "done", "quit", "failed", "killed"},
           cmd : Commands \cup {NONE}, last : BOOLEAN, fds : SUBSET Ends,
           in : Pids \cup {NONE}, out : Pids \cup {NONE}, source : Nat, have : {0, 1}]

TypeOK ==
    /\ sh \in {"prompt", "pipe", "fork", "close", "wait", "builtin_wait", "exited"}
    /\ line \in 0 .. MaxLines /\ background \in BOOLEAN
    /\ pipeline \in Seq(Commands) /\ Len(pipeline) <= MaxCmds
    /\ pcnt \in 0 .. Len(pipeline) /\ i \in Nat
    /\ shell_fds \subseteq Ends
    /\ proc \in [Pids -> Record] /\ buf \in [Pids -> Nat] /\ output \in [1 .. MaxLines -> Nat]

(* The processes of a line, in terms of their own records.                  *)
Lives(r) == r.state \in {"forked", "running"}
RecordOK(p, r) ==
    /\ r.state = "none" => r = NoProcess
    /\ r.state # "none" => r.cmd \in Commands
    /\ Lives(r) <=> r.ended = "no" /\ r.state # "none"
    /\ r.state = "forked" => W(p) \in r.fds /\ r.have = 0
    /\ r.state = "running" => /\ r.in = IF p[2] = 1 \/ r.cmd.input_redir THEN NONE ELSE <<p[1], p[2] - 1>>
                              /\ r.out = IF r.cmd.output_redir \/ r.last THEN NONE ELSE p
    /\ r.state # "none" /\ r.cmd.output_redir => r.last
Records == \A p \in Pids : RecordOK(p, proc[p])

(* The processes of a line are forked in order, up to the last.             *)
State(n, k) == proc[<<n, k>>].state
InOrder ==
    \A n \in 1 .. MaxLines : \A k \in 1 .. MaxCmds : \A j \in 1 .. MaxCmds :
        /\ j < k /\ State(n, k) # "none" => State(n, j) # "none"
        /\ j > k /\ proc[<<n, k>>].last => State(n, j) = "none"

(* Where run_pipeline is with the current line.                             *)
Placed ==
    \A n \in 1 .. MaxLines : \A k \in 1 .. MaxCmds :
        /\ n > line => State(n, k) = "none"
        /\ n = line => (State(n, k) # "none" <=> k <= pcnt)
        /\ n = line => (proc[<<n, k>>].last <=> k <= pcnt /\ k = Len(pipeline))
AtLoop ==
    /\ sh \in {"pipe", "fork"} => pcnt < Len(pipeline) /\ i = 1
    /\ sh = "fork" => W(<<line, pcnt + 1>>) \in shell_fds
    /\ sh \in {"close", "wait"} => pcnt = Len(pipeline) /\ i \in 1 .. pcnt
    /\ sh \in {"pipe", "fork", "close", "wait"} \/ Len(pipeline) > 0 => line > 0
    /\ sh = "builtin_wait" => pipeline = <<>>
    /\ check_consistency(pipeline)
Progress == Placed /\ AtLoop

(* A process that has been waited for and has not failed.                   *)
Over(p) == proc[p].state = "reaped" /\ WEXITSTATUS(p) = 0
Waited ==
    /\ sh = "wait" => \A k \in 1 .. MaxCmds : k < i => Over(<<line, k>>)
    /\ sh = "prompt" /\ Len(pipeline) > 0 /\ ~background /\ last_status = 0 =>
          pcnt = Len(pipeline) /\ \A k \in 1 .. MaxCmds : k <= pcnt => Over(<<line, k>>)

ShapeInv == TypeOK /\ Records /\ InOrder /\ Progress /\ Waited

(* Items.  f[k] is what process k of a line has put out: r is its record,   *)
(* q that of the process before it, b the content of the pipe between them, *)
(* x and y what the two have put out and o the output of the line.          *)
Own(k, r) == k = 1 \/ r.cmd.input_redir
StageOK(k, r, q, b, x, y, o) ==
    /\ r.state \in {"none", "forked"} => x = 0
    /\ r.last => o = x
    /\ r.state = "running" /\ Own(k, r) => r.source + r.have + x = Items
    /\ r.ended = "done" /\ Own(k, r) => x = Items
    /\ r.state = "none" /\ k > 1 /\ ~q.last => y = b
    /\ Lives(r) /\ ~Own(k, r) => y = b + r.have + x
    /\ r.ended = "done" /\ ~Own(k, r) => y = x /\ q.state \in {"zombie", "reaped"}
Stage(n, k, f) ==
    StageOK(k, proc[<<n, k>>], proc[<<n, k - 1>>], buf[<<n, k - 1>>], f[k], f[k - 1], output[n])
LineOK(n, f) ==
    /\ \A k \in 1 .. MaxCmds : Stage(n, k, f)
    /\ (\A k \in 1 .. MaxCmds : ~proc[<<n, k>>].last) => output[n] = 0
Flow == \A n \in 1 .. MaxLines : \E f \in [1 .. MaxCmds -> Nat] : LineOK(n, f)
-----------------------------------------------------------------------------
(* Steps of one process.                                                    *)

(* A process by its line and its place.                                     *)
LEMMA PidsAre ==
  /\ \A p \in Pids : /\ p[1] \in 1 .. MaxLines /\ p[2] \in 1 .. MaxCmds
                     /\ p = <<p[1], p[2]>> /\ p # NONE
  /\ \A n \in 1 .. MaxLines, k \in 1 .. MaxCmds : <<n, k>> \in Pids
BY DEF Pids, NONE

(* The place before another, and the one after.                             *)
LEMMA Places ==
  /\ \A k \in 1 .. MaxCmds : k # 1 => k - 1 \in 1 .. MaxCmds /\ k - 1 # k
  /\ \A k, j \in 1 .. MaxCmds : k # j => k - 1 # j - 1
  /\ \A k, j \in 1 .. MaxCmds : k # j + 1 => k - 1 # j
BY BoundsAssumption

(* The record of a process that ends.                                       *)
EndedRec(r, how) == [r EXCEPT !.state = "zombie", !.ended = how, !.fds = {}, !.in = NONE, !.out = NONE,
                              !.source = 0, !.have = 0]
(* Ended replaces one record.                                               *)
LEMMA EndedIs ==
  ASSUME TypeOK, NEW p \in Pids, NEW how
  PROVE  Ended(<<p, how>>) = [proc EXCEPT ![p] = EndedRec(proc[p], how)]
BY DEF Ended, EndedRec, TypeOK

(* What a process may become in a step: it stays one of its line, last or   *)
(* not, and nothing happens to it once it has been waited for.              *)
Becomes(p, s) == /\ proc[p].state \in {"forked", "running", "zombie"}
                 /\ s \in Record /\ RecordOK(p, s)
                 /\ s.state # "none" /\ s.last = proc[p].last

(* A process that ends stays one of its line.                               *)
LEMMA EndedBecomes ==
  ASSUME TypeOK, Records, NEW p \in Pids, Alive(p), NEW how \in {"done", "quit", "failed", "killed"}
  PROVE  /\ Becomes(p, EndedRec(proc[p], how))
         /\ Ended(<<p, how>>) = [proc EXCEPT ![p] = EndedRec(proc[p], how)]
<1>1. PICK r \in Record : r = proc[p]
  BY DEF TypeOK
<1>2. RecordOK(p, r) /\ r.state \in {"forked", "running"}
  BY <1>1 DEF Records, Alive
<1>3. EndedRec(r, how) \in Record
  BY DEF EndedRec, Record
<1>4. /\ EndedRec(r, how).state = "zombie" /\ EndedRec(r, how).ended = how
      /\ EndedRec(r, how).last = r.last /\ EndedRec(r, how).cmd = r.cmd
  BY DEF EndedRec, Record
<1>5. RecordOK(p, EndedRec(r, how))
  BY <1>2, <1>4 DEF RecordOK, Lives
<1> QED BY <1>1, <1>2, <1>3, <1>4, <1>5, EndedIs DEF Becomes

(* waitpid on a zombie.                                                     *)
LEMMA ReapedBecomes ==
  ASSUME TypeOK, Records, NEW p \in Pids, proc[p].state = "zombie"
  PROVE  /\ Becomes(p, [proc[p] EXCEPT !.state = "reaped"])
         /\ [proc EXCEPT ![p].state = "reaped"] = [proc EXCEPT ![p] = [proc[p] EXCEPT !.state = "reaped"]]
<1>1. PICK r \in Record : r = proc[p]
  BY DEF TypeOK
<1> DEFINE s == [r EXCEPT !.state = "reaped"]
<1>2. RecordOK(p, r) /\ r.state = "zombie"
  BY <1>1 DEF Records
<1>3. /\ s \in Record /\ s.state = "reaped" /\ s.ended = r.ended /\ s.last = r.last /\ s.cmd = r.cmd
  BY DEF Record
<1>4. RecordOK(p, s)
  <2> HIDE DEF s
  <2> QED BY <1>2, <1>3 DEF RecordOK, Lives
<1>5. [proc EXCEPT ![p].state = "reaped"] = [proc EXCEPT ![p] = [proc[p] EXCEPT !.state = "reaped"]]
  BY DEF TypeOK
<1> QED BY <1>1, <1>2, <1>3, <1>4, <1>5 DEF Becomes

(* ... keeps the shape of its line.                                         *)
LEMMA OneBecomes ==
  ASSUME TypeOK, Records, InOrder, NEW p \in Pids, NEW s, Becomes(p, s), proc' = [proc EXCEPT ![p] = s]
  PROVE  /\ proc' \in [Pids -> Record] /\ Records' /\ InOrder'
         /\ \A n \in 1 .. MaxLines, k \in 1 .. MaxCmds :
               /\ State(n, k)' = "none" <=> State(n, k) = "none"
               /\ proc'[<<n, k>>].last = proc[<<n, k>>].last
         /\ \A q \in Pids : Over(q) => Over(q)'
<1>1. proc \in [Pids -> Record] /\ s \in Record
  BY DEF TypeOK, Becomes
<1>2. /\ proc' \in [Pids -> Record] /\ proc'[p] = s
      /\ \A q \in Pids : q # p => proc'[q] = proc[q]
  BY <1>1
<1>3. Records'
  BY <1>2 DEF Records, Becomes
<1>4. \A n \in 1 .. MaxLines, k \in 1 .. MaxCmds :
         /\ State(n, k)' = "none" <=> State(n, k) = "none"
         /\ proc'[<<n, k>>].last = proc[<<n, k>>].last
  <2> SUFFICES ASSUME NEW n \in 1 .. MaxLines, NEW k \in 1 .. MaxCmds
               PROVE  /\ State(n, k)' = "none" <=> State(n, k) = "none"
                      /\ proc'[<<n, k>>].last = proc[<<n, k>>].last
    OBVIOUS
  <2>1. PICK q \in Pids : q = <<n, k>>
    BY PidsAre
  <2> QED BY <2>1, <1>2 DEF State, Becomes
<1>5. InOrder'
  <2> SUFFICES ASSUME NEW n \in 1 .. MaxLines, NEW k \in 1 .. MaxCmds, NEW j \in 1 .. MaxCmds
               PROVE  /\ j < k /\ State(n, k)' # "none" => State(n, j)' # "none"
                      /\ j > k /\ proc'[<<n, k>>].last => State(n, j)' = "none"
    BY DEF InOrder
  <2> QED BY <1>4 DEF InOrder
<1>6. ASSUME NEW q \in Pids, Over(q) PROVE Over(q)'
  <2>1. q # p
    BY <1>6 DEF Over, Becomes
  <2> QED BY <1>2, <1>6, <2>1 DEF Over, WEXITSTATUS
<1> QED BY <1>2, <1>3, <1>4, <1>5, <1>6

(* What a step makes of the record r of process p: Moved relates r to the   *)
(* record s it becomes.                                                     *)
Moved(p, s) == Becomes(p, s) /\ proc' = [proc EXCEPT ![p] = s]
ExecTo(k, r, s) ==
    /\ r.state = "forked" /\ s.state = "running" /\ s.ended = "no" /\ r.ended = "no" /\ s.cmd = r.cmd
    /\ r.have = 0 /\ s.have = 0 /\ s.source = IF Own(k, r) THEN Items ELSE 0
CopyTo(r, s) == /\ r.state = "running" /\ s.state = "running" /\ s.ended = "no" /\ r.ended = "no"
                /\ s.cmd = r.cmd

(* exec: the process runs, its source is full if it reads a file.           *)
LEMMA ExecMoves ==
  ASSUME TypeOK, Records, NEW p \in Pids, ChildExec(p)
  PROVE  \E s : Moved(p, s) /\ ExecTo(p[2], proc[p], s)
<1>1. PICK r \in Record : r = proc[p]
  BY DEF TypeOK
<1>2. RecordOK(p, r) /\ r.state = "forked"
  BY <1>1 DEF Records, ChildExec
<1>3. PICK a : a = Stdin(p)
  OBVIOUS
<1>4. PICK c : c = Stdout(p)
  OBVIOUS
<1>5. PICK m : m = IF Stdin(p) = NONE THEN Items ELSE 0
  OBVIOUS
<1>6. /\ r.ended = "no" /\ r.have = 0 /\ r.cmd \in Commands
      /\ r.cmd.output_redir => r.last
  BY <1>2 DEF RecordOK, Lives
<1>7. /\ a = IF Own(p[2], r) THEN NONE ELSE <<p[1], p[2] - 1>>
      /\ c = IF r.cmd.output_redir \/ r.last THEN NONE ELSE p
  BY <1>1, <1>3, <1>4 DEF Stdin, Stdout, Own
<1>8. a \in Pids \cup {NONE} /\ c \in Pids \cup {NONE}
  <2>1. PICK n \in 1 .. MaxLines, k \in 1 .. MaxCmds : n = p[1] /\ k = p[2] /\ p = <<n, k>>
    BY PidsAre
  <2>2. ~Own(p[2], r) => <<n, k - 1>> \in Pids
    <3> SUFFICES ASSUME k # 1 PROVE <<n, k - 1>> \in Pids
      BY <2>1 DEF Own
    <3>1. k - 1 \in 1 .. MaxCmds
      BY BoundsAssumption
    <3> QED BY <3>1, PidsAre
  <2> QED BY <1>7, <2>1, <2>2
<1>9. m \in Nat /\ m = IF Own(p[2], r) THEN Items ELSE 0
  <2>1. ~Own(p[2], r) => a # NONE
    BY <1>7, PidsAre DEF NONE
  <2> QED BY <1>3, <1>5, <1>7, <2>1, BoundsAssumption
<1> DEFINE s == [r EXCEPT !.state = "running", !.fds = {}, !.in = a, !.out = c, !.source = m]
<1>10. /\ s \in Record /\ s.state = "running" /\ s.ended = r.ended /\ s.last = r.last /\ s.cmd = r.cmd
       /\ s.in = a /\ s.out = c /\ s.source = m /\ s.have = r.have
  BY <1>8, <1>9 DEF Record
<1>11. proc' = [proc EXCEPT ![p] = s]
  BY <1>1, <1>3, <1>4, <1>5 DEF ChildExec
<1> HIDE DEF s
<1>12. RecordOK(p, s)
  BY <1>6, <1>7, <1>10 DEF RecordOK, Lives, Own
<1>13. Moved(p, s)
  BY <1>1, <1>2, <1>10, <1>11, <1>12 DEF Moved, Becomes
<1>14. ExecTo(p[2], r, s)
  BY <1>2, <1>6, <1>9, <1>10 DEF ExecTo
<1> QED BY <1>1, <1>13, <1>14

(* A read takes an item from the source or from the pipe before.            *)
ReadTo(p, r, s) ==
    /\ CopyTo(r, s) /\ r.have = 0 /\ s.have = 1
    /\ \/ Own(p[2], r) /\ r.source > 0 /\ s.source = r.source - 1 /\ buf' = buf
       \/ /\ ~Own(p[2], r) /\ s.source = r.source /\ buf[<<p[1], p[2] - 1>>] > 0
          /\ buf' = [buf EXCEPT ![<<p[1], p[2] - 1>>] = @ - 1]
(* ReadItem is such a step.                                                 *)
LEMMA ReadMoves ==
  ASSUME TypeOK, Records, NEW p \in Pids, ReadItem(p)
  PROVE  \E s : Moved(p, s) /\ ReadTo(p, proc[p], s)
<1>1. PICK r \in Record : r = proc[p]
  BY DEF TypeOK
<1>2. RecordOK(p, r) /\ r.state = "running" /\ r.have = 0
  BY <1>1 DEF Records, ReadItem, Running
<1>3. /\ r.ended = "no" /\ r.cmd \in Commands
      /\ r.in = IF Own(p[2], r) THEN NONE ELSE <<p[1], p[2] - 1>>
  BY <1>2 DEF RecordOK, Lives, Own
<1>4. r.in = NONE <=> Own(p[2], r)
  BY <1>3, PidsAre DEF NONE
<1>5. CASE r.in = NONE
  <2> DEFINE s == [r EXCEPT !.source = r.source - 1, !.have = 1]
  <2>1. r.source > 0 /\ r.source \in Nat /\ buf' = buf /\ proc' = [proc EXCEPT ![p].source = @ - 1, ![p].have = 1]
    BY <1>1, <1>5 DEF ReadItem, Record
  <2>2. proc' = [proc EXCEPT ![p] = s]
    <3>1. proc \in [Pids -> Record]
      BY DEF TypeOK
    <3> QED BY <1>1, <2>1, <3>1 DEF Record
  <2>3. r.source - 1 \in Nat
    BY <2>1
  <2>4. /\ s \in Record /\ s.state = r.state /\ s.ended = r.ended /\ s.last = r.last /\ s.cmd = r.cmd
        /\ s.in = r.in /\ s.out = r.out /\ s.source = r.source - 1 /\ s.have = 1
    BY <2>3 DEF Record
  <2> HIDE DEF s
  <2>5. RecordOK(p, s)
    BY <1>2, <2>4 DEF RecordOK, Lives
  <2>6. Moved(p, s)
    BY <1>1, <1>2, <2>2, <2>4, <2>5 DEF Moved, Becomes
  <2>7. ReadTo(p, r, s)
    BY <1>2, <1>3, <1>4, <1>5, <2>1, <2>4 DEF ReadTo, CopyTo
  <2> QED BY <1>1, <2>6, <2>7
<1>6. CASE r.in # NONE
  <2> DEFINE s == [r EXCEPT !.have = 1]
  <2>1. /\ buf[r.in] > 0 /\ buf' = [buf EXCEPT ![r.in] = @ - 1] /\ proc' = [proc EXCEPT ![p].have = 1]
    BY <1>1, <1>6 DEF ReadItem
  <2>2. proc' = [proc EXCEPT ![p] = s]
    BY <1>1, <2>1
  <2>4. /\ s \in Record /\ s.state = r.state /\ s.ended = r.ended /\ s.last = r.last /\ s.cmd = r.cmd
        /\ s.in = r.in /\ s.out = r.out /\ s.source = r.source /\ s.have = 1
    BY DEF Record
  <2> HIDE DEF s
  <2>5. RecordOK(p, s)
    BY <1>2, <2>4 DEF RecordOK, Lives
  <2>6. Moved(p, s)
    BY <1>1, <1>2, <2>2, <2>4, <2>5 DEF Moved, Becomes
  <2>7. ReadTo(p, r, s)
    BY <1>2, <1>3, <1>4, <1>6, <2>1, <2>4 DEF ReadTo, CopyTo
  <2> QED BY <1>1, <2>6, <2>7
<1> QED BY <1>5, <1>6

(* A write puts it in the process's own pipe or in the output of its line.  *)
WriteTo(p, r, s) ==
    /\ CopyTo(r, s) /\ r.have = 1 /\ s.have = 0 /\ s.source = r.source
    /\ \/ r.last /\ output' = [output EXCEPT ![p[1]] = @ + 1] /\ buf' = buf
       \/ ~r.last /\ buf' = [buf EXCEPT ![p] = @ + 1] /\ output' = output
(* WriteItem is such a step.                                                *)
LEMMA WriteMoves ==
  ASSUME TypeOK, Records, NEW p \in Pids, WriteItem(p)
  PROVE  \E s : Moved(p, s) /\ WriteTo(p, proc[p], s)
<1>1. PICK r \in Record : r = proc[p]
  BY DEF TypeOK
<1>2. RecordOK(p, r) /\ r.state = "running" /\ r.have = 1
  BY <1>1 DEF Records, WriteItem, Running
<1>3. /\ r.ended = "no" /\ r.cmd \in Commands /\ r.last \in BOOLEAN
      /\ r.out = IF r.last THEN NONE ELSE p
  BY <1>2 DEF RecordOK, Lives, Record
<1>4. r.out = NONE <=> r.last
  BY <1>3, PidsAre
<1> DEFINE s == [r EXCEPT !.have = 0]
<1>5. proc' = [proc EXCEPT ![p] = s]
  BY <1>1 DEF WriteItem
<1>6. \/ r.last /\ output' = [output EXCEPT ![p[1]] = @ + 1] /\ buf' = buf
      \/ ~r.last /\ buf' = [buf EXCEPT ![p] = @ + 1] /\ output' = output
  BY <1>1, <1>3, <1>4 DEF WriteItem
<1>7. /\ s \in Record /\ s.state = r.state /\ s.ended = r.ended /\ s.last = r.last /\ s.cmd = r.cmd
      /\ s.in = r.in /\ s.out = r.out /\ s.source = r.source /\ s.have = 0
  BY DEF Record
<1> HIDE DEF s
<1>8. RecordOK(p, s)
  BY <1>2, <1>7 DEF RecordOK, Lives
<1>9. Moved(p, s)
  BY <1>1, <1>2, <1>5, <1>7, <1>8 DEF Moved, Becomes
<1>10. WriteTo(p, r, s)
  BY <1>2, <1>3, <1>6, <1>7 DEF WriteTo, CopyTo
<1> QED BY <1>1, <1>9, <1>10

(* A process that ends, and one that is waited for.                         *)
EndTo(r, s, how) == /\ r.state \in {"forked", "running"} /\ s.state = "zombie" /\ s.ended = how
                    /\ s.cmd = r.cmd
ReapTo(r, s) == /\ r.state = "zombie" /\ s.state = "reaped" /\ s.ended = r.ended /\ s.cmd = r.cmd
(* Ended is such a step.                                                    *)
LEMMA EndMoves ==
  ASSUME TypeOK, Records, NEW p \in Pids, Alive(p), NEW how \in {"done", "quit", "failed", "killed"},
         proc' = Ended(<<p, how>>)
  PROVE  \E s : Moved(p, s) /\ EndTo(proc[p], s, how)
<1>1. PICK r \in Record : r = proc[p]
  BY DEF TypeOK
<1>2. PICK s : s = EndedRec(proc[p], how)
  OBVIOUS
<1>3. Moved(p, s)
  BY <1>2, EndedBecomes DEF Moved
<1>4. s.state = "zombie" /\ s.ended = how /\ s.cmd = r.cmd
  BY <1>1, <1>2 DEF EndedRec, Record
<1> QED BY <1>1, <1>3, <1>4 DEF EndTo, Alive

(* So is waitpid.                                                           *)
LEMMA ReapMoves ==
  ASSUME TypeOK, Records, NEW p \in Pids, proc[p].state = "zombie", proc' = [proc EXCEPT ![p].state = "reaped"]
  PROVE  \E s : Moved(p, s) /\ ReapTo(proc[p], s)
<1>1. PICK r \in Record : r = proc[p]
  BY DEF TypeOK
<1>2. PICK s : s = [proc[p] EXCEPT !.state = "reaped"]
  OBVIOUS
<1>3. Moved(p, s)
  BY <1>2, ReapedBecomes DEF Moved
<1>4. s.state = "reaped" /\ s.ended = r.ended /\ s.cmd = r.cmd
  BY <1>1, <1>2 DEF Record
<1> QED BY <1>1, <1>3, <1>4 DEF ReapTo

-----------------------------------------------------------------------------
(* The shape of the lines.                                                  *)

(* What a step on processes that exist leaves as it was.                    *)
SameForks == \A n \in 1 .. MaxLines, k \in 1 .. MaxCmds :
    /\ State(n, k)' = "none" <=> State(n, k) = "none"
    /\ proc'[<<n, k>>].last = proc[<<n, k>>].last
Kept == /\ proc' \in [Pids -> Record] /\ Records' /\ InOrder' /\ SameForks
        /\ \A q \in Pids : Over(q) => Over(q)'
(* A step of one process keeps them.                                        *)
LEMMA MovedKeeps ==
  ASSUME TypeOK, Records, InOrder, NEW p \in Pids, NEW s, Moved(p, s)
  PROVE  Kept
BY OneBecomes DEF Moved, Kept, SameForks

(* A step of the shell alone keeps them.                                    *)
LEMMA SameKeeps ==
  ASSUME TypeOK, Records, InOrder, proc' = proc
  PROVE  Kept
BY DEF Kept, SameForks, TypeOK, Records, InOrder, State, Over, WEXITSTATUS

(* The current line as long as the shell stays on it.                       *)
LEMMA PlacedStays ==
  ASSUME Placed, Kept, UNCHANGED <<line, pcnt, pipeline>>
  PROVE  Placed'
<1> SUFFICES ASSUME NEW n \in 1 .. MaxLines, NEW k \in 1 .. MaxCmds
             PROVE  /\ n > line => State(n, k)' = "none"
                    /\ n = line => (State(n, k)' # "none" <=> k <= pcnt)
                    /\ n = line => (proc'[<<n, k>>].last <=> k <= pcnt /\ k = Len(pipeline))
  BY DEF Placed
<1> QED BY DEF Placed, Kept, SameForks

(* No process of a line exists before the shell reads it.                   *)
LEMMA PlacedNext ==
  ASSUME TypeOK, Records, Placed, Kept, line' = line + 1, pcnt' = 0
  PROVE  Placed'
<1> SUFFICES ASSUME NEW n \in 1 .. MaxLines, NEW k \in 1 .. MaxCmds
             PROVE  /\ n > line' => State(n, k)' = "none"
                    /\ n = line' => (State(n, k)' # "none" <=> k <= pcnt')
                    /\ n = line' => (proc'[<<n, k>>].last <=> k <= pcnt' /\ k = Len(pipeline'))
  BY DEF Placed
<1>1. line \in Nat /\ n \in Nat /\ k \in Nat /\ ~(k <= pcnt')
  BY BoundsAssumption DEF TypeOK
<1>2. n >= line' => n > line
  BY <1>1
<1>3. n >= line' => State(n, k)' = "none" /\ State(n, k) = "none"
  BY <1>2 DEF Placed, Kept, SameForks
<1>4. n >= line' => ~proc'[<<n, k>>].last
  <2> SUFFICES ASSUME n >= line' PROVE ~proc'[<<n, k>>].last
    OBVIOUS
  <2>1. PICK q \in Pids : q = <<n, k>>
    BY PidsAre
  <2>2. proc[q].state = "none" /\ proc'[q].last = proc[q].last
    BY <1>3, <2>1 DEF Kept, SameForks, State
  <2>3. proc[q] = NoProcess
    BY <2>2 DEF Records, RecordOK
  <2> QED BY <2>1, <2>2, <2>3 DEF NoProcess
<1> QED BY <1>1, <1>3, <1>4

(* The shell reads a line or runs a builtin.                                *)
LEMMA ReadLineShape ==
  ASSUME ShapeInv, NEW l \in Lines, ReadLine(l)
  PROVE  ShapeInv'
<1>1. Kept
  BY SameKeeps DEF ShapeInv, ReadLine
<1>2. Placed'
  BY <1>1, PlacedNext DEF ShapeInv, Progress, ReadLine
<1>3. TypeOK'
  <2>1. l.cmds \in Seq(Commands) /\ Len(l.cmds) \in 1 .. MaxCmds /\ l.background \in BOOLEAN
    BY LinesAssumption
  <2>2. pipeline' \in Seq(Commands) /\ Len(pipeline') <= MaxCmds /\ Len(pipeline') \in Nat
    <3>1. pipeline' = l.cmds \/ pipeline' = <<>>
      BY DEF ReadLine
    <3>2. Len(<<>>) = 0 /\ <<>> \in Seq(Commands)
      OBVIOUS
    <3>3. PICK c : c = l.cmds
      OBVIOUS
    <3>4. c \in Seq(Commands) /\ Len(c) \in Nat /\ Len(c) <= MaxCmds /\ 0 <= MaxCmds
      BY <2>1, <3>3, BoundsAssumption
    <3>5. CASE pipeline' = c
      BY <3>4, <3>5
    <3>6. CASE pipeline' = <<>>
      BY <3>2, <3>4, <3>6
    <3> QED BY <3>1, <3>3, <3>5, <3>6
  <2>3. line' \in 0 .. MaxLines /\ pcnt' \in 0 .. Len(pipeline') /\ i' \in Nat
    BY <2>2, BoundsAssumption DEF ReadLine, ShapeInv, TypeOK
  <2> QED BY <2>1, <2>2, <2>3 DEF ReadLine, ShapeInv, TypeOK
<1>4. AtLoop' /\ Waited'
  <2>1. CASE check_consistency(l.cmds) /\ pipeline' = l.cmds /\ sh' = "pipe"
    <3>1. check_consistency(pipeline)'
      BY <2>1 DEF check_consistency
    <3>2. pcnt' = 0 /\ i' = 1 /\ Len(pipeline') \in 1 .. MaxCmds /\ line' > 0
      BY <2>1, LinesAssumption, BoundsAssumption DEF ReadLine, ShapeInv, TypeOK
    <3> QED BY <2>1, <3>1, <3>2 DEF AtLoop, Waited
  <2>2. CASE ~check_consistency(l.cmds) /\ pipeline' = <<>> /\ sh' = "prompt"
    BY <2>2 DEF AtLoop, Waited, check_consistency
  <2> QED BY <2>1, <2>2 DEF ReadLine
<1> QED BY <1>1, <1>2, <1>3, <1>4 DEF ShapeInv, Progress, Kept

(* wait and kill leave the shell with an empty pipeline.                    *)
LEMMA BuiltinShape ==
  ASSUME ShapeInv, Builtin, Kept, sh' \in {"prompt", "builtin_wait"}
  PROVE  ShapeInv'
<1>2. Placed'
  BY PlacedNext DEF ShapeInv, Progress, Builtin
<1>3. TypeOK'
  <2>1. pipeline' \in Seq(Commands) /\ Len(pipeline') = 0
    BY DEF Builtin
  <2>2. line' \in 0 .. MaxLines /\ pcnt' \in 0 .. Len(pipeline') /\ i' \in Nat /\ Len(pipeline') <= MaxCmds
    BY <2>1, BoundsAssumption DEF Builtin, ShapeInv, TypeOK
  <2> QED BY <2>1, <2>2 DEF Builtin, ShapeInv, TypeOK, Kept
<1>4. AtLoop' /\ Waited'
  <2>1. pipeline' = <<>> /\ Len(pipeline') = 0
    BY DEF Builtin
  <2> QED BY <2>1 DEF AtLoop, Waited, check_consistency
<1> QED BY <1>2, <1>3, <1>4 DEF ShapeInv, Progress, Kept

(* The shell stays on its line: its loop indices and what it has waited for *)
(* remain to be shown.                                                      *)
LEMMA StayShape ==
  ASSUME ShapeInv, Kept, UNCHANGED <<line, pcnt, pipeline, background>>,
         sh' \in {"prompt", "pipe", "fork", "close", "wait", "builtin_wait", "exited"}, i' \in Nat,
         shell_fds' \subseteq Ends, buf' \in [Pids -> Nat], output' \in [1 .. MaxLines -> Nat],
         AtLoop', Waited'
  PROVE  ShapeInv'
<1>1. Placed'
  BY PlacedStays DEF ShapeInv, Progress
<1>2. TypeOK'
  BY DEF ShapeInv, TypeOK, Kept
<1> QED BY <1>1, <1>2 DEF ShapeInv, Progress, Kept

(* The pipelines and the wait builtin.                                      *)
LEMMA ExitShape ==
  ASSUME ShapeInv, Exit
  PROVE  ShapeInv'
<1>1. Kept
  BY SameKeeps DEF ShapeInv, Exit
<1>2. AtLoop' /\ Waited'
  <2>1. check_consistency(pipeline)' /\ (Len(pipeline') > 0 => line' > 0)
    BY DEF ShapeInv, Progress, AtLoop, Exit, check_consistency
  <2> QED BY <2>1 DEF AtLoop, Waited, Exit
<1> QED BY <1>1, <1>2, StayShape DEF Exit, ShapeInv, TypeOK

(* pipe2: the write end of the next pipe is in the shell's hands.           *)
LEMMA PipeShape ==
  ASSUME ShapeInv, Pipe
  PROVE  ShapeInv'
<1>1. Kept
  BY SameKeeps DEF ShapeInv, Pipe
<1>2. check_consistency(pipeline)'
  BY DEF ShapeInv, Progress, AtLoop, Pipe, check_consistency
<1>3. pcnt < Len(pipeline) /\ i = 1 /\ line > 0
  BY DEF ShapeInv, Progress, AtLoop, Pipe
<1>4. <<line, pcnt + 1>> \in Pids
  <2>1. line \in 1 .. MaxLines /\ pcnt + 1 \in 1 .. MaxCmds
    BY <1>3, BoundsAssumption DEF ShapeInv, TypeOK
  <2> QED BY <2>1, PidsAre
<1>5. shell_fds' \subseteq Ends /\ W(<<line', pcnt' + 1>>) \in shell_fds'
  <2>1. PICK q \in Pids : q = <<line, pcnt + 1>>
    BY <1>4
  <2>2. shell_fds' = shell_fds \cup {R(q), W(q)} /\ UNCHANGED <<line, pcnt>>
    BY <2>1 DEF Pipe
  <2>3. R(q) \in Ends /\ W(q) \in Ends /\ shell_fds \subseteq Ends
    BY DEF Ends, R, W, ShapeInv, TypeOK
  <2> QED BY <2>1, <2>2, <2>3
<1>6. AtLoop' /\ Waited'
  <2>1. sh' = "fork" /\ UNCHANGED <<line, pipeline, pcnt, i>>
    BY DEF Pipe
  <2> QED BY <1>2, <1>3, <1>5, <2>1 DEF AtLoop, Waited, W
<1> QED BY <1>1, <1>5, <1>6, StayShape DEF Pipe, ShapeInv, TypeOK

(* A failed pipe2 or fork: status 1.                                        *)
LEMMA CannotStartShape ==
  ASSUME ShapeInv, CannotStart
  PROVE  ShapeInv'
<1>1. Kept
  BY SameKeeps DEF ShapeInv, CannotStart
<1>2. AtLoop' /\ Waited'
  <2>1. check_consistency(pipeline)' /\ (Len(pipeline') > 0 => line' > 0)
    BY DEF ShapeInv, Progress, AtLoop, CannotStart, check_consistency
  <2> QED BY <2>1 DEF AtLoop, Waited, CannotStart, Return
<1> QED BY <1>1, <1>2, StayShape DEF CannotStart, Return, ShapeInv, TypeOK

(* The parent's loop over its pipes, and the way to the waiting loop.       *)
LEMMA ClosePipesShape ==
  ASSUME ShapeInv, ClosePipes
  PROVE  ShapeInv'
<1>1. Kept
  BY SameKeeps DEF ShapeInv, ClosePipes
<1>2. check_consistency(pipeline)'
  BY DEF ShapeInv, Progress, AtLoop, ClosePipes, check_consistency
<1>3. pcnt = Len(pipeline) /\ i \in 1 .. pcnt /\ line > 0 /\ pcnt \in Nat
  BY BoundsAssumption DEF ShapeInv, TypeOK, Progress, AtLoop, ClosePipes
<1>4. /\ UNCHANGED <<line, pipeline, pcnt, background>> /\ sh = "close"
      /\ shell_fds' \subseteq Ends
  BY DEF ClosePipes, ShapeInv, TypeOK
<1>5. CASE i < pcnt /\ i' = i + 1 /\ UNCHANGED <<sh, last_status>>
  <2>1. i' \in 1 .. pcnt' /\ i' \in Nat
    BY <1>3, <1>4, <1>5
  <2>2. AtLoop' /\ Waited'
    BY <1>2, <1>3, <1>4, <1>5, <2>1 DEF AtLoop, Waited
  <2> QED BY <1>1, <1>4, <1>5, <2>1, <2>2, StayShape DEF ClosePipes, ShapeInv, TypeOK
<1>6. CASE i = pcnt /\ background /\ Return(0) /\ UNCHANGED i
  <2>2. AtLoop' /\ Waited'
    BY <1>2, <1>3, <1>4, <1>6 DEF AtLoop, Waited, Return
  <2> QED BY <1>1, <1>4, <1>6, <2>2, StayShape DEF ClosePipes, Return, ShapeInv, TypeOK
<1>7. CASE i = pcnt /\ ~background /\ i' = 1 /\ sh' = "wait" /\ UNCHANGED last_status
  <2>1. i' \in 1 .. pcnt' /\ i' \in Nat
    BY <1>3, <1>4, <1>7
  <2>2. AtLoop'
    BY <1>2, <1>3, <1>4, <1>7, <2>1 DEF AtLoop
  <2>3. Waited'
    <3>1. \A k \in 1 .. MaxCmds : ~(k < i')
      BY <1>7, BoundsAssumption
    <3> QED BY <1>7, <3>1 DEF Waited
  <2> QED BY <1>1, <1>4, <1>7, <2>1, <2>2, <2>3, StayShape DEF ClosePipes, ShapeInv, TypeOK
<1> QED BY <1>5, <1>6, <1>7 DEF ClosePipes

(* waitpid: the loop goes on only over processes that have not failed.      *)
LEMMA WaitForegroundShape ==
  ASSUME ShapeInv, WaitForeground
  PROVE  ShapeInv'
<1>1. check_consistency(pipeline)'
  BY DEF ShapeInv, Progress, AtLoop, WaitForeground, check_consistency
<1>2. pcnt = Len(pipeline) /\ i \in 1 .. pcnt /\ line > 0 /\ pcnt \in Nat /\ pcnt <= MaxCmds
  BY BoundsAssumption DEF ShapeInv, TypeOK, Progress, AtLoop, WaitForeground
<1>3. PICK p \in Pids : p = <<line, i>>
  <2>1. line \in 1 .. MaxLines /\ i \in 1 .. MaxCmds
    BY <1>2, BoundsAssumption DEF ShapeInv, TypeOK
  <2> QED BY <2>1, PidsAre
<1>4. PICK s : Moved(p, s) /\ ReapTo(proc[p], s)
  BY <1>3, ReapMoves DEF WaitForeground, ShapeInv
<1>5. Kept
  BY <1>4, MovedKeeps DEF ShapeInv
<1>6. /\ UNCHANGED <<line, pipeline, pcnt, background, shell_fds, buf, output>> /\ sh = "wait"
      /\ shell_fds' \subseteq Ends /\ buf' \in [Pids -> Nat] /\ output' \in [1 .. MaxLines -> Nat]
  BY DEF WaitForeground, ShapeInv, TypeOK
<1>7. \A k \in 1 .. MaxCmds : k < i => Over(<<line, k>>)'
  <2> SUFFICES ASSUME NEW k \in 1 .. MaxCmds, k < i PROVE Over(<<line, k>>)'
    OBVIOUS
  <2>1. Over(<<line, k>>)
    BY <1>6 DEF ShapeInv, Waited
  <2>2. line \in 1 .. MaxLines
    BY <1>2, BoundsAssumption DEF ShapeInv, TypeOK
  <2>3. PICK q \in Pids : q = <<line, k>>
    BY <2>2, PidsAre
  <2>4. Over(q)'
    BY <2>1, <2>3, <1>5 DEF Kept
  <2> QED BY <2>3, <2>4, <1>6 DEF Over, WEXITSTATUS
<1>8. WEXITSTATUS(p) = 0 => \A k \in 1 .. MaxCmds : k <= i => Over(<<line, k>>)'
  <2> SUFFICES ASSUME WEXITSTATUS(p) = 0, NEW k \in 1 .. MaxCmds, k <= i PROVE Over(<<line, k>>)'
    OBVIOUS
  <2>1. CASE k < i
    BY <1>7, <2>1
  <2>2. CASE k = i
    <3>1. proc'[p] = s
      BY <1>4 DEF Moved, ShapeInv, TypeOK
    <3>2. Over(p)'
      BY <1>4, <3>1 DEF Over, WEXITSTATUS, ReapTo
    <3> QED BY <3>2, <1>3, <1>6, <2>2 DEF Over, WEXITSTATUS
  <2>3. k < i \/ k = i
    BY <1>2, BoundsAssumption
  <2> QED BY <2>1, <2>2, <2>3
<1>9. CASE WEXITSTATUS(p) # 0 /\ Return(1) /\ UNCHANGED i
  <2>1. AtLoop' /\ Waited'
    BY <1>1, <1>2, <1>6, <1>9 DEF AtLoop, Waited, Return
  <2>2. sh' = "prompt" /\ i' \in Nat
    BY <1>9 DEF Return, ShapeInv, TypeOK
  <2> QED BY <1>5, <1>6, <2>1, <2>2, StayShape
<1>10. CASE WEXITSTATUS(p) = 0 /\ i < pcnt /\ i' = i + 1 /\ UNCHANGED <<sh, last_status>>
  <2>1. i' \in 1 .. pcnt' /\ i' \in Nat
    BY <1>2, <1>6, <1>10
  <2>2. AtLoop'
    BY <1>1, <1>2, <1>6, <1>10, <2>1 DEF AtLoop
  <2>3. \A k \in 1 .. MaxCmds : k < i' => k <= i
    BY <1>2, <1>10, BoundsAssumption
  <2>4. Waited'
    BY <1>6, <1>8, <1>10, <2>3 DEF Waited, Over, WEXITSTATUS
  <2> QED BY <1>5, <1>6, <1>10, <2>1, <2>2, <2>4, StayShape
<1>11. CASE WEXITSTATUS(p) = 0 /\ i = pcnt /\ Return(0) /\ UNCHANGED i
  <2>1. AtLoop'
    BY <1>1, <1>2, <1>6, <1>11 DEF AtLoop, Return
  <2>2. Waited'
    BY <1>2, <1>6, <1>8, <1>11 DEF Waited, Return, Over, WEXITSTATUS
  <2>3. sh' = "prompt" /\ i' \in Nat
    BY <1>11 DEF Return, ShapeInv, TypeOK
  <2> QED BY <1>5, <1>6, <2>1, <2>2, <2>3, StayShape
<1> QED BY <1>3, <1>9, <1>10, <1>11 DEF WaitForeground

(* The wait builtin reaps a process and has no pipeline.                    *)
LEMMA WaitBuiltinShape ==
  ASSUME ShapeInv, WaitBuiltin
  PROVE  ShapeInv'
<1>1. Kept
  <2>1. ASSUME NEW p \in Awaited, proc[p].state = "zombie", proc' = [proc EXCEPT ![p].state = "reaped"]
        PROVE  Kept
    <3>1. p \in Pids
      BY DEF Awaited
    <3>2. PICK s : Moved(p, s)
      BY <2>1, <3>1, ReapMoves DEF ShapeInv
    <3> QED BY <3>1, <3>2, MovedKeeps DEF ShapeInv
  <2> QED BY <2>1, SameKeeps DEF WaitBuiltin, ShapeInv
<1>2. sh' = "prompt" /\ pipeline' = <<>>
  BY DEF WaitBuiltin, Return, ShapeInv, Progress, AtLoop
<1>3. AtLoop' /\ Waited'
  BY <1>2 DEF AtLoop, Waited, check_consistency
<1> QED BY <1>1, <1>2, <1>3, StayShape DEF WaitBuiltin, ShapeInv, TypeOK

(* A step of a process.                                                     *)
LEMMA ProcessShape ==
  ASSUME ShapeInv, Kept, UNCHANGED shell, buf' \in [Pids -> Nat], output' \in [1 .. MaxLines -> Nat]
  PROVE  ShapeInv'
<1>1. /\ UNCHANGED <<line, pcnt, pipeline, background, sh, i, shell_fds, last_status>>
  BY DEF shell
<1>2. AtLoop'
  BY <1>1 DEF ShapeInv, Progress, AtLoop, check_consistency, W
<1>3. line > 0 => \A k \in 1 .. MaxCmds : Over(<<line, k>>) => Over(<<line, k>>)'
  <2> SUFFICES ASSUME line > 0, NEW k \in 1 .. MaxCmds, Over(<<line, k>>) PROVE Over(<<line, k>>)'
    OBVIOUS
  <2>1. line \in 1 .. MaxLines
    BY BoundsAssumption DEF ShapeInv, TypeOK
  <2>2. PICK q \in Pids : q = <<line, k>>
    BY <2>1, PidsAre
  <2>3. Over(q)'
    BY <2>2 DEF Kept
  <2> QED BY <1>1, <2>2, <2>3 DEF Over, WEXITSTATUS
<1>4. Waited'
  <2>1. sh = "wait" \/ Len(pipeline) > 0 => line > 0
    BY DEF ShapeInv, Progress, AtLoop
  <2>2. CASE sh = "wait"
    <3>1. \A k \in 1 .. MaxCmds : k < i => Over(<<line, k>>)'
      BY <1>3, <2>1, <2>2 DEF Waited, ShapeInv
    <3> QED BY <1>1, <2>2, <3>1 DEF Waited
  <2>3. CASE sh = "prompt" /\ Len(pipeline) > 0 /\ ~background /\ last_status = 0
    <3>1. pcnt = Len(pipeline) /\ \A k \in 1 .. MaxCmds : k <= pcnt => Over(<<line, k>>)'
      BY <1>3, <2>1, <2>3 DEF Waited, ShapeInv
    <3> QED BY <1>1, <2>3, <3>1 DEF Waited
  <2> QED BY <1>1, <2>2, <2>3 DEF Waited
<1> QED BY <1>1, <1>2, <1>4, StayShape DEF ShapeInv, TypeOK

(* fork: the next process of the line, the last one if it is the last       *)
(* command.                                                                 *)
ForkTo(q, s) == /\ s \in Record /\ s.state = "forked" /\ s.ended = "no" /\ s.have = 0
                /\ s.cmd = pipeline[pcnt + 1] /\ s.last = (pcnt + 1 = Len(pipeline)) /\ s.fds = shell_fds
                /\ q = <<line, pcnt + 1>> /\ proc[q] = NoProcess /\ RecordOK(q, s)
(* Fork is such a step.                                                     *)
LEMMA ForkMoves ==
  ASSUME ShapeInv, Fork
  PROVE  \E q \in Pids : \E s : ForkTo(q, s) /\ proc' = [proc EXCEPT ![q] = s]
<1>1. /\ pcnt < Len(pipeline) /\ line > 0 /\ W(<<line, pcnt + 1>>) \in shell_fds /\ pipeline \in Seq(Commands)
      /\ pcnt \in Nat /\ Len(pipeline) \in Nat /\ Len(pipeline) <= MaxCmds
      /\ check_consistency(pipeline)
  BY BoundsAssumption DEF ShapeInv, TypeOK, Progress, AtLoop, Fork
<1>2. line \in 1 .. MaxLines /\ pcnt + 1 \in 1 .. MaxCmds /\ pcnt + 1 \in 1 .. Len(pipeline)
  BY <1>1, BoundsAssumption DEF ShapeInv, TypeOK
<1>3. PICK q \in Pids : q = <<line, pcnt + 1>>
  BY <1>2, PidsAre
<1>4. PICK c \in Commands : c = pipeline[pcnt + 1]
  BY <1>1, <1>2
<1>5. PICK z \in BOOLEAN : z = (pcnt + 1 = Len(pipeline))
  OBVIOUS
<1>6. PICK e \in SUBSET Ends : e = shell_fds
  BY DEF ShapeInv, TypeOK
<1> DEFINE s == [NoProcess EXCEPT !.state = "forked", !.cmd = c, !.last = z, !.fds = e]
<1>7. /\ s \in Record /\ s.state = "forked" /\ s.ended = "no" /\ s.have = 0
      /\ s.cmd = c /\ s.last = z /\ s.fds = e
  BY DEF Record, NoProcess
<1>8. proc' = [proc EXCEPT ![q] = s]
  BY <1>3, <1>4, <1>5, <1>6 DEF Fork
<1> HIDE DEF s
<1>9. c.output_redir => z
  BY <1>1, <1>2, <1>4, <1>5 DEF check_consistency
<1>10. RecordOK(q, s)
  BY <1>1, <1>3, <1>6, <1>7, <1>9 DEF RecordOK, Lives
<1>11. proc[q] = NoProcess
  <2>1. State(line, pcnt + 1) = "none"
    BY <1>1, <1>2 DEF ShapeInv, Progress, Placed
  <2>2. proc[q].state = "none"
    BY <1>3, <2>1 DEF State
  <2> QED BY <2>2 DEF ShapeInv, Records, RecordOK
<1>12. ForkTo(q, s)
  BY <1>3, <1>4, <1>5, <1>6, <1>7, <1>10, <1>11 DEF ForkTo
<1> QED BY <1>8, <1>12

(* The new process is the one after those already forked.                   *)
LEMMA ForkShape ==
  ASSUME ShapeInv, Fork
  PROVE  ShapeInv'
<1>1. /\ pcnt < Len(pipeline) /\ line > 0 /\ pipeline \in Seq(Commands) /\ line \in Nat
      /\ pcnt \in Nat /\ Len(pipeline) \in Nat /\ Len(pipeline) <= MaxCmds /\ i = 1
      /\ check_consistency(pipeline)
  BY BoundsAssumption DEF ShapeInv, TypeOK, Progress, AtLoop, Fork
<1>2. /\ UNCHANGED <<line, pipeline, background, i, shell_fds, buf, output>> /\ pcnt' = pcnt + 1
      /\ sh' = IF pcnt + 1 = Len(pipeline) THEN "close" ELSE "pipe"
  BY DEF Fork
<1>a. PICK q \in Pids : \E s : ForkTo(q, s) /\ proc' = [proc EXCEPT ![q] = s]
  BY ForkMoves
<1>3. PICK s : ForkTo(q, s) /\ proc' = [proc EXCEPT ![q] = s]
  BY <1>a
<1>4. /\ proc' \in [Pids -> Record] /\ proc'[q] = s
      /\ \A r \in Pids : r # q => proc'[r] = proc[r]
  <2>1. proc \in [Pids -> Record] /\ s \in Record
    BY <1>3 DEF ForkTo, ShapeInv, TypeOK
  <2> QED BY <1>3, <2>1
<1>5. Records'
  BY <1>3, <1>4 DEF ShapeInv, Records, ForkTo
<1>6. /\ proc'[<<line, pcnt + 1>>].state # "none"
      /\ proc'[<<line, pcnt + 1>>].last = (pcnt + 1 = Len(pipeline))
      /\ \A n \in 1 .. MaxLines, k \in 1 .. MaxCmds : n # line \/ k # pcnt + 1 =>
            /\ State(n, k)' = State(n, k)
            /\ proc'[<<n, k>>].last = proc[<<n, k>>].last
  <2>1. q = <<line, pcnt + 1>> /\ s.state = "forked" /\ s.last = (pcnt + 1 = Len(pipeline))
    BY <1>3 DEF ForkTo
  <2>2. ASSUME NEW n \in 1 .. MaxLines, NEW k \in 1 .. MaxCmds, n # line \/ k # pcnt + 1
        PROVE  proc'[<<n, k>>] = proc[<<n, k>>]
    <3>1. <<n, k>> \in Pids /\ <<n, k>> # q
      BY <2>1, <2>2, PidsAre
    <3> QED BY <1>4, <3>1
  <2> QED BY <1>4, <2>1, <2>2 DEF State
<1>7. Placed'
  <2> SUFFICES ASSUME NEW n \in 1 .. MaxLines, NEW k \in 1 .. MaxCmds
               PROVE  /\ n > line => State(n, k)' = "none"
                      /\ n = line => (State(n, k)' # "none" <=> k <= pcnt + 1)
                      /\ n = line => (proc'[<<n, k>>].last <=> k <= pcnt + 1 /\ k = Len(pipeline))
    BY <1>2 DEF Placed
  <2>1. n \in Nat /\ k \in Nat
    BY BoundsAssumption
  <2>2. /\ n > line => State(n, k) = "none"
        /\ n = line => (State(n, k) # "none" <=> k <= pcnt)
        /\ n = line => (proc[<<n, k>>].last <=> k <= pcnt /\ k = Len(pipeline))
    BY DEF ShapeInv, Progress, Placed
  <2>3. CASE n = line /\ k = pcnt + 1
    <3>1. State(n, k)' # "none" /\ proc'[<<n, k>>].last = (pcnt + 1 = Len(pipeline))
      BY <1>2, <1>6, <2>3 DEF State
    <3>2. ~(n > line) /\ k <= pcnt + 1 /\ (k = Len(pipeline) <=> pcnt + 1 = Len(pipeline))
      BY <1>1, <2>1, <2>3
    <3> QED BY <3>1, <3>2
  <2>4. CASE n # line \/ k # pcnt + 1
    <3>1. State(n, k)' = State(n, k) /\ proc'[<<n, k>>].last = proc[<<n, k>>].last
      BY <1>6, <2>4
    <3>2. n = line => (k <= pcnt + 1 <=> k <= pcnt)
      BY <1>1, <2>1, <2>4
    <3> QED BY <2>2, <3>1, <3>2
  <2> QED BY <2>3, <2>4
<1>8. InOrder'
  <2> SUFFICES ASSUME NEW n \in 1 .. MaxLines, NEW k \in 1 .. MaxCmds, NEW j \in 1 .. MaxCmds
               PROVE  /\ j < k /\ State(n, k)' # "none" => State(n, j)' # "none"
                      /\ j > k /\ proc'[<<n, k>>].last => State(n, j)' = "none"
    BY DEF InOrder
  <2>1. n \in Nat /\ k \in Nat /\ j \in Nat
    BY BoundsAssumption
  <2>2. CASE n = line
    <3>1. /\ State(n, k)' # "none" <=> k <= pcnt + 1
          /\ State(n, j)' # "none" <=> j <= pcnt + 1
          /\ proc'[<<n, k>>].last <=> k <= pcnt + 1 /\ k = Len(pipeline)
      BY <1>2, <1>7, <2>2 DEF Placed
    <3>2. /\ j < k /\ k <= pcnt + 1 => j <= pcnt + 1
          /\ j > k /\ k = Len(pipeline) => ~(j <= pcnt + 1)
      BY <1>1, <2>1
    <3> QED BY <3>1, <3>2
  <2>3. CASE n # line
    BY <1>6, <2>3 DEF ShapeInv, InOrder
  <2> QED BY <2>2, <2>3
<1>9. TypeOK'
  <2>1. pcnt' \in 0 .. Len(pipeline')
    BY <1>1, <1>2
  <2> QED BY <1>2, <1>4, <2>1 DEF ShapeInv, TypeOK
<1>10. AtLoop' /\ Waited'
  <2>1. check_consistency(pipeline)'
    BY <1>1, <1>2 DEF check_consistency
  <2>2. CASE pcnt + 1 = Len(pipeline)
    <3>1. sh' = "close" /\ pcnt' = Len(pipeline') /\ i' \in 1 .. pcnt' /\ line' > 0
      BY <1>1, <1>2, <2>2
    <3> QED BY <2>1, <3>1 DEF AtLoop, Waited
  <2>3. CASE pcnt + 1 # Len(pipeline)
    <3>1. sh' = "pipe" /\ pcnt' < Len(pipeline') /\ i' = 1 /\ line' > 0
      BY <1>1, <1>2, <2>3
    <3> QED BY <2>1, <3>1 DEF AtLoop, Waited
  <2> QED BY <2>2, <2>3
<1> QED BY <1>5, <1>7, <1>8, <1>9, <1>10 DEF ShapeInv, Progress

(* No process at the beginning.                                             *)
LEMMA InitShape == Init => ShapeInv
<1> SUFFICES ASSUME Init PROVE ShapeInv
  OBVIOUS
<1>1. NoProcess \in Record
  BY DEF NoProcess, Record
<1>2. \A p \in Pids : proc[p] = NoProcess
  BY DEF Init
<1>3. TypeOK
  <2>1. Len(pipeline) = 0 /\ pipeline \in Seq(Commands) /\ 0 \in 0 .. MaxLines /\ 0 <= MaxCmds /\ 0 \in 0 .. 0
    BY BoundsAssumption DEF Init
  <2> QED BY <1>1, <2>1 DEF Init, TypeOK
<1>4. Records
  <2>1. /\ NoProcess.state = "none" /\ NoProcess.ended = "no"
    BY DEF NoProcess
  <2> QED BY <1>2, <2>1 DEF Records, RecordOK, Lives
<1>5. \A n \in 1 .. MaxLines, k \in 1 .. MaxCmds : State(n, k) = "none" /\ ~proc[<<n, k>>].last
  <2> SUFFICES ASSUME NEW n \in 1 .. MaxLines, NEW k \in 1 .. MaxCmds
               PROVE  State(n, k) = "none" /\ ~proc[<<n, k>>].last
    OBVIOUS
  <2>1. proc[<<n, k>>] = NoProcess
    BY <1>2, PidsAre
  <2> QED BY <2>1 DEF State, NoProcess
<1>6. InOrder /\ Placed
  <2>1. \A k \in 1 .. MaxCmds : ~(k <= 0)
    BY BoundsAssumption
  <2> QED BY <1>5, <2>1 DEF InOrder, Placed, Init
<1>7. AtLoop /\ Waited
  BY DEF Init, AtLoop, Waited, check_consistency
<1> QED BY <1>3, <1>4, <1>6, <1>7 DEF ShapeInv, Progress

(* A process leaves the counts of items in place.                           *)
LEMMA ItemsTyped ==
  ASSUME TypeOK, Records, NEW p \in Pids, Process(p) \/ ChildFails(p) \/ Quit(p)
  PROVE  buf' \in [Pids -> Nat] /\ output' \in [1 .. MaxLines -> Nat]
<1>1. buf \in [Pids -> Nat] /\ output \in [1 .. MaxLines -> Nat]
  BY DEF TypeOK
<1>2. CASE ReadItem(p)
  <2>1. PICK s : ReadTo(p, proc[p], s)
    BY <1>2, ReadMoves
  <2>2. output' = output /\ (buf' = buf \/ \E q : buf[q] > 0 /\ buf' = [buf EXCEPT ![q] = @ - 1])
    BY <1>2, <2>1 DEF ReadItem, ReadTo
  <2>3. ASSUME NEW q, buf[q] > 0, buf' = [buf EXCEPT ![q] = @ - 1] PROVE buf' \in [Pids -> Nat]
    <3>1. q \in Pids => buf[q] - 1 \in Nat
      BY <1>1, <2>3
    <3> QED BY <1>1, <2>3, <3>1
  <2> QED BY <1>1, <2>2, <2>3
<1>3. CASE WriteItem(p)
  <2>1. PICK s : WriteTo(p, proc[p], s)
    BY <1>3, WriteMoves
  <2>2. PICK n \in 1 .. MaxLines : n = p[1]
    BY PidsAre
  <2>3. CASE output' = [output EXCEPT ![n] = @ + 1] /\ buf' = buf
    <3>1. output[n] + 1 \in Nat
      BY <1>1
    <3> QED BY <1>1, <2>3, <3>1
  <2>4. CASE buf' = [buf EXCEPT ![p] = @ + 1] /\ output' = output
    <3>1. buf[p] + 1 \in Nat
      BY <1>1
    <3> QED BY <1>1, <2>4, <3>1
  <2> QED BY <2>1, <2>2, <2>3, <2>4 DEF WriteTo
<1>4. CASE ~ReadItem(p) /\ ~WriteItem(p)
  BY <1>1, <1>4 DEF Process, ChildExec, BrokenPipe, EndOfFile, ChildFails, Quit
<1> QED BY <1>2, <1>3, <1>4

(* A process that moves is one of its line's, before and after.             *)
LEMMA ProcessKeeps ==
  ASSUME TypeOK, Records, InOrder, NEW p \in Pids, Process(p) \/ ChildFails(p) \/ Quit(p)
  PROVE  Kept /\ UNCHANGED shell
<1>1. CASE ChildExec(p)
  <2>1. PICK s : Moved(p, s)
    BY <1>1, ExecMoves
  <2> QED BY <1>1, <2>1, MovedKeeps DEF ChildExec
<1>2. CASE ReadItem(p)
  <2>1. PICK s : Moved(p, s)
    BY <1>2, ReadMoves
  <2> QED BY <1>2, <2>1, MovedKeeps DEF ReadItem
<1>3. CASE WriteItem(p)
  <2>1. PICK s : Moved(p, s)
    BY <1>3, WriteMoves
  <2> QED BY <1>3, <2>1, MovedKeeps DEF WriteItem
<1>4. CASE BrokenPipe(p) \/ EndOfFile(p) \/ ChildFails(p) \/ Quit(p)
  <2>1. Alive(p)
    BY <1>4 DEF BrokenPipe, EndOfFile, ChildFails, Quit, Running, Alive
  <2>2. PICK how \in {"done", "quit", "failed", "killed"} : proc' = Ended(<<p, how>>)
    BY <1>4 DEF BrokenPipe, EndOfFile, ChildFails, Quit
  <2>3. PICK s : Moved(p, s)
    BY <2>1, <2>2, EndMoves
  <2> QED BY <1>4, <2>3, MovedKeeps DEF BrokenPipe, EndOfFile, ChildFails, Quit
<1> QED BY <1>1, <1>2, <1>3, <1>4 DEF Process

(* kill ends a process of any line.                                         *)
LEMMA KillShape ==
  ASSUME ShapeInv, NEW p \in Pids, Kill(p)
  PROVE  ShapeInv'
<1>1. CASE Alive(p)
  <2>1. proc' = Ended(<<p, "killed">>)
    BY <1>1 DEF Kill
  <2>2. PICK s : Moved(p, s)
    BY <1>1, <2>1, EndMoves DEF ShapeInv
  <2>3. Kept
    BY <2>2, MovedKeeps DEF ShapeInv
  <2> QED BY <2>3, BuiltinShape DEF Kill, Builtin
<1>2. CASE ~Alive(p)
  <2>1. Kept
    BY <1>2, SameKeeps DEF Kill, ShapeInv
  <2> QED BY <2>1, BuiltinShape DEF Kill, Builtin
<1> QED BY <1>1, <1>2

(* The wait builtin starts waiting.                                         *)
LEMMA WaitShape ==
  ASSUME ShapeInv, NEW arg, Wait(arg)
  PROVE  ShapeInv'
<1>1. Kept
  BY SameKeeps DEF Wait, ShapeInv
<1> QED BY <1>1, BuiltinShape DEF Wait

(* Nothing happens.                                                         *)
LEMMA StutterShape ==
  ASSUME ShapeInv, UNCHANGED vars
  PROVE  ShapeInv'
<1>1. Kept
  BY SameKeeps DEF vars, ShapeInv
<1>2. UNCHANGED <<shell, buf, output>>
  BY DEF vars
<1> QED BY <1>1, <1>2, ProcessShape DEF ShapeInv, TypeOK

(* Every step keeps the shape.                                              *)
LEMMA NextShape == ShapeInv /\ [Next]_vars => ShapeInv'
<1> SUFFICES ASSUME ShapeInv, [Next]_vars PROVE ShapeInv'
  OBVIOUS
<1>1. CASE UNCHANGED vars
  BY <1>1, StutterShape
<1>2. ASSUME NEW l \in Lines, ReadLine(l) PROVE ShapeInv'
  BY <1>2, ReadLineShape
<1>3. CASE Builtins
  BY <1>3, ExitShape, WaitShape, KillShape DEF Builtins
<1>4. CASE ShellStep
  BY <1>4, PipeShape, ForkShape, CannotStartShape, ClosePipesShape, WaitForegroundShape, WaitBuiltinShape
     DEF ShellStep, RunPipeline
<1>5. ASSUME NEW p \in Pids, Process(p) \/ ChildFails(p) \/ Quit(p) PROVE ShapeInv'
  BY <1>5, ItemsTyped, ProcessKeeps, ProcessShape DEF ShapeInv
<1>6. CASE Finished
  BY <1>6, StutterShape DEF Finished
<1> QED BY <1>1, <1>2, <1>3, <1>4, <1>5, <1>6 DEF Next

(* The processes of every line are forked in order and up to the last, the  *)
(* shell's loops are over the processes it forked, and what it has waited   *)
(* for without leaving the loop has ended and has not failed.               *)
THEOREM LinesKeepTheirShape == Spec => []ShapeInv
<1> QED BY InitShape, NextShape, PTL DEF Spec

(* The prompt after a pipeline.                                             *)
LEMMA ShapeMeansOver == ShapeInv => SuccessMeansOver
<1> SUFFICES ASSUME ShapeInv, sh = "prompt", Len(pipeline) > 0, ~background, last_status = 0
             PROVE  /\ Cardinality(Stages(line)) = Len(pipeline)
                    /\ \A p \in Stages(line) : proc[p].state = "reaped" /\ WEXITSTATUS(p) = 0
  BY DEF SuccessMeansOver
<1>1. /\ pcnt = Len(pipeline) /\ pcnt \in Nat /\ pcnt <= MaxCmds
      /\ \A k \in 1 .. MaxCmds : k <= pcnt => Over(<<line, k>>)
  BY BoundsAssumption DEF ShapeInv, TypeOK, Waited
<1>2. line \in 1 .. MaxLines
  BY BoundsAssumption DEF ShapeInv, TypeOK, Progress, AtLoop
<1>3. \A k \in 1 .. MaxCmds : State(line, k) # "none" <=> k <= pcnt
  BY <1>2 DEF ShapeInv, Progress, Placed
<1>4. Stages(line) = {line} \X (1 .. pcnt)
  <2>1. \A p \in Pids : p[1] = line /\ proc[p].state # "none" <=> p \in {line} \X (1 .. pcnt)
    <3> SUFFICES ASSUME NEW p \in Pids
                 PROVE  p[1] = line /\ proc[p].state # "none" <=> p \in {line} \X (1 .. pcnt)
      OBVIOUS
    <3>1. PICK n \in 1 .. MaxLines, k \in 1 .. MaxCmds : p = <<n, k>> /\ n = p[1]
      BY PidsAre
    <3>2. p \in {line} \X (1 .. pcnt) <=> n = line /\ k \in 1 .. pcnt
      BY <3>1
    <3>3. k \in 1 .. pcnt <=> k <= pcnt
      BY <1>1, BoundsAssumption
    <3>4. n = line => (proc[p].state # "none" <=> k <= pcnt)
      BY <1>3, <3>1 DEF State
    <3> QED BY <3>1, <3>2, <3>3, <3>4
  <2>2. {line} \X (1 .. pcnt) \subseteq Pids
    <3>1. 1 .. pcnt \subseteq 1 .. MaxCmds /\ {line} \subseteq 1 .. MaxLines
      BY <1>1, <1>2, BoundsAssumption
    <3> QED BY <3>1 DEF Pids
  <2> QED BY <2>1, <2>2 DEF Stages
<1>5. Cardinality({line} \X (1 .. pcnt)) = pcnt
  <2>1. IsFiniteSet({line}) /\ Cardinality({line}) = 1
    BY FS_Singleton
  <2>2. IsFiniteSet(1 .. pcnt) /\ Cardinality(1 .. pcnt) = pcnt
    <3>1. 1 \in Int /\ pcnt \in Int
      BY <1>1
    <3>2. IsFiniteSet(1 .. pcnt) /\ Cardinality(1 .. pcnt) = IF 1 > pcnt THEN 0 ELSE pcnt - 1 + 1
      BY <3>1, FS_Interval, Zenon
    <3> QED BY <1>1, <3>2
  <2>3. Cardinality({line} \X (1 .. pcnt)) = Cardinality({line}) * Cardinality(1 .. pcnt)
    BY <2>1, <2>2, FS_Product
  <2> QED BY <1>1, <2>1, <2>2, <2>3
<1>6. ASSUME NEW p \in Stages(line) PROVE Over(p)
  <2>1. PICK k \in 1 .. pcnt : p = <<line, k>>
    BY <1>4
  <2>2. k \in 1 .. MaxCmds /\ k <= pcnt
    BY <1>1, BoundsAssumption
  <2> QED BY <1>1, <2>1, <2>2
<1> QED BY <1>1, <1>4, <1>5, <1>6 DEF Over

(* A foreground pipeline that leaves status 0 is over: run_pipeline has     *)
(* waited for each of its processes and none of them failed.                *)
THEOREM ForegroundSuccess == Spec => []SuccessMeansOver
<1> QED BY LinesKeepTheirShape, ShapeMeansOver, PTL

-----------------------------------------------------------------------------
(* The items of a line.  First what a step does to one process's place.     *)

Counts(k, b, x, y, o) == k \in Nat /\ x \in Nat /\ o \in Nat /\ (k # 1 => b \in Nat /\ y \in Nat)

(* Nothing comes before the first process.                                  *)
LEMMA FirstStage ==
  \A r, q, b, x, y, o, q2, b2, y2 : StageOK(1, r, q, b, x, y, o) => StageOK(1, r, q2, b2, x, y2, o)
BY DEF StageOK, Own

(* exec, for a process that has put out nothing.                            *)
LEMMA ExecStage ==
  ASSUME NEW k, NEW r, NEW s, s.last = r.last, ExecTo(k, r, s), NEW q, NEW b, NEW x, NEW y, NEW o,
         Counts(k, b, x, y, o), StageOK(k, r, q, b, x, y, o)
  PROVE  StageOK(k, s, q, b, x, y, o)
<1>1. x = 0 /\ (r.last => o = x) /\ (~Own(k, r) => y = b + r.have + x)
  BY DEF StageOK, ExecTo, Lives
<1>2. Own(k, s) <=> Own(k, r)
  BY DEF Own, ExecTo
<1>3. /\ s.state = "running" /\ s.ended = "no" /\ r.have = 0 /\ s.have = 0
      /\ Own(k, r) => s.source = Items
  BY DEF ExecTo
<1> QED BY <1>1, <1>2, <1>3, BoundsAssumption DEF StageOK

(* A read moves an item from the source or the pipe to the process.         *)
LEMMA ReadStage ==
  ASSUME NEW k, NEW r \in Record, NEW s, s.last = r.last, CopyTo(r, s), r.have = 0, s.have = 1,
         NEW q, NEW b, NEW b2, NEW x, NEW y, NEW o,
         Counts(k, b, x, y, o), StageOK(k, r, q, b, x, y, o),
         \/ Own(k, r) /\ r.source > 0 /\ s.source = r.source - 1
         \/ ~Own(k, r) /\ b > 0 /\ b2 = b - 1
  PROVE  StageOK(k, s, q, b2, x, y, o)
<1>1. /\ (r.last => o = x) /\ (Own(k, r) => r.source + r.have + x = Items)
      /\ (~Own(k, r) => y = b + r.have + x)
  BY DEF StageOK, CopyTo, Lives
<1>2. Own(k, s) <=> Own(k, r)
  BY DEF Own, CopyTo
<1>3. /\ s.state = "running" /\ s.ended = "no" /\ r.source \in Nat /\ x \in Nat
      /\ ~Own(k, r) => b \in Nat /\ y \in Nat
  BY DEF CopyTo, Record, Counts, Own
<1>4. Own(k, r) => s.source + s.have + x = Items
  BY <1>1, <1>3
<1>5. ~Own(k, r) => y = b2 + s.have + x
  BY <1>1, <1>3
<1> QED BY <1>1, <1>2, <1>3, <1>4, <1>5 DEF StageOK

(* A write counts it as put out.                                            *)
LEMMA WriteStage ==
  ASSUME NEW k, NEW r \in Record, NEW s, s.last = r.last, CopyTo(r, s), r.have = 1, s.have = 0, s.source = r.source,
         NEW q, NEW b, NEW x, NEW y, NEW o, NEW o2,
         Counts(k, b, x, y, o), StageOK(k, r, q, b, x, y, o),
         r.last => o2 = o + 1
  PROVE  StageOK(k, s, q, b, x + 1, y, o2)
<1>1. /\ (r.last => o = x) /\ (Own(k, r) => r.source + r.have + x = Items)
      /\ (~Own(k, r) => y = b + r.have + x)
  BY DEF StageOK, CopyTo, Lives
<1>2. Own(k, s) <=> Own(k, r)
  BY DEF Own, CopyTo
<1>3. /\ s.state = "running" /\ s.ended = "no" /\ r.source \in Nat /\ x \in Nat
      /\ ~Own(k, r) => b \in Nat /\ y \in Nat
  BY DEF CopyTo, Record, Counts, Own
<1>4. Own(k, r) => s.source + s.have + (x + 1) = Items
  BY <1>1, <1>3
<1>5. ~Own(k, r) => y = b + s.have + (x + 1)
  BY <1>1, <1>3
<1>6. r.last => o2 = x + 1
  BY <1>1
<1> QED BY <1>1, <1>2, <1>3, <1>4, <1>5, <1>6 DEF StageOK

(* A process that ends at its end of file has passed on what it was given.  *)
LEMMA EndStage ==
  ASSUME NEW k, NEW r \in Record, NEW s, s.last = r.last, NEW how, EndTo(r, s, how),
         NEW q, NEW b, NEW x, NEW y, NEW o,
         Counts(k, b, x, y, o), StageOK(k, r, q, b, x, y, o),
         how = "done" => /\ r.state = "running" /\ r.have = 0
                         /\ Own(k, r) => r.source = 0
                         /\ ~Own(k, r) => b = 0 /\ q.state \in {"zombie", "reaped"}
  PROVE  StageOK(k, s, q, b, x, y, o)
<1>1. /\ (r.last => o = x) /\ (r.state = "running" /\ Own(k, r) => r.source + r.have + x = Items)
      /\ (~Own(k, r) => y = b + r.have + x)
  BY DEF StageOK, EndTo, Lives
<1>2. Own(k, s) <=> Own(k, r)
  BY DEF Own, EndTo
<1>3. /\ s.state = "zombie" /\ s.ended = how /\ x \in Nat /\ ~Lives(s)
      /\ ~Own(k, r) => b \in Nat /\ y \in Nat
  BY DEF EndTo, Counts, Own, Lives
<1>4. how = "done" /\ Own(k, r) => x = Items
  BY <1>1, <1>3
<1>5. how = "done" /\ ~Own(k, r) => y = x
  BY <1>1, <1>3
<1> QED BY <1>1, <1>2, <1>3, <1>4, <1>5 DEF StageOK

(* One that ends before has no more to answer for.                          *)
LEMMA QuitStage ==
  ASSUME NEW k, NEW r \in Record, NEW s, s.last = r.last, NEW how, how # "done", EndTo(r, s, how),
         NEW q, NEW b, NEW x, NEW y, NEW o, Counts(k, b, x, y, o), StageOK(k, r, q, b, x, y, o)
  PROVE  StageOK(k, s, q, b, x, y, o)
BY EndStage

(* Waiting for a process moves no item.                                     *)
LEMMA ReapStage ==
  ASSUME NEW k, NEW r, NEW s, s.last = r.last, ReapTo(r, s), NEW q, NEW b, NEW x, NEW y, NEW o,
         StageOK(k, r, q, b, x, y, o)
  PROVE  StageOK(k, s, q, b, x, y, o)
<1>1. Own(k, s) <=> Own(k, r)
  BY DEF Own, ReapTo
<1> QED BY <1>1 DEF StageOK, ReapTo, Lives

(* The process before moves without writing, and writes.                    *)
LEMMA AfterMove ==
  ASSUME NEW k, NEW r, NEW q, NEW s, s.last = q.last, q.state \in {"zombie", "reaped"} => s.state \in {"zombie", "reaped"},
         NEW b, NEW x, NEW y, NEW o, StageOK(k, r, q, b, x, y, o)
  PROVE  StageOK(k, r, s, b, x, y, o)
BY DEF StageOK

(* A write adds an item to the pipe and to what its writer has put out.     *)
LEMMA AfterWrite ==
  ASSUME NEW k, k # 1, NEW r \in Record, NEW q, NEW s, s.last = q.last, CopyTo(q, s), NEW b, NEW x, NEW y, NEW o,
         Counts(k, b, x, y, o), StageOK(k, r, q, b, x, y, o)
  PROVE  StageOK(k, r, s, b + 1, x, y + 1, o)
<1>1. q.state = "running" /\ r.have \in {0, 1} /\ b \in Nat /\ y \in Nat /\ x \in Nat
  BY DEF CopyTo, Record, Counts
<1>2. ~(r.ended = "done" /\ ~Own(k, r))
  BY <1>1 DEF StageOK
<1>3. r.state = "none" /\ k > 1 /\ ~q.last => y + 1 = b + 1
  BY DEF StageOK
<1>4. Lives(r) /\ ~Own(k, r) => y + 1 = (b + 1) + r.have + x
  <2>1. Lives(r) /\ ~Own(k, r) => y = b + r.have + x
    BY DEF StageOK
  <2> QED BY <1>1, <2>1
<1> QED BY <1>2, <1>3, <1>4 DEF StageOK

(* Nothing comes after the last process.                                    *)
LEMMA AfterLast ==
  ASSUME NEW k, NEW q, NEW b, NEW x, NEW y, NEW o, NEW b2, NEW y2, NEW o2, NEW s, s.last,
         StageOK(k, NoProcess, q, b, x, y, o)
  PROVE  StageOK(k, NoProcess, s, b2, x, y2, o2)
<1>1. NoProcess.state = "none" /\ NoProcess.ended = "no" /\ NoProcess.last = FALSE
  BY DEF NoProcess
<1> QED BY <1>1 DEF StageOK, Lives

(* The process that fork adds has its pipe to itself.                       *)
LEMMA ForkStage ==
  ASSUME NEW k, NEW s, s.state = "forked", s.ended = "no", s.have = 0, NEW q, NEW b, NEW x, NEW y, NEW o, o = 0,
         k # 1 => ~q.last /\ k > 1, Counts(k, b, x, y, o), StageOK(k, NoProcess, q, b, x, y, o)
  PROVE  StageOK(k, s, q, b, x, y, o)
<1>1. NoProcess.state = "none"
  BY DEF NoProcess
<1>2. x = 0 /\ (k # 1 => y = b)
  BY <1>1 DEF StageOK
<1>3. ~Own(k, s) => k # 1 /\ b \in Nat
  BY DEF Own, Counts
<1>4. ~Own(k, s) => y = b + s.have + x
  BY <1>2, <1>3
<1> QED BY <1>2, <1>4 DEF StageOK

(* The output of a line concerns its last process only.                     *)
LEMMA NotLast ==
  ASSUME NEW k, NEW r, NEW q, NEW b, NEW x, NEW y, NEW o, NEW o2, ~r.last, StageOK(k, r, q, b, x, y, o)
  PROVE  StageOK(k, r, q, b, x, y, o2)
BY DEF StageOK

(* A line on which nothing happens.                                         *)
LEMMA LineStays ==
  ASSUME NEW n \in 1 .. MaxLines, NEW f \in [1 .. MaxCmds -> Nat], LineOK(n, f),
         \A k \in 1 .. MaxCmds : proc'[<<n, k>>] = proc[<<n, k>>] /\ buf'[<<n, k>>] = buf[<<n, k>>],
         output'[n] = output[n]
  PROVE  LineOK(n, f)'
<1>1. ASSUME NEW k \in 1 .. MaxCmds PROVE Stage(n, k, f)'
  <2>1. Stage(n, k, f)
    BY DEF LineOK
  <2>2. CASE k = 1
    BY <2>1, <2>2, FirstStage DEF Stage
  <2>3. CASE k # 1
    <3>1. k - 1 \in 1 .. MaxCmds
      BY <2>3, Places, Zenon
    <3>2. /\ proc'[<<n, k>>] = proc[<<n, k>>] /\ proc'[<<n, k - 1>>] = proc[<<n, k - 1>>]
          /\ buf'[<<n, k - 1>>] = buf[<<n, k - 1>>]
      BY <3>1
    <3> QED BY <2>1, <3>2 DEF Stage
  <2> QED BY <2>2, <2>3
<1> QED BY <1>1 DEF LineOK

(* A line on which process j moves: its place and the next remain to be     *)
(* shown.                                                                   *)
LEMMA LineMoves ==
  ASSUME TypeOK, Records, InOrder, NEW n \in 1 .. MaxLines, NEW j \in 1 .. MaxCmds,
         NEW f \in [1 .. MaxCmds -> Nat], LineOK(n, f), NEW g \in [1 .. MaxCmds -> Nat],
         \A k \in 1 .. MaxCmds : k # j => g[k] = f[k] /\ proc'[<<n, k>>] = proc[<<n, k>>],
         \A k \in 1 .. MaxCmds : k # j /\ k # j - 1 => buf'[<<n, k>>] = buf[<<n, k>>],
         output'[n] = output[n] \/ proc[<<n, j>>].last,
         proc[<<n, j>>].last => proc'[<<n, j>>].last,
         Stage(n, j, g)', j + 1 \in 1 .. MaxCmds => Stage(n, j + 1, g)'
  PROVE  LineOK(n, g)'
<1>1. ASSUME NEW k \in 1 .. MaxCmds, k # j, proc[<<n, j>>].last PROVE ~proc[<<n, k>>].last
  <2>1. j \in Nat /\ k \in Nat
    BY BoundsAssumption
  <2>2. <<n, j>> \in Pids /\ <<n, k>> \in Pids
    BY PidsAre
  <2>3. State(n, j) # "none"
    <3> SUFFICES ASSUME proc[<<n, j>>].state = "none" PROVE FALSE
      BY DEF State
    <3>1. proc[<<n, j>>] = NoProcess
      BY <2>2 DEF Records, RecordOK
    <3> QED BY <1>1, <3>1 DEF NoProcess
  <2>4. CASE k > j
    <3>1. State(n, k) = "none"
      BY <1>1, <2>4 DEF InOrder
    <3>2. proc[<<n, k>>] = NoProcess
      BY <2>2, <3>1 DEF State, Records, RecordOK
    <3> QED BY <3>2 DEF NoProcess
  <2>5. CASE j > k
    BY <2>3, <2>5 DEF InOrder
  <2> QED BY <1>1, <2>1, <2>4, <2>5
<1>2. ASSUME NEW k \in 1 .. MaxCmds, k # j, k # j + 1 PROVE Stage(n, k, g)'
  <2>1. Stage(n, k, f) /\ g[k] = f[k] /\ proc'[<<n, k>>] = proc[<<n, k>>]
    BY <1>2 DEF LineOK
  <2>2. StageOK(k, proc[<<n, k>>], proc[<<n, k - 1>>], buf[<<n, k - 1>>], f[k], f[k - 1], output'[n])
    <3>1. CASE output'[n] = output[n]
      BY <2>1, <3>1 DEF Stage
    <3>2. CASE proc[<<n, j>>].last
      BY <1>1, <1>2, <2>1, <3>2, NotLast DEF Stage
    <3> QED BY <3>1, <3>2
  <2>3. CASE k = 1
    BY <2>1, <2>2, <2>3, FirstStage DEF Stage
  <2>4. CASE k # 1
    <3>1. k - 1 \in 1 .. MaxCmds /\ k - 1 # j /\ k - 1 # j - 1
      BY <1>2, <2>4, Places, Zenon
    <3>2. PICK m \in 1 .. MaxCmds : m = k - 1
      BY <3>1
    <3>3. /\ g[m] = f[m] /\ proc'[<<n, m>>] = proc[<<n, m>>] /\ buf'[<<n, m>>] = buf[<<n, m>>]
      BY <3>1, <3>2
    <3> QED BY <2>1, <2>2, <3>2, <3>3 DEF Stage
  <2> QED BY <2>3, <2>4
<1>3. \A k \in 1 .. MaxCmds : Stage(n, k, g)'
  BY <1>2
<1>4. ASSUME \A k \in 1 .. MaxCmds : ~proc'[<<n, k>>].last PROVE output'[n] = 0
  <2>1. ~proc[<<n, j>>].last
    BY <1>4
  <2>2. \A k \in 1 .. MaxCmds : ~proc[<<n, k>>].last
    BY <1>4, <2>1
  <2> QED BY <2>1, <2>2 DEF LineOK
<1> QED BY <1>3, <1>4 DEF LineOK

(* A step on one line.                                                      *)
LEMMA FlowStep ==
  ASSUME Flow, NEW n \in 1 .. MaxLines,
         \A m \in 1 .. MaxLines, k \in 1 .. MaxCmds : m # n =>
            proc'[<<m, k>>] = proc[<<m, k>>] /\ buf'[<<m, k>>] = buf[<<m, k>>],
         \A m \in 1 .. MaxLines : m # n => output'[m] = output[m],
         \A f \in [1 .. MaxCmds -> Nat] : LineOK(n, f) => \E g \in [1 .. MaxCmds -> Nat] : LineOK(n, g)'
  PROVE  Flow'
<1> SUFFICES ASSUME NEW m \in 1 .. MaxLines PROVE \E g \in [1 .. MaxCmds -> Nat] : LineOK(m, g)'
  BY DEF Flow
<1>1. PICK f \in [1 .. MaxCmds -> Nat] : LineOK(m, f)
  BY DEF Flow
<1>2. CASE m = n
  BY <1>1, <1>2
<1>3. CASE m # n
  <2>1. \A k \in 1 .. MaxCmds : proc'[<<m, k>>] = proc[<<m, k>>] /\ buf'[<<m, k>>] = buf[<<m, k>>]
    BY <1>3
  <2>2. output'[m] = output[m]
    BY <1>3
  <2>3. LineOK(m, f)'
    BY <1>1, <2>1, <2>2, LineStays
  <2> QED BY <2>3
<1> QED BY <1>2, <1>3

(* A step that leaves processes, pipes and outputs alone.                   *)
LEMMA FlowStays ==
  ASSUME Flow, UNCHANGED <<proc, buf, output>>
  PROVE  Flow'
<1> SUFFICES ASSUME NEW m \in 1 .. MaxLines PROVE \E g \in [1 .. MaxCmds -> Nat] : LineOK(m, g)'
  BY DEF Flow
<1>1. PICK f \in [1 .. MaxCmds -> Nat] : LineOK(m, f)
  BY DEF Flow
<1>2. LineOK(m, f)'
  BY <1>1, LineStays
<1> QED BY <1>2

(* The same in terms of the process's record before and after.              *)
Elsewhere(n, j) == \A m \in 1 .. MaxLines, k \in 1 .. MaxCmds : m # n \/ k # j => proc'[<<m, k>>] = proc[<<m, k>>]
SelfOK(n, j, s, g) ==
    StageOK(j, s, proc[<<n, j - 1>>], buf'[<<n, j - 1>>], g[j], g[j - 1], output'[n])
NextOK(n, j, s, g) ==
    StageOK(j + 1, proc[<<n, j + 1>>], s, buf'[<<n, j>>], g[j + 1], g[j], output'[n])
(* LineMoves for a process whose new record is s.                           *)
LEMMA LineGoes ==
  ASSUME TypeOK, Records, InOrder, NEW n \in 1 .. MaxLines, NEW j \in 1 .. MaxCmds, NEW s, proc'[<<n, j>>] = s,
         Elsewhere(n, j), proc[<<n, j>>].last => s.last,
         NEW f \in [1 .. MaxCmds -> Nat], LineOK(n, f), NEW g \in [1 .. MaxCmds -> Nat],
         \A k \in 1 .. MaxCmds : k # j => g[k] = f[k],
         \A k \in 1 .. MaxCmds : k # j /\ k # j - 1 => buf'[<<n, k>>] = buf[<<n, k>>],
         output'[n] = output[n] \/ proc[<<n, j>>].last,
         SelfOK(n, j, s, g), j + 1 \in 1 .. MaxCmds => NextOK(n, j, s, g)
  PROVE  LineOK(n, g)'
<1>1. \A k \in 1 .. MaxCmds : k # j => proc'[<<n, k>>] = proc[<<n, k>>]
  BY DEF Elsewhere
<1>2. Stage(n, j, g)'
  <2>1. CASE j = 1
    BY <2>1, FirstStage DEF SelfOK, Stage
  <2>2. CASE j # 1
    <3>1. j - 1 \in 1 .. MaxCmds /\ j - 1 # j
      BY <2>2, Places, Zenon
    <3>2. proc'[<<n, j - 1>>] = proc[<<n, j - 1>>]
      BY <1>1, <3>1
    <3> QED BY <3>2 DEF SelfOK, Stage
  <2> QED BY <2>1, <2>2
<1>3. ASSUME j + 1 \in 1 .. MaxCmds PROVE Stage(n, j + 1, g)'
  <2>1. j + 1 # j /\ (j + 1) - 1 = j
    BY BoundsAssumption
  <2>2. proc'[<<n, j + 1>>] = proc[<<n, j + 1>>]
    BY <1>1, <1>3, <2>1
  <2>3. NextOK(n, j, s, g)
    BY <1>3
  <2> QED BY <2>1, <2>2, <2>3 DEF NextOK, Stage
<1> QED BY <1>1, <1>2, <1>3, LineMoves

(* All processes but one are as before.                                     *)
LEMMA MovedIs ==
  ASSUME TypeOK, NEW p \in Pids, NEW s, proc' = [proc EXCEPT ![p] = s]
  PROVE  /\ proc'[<<p[1], p[2]>>] = s /\ Elsewhere(p[1], p[2])
         /\ \A q \in Pids : q # p => proc'[q] = proc[q]
<1>1. p = <<p[1], p[2]>> /\ proc'[p] = s
  BY PidsAre DEF TypeOK
<1>2. \A q \in Pids : q # p => proc'[q] = proc[q]
  BY DEF TypeOK
<1>3. Elsewhere(p[1], p[2])
  <2> SUFFICES ASSUME NEW m \in 1 .. MaxLines, NEW k \in 1 .. MaxCmds, m # p[1] \/ k # p[2]
               PROVE  proc'[<<m, k>>] = proc[<<m, k>>]
    BY DEF Elsewhere
  <2>1. <<m, k>> \in Pids /\ <<m, k>> # p
    BY <1>1, PidsAre
  <2> QED BY <1>2, <2>1
<1> QED BY <1>1, <1>2, <1>3

(* What a line counts are numbers.                                          *)
LEMMA CountsHold ==
  ASSUME TypeOK, NEW n \in 1 .. MaxLines, NEW k \in 1 .. MaxCmds, NEW f \in [1 .. MaxCmds -> Nat]
  PROVE  Counts(k, buf[<<n, k - 1>>], f[k], f[k - 1], output[n])
<1>1. k \in Nat /\ f[k] \in Nat /\ output[n] \in Nat
  BY BoundsAssumption DEF TypeOK
<1>2. ASSUME k # 1 PROVE buf[<<n, k - 1>>] \in Nat /\ f[k - 1] \in Nat
  <2>1. k - 1 \in 1 .. MaxCmds
    BY <1>2, BoundsAssumption
  <2>2. <<n, k - 1>> \in Pids
    BY <2>1, PidsAre
  <2> QED BY <2>1, <2>2 DEF TypeOK
<1> QED BY <1>1, <1>2 DEF Counts

(* Every step but reads, writes and forks: a process changes, no item       *)
(* moves.                                                                   *)
Closes(r, s) == /\ s.last = r.last
                /\ r.state \in {"zombie", "reaped"} => s.state \in {"zombie", "reaped"}
SelfKept(p, s, f) ==
    StageOK(p[2], s, proc[<<p[1], p[2] - 1>>], buf[<<p[1], p[2] - 1>>], f[p[2]], f[p[2] - 1], output[p[1]])
(* Only the stage of the process itself remains to be shown.                *)
LEMMA QuietFlow ==
  ASSUME ShapeInv, Flow, NEW p \in Pids, NEW s, proc' = [proc EXCEPT ![p] = s], UNCHANGED <<buf, output>>,
         Closes(proc[p], s),
         \A f \in [1 .. MaxCmds -> Nat] : LineOK(p[1], f) => SelfKept(p, s, f)
  PROVE  Flow'
<1>1. TypeOK /\ Records /\ InOrder
  BY DEF ShapeInv
<1>2. PICK n \in 1 .. MaxLines, j \in 1 .. MaxCmds : n = p[1] /\ j = p[2] /\ p = <<n, j>>
  BY PidsAre
<1>3. proc'[<<n, j>>] = s /\ Elsewhere(n, j)
  BY <1>1, <1>2, MovedIs
<1>4. \A m \in 1 .. MaxLines, k \in 1 .. MaxCmds : m # n =>
         proc'[<<m, k>>] = proc[<<m, k>>] /\ buf'[<<m, k>>] = buf[<<m, k>>]
  BY <1>3 DEF Elsewhere
<1>5. ASSUME NEW f \in [1 .. MaxCmds -> Nat], LineOK(n, f) PROVE LineOK(n, f)'
  <2>1. SelfOK(n, j, s, f)
    BY <1>2, <1>5 DEF SelfKept, SelfOK
  <2>2. ASSUME j + 1 \in 1 .. MaxCmds PROVE NextOK(n, j, s, f)
    <3>1. (j + 1) - 1 = j
      BY BoundsAssumption
    <3>2. StageOK(j + 1, proc[<<n, j + 1>>], proc[<<n, j>>], buf[<<n, j>>], f[j + 1], f[j], output[n])
      BY <1>5, <2>2, <3>1 DEF LineOK, Stage
    <3>3. StageOK(j + 1, proc[<<n, j + 1>>], s, buf[<<n, j>>], f[j + 1], f[j], output[n])
      BY <1>2, <3>2, AfterMove DEF Closes
    <3> QED BY <3>3 DEF NextOK
  <2>3. /\ \A k \in 1 .. MaxCmds : k # j /\ k # j - 1 => buf'[<<n, k>>] = buf[<<n, k>>]
        /\ output'[n] = output[n]
        /\ proc[<<n, j>>].last => s.last
    BY <1>2 DEF Closes
  <2> QED BY <1>1, <1>3, <1>5, <2>1, <2>2, <2>3, LineGoes
<1> QED BY <1>4, <1>5, FlowStep

(* The stage of a process in a line that flows.                             *)
LEMMA StageHas ==
  ASSUME TypeOK, NEW p \in Pids, NEW f \in [1 .. MaxCmds -> Nat], LineOK(p[1], f)
  PROVE  /\ SelfKept(p, proc[p], f)
         /\ Counts(p[2], buf[<<p[1], p[2] - 1>>], f[p[2]], f[p[2] - 1], output[p[1]])
         /\ proc[p] \in Record
<1>1. PICK n \in 1 .. MaxLines, j \in 1 .. MaxCmds : n = p[1] /\ j = p[2] /\ p = <<n, j>>
  BY PidsAre
<1>2. Stage(n, j, f)
  BY <1>1 DEF LineOK
<1>3. Counts(j, buf[<<n, j - 1>>], f[j], f[j - 1], output[n])
  BY CountsHold
<1> QED BY <1>1, <1>2, <1>3 DEF Stage, SelfKept, TypeOK

(* exec moves no item.                                                      *)
LEMMA ExecFlow ==
  ASSUME ShapeInv, Flow, NEW p \in Pids, ChildExec(p)
  PROVE  Flow'
<1>1. TypeOK /\ Records
  BY DEF ShapeInv
<1>2. PICK s : Moved(p, s) /\ ExecTo(p[2], proc[p], s)
  BY <1>1, ExecMoves
<1>3. proc' = [proc EXCEPT ![p] = s] /\ s.last = proc[p].last
  BY <1>2 DEF Moved, Becomes
<1>4. Closes(proc[p], s)
  BY <1>2, <1>3 DEF Closes, ExecTo
<1>5. ASSUME NEW f \in [1 .. MaxCmds -> Nat], LineOK(p[1], f) PROVE SelfKept(p, s, f)
  <2>1. PICK r \in Record : r = proc[p]
    BY <1>1 DEF TypeOK
  <2>2. /\ SelfKept(p, r, f)
        /\ Counts(p[2], buf[<<p[1], p[2] - 1>>], f[p[2]], f[p[2] - 1], output[p[1]])
    BY <1>1, <1>5, <2>1, StageHas
  <2>3. ExecTo(p[2], r, s) /\ s.last = r.last
    BY <1>2, <1>3, <2>1
  <2>4. PICK k, q, b, x, y, o : /\ k = p[2] /\ q = proc[<<p[1], p[2] - 1>>] /\ b = buf[<<p[1], p[2] - 1>>]
                                /\ x = f[p[2]] /\ y = f[p[2] - 1] /\ o = output[p[1]]
    OBVIOUS
  <2>5. StageOK(k, r, q, b, x, y, o) /\ Counts(k, b, x, y, o)
    BY <2>2, <2>4 DEF SelfKept
  <2>6. StageOK(k, s, q, b, x, y, o)
    BY <2>3, <2>4, <2>5, ExecStage
  <2> QED BY <2>4, <2>6 DEF SelfKept
<1> QED BY <1>3, <1>4, <1>5, QuietFlow DEF ChildExec

(* Nor does a process that ends other than at its end of file, or is        *)
(* waited for.                                                              *)
LEMMA EndFlow ==
  ASSUME ShapeInv, Flow, NEW p \in Pids, Alive(p), NEW how \in {"quit", "failed", "killed"},
         proc' = Ended(<<p, how>>), UNCHANGED <<buf, output>>
  PROVE  Flow'
<1>1. TypeOK /\ Records
  BY DEF ShapeInv
<1>2. PICK s : Moved(p, s) /\ EndTo(proc[p], s, how)
  BY <1>1, EndMoves
<1>3. proc' = [proc EXCEPT ![p] = s] /\ s.last = proc[p].last
  BY <1>2 DEF Moved, Becomes
<1>4. Closes(proc[p], s)
  BY <1>2, <1>3 DEF Closes, EndTo
<1>5. ASSUME NEW f \in [1 .. MaxCmds -> Nat], LineOK(p[1], f) PROVE SelfKept(p, s, f)
  <2>1. PICK r \in Record : r = proc[p]
    BY <1>1 DEF TypeOK
  <2>2. /\ SelfKept(p, r, f)
        /\ Counts(p[2], buf[<<p[1], p[2] - 1>>], f[p[2]], f[p[2] - 1], output[p[1]])
    BY <1>1, <1>5, <2>1, StageHas
  <2>3. EndTo(r, s, how) /\ s.last = r.last
    BY <1>2, <1>3, <2>1
  <2>4. PICK k, q, b, x, y, o : /\ k = p[2] /\ q = proc[<<p[1], p[2] - 1>>] /\ b = buf[<<p[1], p[2] - 1>>]
                                /\ x = f[p[2]] /\ y = f[p[2] - 1] /\ o = output[p[1]]
    OBVIOUS
  <2>5. StageOK(k, r, q, b, x, y, o) /\ Counts(k, b, x, y, o)
    BY <2>2, <2>4 DEF SelfKept
  <2>6. how # "done"
    OBVIOUS
  <2>7. StageOK(k, s, q, b, x, y, o)
    BY <2>3, <2>4, <2>5, <2>6, QuitStage
  <2> QED BY <2>4, <2>7 DEF SelfKept
<1> QED BY <1>3, <1>4, <1>5, QuietFlow

(* waitpid moves no item.                                                   *)
LEMMA ReapFlow ==
  ASSUME ShapeInv, Flow, NEW p \in Pids, proc[p].state = "zombie", proc' = [proc EXCEPT ![p].state = "reaped"],
         UNCHANGED <<buf, output>>
  PROVE  Flow'
<1>1. TypeOK /\ Records
  BY DEF ShapeInv
<1>2. PICK s : Moved(p, s) /\ ReapTo(proc[p], s)
  BY <1>1, ReapMoves
<1>3. proc' = [proc EXCEPT ![p] = s] /\ s.last = proc[p].last
  BY <1>2 DEF Moved, Becomes
<1>4. Closes(proc[p], s)
  BY <1>2, <1>3 DEF Closes, ReapTo
<1>5. ASSUME NEW f \in [1 .. MaxCmds -> Nat], LineOK(p[1], f) PROVE SelfKept(p, s, f)
  <2>1. PICK r \in Record : r = proc[p]
    BY <1>1 DEF TypeOK
  <2>2. /\ SelfKept(p, r, f)
        /\ Counts(p[2], buf[<<p[1], p[2] - 1>>], f[p[2]], f[p[2] - 1], output[p[1]])
    BY <1>1, <1>5, <2>1, StageHas
  <2>3. ReapTo(r, s) /\ s.last = r.last
    BY <1>2, <1>3, <2>1
  <2> QED BY <2>2, <2>3, ReapStage DEF SelfKept
<1> QED BY <1>3, <1>4, <1>5, QuietFlow

(* An end of file on a pipe: its writer, the process before, has been       *)
(* forked and has it open until it ends.                                    *)
LEMMA WriterEnded ==
  ASSUME ShapeInv, NEW n \in 1 .. MaxLines, NEW j \in 1 .. MaxCmds, j # 1, State(n, j) # "none",
         ~Open(W(<<n, j - 1>>))
  PROVE  proc[<<n, j - 1>>].state \in {"zombie", "reaped"}
<1>1. PICK k \in 1 .. MaxCmds : k = j - 1 /\ k < j
  BY BoundsAssumption
<1>2. PICK q \in Pids : q = <<n, k>>
  BY PidsAre
<1>3. PICK r \in Record : r = proc[q]
  BY DEF ShapeInv, TypeOK
<1>4. r.state # "none" /\ ~r.last
  BY <1>1, <1>2, <1>3 DEF ShapeInv, InOrder, State
<1>5. RecordOK(q, r)
  BY <1>3 DEF ShapeInv, Records
<1>6. r.state # "forked"
  <2> SUFFICES ASSUME r.state = "forked" PROVE FALSE
    OBVIOUS
  <2>1. W(q) \in r.fds
    BY <1>5 DEF RecordOK
  <2> QED BY <1>1, <1>2, <1>3, <2>1 DEF Open, Alive
<1>7. r.state # "running"
  <2> SUFFICES ASSUME r.state = "running" PROVE FALSE
    OBVIOUS
  <2>1. r.out = q
    BY <1>4, <1>5 DEF RecordOK
  <2> QED BY <1>1, <1>2, <1>3, <2>1 DEF Open, Alive
<1> QED BY <1>1, <1>2, <1>3, <1>4, <1>6, <1>7 DEF Record

(* The process has read all that the one before has put out.                *)
LEMMA EndOfFileFlow ==
  ASSUME ShapeInv, Flow, NEW p \in Pids, EndOfFile(p)
  PROVE  Flow'
<1>1. TypeOK /\ Records
  BY DEF ShapeInv
<1>2. PICK r \in Record : r = proc[p]
  BY <1>1 DEF TypeOK
<1>3. /\ r.state = "running" /\ r.have = 0
      /\ r.in = IF Own(p[2], r) THEN NONE ELSE <<p[1], p[2] - 1>>
  BY <1>1, <1>2 DEF EndOfFile, Running, Records, RecordOK, Own
<1>4. r.in = NONE <=> Own(p[2], r)
  BY <1>3, PidsAre DEF NONE
<1>5. Own(p[2], r) => r.source = 0
  BY <1>2, <1>4 DEF EndOfFile
<1>6. ASSUME ~Own(p[2], r)
      PROVE  buf[<<p[1], p[2] - 1>>] = 0 /\ proc[<<p[1], p[2] - 1>>].state \in {"zombie", "reaped"}
  <2>1. PICK n \in 1 .. MaxLines, j \in 1 .. MaxCmds : n = p[1] /\ j = p[2] /\ p = <<n, j>>
    BY PidsAre
  <2>2. r.in = <<n, j - 1>> /\ j # 1 /\ State(n, j) # "none"
    BY <1>2, <1>3, <1>6, <2>1 DEF Own, State
  <2>3. buf[r.in] = 0 /\ ~Open(W(r.in))
    BY <1>2, <1>4, <1>6 DEF EndOfFile
  <2>4. ~Open(W(<<n, j - 1>>))
    BY <2>2, <2>3
  <2>5. proc[<<n, j - 1>>].state \in {"zombie", "reaped"}
    BY <2>2, <2>4, WriterEnded
  <2> QED BY <2>1, <2>2, <2>3, <2>5
<1>7. Alive(p) /\ proc' = Ended(<<p, "done">>) /\ UNCHANGED <<buf, output>>
  BY <1>2, <1>3 DEF Alive, EndOfFile
<1>8. PICK s : Moved(p, s) /\ EndTo(r, s, "done")
  BY <1>1, <1>2, <1>7, EndMoves
<1>9. proc' = [proc EXCEPT ![p] = s] /\ s.last = r.last
  BY <1>2, <1>8 DEF Moved, Becomes
<1>10. Closes(proc[p], s)
  BY <1>2, <1>8, <1>9 DEF Closes, EndTo
<1>11. ASSUME NEW f \in [1 .. MaxCmds -> Nat], LineOK(p[1], f) PROVE SelfKept(p, s, f)
  <2>1. /\ SelfKept(p, r, f)
        /\ Counts(p[2], buf[<<p[1], p[2] - 1>>], f[p[2]], f[p[2] - 1], output[p[1]])
    BY <1>1, <1>2, <1>11, StageHas
  <2> QED BY <1>3, <1>5, <1>6, <1>8, <1>9, <2>1, EndStage DEF SelfKept
<1> QED BY <1>7, <1>9, <1>10, <1>11, QuietFlow

(* A read.                                                                  *)
LEMMA ReadFlow ==
  ASSUME ShapeInv, Flow, NEW p \in Pids, ReadItem(p)
  PROVE  Flow'
<1>1. TypeOK /\ Records /\ InOrder
  BY DEF ShapeInv
<1>2. PICK r \in Record : r = proc[p]
  BY <1>1 DEF TypeOK
<1>3. PICK s : Moved(p, s) /\ ReadTo(p, r, s)
  BY <1>1, <1>2, ReadMoves
<1>4. proc' = [proc EXCEPT ![p] = s] /\ s.last = r.last /\ output' = output
  BY <1>2, <1>3 DEF Moved, Becomes, ReadItem
<1>5. CopyTo(r, s) /\ r.have = 0 /\ s.have = 1
  BY <1>3 DEF ReadTo
<1>6. Closes(proc[p], s)
  BY <1>2, <1>4, <1>5 DEF Closes, CopyTo
<1>7. CASE Own(p[2], r) /\ r.source > 0 /\ s.source = r.source - 1 /\ buf' = buf
  <2>1. ASSUME NEW f \in [1 .. MaxCmds -> Nat], LineOK(p[1], f) PROVE SelfKept(p, s, f)
    <3>1. /\ SelfKept(p, r, f)
          /\ Counts(p[2], buf[<<p[1], p[2] - 1>>], f[p[2]], f[p[2] - 1], output[p[1]])
      BY <1>1, <1>2, <2>1, StageHas
    <3> QED BY <1>4, <1>5, <1>7, <3>1, ReadStage DEF SelfKept
  <2> QED BY <1>4, <1>6, <1>7, <2>1, QuietFlow
<1>8. CASE /\ ~Own(p[2], r) /\ s.source = r.source /\ buf[<<p[1], p[2] - 1>>] > 0
           /\ buf' = [buf EXCEPT ![<<p[1], p[2] - 1>>] = @ - 1]
  <2>1. PICK n \in 1 .. MaxLines, j \in 1 .. MaxCmds : n = p[1] /\ j = p[2] /\ p = <<n, j>>
    BY PidsAre
  <2>2. j # 1 /\ ~Own(j, r)
    BY <1>8, <2>1 DEF Own
  <2>3. PICK k \in 1 .. MaxCmds : k = j - 1 /\ k # j
    BY <2>2, BoundsAssumption
  <2>4. PICK q \in Pids : q = <<n, k>>
    BY PidsAre
  <2>5. /\ buf[q] > 0 /\ buf' = [buf EXCEPT ![q] = buf[q] - 1]
    BY <1>8, <2>1, <2>3, <2>4
  <2>6. buf'[q] = buf[q] - 1 /\ \A t \in Pids : t # q => buf'[t] = buf[t]
    BY <1>1, <2>5 DEF TypeOK
  <2>7. \A m \in 1 .. MaxLines, h \in 1 .. MaxCmds : m # n \/ h # k => buf'[<<m, h>>] = buf[<<m, h>>]
    <3> SUFFICES ASSUME NEW m \in 1 .. MaxLines, NEW h \in 1 .. MaxCmds, m # n \/ h # k
                 PROVE  buf'[<<m, h>>] = buf[<<m, h>>]
      OBVIOUS
    <3>1. <<m, h>> \in Pids /\ <<m, h>> # q
      BY <2>4, PidsAre
    <3> QED BY <2>6, <3>1
  <2>8. proc'[<<n, j>>] = s /\ Elsewhere(n, j)
    BY <1>1, <1>4, <2>1, MovedIs
  <2>9. ASSUME NEW f \in [1 .. MaxCmds -> Nat], LineOK(n, f) PROVE LineOK(n, f)'
    <3>1. /\ SelfKept(p, r, f)
          /\ Counts(j, buf[<<n, j - 1>>], f[j], f[j - 1], output[n])
      BY <1>1, <1>2, <2>1, <2>9, StageHas
    <3>2. StageOK(j, r, proc[<<n, j - 1>>], buf[q], f[j], f[j - 1], output[n])
      BY <2>1, <2>3, <2>4, <3>1 DEF SelfKept
    <3>3. StageOK(j, s, proc[<<n, j - 1>>], buf'[q], f[j], f[j - 1], output[n])
      <4>1. Counts(j, buf[q], f[j], f[j - 1], output[n])
        BY <2>3, <2>4, <3>1
      <4> QED BY <1>4, <1>5, <2>2, <2>5, <2>6, <3>2, <4>1, ReadStage
    <3>4. SelfOK(n, j, s, f)
      BY <1>4, <2>3, <2>4, <3>3 DEF SelfOK
    <3>5. ASSUME j + 1 \in 1 .. MaxCmds PROVE NextOK(n, j, s, f)
      <4>1. (j + 1) - 1 = j
        BY BoundsAssumption
      <4>2. StageOK(j + 1, proc[<<n, j + 1>>], r, buf[<<n, j>>], f[j + 1], f[j], output[n])
        BY <1>2, <2>1, <2>9, <3>5, <4>1 DEF LineOK, Stage
      <4>3. StageOK(j + 1, proc[<<n, j + 1>>], s, buf[<<n, j>>], f[j + 1], f[j], output[n])
        BY <1>2, <1>6, <4>2, AfterMove DEF Closes
      <4>4. buf'[<<n, j>>] = buf[<<n, j>>]
        BY <2>3, <2>7
      <4> QED BY <1>4, <4>3, <4>4 DEF NextOK
    <3>6. \A h \in 1 .. MaxCmds : h # j /\ h # j - 1 => buf'[<<n, h>>] = buf[<<n, h>>]
      BY <2>3, <2>7
    <3>7. output'[n] = output[n] /\ (proc[<<n, j>>].last => s.last)
      BY <1>2, <1>4, <2>1
    <3> QED BY <1>1, <2>8, <2>9, <3>4, <3>5, <3>6, <3>7, LineGoes
  <2>10. \A m \in 1 .. MaxLines, h \in 1 .. MaxCmds : m # n =>
            proc'[<<m, h>>] = proc[<<m, h>>] /\ buf'[<<m, h>>] = buf[<<m, h>>]
    BY <2>7, <2>8 DEF Elsewhere
  <2> QED BY <1>4, <2>9, <2>10, FlowStep
<1> QED BY <1>3, <1>7, <1>8 DEF ReadTo

(* A write.                                                                 *)
LEMMA WriteFlow ==
  ASSUME ShapeInv, Flow, NEW p \in Pids, WriteItem(p)
  PROVE  Flow'
<1>1. TypeOK /\ Records /\ InOrder
  BY DEF ShapeInv
<1>2. PICK r \in Record : r = proc[p]
  BY <1>1 DEF TypeOK
<1>3. PICK s : Moved(p, s) /\ WriteTo(p, r, s)
  BY <1>1, <1>2, WriteMoves
<1>4. proc' = [proc EXCEPT ![p] = s] /\ s.last = r.last
  BY <1>2, <1>3 DEF Moved, Becomes
<1>5. CopyTo(r, s) /\ r.have = 1 /\ s.have = 0 /\ s.source = r.source
  BY <1>3 DEF WriteTo
<1>6. PICK n \in 1 .. MaxLines, j \in 1 .. MaxCmds : n = p[1] /\ j = p[2] /\ p = <<n, j>>
  BY PidsAre
<1>7. proc'[<<n, j>>] = s /\ Elsewhere(n, j)
  BY <1>1, <1>4, <1>6, MovedIs
<1>8. /\ \A m \in 1 .. MaxLines, h \in 1 .. MaxCmds : m # n \/ h # j => buf'[<<m, h>>] = buf[<<m, h>>]
      /\ \A m \in 1 .. MaxLines : m # n => output'[m] = output[m]
      /\ r.last => buf'[<<n, j>>] = buf[<<n, j>>] /\ output'[n] = output[n] + 1
      /\ ~r.last => buf'[<<n, j>>] = buf[<<n, j>>] + 1 /\ output'[n] = output[n]
  <2>1. buf \in [Pids -> Nat] /\ output \in [1 .. MaxLines -> Nat]
    BY <1>1 DEF TypeOK
  <2>2. CASE r.last /\ output' = [output EXCEPT ![n] = @ + 1] /\ buf' = buf
    BY <2>1, <2>2
  <2>3. CASE ~r.last /\ buf' = [buf EXCEPT ![p] = @ + 1] /\ output' = output
    <3>1. buf'[p] = buf[p] + 1 /\ \A t \in Pids : t # p => buf'[t] = buf[t]
      BY <2>1, <2>3
    <3>2. \A m \in 1 .. MaxLines, h \in 1 .. MaxCmds : m # n \/ h # j => buf'[<<m, h>>] = buf[<<m, h>>]
      <4> SUFFICES ASSUME NEW m \in 1 .. MaxLines, NEW h \in 1 .. MaxCmds, m # n \/ h # j
                   PROVE  buf'[<<m, h>>] = buf[<<m, h>>]
        OBVIOUS
      <4>1. <<m, h>> \in Pids /\ <<m, h>> # p
        BY <1>6, PidsAre
      <4> QED BY <3>1, <4>1
    <3> QED BY <1>6, <2>3, <3>1, <3>2
  <2> QED BY <1>3, <1>6, <2>2, <2>3 DEF WriteTo
<1>9. ASSUME NEW f \in [1 .. MaxCmds -> Nat], LineOK(n, f)
      PROVE  \E g \in [1 .. MaxCmds -> Nat] : LineOK(n, g)'
  <2>1. PICK g \in [1 .. MaxCmds -> Nat] : g[j] = f[j] + 1 /\ \A h \in 1 .. MaxCmds : h # j => g[h] = f[h]
    <3>1. f[j] + 1 \in Nat
      OBVIOUS
    <3>2. [f EXCEPT ![j] = f[j] + 1] \in [1 .. MaxCmds -> Nat]
      BY <3>1
    <3>3. \A h \in 1 .. MaxCmds : h # j => [f EXCEPT ![j] = f[j] + 1][h] = f[h]
      OBVIOUS
    <3> QED BY <3>2, <3>3
  <2>2. SelfOK(n, j, s, g)
    <3>1. /\ SelfKept(p, r, f)
          /\ Counts(j, buf[<<n, j - 1>>], f[j], f[j - 1], output[n])
      BY <1>1, <1>2, <1>6, <1>9, StageHas
    <3>2. PICK q, b, x, y, o : /\ q = proc[<<n, j - 1>>] /\ b = buf[<<n, j - 1>>] /\ x = f[j]
                               /\ y = f[j - 1] /\ o = output[n]
      OBVIOUS
    <3>3. StageOK(j, r, q, b, x, y, o) /\ Counts(j, b, x, y, o)
      BY <1>6, <3>1, <3>2 DEF SelfKept
    <3>4. r.last => output'[n] = o + 1
      BY <1>8, <3>2
    <3>5. StageOK(j, s, q, b, x + 1, y, output'[n])
      BY <1>4, <1>5, <3>3, <3>4, WriteStage
    <3>6. CASE j = 1
      BY <2>1, <3>2, <3>5, <3>6, FirstStage DEF SelfOK
    <3>7. CASE j # 1
      <4>1. PICK k \in 1 .. MaxCmds : k = j - 1 /\ k # j
        BY <3>7, BoundsAssumption
      <4>2. buf'[<<n, k>>] = b /\ g[k] = y
        BY <1>8, <2>1, <3>2, <4>1
      <4> QED BY <2>1, <3>2, <3>5, <4>1, <4>2 DEF SelfOK
    <3> QED BY <3>6, <3>7
  <2>3. ASSUME j + 1 \in 1 .. MaxCmds PROVE NextOK(n, j, s, g)
    <3>1. PICK k \in 1 .. MaxCmds : k = j + 1 /\ k # j /\ k > j /\ k - 1 = j /\ k # 1
      BY <2>3, BoundsAssumption
    <3>2. Counts(k, buf[<<n, j>>], f[k], f[j], output[n])
      BY <1>1, <3>1, CountsHold
    <3>3. StageOK(k, proc[<<n, k>>], r, buf[<<n, j>>], f[k], f[j], output[n])
      BY <1>2, <1>6, <1>9, <3>1 DEF LineOK, Stage
    <3>4. PICK t \in Record : t = proc[<<n, k>>]
      BY <1>1, PidsAre DEF TypeOK
    <3>5. CASE r.last
      <4>1. State(n, k) = "none"
        BY <1>1, <1>2, <1>6, <3>1, <3>5 DEF InOrder
      <4>2. proc[<<n, k>>] = NoProcess
        BY <1>1, <4>1, PidsAre DEF State, Records, RecordOK
      <4>3. StageOK(k, proc[<<n, k>>], s, buf'[<<n, j>>], f[k], g[j], output'[n])
        <5>1. PICK b, x, y, o, b2, y2, o2 : /\ b = buf[<<n, j>>] /\ x = f[k] /\ y = f[j] /\ o = output[n]
                                            /\ b2 = buf'[<<n, j>>] /\ y2 = g[j] /\ o2 = output'[n]
          OBVIOUS
        <5>2. StageOK(k, NoProcess, r, b, x, y, o) /\ s.last
          BY <1>4, <3>3, <3>5, <4>2, <5>1
        <5>3. StageOK(k, NoProcess, s, b2, x, y2, o2)
          BY <5>2, AfterLast
        <5> QED BY <4>2, <5>1, <5>3
      <4> QED BY <2>1, <3>1, <4>3 DEF NextOK
    <3>6. CASE ~r.last
      <4>1. StageOK(k, proc[<<n, k>>], s, buf[<<n, j>>] + 1, f[k], f[j] + 1, output[n])
        <5>1. PICK b, x, y, o : b = buf[<<n, j>>] /\ x = f[k] /\ y = f[j] /\ o = output[n]
          OBVIOUS
        <5>2. Counts(k, b, x, y, o) /\ StageOK(k, t, r, b, x, y, o)
          BY <3>2, <3>3, <3>4, <5>1
        <5>3. StageOK(k, t, s, b + 1, x, y + 1, o)
          BY <1>4, <1>5, <3>1, <5>2, AfterWrite
        <5> QED BY <3>4, <5>1, <5>3
      <4> QED BY <1>8, <2>1, <3>1, <3>6, <4>1 DEF NextOK
    <3> QED BY <3>5, <3>6
  <2>4. \A h \in 1 .. MaxCmds : h # j /\ h # j - 1 => buf'[<<n, h>>] = buf[<<n, h>>]
    BY <1>8
  <2>5. output'[n] = output[n] \/ proc[<<n, j>>].last
    BY <1>2, <1>6, <1>8
  <2>6. proc[<<n, j>>].last => s.last
    BY <1>2, <1>4, <1>6
  <2>7. LineOK(n, g)'
    BY <1>1, <1>7, <1>9, <2>1, <2>2, <2>3, <2>4, <2>5, <2>6, LineGoes
  <2> QED BY <2>7
<1>10. \A m \in 1 .. MaxLines, h \in 1 .. MaxCmds : m # n =>
          proc'[<<m, h>>] = proc[<<m, h>>] /\ buf'[<<m, h>>] = buf[<<m, h>>]
  BY <1>7, <1>8 DEF Elsewhere
<1> QED BY <1>8, <1>9, <1>10, FlowStep

(* fork.                                                                    *)
LEMMA ForkFlow ==
  ASSUME ShapeInv, Flow, Fork
  PROVE  Flow'
<1>1. TypeOK /\ Records /\ InOrder
  BY DEF ShapeInv
<1>a. PICK p \in Pids : \E s : ForkTo(p, s) /\ proc' = [proc EXCEPT ![p] = s]
  BY ForkMoves
<1>2. PICK s : ForkTo(p, s) /\ proc' = [proc EXCEPT ![p] = s]
  BY <1>a
<1>3. PICK n \in 1 .. MaxLines, j \in 1 .. MaxCmds : n = p[1] /\ j = p[2] /\ p = <<n, j>>
  BY PidsAre
<1>4. /\ n = line /\ j = pcnt + 1 /\ proc[<<n, j>>] = NoProcess
      /\ s.state = "forked" /\ s.ended = "no" /\ s.have = 0 /\ s.last = (j = Len(pipeline))
  BY <1>2, <1>3 DEF ForkTo
<1>5. /\ pcnt < Len(pipeline) /\ pcnt \in Nat /\ Len(pipeline) \in Nat
  BY BoundsAssumption DEF ShapeInv, TypeOK, Progress, AtLoop, Fork
<1>6. \A k \in 1 .. MaxCmds : ~proc[<<n, k>>].last
  <2> SUFFICES ASSUME NEW k \in 1 .. MaxCmds PROVE ~proc[<<n, k>>].last
    OBVIOUS
  <2>1. proc[<<n, k>>].last <=> k <= pcnt /\ k = Len(pipeline)
    BY <1>4 DEF ShapeInv, Progress, Placed
  <2> QED BY <1>5, <2>1
<1>7. proc'[<<n, j>>] = s /\ Elsewhere(n, j) /\ UNCHANGED <<buf, output>>
  BY <1>1, <1>2, <1>3, MovedIs DEF Fork
<1>8. ASSUME NEW f \in [1 .. MaxCmds -> Nat], LineOK(n, f) PROVE LineOK(n, f)'
  <2>1. output[n] = 0
    BY <1>6, <1>8 DEF LineOK
  <2>2. SelfOK(n, j, s, f)
    <3>1. /\ StageOK(j, NoProcess, proc[<<n, j - 1>>], buf[<<n, j - 1>>], f[j], f[j - 1], output[n])
          /\ Counts(j, buf[<<n, j - 1>>], f[j], f[j - 1], output[n])
      BY <1>1, <1>4, <1>8, CountsHold DEF LineOK, Stage
    <3>2. j # 1 => ~proc[<<n, j - 1>>].last /\ j > 1
      <4> SUFFICES ASSUME j # 1 PROVE ~proc[<<n, j - 1>>].last /\ j > 1
        OBVIOUS
      <4>1. j > 1 /\ j - 1 \in 1 .. MaxCmds
        BY BoundsAssumption
      <4> QED BY <1>6, <4>1
    <3>3. StageOK(j, s, proc[<<n, j - 1>>], buf[<<n, j - 1>>], f[j], f[j - 1], output[n])
      BY <1>4, <2>1, <3>1, <3>2, ForkStage
    <3> QED BY <1>7, <3>3 DEF SelfOK
  <2>3. ASSUME j + 1 \in 1 .. MaxCmds PROVE NextOK(n, j, s, f)
    <3>1. PICK k \in 1 .. MaxCmds : k = j + 1 /\ k - 1 = j /\ ~(k <= pcnt)
      BY <1>4, <1>5, <2>3, BoundsAssumption
    <3>2. StageOK(k, proc[<<n, k>>], NoProcess, buf[<<n, j>>], f[k], f[j], output[n])
      BY <1>4, <1>8, <3>1 DEF LineOK, Stage
    <3>3. proc[<<n, k>>] = NoProcess
      <4>1. State(n, k) = "none"
        BY <1>4, <3>1 DEF ShapeInv, Progress, Placed
      <4> QED BY <1>1, <4>1, PidsAre DEF State, Records, RecordOK
    <3>4. StageOK(k, proc[<<n, k>>], s, buf[<<n, j>>], f[k], f[j], output[n])
      <4>1. CASE s.last
        BY <3>2, <3>3, <4>1, AfterLast
      <4>2. CASE ~s.last
        <5>1. s.last = NoProcess.last /\ NoProcess.state = "none"
          BY <1>4, <4>2 DEF NoProcess
        <5> QED BY <3>2, <5>1, AfterMove
      <4> QED BY <4>1, <4>2
    <3> QED BY <1>7, <3>1, <3>4 DEF NextOK
  <2>4. ~proc[<<n, j>>].last
    BY <1>6
  <2>5. /\ \A k \in 1 .. MaxCmds : k # j /\ k # j - 1 => buf'[<<n, k>>] = buf[<<n, k>>]
        /\ output'[n] = output[n]
    BY <1>7
  <2> QED BY <1>1, <1>7, <1>8, <2>2, <2>3, <2>4, <2>5, LineGoes
<1>9. \A m \in 1 .. MaxLines, h \in 1 .. MaxCmds : m # n =>
         proc'[<<m, h>>] = proc[<<m, h>>] /\ buf'[<<m, h>>] = buf[<<m, h>>]
  BY <1>7 DEF Elsewhere
<1> QED BY <1>7, <1>8, <1>9, FlowStep

(* A set of processes of a line that is not empty has a first one.          *)
LEMMA FirstOf ==
  ASSUME NEW S \in SUBSET Nat, S # {}
  PROVE  \E k \in S : \A j \in S : k <= j
<1>1. PICK k \in S : \A j \in S : <<j, k>> \notin OpToRel(<, Nat)
  <2> HIDE DEF OpToRel
  <2> QED BY NatLessThanWellFounded, WFMin
<1>2. \A j \in S : ~(j < k)
  BY <1>1 DEF OpToRel
<1> QED BY <1>2

(* No item has moved at the beginning.                                      *)
LEMMA InitFlow == Init => Flow
<1> SUFFICES ASSUME Init, NEW n \in 1 .. MaxLines PROVE \E f \in [1 .. MaxCmds -> Nat] : LineOK(n, f)
  BY DEF Flow
<1>1. PICK f \in [1 .. MaxCmds -> Nat] : f = [k \in 1 .. MaxCmds |-> 0]
  OBVIOUS
<1>2. NoProcess.state = "none" /\ NoProcess.ended = "no" /\ NoProcess.last = FALSE
  BY DEF NoProcess
<1>3. ASSUME NEW k \in 1 .. MaxCmds PROVE Stage(n, k, f)
  <2>1. proc[<<n, k>>] = NoProcess /\ f[k] = 0
    BY <1>1, PidsAre DEF Init
  <2>2. k > 1 => buf[<<n, k - 1>>] = 0 /\ f[k - 1] = 0
    <3> SUFFICES ASSUME k > 1 PROVE buf[<<n, k - 1>>] = 0 /\ f[k - 1] = 0
      OBVIOUS
    <3>1. k - 1 \in 1 .. MaxCmds
      BY BoundsAssumption
    <3> QED BY <1>1, <3>1, PidsAre DEF Init
  <2> QED BY <1>2, <2>1, <2>2 DEF Stage, StageOK, Lives
<1>4. output[n] = 0
  BY DEF Init
<1> QED BY <1>3, <1>4 DEF LineOK

(* Every step keeps account of the items.                                   *)
LEMMA NextFlow == ShapeInv /\ Flow /\ [Next]_vars => Flow'
<1> SUFFICES ASSUME ShapeInv, Flow, [Next]_vars PROVE Flow'
  OBVIOUS
<1>1. CASE UNCHANGED <<proc, buf, output>>
  BY <1>1, FlowStays
<1>2. CASE UNCHANGED vars
  BY <1>1, <1>2 DEF vars
<1>3. ASSUME NEW l \in Lines, ReadLine(l) PROVE Flow'
  BY <1>1, <1>3 DEF ReadLine
<1>4. CASE Builtins
  <2>1. CASE Exit
    BY <1>1, <2>1 DEF Exit
  <2>2. ASSUME NEW arg, Wait(arg) PROVE Flow'
    BY <1>1, <2>2 DEF Wait, Builtin
  <2>3. ASSUME NEW p \in Pids, Kill(p) PROVE Flow'
    <3>1. UNCHANGED <<buf, output>>
      BY <2>3 DEF Kill, Builtin
    <3>2. CASE Alive(p)
      <4>1. proc' = Ended(<<p, "killed">>)
        BY <2>3, <3>2 DEF Kill
      <4> QED BY <3>1, <3>2, <4>1, EndFlow
    <3>3. CASE ~Alive(p)
      BY <1>1, <2>3, <3>1, <3>3 DEF Kill
    <3> QED BY <3>2, <3>3
  <2> QED BY <1>4, <2>1, <2>2, <2>3 DEF Builtins
<1>5. CASE WaitForeground
  <2>1. PICK p \in Pids : p = <<line, i>>
    <3>1. i \in 1 .. pcnt /\ line > 0 /\ pcnt = Len(pipeline)
      BY <1>5 DEF WaitForeground, ShapeInv, Progress, AtLoop
    <3>2. line \in 1 .. MaxLines /\ i \in 1 .. MaxCmds
      BY <3>1, BoundsAssumption DEF ShapeInv, TypeOK
    <3> QED BY <3>2, PidsAre
  <2>2. /\ proc[p].state = "zombie" /\ proc' = [proc EXCEPT ![p].state = "reaped"]
        /\ UNCHANGED <<buf, output>>
    BY <1>5, <2>1 DEF WaitForeground
  <2> QED BY <2>2, ReapFlow
<1>6. CASE WaitBuiltin
  <2>1. ASSUME NEW p \in Awaited, proc[p].state = "zombie", proc' = [proc EXCEPT ![p].state = "reaped"]
        PROVE  Flow'
    <3>1. p \in Pids /\ UNCHANGED <<buf, output>>
      BY <1>6 DEF Awaited, WaitBuiltin
    <3> QED BY <2>1, <3>1, ReapFlow
  <2> QED BY <1>1, <1>6, <2>1 DEF WaitBuiltin
<1>7. CASE Pipe \/ CannotStart \/ ClosePipes
  BY <1>1, <1>7 DEF Pipe, CannotStart, ClosePipes
<1>8. ASSUME NEW p \in Pids, Process(p) \/ ChildFails(p) \/ Quit(p) PROVE Flow'
  <2>1. CASE ChildExec(p) \/ ReadItem(p) \/ WriteItem(p) \/ EndOfFile(p)
    BY <2>1, ExecFlow, ReadFlow, WriteFlow, EndOfFileFlow
  <2>2. CASE BrokenPipe(p) \/ ChildFails(p) \/ Quit(p)
    <3>1. Alive(p) /\ UNCHANGED <<buf, output>>
      BY <2>2 DEF BrokenPipe, ChildFails, Quit, Running, Alive
    <3>2. PICK how \in {"quit", "failed", "killed"} : proc' = Ended(<<p, how>>)
      BY <2>2 DEF BrokenPipe, ChildFails, Quit
    <3> QED BY <3>1, <3>2, EndFlow
  <2> QED BY <1>8, <2>1, <2>2 DEF Process
<1>9. CASE Finished
  BY <1>1, <1>9 DEF Finished, vars
<1> QED BY <1>2, <1>3, <1>4, <1>5, <1>6, <1>7, <1>8, <1>9, ForkFlow DEF Next, ShellStep, RunPipeline

(* What the processes of every line have put out can be accounted for: an   *)
(* item a process was given is in its pipe, in its hands or put out.        *)
THEOREM NoItemLost == Spec => [](ShapeInv /\ Flow)
<1>1. Init => ShapeInv /\ Flow
  BY InitShape, InitFlow
<1>2. (ShapeInv /\ Flow) /\ [Next]_vars => (ShapeInv /\ Flow)'
  BY NextShape, NextFlow
<1> QED BY <1>1, <1>2, PTL DEF Spec

(* Along a line whose processes all ended at their end of file, each has    *)
(* put out as much as the one before: the first that has not would have     *)
(* lost an item.                                                            *)
LEMMA FlowCompletes == ShapeInv /\ Flow => OutputIsComplete
<1> SUFFICES ASSUME ShapeInv, Flow, NEW n \in 1 .. MaxLines,
                    \E p \in Stages(n) : proc[p].last, \A p \in Stages(n) : proc[p].ended = "done"
             PROVE  output[n] = Items
  BY DEF OutputIsComplete
<1>1. PICK p \in Stages(n) : proc[p].last
  OBVIOUS
<1>2. PICK z \in 1 .. MaxCmds : p = <<n, z>>
  BY PidsAre DEF Stages
<1>3. PICK f \in [1 .. MaxCmds -> Nat] : LineOK(n, f)
  BY DEF Flow
<1>4. ASSUME NEW k \in 1 .. MaxCmds, k <= z PROVE proc[<<n, k>>].ended = "done"
  <2>1. State(n, z) # "none" /\ z \in Nat /\ k \in Nat
    BY <1>2, BoundsAssumption DEF Stages, State
  <2>2. State(n, k) # "none"
    <3>1. CASE k = z
      BY <2>1, <3>1
    <3>2. CASE k < z
      BY <2>1, <3>2 DEF ShapeInv, InOrder
    <3> QED BY <1>4, <2>1, <3>1, <3>2
  <2>3. PICK q \in Pids : q = <<n, k>> /\ q[1] = n
    BY PidsAre
  <2>4. q \in Stages(n)
    BY <2>2, <2>3 DEF Stages, State
  <2> QED BY <2>3, <2>4
<1> DEFINE Short == {k \in 1 .. MaxCmds : k <= z /\ f[k] # Items}
<1>5. Short = {}
  <2> SUFFICES ASSUME Short # {} PROVE FALSE
    OBVIOUS
  <2>1. Short \in SUBSET Nat
    BY BoundsAssumption
  <2>2. PICK k \in Short : \A j \in Short : k <= j
    <3> HIDE DEF Short
    <3> QED BY <2>1, FirstOf
  <2>3. k \in 1 .. MaxCmds /\ k <= z /\ f[k] # Items
    OBVIOUS
  <2>4. proc[<<n, k>>].ended = "done" /\ Stage(n, k, f)
    BY <1>3, <1>4, <2>3 DEF LineOK
  <2>5. ~Own(k, proc[<<n, k>>]) /\ f[k - 1] = f[k]
    BY <2>3, <2>4 DEF Stage, StageOK
  <2>6. k # 1
    BY <2>5 DEF Own
  <2>7. k - 1 \in 1 .. MaxCmds /\ k - 1 <= z /\ ~(k <= k - 1)
    BY <2>3, <2>6, BoundsAssumption
  <2>8. k - 1 \in Short
    BY <2>3, <2>5, <2>7
  <2> QED BY <2>2, <2>7, <2>8
<1>6. f[z] = Items
  <2>1. z <= z
    BY BoundsAssumption
  <2> QED BY <1>5, <2>1
<1>7. output[n] = f[z]
  <2>1. Stage(n, z, f) /\ proc[<<n, z>>].last
    BY <1>1, <1>2, <1>3 DEF LineOK
  <2> QED BY <2>1 DEF Stage, StageOK
<1> QED BY <1>6, <1>7

(* If every process of a pipeline runs to its end of file, the last one has *)
(* put out every item, whatever the commands, their number and their        *)
(* redirections, the capacity of a pipe and the order of the steps.         *)
THEOREM PipelinesAreComplete == Spec => []OutputIsComplete
<1> QED BY NoItemLost, FlowCompletes, PTL

=============================================================================
