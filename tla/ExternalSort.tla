---------------------------- MODULE ExternalSort ----------------------------
(***************************************************************************)
(* The external sort of task00 (sort.cpp): sorted runs in temporary files, *)
(* and a merge of them through a priority queue.  A line is a sequence of  *)
(* characters, 0 among them; a run is a sequence of lines, each written    *)
(* with a newline, so that fgetline returns them one by one whatever their *)
(* length.                                                                 *)
(***************************************************************************)
EXTENDS Naturals, Sequences, SequencesExt, FiniteSetsExt

CONSTANTS InputLines,  \* the lines an input may have
          MEM_LIMIT,   \* size of a run in memory, 64 MiB in the code
          MaxInput     \* bound: lines of the input

VARIABLES reverse,   \* the option -r
          read,      \* history: the lines read from standard input
          str_lst,   \* lines in memory
          files,     \* what is left to read of each temporary file
          pq,        \* the priority queue: a line per file
          out,       \* lines written to standard output
          sorter     \* where main is
sortVars == <<reverse, read, str_lst, files, pq, out, sorter>>

SizeofString == 1    \* sizeof(std::string), in the units of MEM_LIMIT

(* operator< of std::string.                                                *)
Less(a, b) ==
    \E n \in 1 .. Len(b) :
        /\ n <= Len(a) + 1 /\ SubSeq(a, 1, n - 1) = SubSeq(b, 1, n - 1)
        /\ n <= Len(a) => a[n] < b[n]
Before(a, b) == IF reverse THEN Less(b, a) ELSE Less(a, b)

SortInit ==
    /\ reverse \in BOOLEAN
    /\ read = <<>> /\ str_lst = <<>> /\ files = <<>> /\ pq = {} /\ out = <<>>
    /\ sorter = "read"

(* len: it is reset with str_lst, so it is the size of what is in there.    *)
Length(lines) == FoldLeft(LAMBDA n, l : n + SizeofString + Len(l), 0, lines)

(* What fputs writes of a line: c_str() ends at a 0.                        *)
CString(line) ==
    LET zeros == {n \in DOMAIN line : line[n] = 0}
    IN  IF zeros = {} THEN line ELSE SubSeq(line, 1, Min(zeros) - 1)

SortedRun(lines) == SortSeq(lines, Before)

GetLine(line) ==
    /\ sorter = "read" /\ Len(read) < MaxInput
    /\ read' = Append(read, line) /\ str_lst' = Append(str_lst, line)
    /\ sorter' = IF Length(str_lst') >= MEM_LIMIT THEN "separate" ELSE "read"
    /\ UNCHANGED <<reverse, files, pq, out>>

(* The end of the input: what is in memory makes the last run.              *)
EndOfInput ==
    /\ sorter = "read" /\ sorter' = "last"
    /\ UNCHANGED <<reverse, read, str_lst, files, pq, out>>

separate ==
    /\ sorter \in {"separate", "last"}
    /\ files' = IF str_lst = <<>> THEN files
                ELSE Append(files, [n \in DOMAIN str_lst |-> CString(SortedRun(str_lst)[n])])
    /\ str_lst' = <<>>
    /\ sorter' = IF sorter = "last" THEN "merge" ELSE "read"
    /\ UNCHANGED <<reverse, read, pq, out>>

(* tmpfile, fputs or fputc fails: exit status 1.                            *)
SeparateFails ==
    /\ sorter \in {"separate", "last"} /\ str_lst # <<>>
    /\ sorter' = "failed"
    /\ UNCHANGED <<reverse, read, str_lst, files, pq, out>>

(* The next line of a file, if there is one, as an entry of the queue.      *)
fgetline(f) == {<<files[f][n], f>> : n \in DOMAIN files[f] \cap {1}}

(* merge: the first lines of all files, then the queue.  The next line of   *)
(* a file goes in when its line comes out.                                  *)
FillQueue ==
    /\ sorter = "merge" /\ sorter' = "output"
    /\ pq' = UNION {fgetline(f) : f \in DOMAIN files}
    /\ files' = [f \in DOMAIN files |-> Tail(files[f])]
    /\ UNCHANGED <<reverse, read, str_lst, out>>

AnyTop == pq   \* mutant: the queue is a list
Top == {e \in pq : \A x \in pq : ~Before(x[1], e[1])}
PopQueue ==
    /\ sorter = "output"
    /\ \E e \in Top :
          /\ out' = Append(out, e[1])
          /\ pq' = (pq \ {e}) \cup fgetline(e[2])
          /\ files' = [files EXCEPT ![e[2]] = SubSeq(@, 2, Len(@))]
    /\ UNCHANGED <<reverse, read, str_lst, sorter>>

(* All written, or standard output has failed.                              *)
EndOfMerge ==
    /\ sorter = "output" /\ pq = {}
    /\ sorter' \in {"ok", "failed"}
    /\ UNCHANGED <<reverse, read, str_lst, files, pq, out>>

SortNext ==
    \/ \E line \in InputLines : GetLine(line)
    \/ EndOfInput \/ separate \/ SeparateFails \/ FillQueue \/ PopQueue \/ EndOfMerge

-----------------------------------------------------------------------------
(* With exit status 0 the output is the input, in order and each line as    *)
(* often as it was read (sort.cpp:109-120), wherever the limit cut it into  *)
(* runs and whichever of equal lines the queue prefers; of a line with a 0  *)
(* in it, the part before the 0.                                            *)
SortsItsInput ==
    sorter = "ok" =>
        /\ Len(out) = Len(read)
        /\ \A n \in 1 .. Len(out) - 1 : ~Before(out[n + 1], out[n])
        /\ \A l \in Range(out) : Len(SelectSeq(out, LAMBDA x : x = l))
                                    = Len(SelectSeq(read, LAMBDA x : CString(x) = l))
=============================================================================
