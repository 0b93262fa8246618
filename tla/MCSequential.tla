---------------------------- MODULE MCSequential ----------------------------
(***************************************************************************)
(* The sequential programs side by side: a behaviour runs one of them, the *)
(* sort, the parser, the pass, or alloc_hashmap and free_hashmap, on some  *)
(* input.                                                                  *)
(***************************************************************************)
EXTENDS ExternalSort, ShellParser, DeadCode, HashmapAlloc

VARIABLE program
vars == <<sortVars, parseVars, passVars, allocVars, program>>

MCInputLines == {<<>>, <<1>>, <<2, 1>>, <<1, 0, 2>>}

\* The programs that are not run have one initial state each.
Empty == <<Numbered(1, <<>>), Numbered(2, <<>>)>>
Init ==
    /\ program \in {"sort", "parser", "pass", "hashmap"}
    /\ SortInit /\ (program # "sort" => reverse = FALSE)
    /\ ParseInit
    /\ PassInit /\ (program # "pass" => original = Empty)
    /\ AllocInit /\ (program # "hashmap" => kind = "lock" /\ n_buckets = 0)

Next ==
    \/ program = "sort" /\ SortNext /\ UNCHANGED <<parseVars, passVars, allocVars, program>>
    \/ program = "parser" /\ ParseNext /\ UNCHANGED <<sortVars, passVars, allocVars, program>>
    \/ program = "pass" /\ PassNext /\ UNCHANGED <<sortVars, parseVars, allocVars, program>>
    \/ program = "hashmap" /\ AllocNext /\ UNCHANGED <<sortVars, parseVars, passVars, program>>

Spec == Init /\ [][Next]_vars
=============================================================================
