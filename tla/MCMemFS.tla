------------------------------ MODULE MCMemFS ------------------------------
(* A directory, file or link "a", a file or link "a/b" in it, two beside    *)
(* it, and objects whose name has a blank, followed by a number ("a 1") or  *)
(* not ("a b").  What can be asked of an object comes after what makes it.  *)
EXTENDS MemFS
A == <<<<"a">>>>
AB == <<<<"a">>, <<"b">>>>
C == <<<<"c">>>>
D == <<<<"d">>>>
Blank == <<<<"a", "b">>>>
A1 == <<<<"a", "1">>>>
MCNumerals == [w \in {"1"} |-> 1]
First ==
    [op : {"mkdir", "mknod"}, path : {A, A1}]
        \cup [op : {"symlink"}, path : {A, Blank}, target : {<<<<"t">>>>}]
Second ==
    [op : {"mknod"}, path : {A, AB, C}]
        \cup [op : {"symlink"}, path : {AB}, target : {<<<<"t", "u">>>>}]
        \cup [op : {"write"}, path : {A, A1}, offset : {0}, buf : {<<1>>}]
Third ==
    [op : {"mknod"}, path : {C, Blank}] \cup [op : {"readlink"}, path : {A}]
        \cup [op : {"write"}, path : {A, A1}, offset : {1}, buf : {<<2>>}]
        \cup [op : {"read"}, path : {A}, offset : {0}, size : {2}]
Fourth ==
    [op : {"mknod"}, path : {D, AB}] \cup [op : {"readdir"}, path : {A}]
        \cup [op : {"write"}, path : {A}, offset : {2}, buf : {<<3>>}]
        \cup [op : {"read"}, path : {A}, offset : {1}, size : {2}]
MCRequests == <<First, Second, Third, Fourth>>
Symmetry == Permutations(Threads)

(* Nothing is promised once a walk has been led astray; the run ends there. *)
OnItsWay == ~astray
=============================================================================
