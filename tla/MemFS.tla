------------------------------- MODULE MemFS -------------------------------
(***************************************************************************)
(* The in-memory file system of task02 (memfs.c, inode.c) and the log it   *)
(* rebuilds itself from (log.c).  FUSE runs the handlers in several        *)
(* threads; no lock is taken in the program.                               *)
(*                                                                         *)
(* The tree is a function from paths to inodes.  A path, or the target of  *)
(* a link, is a sequence of names, and a name a sequence of words: a name  *)
(* of two words is one with a blank in it, which is what replay trips      *)
(* over.  Left out: permission bits (%o writes them and reads them back),  *)
(* the order of children, names with two blanks or a line break, and the   *)
(* requests the kernel does not send (a negative offset, a write of no     *)
(* bytes, an access the descriptor was not opened for).                    *)
(***************************************************************************)
EXTENDS Naturals, FiniteSets, Sequences, SequencesExt, FiniteSetsExt, TLC

CONSTANTS Threads,        \* the threads of fuse_main
          Requests,       \* bound: what the kernel may ask, a set for each request in turn
          Numerals,       \* the words that are numbers, with their values
          Fills,          \* bytes that uninitialized memory may hold
          MAX_CHILDREN,   \* children of a directory
          MaxRestarts,    \* bound: crashes
          MaxFailures,    \* bound: failures of allocations and of the log file
          NULL            \* no target

VARIABLES tree,       \* the inodes
          log,        \* the log file, a record per line
          replay,     \* what load_log has yet to replay; is_replaying if not empty
          th,         \* the request each thread works on
          last,       \* the thread whose path strtok's static pointer is in
          bounds,     \* requests, crashes and failures so far
          answered,   \* history: changes that were answered with success
          astray,     \* history: a walk went on in another thread's path
          lost        \* history: changes that were not appended, or not replayed
vars == <<tree, log, replay, th, last, bounds, answered, astray, lost>>

Root == <<>>
NewInode(kind) == [kind |-> kind, data |-> <<>>, target |-> NULL]
EmptyTree == (Root :> NewInode("dir"))

Creations == {"mkdir", "mknod", "symlink"}
Changes == Creations \cup {"write"}
KindMade == [mkdir |-> "dir", mknod |-> "reg", symlink |-> "lnk"]

(* A request is a record with op, path and arguments.                       *)
Names == UNION {Range(r.path) : r \in UNION Range(Requests)}
ASSUME NamesAssumption == \A n \in Names : Len(n) \in 1 .. 2

-----------------------------------------------------------------------------
(* What a handler does once the inode is found.                             *)

(* find_by_path is given all of the path by write and the queries, and all  *)
(* but the last name by parse_parent.                                       *)
Sought(r) == IF r.op \in Creations THEN Front(r.path) ELSE r.path

Children(tr, dir) == {p \in DOMAIN tr : p # Root /\ Front(p) = dir}

(* The checks of the handlers, in their order, on the inode at; those of    *)
(* mknod and symlink are those of mkdir, those of read and write are open's. *)
my_fuse_mkdir(tr, r, at) ==
    IF tr[at].kind # "dir" THEN "ENOTDIR"
    ELSE IF Append(at, Last(r.path)) \in DOMAIN tr THEN "EEXIST"
    ELSE IF Cardinality(Children(tr, at)) >= MAX_CHILDREN THEN "ENOMEM" ELSE "0"
my_fuse_open(tr, at)     == IF tr[at].kind # "reg" THEN "EISDIR" ELSE "0"
my_fuse_readdir(tr, at)  == IF tr[at].kind # "dir" THEN "ENOTDIR" ELSE "0"
my_fuse_readlink(tr, at) == IF tr[at].target = NULL THEN "EINVAL" ELSE "0"

Refusal(tr, r, at) ==
    CASE r.op \in Creations -> my_fuse_mkdir(tr, r, at)
      [] r.op \in {"read", "write", "open"} -> my_fuse_open(tr, at)
      [] r.op = "readdir" -> my_fuse_readdir(tr, at)
      [] r.op = "readlink" -> my_fuse_readlink(tr, at)
      [] OTHER -> "0"

NewSize(r) == r.offset + Len(r.buf)
Grows(tr, r, at) == NewSize(r) > Len(tr[at].data)

(* my_fuse_write: realloc leaves the new bytes uninitialized, and those     *)
(* between the old end and the offset stay so; memcpy sets the others.      *)
Resized(data, size, fill) ==
    [i \in 1 .. size |-> IF i \in DOMAIN data THEN data[i] ELSE fill]
Positions(r) == r.offset + 1 .. NewSize(r)
Copied(data, r) ==
    [i \in DOMAIN data |-> IF i \in Positions(r) THEN r.buf[i - r.offset] ELSE data[i]]
Written(data, r, fill) == Copied(Resized(data, Max({Len(data), NewSize(r)}), fill), r)

create_inode(tr, at, name, kind) == (Append(at, name) :> NewInode(kind)) @@ tr

my_fuse_symlink(tr, r, at) ==
    [create_inode(tr, at, Last(r.path), "lnk")
        EXCEPT ![Append(at, Last(r.path))].target = r.target]

Created(tr, r, at) ==
    IF r.op = "symlink" THEN my_fuse_symlink(tr, r, at)
    ELSE create_inode(tr, at, Last(r.path), KindMade[r.op])
Effect(tr, r, at, fill) ==
    IF r.op = "write" THEN [tr EXCEPT ![at].data = Written(@, r, fill)] ELSE Created(tr, r, at)

(* What is left if calloc, realloc or the strdup of a link's target returns *)
(* NULL: the link is in the tree by then, and stays.                        *)
Allocates(tr, r, at) == r.op = "write" => Grows(tr, r, at)
OutOfMemory(tr, r, at) ==
    {tr} \cup IF r.op = "symlink" THEN {create_inode(tr, at, Last(r.path), "lnk")} ELSE {}

-----------------------------------------------------------------------------
(* The log.  What sscanf makes of a record: %s stops at a blank, and the    *)
(* next fields are taken from what follows it.                              *)

Blanks(text) == {i \in DOMAIN text : Len(text[i]) > 1}
UpToBlank(text) ==
    IF Blanks(text) = {} THEN text
    ELSE LET i == Min(Blanks(text)) IN Append(SubSeq(text, 1, i - 1), <<Head(text[i])>>)
AfterBlank(text) ==
    LET i == Min(Blanks(text)) IN <<Tail(text[i])>> \o SubSeq(text, i + 1, Len(text))

(* mkdir and mknod take the word after the blank for the mode, and write    *)
(* takes it for the offset, the offset for the size and the size (below 10) *)
(* for the bytes, of which there are then too few.                          *)
Scanned(r, fill) ==
    LET path == UpToBlank(r.path)
        rest == AfterBlank(r.path)
        word == Head(Head(rest))
    IN  IF Blanks(r.path) = {}
        THEN {IF r.op = "symlink" THEN [r EXCEPT !.target = UpToBlank(@)] ELSE r}
        ELSE CASE r.op = "symlink" -> {[r EXCEPT !.path = path, !.target = UpToBlank(rest)]}
               [] r.op \in {"mkdir", "mknod"} /\ word \in DOMAIN Numerals ->
                    {[r EXCEPT !.path = path]}
               [] r.op = "write" /\ word \in DOMAIN Numerals /\ Len(rest) = 1 ->
                    {[r EXCEPT !.path = path, !.offset = Numerals[word],
                               !.buf = [i \in 1 .. r.offset |->
                                           IF i = 1 THEN Len(r.buf) ELSE fill]]}
               [] OTHER -> {}

(* A handler as load_log calls it, with is_replaying set, and one turn of   *)
(* load_log's loop.                                                         *)
Accepted(tr, r) == Sought(r) \in DOMAIN tr /\ Refusal(tr, r, Sought(r)) = "0"
PerformAtStart(tr, r, fill) ==   \* mutant: writes are replayed at offset 0
    IF Accepted(tr, r)
    THEN Effect(tr, IF r.op = "write" THEN [r EXCEPT !.offset = 0] ELSE r, Sought(r), fill)
    ELSE tr
Perform(tr, r, fill) == IF Accepted(tr, r) THEN Effect(tr, r, Sought(r), fill) ELSE tr

Replayed(tr, record, fill) ==
    FoldSet(LAMBDA r, x : Perform(x, r, fill), tr, Scanned(record, fill))

-----------------------------------------------------------------------------
Idle == [at |-> "idle"]

Init ==
    /\ tree = EmptyTree /\ log = <<>> /\ replay = <<>> /\ last = NULL
    /\ th = [t \in Threads |-> Idle]
    /\ bounds = [calls |-> 0, restarts |-> 0, failures |-> 0]
    /\ answered = {} /\ astray = FALSE /\ lost = {}

Busy(t) == th[t].at # "idle"

(* The kernel's locks (external): names in a directory are made one at a    *)
(* time, nothing is asked about a name while it is being made, and a file   *)
(* has one writer.  Reads and requests elsewhere go on at the same time.    *)
Conflicts(r, q) ==
    \/ q.op \in Creations /\ IsPrefix(q.path, r.path)
    \/ r.op \in Creations /\ IsPrefix(r.path, q.path)
    \/ {q.op, r.op} \subseteq Creations /\ Front(q.path) = Front(r.path)
    \/ q.op = "write" /\ r.op = "write" /\ q.path = r.path

Request(t, r) ==
    /\ ~Busy(t) /\ replay = <<>>
    /\ \A u \in Threads : Busy(u) => ~Conflicts(r, th[u].req)
    /\ bounds' = [bounds EXCEPT !.calls = @ + 1]
    /\ th' = [th EXCEPT ![t] = [at |-> IF Sought(r) = Root THEN "handle" ELSE "walk",
                                req |-> r, cur |-> Root, tokens |-> Sought(r), first |-> TRUE]]
    /\ UNCHANGED <<tree, log, replay, last, answered, astray, lost>>

(* One turn of find_by_path: strtok and find_child.  strtok goes on from a  *)
(* static pointer: if another walk has moved it meanwhile, what comes next  *)
(* is a piece of that walk's path or of its dead stack frame.               *)
OnOwnPath(t) == th[t].first \/ last = t
Tokens(t) ==
    IF OnOwnPath(t) THEN {SubSeq(th[t].tokens, 1, Min({1, Len(th[t].tokens)}))}
    ELSE {<<>>} \cup {<<n>> : n \in Names}

Answer(t, ret) == [th EXCEPT ![t] = [at |-> "reply", req |-> @.req, ret |-> ret]]

Walk(t) ==
    /\ th[t].at = "walk"
    /\ \E tokens \in Tokens(t) :
          th' = IF th[t].cur \o tokens \notin DOMAIN tree THEN Answer(t, "ENOENT")
                ELSE [th EXCEPT ![t].first = FALSE, ![t].cur = @ \o tokens,
                                ![t].tokens = SubSeq(@, 2, Len(@)),
                                ![t].at = IF tokens = <<>> THEN "handle" ELSE "walk"]
    /\ astray' = (astray \/ ~OnOwnPath(t))
    /\ last' = IF OnOwnPath(t) THEN t ELSE NULL
    /\ UNCHANGED <<tree, log, replay, bounds, answered, lost>>

(* A handler that refuses, or one of getattr, open, readdir, readlink,      *)
(* statfs that answers.                                                     *)
HandleQuery(t) ==
    LET error == Refusal(tree, th[t].req, th[t].cur)
    IN  /\ th[t].at = "handle"
        /\ error # "0" \/ th[t].req.op \notin Changes \cup {"read"}
        /\ th' = Answer(t, error)
        /\ UNCHANGED <<tree, log, replay, last, bounds, answered, astray, lost>>

(* my_fuse_read looks at the size of the file three times: is there        *)
(* anything at the offset (line 53), is all of it there (57), and if not,   *)
(* how much is (58).  grew: the file has grown between the last two.        *)
StartRead(t) ==
    LET r == th[t].req
        length == Len(tree[th[t].cur].data)
    IN  /\ th[t].at = "handle" /\ r.op = "read" /\ my_fuse_open(tree, th[t].cur) = "0"
        /\ th' = IF r.offset >= length THEN Answer(t, "0")
                 ELSE [th EXCEPT ![t] = [at |-> "compare", req |-> r, cur |-> @.cur,
                                         there |-> length]]
        /\ UNCHANGED <<tree, log, replay, last, bounds, answered, astray, lost>>

(* The pointer to the data is read next (59): it is a freed one if a write  *)
(* is between its realloc and its assignment.                               *)
Copying(t, size, grew) ==
    LET freed == \E u \in Threads : th[u].at = "grown" /\ th[u].moved /\ th[u].cur = th[t].cur
    IN  [th EXCEPT ![t] = [at |-> IF freed THEN "dangling" ELSE "copy", req |-> @.req,
                           cur |-> @.cur, there |-> @.there, size |-> size, grew |-> grew]]

CompareSize(t) ==
    LET r == th[t].req
        length == Len(tree[th[t].cur].data)
    IN  /\ th[t].at = "compare"
        /\ th' = IF r.offset + r.size > length
                 THEN [th EXCEPT ![t] = [at |-> "clamp", req |-> r, cur |-> @.cur,
                                         there |-> @.there, saw |-> length]]
                 ELSE Copying(t, r.size, FALSE)
        /\ UNCHANGED <<tree, log, replay, last, bounds, answered, astray, lost>>

ClampToLength(t) ==   \* mutant: forgets the offset
    LET length == Len(tree[th[t].cur].data)
    IN  /\ th[t].at = "clamp"
        /\ th' = Copying(t, length, length # th[t].saw)
        /\ UNCHANGED <<tree, log, replay, last, bounds, answered, astray, lost>>
ClampSize(t) ==
    LET length == Len(tree[th[t].cur].data)
    IN  /\ th[t].at = "clamp"
        /\ th' = Copying(t, length - th[t].req.offset, length # th[t].saw)
        /\ UNCHANGED <<tree, log, replay, last, bounds, answered, astray, lost>>

(* The memcpy, from the file's buffer or from one that realloc has freed.   *)
EndRead(t) ==
    /\ th[t].at \in {"copy", "dangling"}
    /\ th' = Answer(t, "0")
    /\ UNCHANGED <<tree, log, replay, last, bounds, answered, astray, lost>>

Changing(t, ops) ==
    th[t].at = "handle" /\ th[t].req.op \in ops /\ Refusal(tree, th[t].req, th[t].cur) = "0"

Create(t) ==
    /\ Changing(t, Creations)
    /\ tree' = Created(tree, th[t].req, th[t].cur)
    /\ th' = [th EXCEPT ![t] = [at |-> "log", req |-> @.req]]
    /\ UNCHANGED <<log, replay, last, bounds, answered, astray, lost>>

(* my_fuse_write: realloc, which may move the buffer while other threads    *)
(* copy from it; then data and size; then the memcpy.                       *)
Grow(t) ==
    /\ Changing(t, {"write"}) /\ Grows(tree, th[t].req, th[t].cur)
    /\ \E moved \in BOOLEAN :
          th' = [u \in Threads |->
                    IF u = t THEN [at |-> "grown", req |-> th[t].req, cur |-> th[t].cur,
                                   moved |-> moved]
                    ELSE IF moved /\ th[u].at = "copy" /\ th[u].cur = th[t].cur
                    THEN [th[u] EXCEPT !.at = "dangling"] ELSE th[u]]
    /\ UNCHANGED <<tree, log, replay, last, bounds, answered, astray, lost>>
SetSize(t) ==
    /\ th[t].at = "grown"
    /\ \E fill \in Fills :
          tree' = [tree EXCEPT ![th[t].cur].data = Resized(@, NewSize(th[t].req), fill)]
    /\ th' = [th EXCEPT ![t] = [at |-> "fill", req |-> @.req, cur |-> @.cur]]
    /\ UNCHANGED <<log, replay, last, bounds, answered, astray, lost>>
CopyBytes(t) ==
    /\ \/ th[t].at = "fill"
       \/ Changing(t, {"write"}) /\ ~Grows(tree, th[t].req, th[t].cur)
    /\ tree' = [tree EXCEPT ![th[t].cur].data = Copied(@, th[t].req)]
    /\ th' = [th EXCEPT ![t] = [at |-> "log", req |-> @.req]]
    /\ UNCHANGED <<log, replay, last, bounds, answered, astray, lost>>

Failure ==
    /\ bounds.failures < MaxFailures
    /\ bounds' = [bounds EXCEPT !.failures = @ + 1]

NoMemory(t) ==
    /\ Changing(t, Changes) /\ Allocates(tree, th[t].req, th[t].cur)
    /\ Failure
    /\ tree' \in OutOfMemory(tree, th[t].req, th[t].cur)
    /\ th' = Answer(t, "ENOMEM")
    /\ UNCHANGED <<log, replay, last, answered, astray, lost>>

(* append_log: the record leaves the process in one write at fclose.        *)
AppendNoLinks(t) ==   \* mutant: no case for 'S' in the switch
    /\ th[t].at = "log"
    /\ log' = IF th[t].req.op = "symlink" THEN log ELSE Append(log, th[t].req)
    /\ th' = Answer(t, "0")
    /\ UNCHANGED <<tree, replay, last, bounds, answered, astray, lost>>
append_log(t) ==
    /\ th[t].at = "log"
    /\ log' = Append(log, th[t].req)
    /\ th' = Answer(t, "0")
    /\ UNCHANGED <<tree, replay, last, bounds, answered, astray, lost>>

(* fopen fails, or fclose cannot write the record: nobody looks.            *)
CannotLog(t) ==
    /\ th[t].at = "log"
    /\ Failure
    /\ lost' = lost \cup {th[t].req}
    /\ th' = Answer(t, "0")
    /\ UNCHANGED <<tree, log, replay, last, answered, astray>>

Reply(t) ==
    /\ th[t].at = "reply"
    /\ answered' = IF th[t].ret = "0" /\ th[t].req.op \in Changes
                   THEN answered \cup {th[t].req} ELSE answered
    /\ th' = [th EXCEPT ![t] = Idle]
    /\ UNCHANGED <<tree, log, replay, last, bounds, astray, lost>>

(* The process is killed, also in load_log, and started again by main,      *)
(* which opens the log, or cannot and goes on with an empty tree.           *)
Restart ==
    /\ bounds.restarts < MaxRestarts
    /\ tree' = EmptyTree /\ th' = [t \in Threads |-> Idle] /\ last' = NULL
    /\ \/ /\ bounds' = [bounds EXCEPT !.restarts = @ + 1]
          /\ replay' = log
          /\ UNCHANGED lost
       \/ /\ bounds.failures < MaxFailures
          /\ bounds' = [bounds EXCEPT !.restarts = @ + 1, !.failures = @ + 1]
          /\ replay' = <<>>
          /\ lost' = lost \cup Range(log)
    /\ UNCHANGED <<log, answered, astray>>

(* One turn of load_log's loop; a handler may find no memory here as well.  *)
load_log ==
    /\ replay # <<>>
    /\ replay' = Tail(replay)
    /\ \E fill \in Fills : tree' = Replayed(tree, Head(replay), fill)
    /\ UNCHANGED <<log, th, last, bounds, answered, astray, lost>>
LoadNoMemory ==
    /\ replay # <<>>
    /\ replay' = Tail(replay)
    /\ Failure
    /\ \E r \in Scanned(Head(replay), 0) :
          /\ Accepted(tree, r) /\ Allocates(tree, r, Sought(r))
          /\ tree' \in OutOfMemory(tree, r, Sought(r))
    /\ lost' = lost \cup {Head(replay)}
    /\ UNCHANGED <<log, th, last, answered, astray>>

Step(t) ==
    \/ Walk(t) \/ HandleQuery(t)
    \/ StartRead(t) \/ CompareSize(t) \/ ClampSize(t) \/ EndRead(t)
    \/ Create(t) \/ Grow(t) \/ SetSize(t) \/ CopyBytes(t) \/ NoMemory(t)
    \/ append_log(t) \/ CannotLog(t) \/ Reply(t)

Next ==
    \/ \E t \in Threads : Step(t)
    \/ \E t \in Threads : /\ bounds.calls < Len(Requests)
                          /\ \E r \in Requests[bounds.calls + 1] : Request(t, r)
    \/ Restart \/ load_log \/ LoadNoMemory

Spec == Init /\ [][Next]_vars

-----------------------------------------------------------------------------
(* What the log says or will say once the threads that have changed the    *)
(* tree have appended their records.                                        *)
Pending == {th[t].req : t \in {u \in Threads : th[u].at = "log"}}
Recorded == Range(log) \cup Pending

(* A path is out of reach of what can go wrong with the log: no record      *)
(* above it or for it is missing, has a blank, or is read back as one for   *)
(* another path, and, if a replay has left out something, no directory on   *)
(* the way has got more children over the sessions than it can hold.        *)
Spoilt(r) == Blanks(r.path) # {} \/ (r.op = "symlink" /\ Blanks(r.target) # {})
Crowded(dir) ==
    LET made == {q.path : q \in UNION {Scanned(r, 0) : r \in {x \in Recorded : x.op \in Creations}}}
    IN  Cardinality({p \in made : Front(p) = dir}) > MAX_CHILDREN
Safe(path) ==
    /\ \A r \in lost : ~IsPrefix(r.path, path)
    /\ \A r \in {q \in Recorded : Spoilt(q)} :
          ~IsPrefix(r.path, path) /\ \A q \in Scanned(r, 0) : ~IsPrefix(q.path, path)
    /\ lost = {} \/ \A i \in 0 .. Len(path) : ~Crowded(SubSeq(path, 1, i))

(* A change that was answered with success is there, also after any number  *)
(* of crashes, each followed by load_log (log.c:58), unless a fault of the  *)
(* log is on the way to its path or find_by_path was led astray.            *)
AnsweredChangesSurvive ==
    ~astray /\ replay = <<>> => \A r \in answered : Safe(r.path) =>
        /\ r.path \in DOMAIN tree
        /\ r.op \in Creations => tree[r.path].kind = KindMade[r.op]
        /\ r.op = "symlink" => tree[r.path].target = r.target
        /\ r.op = "write" => Len(tree[r.path].data) >= NewSize(r)

(* What load_log would rebuild at this moment is the tree in memory but for *)
(* the changes between memory and append_log, in whichever order other      *)
(* threads' changes (memfs.c:84) and records (memfs.c:86) were interleaved. *)
(* Of a file's bytes this is said where a write has been; the others are    *)
(* whatever memory held, here and there.  A link without a target           *)
(* (memfs.c:187) is in memory only, and a file that a write has grown but   *)
(* not copied to (82) is between its two states.                            *)
LogMirrorsTree ==
    LET some == CHOOSE fill \in Fills : TRUE
        rebuilt == FoldSet(LAMBDA r, tr : Perform(tr, r, some),
                           FoldLeft(LAMBDA tr, r : Replayed(tr, r, some), EmptyTree, log), Pending)
        filled == {th[t].cur : t \in {u \in Threads : th[u].at = "fill"}}
        safe == {p \in (DOMAIN rebuilt \cup DOMAIN tree) \ filled : Safe(p)}
        Kept(tr) == {p \in safe \cap DOMAIN tr : tr[p].kind = "lnk" => tr[p].target # NULL}
        Wrote(p) == UNION {Positions(r) : r \in {q \in Recorded : q.op = "write" /\ q.path = p}}
    IN  ~astray /\ replay = <<>> =>
            /\ Kept(rebuilt) = Kept(tree)
            /\ \A p \in Kept(tree) :
                  /\ rebuilt[p].kind = tree[p].kind /\ rebuilt[p].target = tree[p].target
                  /\ Len(rebuilt[p].data) = Len(tree[p].data)
                  /\ \A i \in Wrote(p) : rebuilt[p].data[i] = tree[p].data[i]

(* A read whose buffer was not moved away (memfs.c:59) copies bytes of the  *)
(* file only and leaves out nothing that was there when it began, although  *)
(* writers change the size between its three looks at it (53, 57, 58); and  *)
(* it copies no more than was asked for, unless the file has grown between  *)
(* the last two.                                                            *)
ReadsStayInFile ==
    \A t \in Threads : th[t].at = "copy" =>
        /\ th[t].req.offset + th[t].size <= Len(tree[th[t].cur].data)
        /\ th[t].size >= Min({th[t].req.size, th[t].there - th[t].req.offset})
        /\ th[t].size <= th[t].req.size \/ th[t].grew
=============================================================================
