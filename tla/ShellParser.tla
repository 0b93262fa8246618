---------------------------- MODULE ShellParser ----------------------------
(***************************************************************************)
(* The parser of the shell (task03, parse.y and scan.l): what the grammar's *)
(* actions have built when main gets back from yyparse, whose result it    *)
(* does not look at.  A syntax error ends yyparse in the middle of a line; *)
(* the token it met is lost and the rest is read as the next line.         *)
(***************************************************************************)
EXTENDS Naturals, Sequences, SequencesExt, FiniteSetsExt

CONSTANTS Words,       \* STRING tokens
          InitialCap,  \* elements argv starts with, 8 in the code
          MaxTokens    \* bound: tokens of a session

VARIABLES typed,    \* history: the tokens of this line so far
          parse,    \* the parser: state, commands, background, builtin
          ran,      \* what main last got to run, and of which line
          clean,    \* history: no syntax error in this line
          tokens    \* how many tokens were typed
parseVars == <<typed, parse, ran, clean, tokens>>

Keywords == {"exit", "wait", "kill"}
Operators == {"|", "<", ">", "&"}

NewCommand == [argv |-> <<>>, argv_cap |-> 0, input_redir |-> <<>>, output_redir |-> <<>>]

(* main, before each line.                                                  *)
FreshParse == [at |-> "start", cmds |-> <<>>, background |-> FALSE,
               builtin |-> "none", arg |-> <<>>]

ParseInit ==
    /\ typed = <<>> /\ parse = FreshParse /\ clean = TRUE /\ tokens = 0
    /\ ran = [of |-> <<>>, got |-> FreshParse, ok |-> FALSE]

(* append_argv: the array doubles when it cannot take one more argument.    *)
AppendArgvLate(c, word) ==   \* mutant: argc > argv_cap
    LET cap == IF c.argv_cap = 0 THEN InitialCap ELSE c.argv_cap
    IN  [c EXCEPT !.argv = Append(@, word),
                  !.argv_cap = IF Len(c.argv) > cap THEN 2 * cap ELSE cap]
append_argv(c, word) ==
    LET cap == IF c.argv_cap = 0 THEN InitialCap ELSE c.argv_cap
    IN  [c EXCEPT !.argv = Append(@, word),
                  !.argv_cap = IF Len(c.argv) + 1 > cap THEN 2 * cap ELSE cap]

Current == Len(parse.cmds)

(* The grammar: what it accepts where, and what the actions then do.        *)
Shift(tk) ==
    CASE parse.at = "start" /\ tk \in Keywords ->
            {[parse EXCEPT !.at = tk, !.builtin = IF tk = "kill" THEN "none" ELSE tk]}
      [] parse.at \in Keywords /\ tk \in Words ->
            {[parse EXCEPT !.at = "complete", !.builtin = parse.at, !.arg = <<tk>>]}
      [] parse.at \in {"start", "pipe"} /\ tk \in Words ->
            {[parse EXCEPT !.at = "command", !.cmds = Append(@, append_argv(NewCommand, tk))]}
      [] parse.at = "command" /\ tk \in Words ->
            {[parse EXCEPT !.cmds[Current] = append_argv(@, tk)]}
      [] parse.at = "command" /\ tk = "<" -> {[parse EXCEPT !.at = "<"]}
      [] parse.at \in {"command", "input"} /\ tk = ">" -> {[parse EXCEPT !.at = ">"]}
      [] parse.at = "<" /\ tk \in Words ->
            {[parse EXCEPT !.at = "input", !.cmds[Current].input_redir = <<tk>>]}
      [] parse.at = ">" /\ tk \in Words ->
            {[parse EXCEPT !.at = "output", !.cmds[Current].output_redir = <<tk>>]}
      [] parse.at \in {"command", "input", "output"} /\ tk = "|" -> {[parse EXCEPT !.at = "pipe"]}
      [] parse.at \in {"command", "input", "output"} /\ tk = "&" ->
            {[parse EXCEPT !.at = "complete", !.background = TRUE]}
      [] OTHER -> {}

(* States in which the line may end; kill needs its argument.               *)
Accepting == {"start", "exit", "wait", "complete", "command", "input", "output"}

Token(tk) ==
    /\ tokens < MaxTokens /\ tokens' = tokens + 1
    /\ typed' = Append(typed, tk)
    /\ \/ parse' \in Shift(tk) /\ UNCHANGED <<ran, clean>>
       \/ /\ Shift(tk) = {} /\ clean' = FALSE
          /\ ran' = [of |-> typed', got |-> parse, ok |-> FALSE]
          /\ parse' = FreshParse

(* The newline: main runs what there is, also if the grammar wants more.    *)
EndLine ==
    /\ tokens < MaxTokens /\ tokens' = tokens + 1
    /\ ran' = [of |-> typed, got |-> parse, ok |-> clean /\ parse.at \in Accepting]
    /\ parse' = FreshParse /\ typed' = <<>> /\ clean' = TRUE

ParseNext == EndLine \/ \E tk \in Words \cup Keywords \cup Operators : Token(tk)

-----------------------------------------------------------------------------
(* A line read without an error runs as it is written, whatever was typed   *)
(* before it: a command for each part between bars, its arguments in order  *)
(* and inside the array append_argv keeps (parse.y:112), its own files, and *)
(* the background flag.                                                     *)
ParsedAsWritten ==
    LET line == ran.of
        bars == SetToSortSeq({0, Len(line) + 1} \cup {n \in DOMAIN line : line[n] = "|"},
                             LAMBDA a, b : a < b)
        Part(k) == SubSeq(line, bars[k] + 1, bars[k + 1] - 1)
        Arguments(part) == SelectSeq(SubSeq(part, 1, Min({Len(part) + 1} \cup
                              {n \in DOMAIN part : part[n] \in {"<", ">"}}) - 1),
                              LAMBDA w : w \in Words)
        File(part, op) == {part[n + 1] : n \in {m \in DOMAIN part : part[m] = op}}
    IN  /\ ran.ok /\ line # <<>> /\ ran.got.builtin = "none" =>
              /\ Len(ran.got.cmds) = Len(bars) - 1
              /\ ran.got.background = (line[Len(line)] = "&")
              /\ \A k \in 1 .. Len(ran.got.cmds) :
                    LET c == ran.got.cmds[k]
                    IN  /\ c.argv = Arguments(Part(k)) /\ c.argv # <<>>
                        /\ Len(c.argv) <= c.argv_cap
                        /\ Range(c.input_redir) = File(Part(k), "<")
                        /\ Range(c.output_redir) = File(Part(k), ">")
        /\ ran.ok /\ ran.got.builtin # "none" => line = <<ran.got.builtin>> \o ran.got.arg
=============================================================================
