------------------------------- MODULE MCShell -------------------------------
(* Pipelines of one to three commands for Shell.                            *)
EXTENDS Shell

Plain  == [input_redir |-> FALSE, output_redir |-> FALSE]
From   == [input_redir |-> TRUE,  output_redir |-> FALSE]
To     == [input_redir |-> FALSE, output_redir |-> TRUE]

Line(cmds, bg) == [cmds |-> cmds, background |-> bg]

Typed == {Line(<<Plain, Plain>>, FALSE), Line(<<Plain, Plain>>, TRUE),
          Line(<<To, Plain>>, FALSE),
          Line(<<Plain, Plain, Plain>>, FALSE), Line(<<Plain, Plain, To>>, TRUE),
          Line(<<Plain, From, Plain>>, FALSE)}
=============================================================================
