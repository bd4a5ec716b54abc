------------------------------ MODULE MCShell -------------------------------
(* The shell, a command it runs, and one that command or the shell starts:   *)
(* one may leave the group while the other stays, with or without a pipe.    *)
EXTENDS Shell

CONSTANTS c, d, out, err

MCProcs == {sh, c, d}
MCPipes == {out, err}
=============================================================================
