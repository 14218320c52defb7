---------------------------- MODULE MCShellServer ----------------------------
(* ShellServer for TLC. *)
EXTENDS ShellServer

Kinds == {"welcome", "prompt", "error", "info", "eot", "stale", "nl", "data", "long",
          "garbled", "huge", "ls", "get", "put", "text", "binary", "erase", "run", "quit",
          "unknown"}
MCToken == [kind : Kinds, n : -1 .. 9]
MCSizes == 0 .. 3

=============================================================================
