------------------------- MODULE MCTerminalSession -------------------------
(* TerminalSession for TLC: the sizes that are equal in the code are equal,   *)
(* and small enough that queues, pty and buffers all fill up.                 *)
EXTENDS TerminalSession
=============================================================================
