------------------------- MODULE MCTerminalService -------------------------
(***************************************************************************)
(* Instances of TerminalService: three activities, so that one can be      *)
(* finishing while its successor comes and goes, and two services, so that *)
(* a second can be started while the first is being destroyed.             *)
(***************************************************************************)
EXTENDS TerminalService
=============================================================================
