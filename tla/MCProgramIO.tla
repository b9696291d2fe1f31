------------------------------ MODULE MCProgramIO ------------------------------
(* One object and two started processes, with descriptors for all of them, *)
(* for the pipes of a call in progress and for one failed constructor.     *)
EXTENDS ProgramIO
===============================================================================
