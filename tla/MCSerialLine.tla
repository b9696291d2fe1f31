----------------------------- MODULE MCSerialLine -----------------------------
(* Every text of a few bytes, read through chunks shorter than the longest *)
(* line, with buffers shorter and longer than what m_readBuffer may hold.  *)
EXTENDS SerialLine

CONSTANT MaxSize
MCSizes == 1 .. MaxSize
===============================================================================
