---------------------------- MODULE MCExecuteProcess ----------------------------
(***************************************************************************)
(* Model-checking instance of ExecuteProcess: a command that prints four   *)
(* bytes, read through a 2-byte buffer (so the output ends on a buffer     *)
(* boundary, fills the buffer twice and can also be read in odd pieces)    *)
(* and a pipe of two bytes.                                                *)
(***************************************************************************)
EXTENDS ExecuteProcess

CONSTANTS b1, b2, b3, b4

MCOutput == <<b1, b2, b3, b4>>
MCBufSize == 2
MCPipeCap == 2
================================================================================
