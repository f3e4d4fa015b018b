------------------------------- MODULE MCPutFile -------------------------------
(***************************************************************************)
(* Model-checking instance of PutFile: three flow files with the same     *)
(* filename, so that every one after the first meets a file (its own      *)
(* predecessor's or a foreign one) in the directory.                       *)
(***************************************************************************)
EXTENDS PutFile

CONSTANTS f1, f2, f3, n1

MCFlowFiles == {f1, f2, f3}
MCNames == {n1}
MCFileNameOf == [f \in MCFlowFiles |-> n1]
================================================================================
