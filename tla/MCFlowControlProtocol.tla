------------------------ MODULE MCFlowControlProtocol ------------------------
(***************************************************************************)
(* Model-checking instance of FlowControlProtocol.  Sequence numbers are   *)
(* 2 bits wide so that _seqNumber wraps within a few exchanges; the        *)
(* controller may send a REPORT_INTERVAL of 0 (which makes start() refuse) *)
(* or a positive one; one processor with two values is enough to see a    *)
(* property update happen or be lost.                                      *)
(***************************************************************************)
EXTENDS FlowControlProtocol

\* _seqNumber is 2 bits wide.
MCSeqMod == 2 ^ 2
MCIntervals == {0, 1}
MCInitInterval == 1
==============================================================================
