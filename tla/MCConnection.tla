---------------------------- MODULE MCConnection ----------------------------
(***************************************************************************)
(* One connection with buffers that do not hold two frames.                 *)
(***************************************************************************)
EXTENDS Connection

\* Frames with a body and frames without, as NoData and the like.
Bodies == [tag \in Tags |-> IF tag = "other" THEN 0 ELSE 1]
=============================================================================
