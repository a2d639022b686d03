---------------------------- MODULE MCWritePath -----------------------------
(* The bounds of the runs of WritePath. *)
EXTENDS WritePath

TwoWrites == [s \in WriteStreams |-> 2]

\* One write to a stream beyond the limit, two to the others.
OneIfLimited == [s \in WriteStreams |-> IF s \in Limited THEN 1 ELSE 2]
=============================================================================
