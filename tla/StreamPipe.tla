----------------------------- MODULE StreamPipe -----------------------------
(***************************************************************************)
(* What PHP may rely on when it writes to a stream: the stream is a pipe.  *)
(* The units written, numbered from 1, come out in order, each once and    *)
(* without a gap, and nothing comes out behind the first FIN.              *)
(***************************************************************************)
EXTENDS Integers, Sequences

CONSTANT Pipes

VARIABLES
  in,      \* units written to each pipe
  finAt,   \* units written when the first FIN was, -1 before it
  out,     \* the units that have come out, in their order
  finOut   \* pipes whose FIN has come out

pipeVars == <<in, finAt, out, finOut>>

PipeInit ==
  /\ in = [p \in Pipes |-> 0] /\ finAt = [p \in Pipes |-> -1]
  /\ out = [p \in Pipes |-> <<>>] /\ finOut = {}

Put(p) ==
  /\ in'[p] >= in[p] /\ in' = [in EXCEPT ![p] = in'[p]]
  /\ \/ UNCHANGED finAt
     \/ finAt[p] = -1 /\ finAt' = [finAt EXCEPT ![p] = in'[p]]
  /\ UNCHANGED <<out, finOut>>

End(p) == IF finAt[p] = -1 THEN in[p] ELSE finAt[p]

Take(p) ==
  /\ p \notin finOut
  /\ \E n \in Len(out[p]) .. End(p) :
       /\ out' = [out EXCEPT ![p] = [i \in 1 .. n |-> i]]
       /\ \/ UNCHANGED finOut
          \/ n = finAt[p] /\ finOut' = finOut \cup {p}
  /\ UNCHANGED <<in, finAt>>

PipeNext == \E p \in Pipes : Put(p) \/ Take(p)

PipeSpec == PipeInit /\ [][PipeNext]_pipeVars
=============================================================================
