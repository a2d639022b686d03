--------------------------- MODULE StreamContract ---------------------------
(***************************************************************************)
(* What PHP may rely on when it is given a stream: one pair of callback    *)
(* slots is open on it at a time; data comes only while one is; and a pair *)
(* is ended once, with or without a call of on_close, and never after it   *)
(* was replaced.                                                           *)
(***************************************************************************)
EXTENDS Integers, Sequences

CONSTANT Lines   \* the streams of all connections

VARIABLES
  open,   \* the pair that is open on each stream, 0 for none
  used,   \* pairs each stream has had
  got,    \* units of data given to PHP
  told    \* the calls of on_close, per stream

contractVars == <<open, used, got, told>>

ContractInit ==
  /\ open = [x \in Lines |-> 0] /\ used = [x \in Lines |-> 0]
  /\ got = [x \in Lines |-> 0] /\ told = [x \in Lines |-> <<>>]

\* The peer or PHP opens the stream; what was open on it is replaced.
Open(x) ==
  /\ used' = [used EXCEPT ![x] = @ + 1]
  /\ open' = [open EXCEPT ![x] = used'[x]]
  /\ UNCHANGED <<got, told>>

Give(x) ==
  /\ open[x] # 0
  /\ got'[x] >= got[x] /\ got' = [got EXCEPT ![x] = got'[x]]
  /\ UNCHANGED <<open, used, told>>

End(x) ==
  /\ open[x] # 0 /\ open' = [open EXCEPT ![x] = 0]
  /\ \/ UNCHANGED told
     \/ \E peer \in BOOLEAN :
          told' = [told EXCEPT ![x] = Append(@, [pair |-> open[x], peer |-> peer])]
  /\ UNCHANGED <<used, got>>

ContractNext == \E x \in Lines : Open(x) \/ Give(x) \/ End(x)

ContractSpec == ContractInit /\ [][ContractNext]_contractVars
=============================================================================
