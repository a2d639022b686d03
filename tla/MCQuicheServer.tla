--------------------------- MODULE MCQuicheServer ---------------------------
(***************************************************************************)
(* Instances of QuicheServer for TLC: values a .cfg file cannot spell.     *)
(***************************************************************************)
EXTENDS DocClaims

\* The $on_stream callback registers both callables, or none.
HooksOn == {Hooks}
HooksOnOrOff == {{}, Hooks}
=============================================================================
