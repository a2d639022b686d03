--------------------------- MODULE MCServerSetup ---------------------------
(* The bounds of the run of ServerSetup. *)
EXTENDS ServerSetup

CONSTANTS a1, a2

\* None, two in either order, and one address twice.
Lists == {<<>>, <<a1, a2>>, <<a2, a1>>, <<a1, a1>>}

\* QUICHE_WORKER_THREADS unset, 0 or 1.
Env == {None, 0, 1}

\* One core, or not known: both below the minimum of two workers.
CoreCounts == {None, 1}

\* In binary and of two bits at most: nothing, 0, the largest number behind a
\* zero, one that is too large, and a character that is no digit.
TokenTexts == {<<>>, <<0>>, <<0, 1, 1>>, <<1, 0, 0>>, <<1, Radix>>}
=============================================================================
