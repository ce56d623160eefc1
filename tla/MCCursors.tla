----------------------------- MODULE MCCursors -----------------------------
(* TLC instances of Cursors.  Clients are interchangeable.                   *)
EXTENDS Cursors, TLC

Symmetry == Permutations(Clients)

\* every sign of the numbers of a request, page sizes below and above the answer
McSkips == -1 .. 1
McLimits == {NoLimit, -1, 0, 2}
McBatchSizes == -1 .. 2
=============================================================================
