----------------------------- MODULE MCPhysMem -----------------------------
(* Instances of PhysMem for TLC: pages of two bytes, pointers to match.    *)
EXTENDS PhysMem

Entry(t, b, n) == [type |-> t, base |-> b, length |-> n]

\* Low memory, of which the BIOS keeps the end, a hole, and memory behind the
\* kernel, which ends at 9; the second has a hole that is listed as reserved,
\* and more memory behind it.
MapsAligned == {
  << Entry(1, 0, 3), Entry(2, 3, 5), Entry(1, 8, 20) >>,
  << Entry(1, 0, 4), Entry(1, 8, 10), Entry(2, 18, 6), Entry(1, 24, 10) >> }

ASSUME MapsAreWhole == WholePages
=============================================================================
