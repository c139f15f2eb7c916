------------------------------ MODULE MCUpdater ------------------------------
(* A router with a development build or with the oldest release, one check *)
(* and two installs; the newer of the two releases is a prerelease, which  *)
(* the API marks and the releases page does not.                           *)
EXTENDS Updater, TLC

CONSTANTS c1, i1, i2

V(p, n) == [parts |-> p, release |-> n]
R(v, pre) == [version |-> v, pre |-> pre]
Oldest == V(<<0, 1, 0>>, 9)

TwoReleases == {R(Oldest, FALSE), R(V(<<0, 1>>, 22), TRUE)}
MCInstalled == {Dev, Oldest}
MCChecks == {c1}
MCInstalls == {i1, i2}
Symmetry == Permutations(MCInstalls)
=============================================================================
