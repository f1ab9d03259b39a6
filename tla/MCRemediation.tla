---------------------------- MODULE MCRemediation ----------------------------
(* Two findings in a build file, which is forbidden, as is a file that is   *)
(* not there yet; reports list them in either order.  Git may ignore the    *)
(* build file.                                                              *)
EXTENDS Remediation

CONSTANTS ci, new

BothOrders == {<<1, 2>>, <<2, 1>>}
BothInCi == <<ci, ci>>
=============================================================================
