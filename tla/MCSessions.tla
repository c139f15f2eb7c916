------------------------------ MODULE MCSessions ------------------------------
(* One session of each kind.                                               *)
EXTENDS Sessions

CONSTANTS wg, raw
MCWgs == {wg}
MCRaws == {raw}
=============================================================================
