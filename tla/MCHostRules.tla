----------------------------- MODULE MCHostRules -----------------------------
(* RAW is off at first; a save may turn it on, on a port of its own with   *)
(* another DTLS port, or on the port of DTLS, which does not restart the   *)
(* transport.                                                              *)
EXTENDS HostRules

Conf(dtls, raw, on) == [dtls |-> dtls, raw |-> raw, on |-> on]
RawOff    == Conf("1", NoPort, TRUE)
RawOwn    == Conf("2", "3", TRUE)
RawShared == Conf("1", "1", TRUE)
MCPorts   == {"1", "2", "3"}
MCConfigs == {RawOff, RawOwn, RawShared}
OwnOnly   == {RawOwn}
=============================================================================
