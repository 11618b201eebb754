------------------------------- MODULE MC_Ssdp -------------------------------
EXTENDS Ssdp

CONSTANTS device, control

\* One device whose service is in version 2, and one control point which looks
\* for that version and for the one before it.
MC_Nodes == {device, control}
MC_Offers == [n \in MC_Nodes |-> IF n = device THEN {<<"AVTransport", 2>>} ELSE {}]
MC_Wants == [n \in MC_Nodes |-> IF n = control THEN {<<"AVTransport", 1>>, <<"AVTransport", 2>>} ELSE {}]
MC_Runs == [n \in MC_Nodes |-> IF n = device THEN 2 ELSE 1]
=============================================================================
