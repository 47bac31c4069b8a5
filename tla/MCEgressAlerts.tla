--------------------------- MODULE MCEgressAlerts ---------------------------
\* A line that times out and a server that fails now and then.
EXTENDS EgressAlerts

MCNoise == {"timeout", "server error"}
=============================================================================
