SPECIFICATION AlertsSpec
CONSTANTS
    Noise <- MCNoise
    MaxFaults = 2
INVARIANT
    ToldInv
    SilenceIsInformed
    BadNewsIsRemembered
PROPERTY
    IncidentIsTold
