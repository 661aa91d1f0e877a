------------------------------ MODULE MCGateway -----------------------------
EXTENDS Gateway

\* Every requestMode and every responseProtection, with a ceiling that the
\* requests reach and without one.
MCConfigs ==
    {[maxInFlight |-> 1, requestMode |-> "pass-through", responses |-> "allow"],
     [maxInFlight |-> 0, requestMode |-> "pass-through", responses |-> "off"],
     [maxInFlight |-> 0, requestMode |-> "inspect", responses |-> "block"],
     [maxInFlight |-> 1, requestMode |-> "block", responses |-> "off"]}
=============================================================================
