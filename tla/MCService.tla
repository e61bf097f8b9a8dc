----------------------------- MODULE MCService -----------------------------
EXTENDS Service

CONSTANTS small, capital, other

\* One address in two spellings, and another address.
TwoAddresses == {small, capital, other}

ToLower == [s \in TwoAddresses |-> IF s = capital THEN small ELSE s]
=============================================================================
