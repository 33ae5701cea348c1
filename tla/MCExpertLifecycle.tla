--------------------------- MODULE MCExpertLifecycle ---------------------------
EXTENDS ExpertLifecycle, TLC

CONSTANTS k1, k2, g1

===============================================================================
