--------------------------- MODULE MCCapsuleCalls ---------------------------
EXTENDS CapsuleCalls
=============================================================================
