------------------------------ MODULE MCNs16550 -----------------------------
EXTENDS Ns16550
=============================================================================
