------------------------------- MODULE MCHpet -------------------------------
EXTENDS Hpet
=============================================================================
