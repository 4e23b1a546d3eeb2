------------------------------- MODULE MCSmp --------------------------------
EXTENDS Smp
=============================================================================
