----------------------------- MODULE MCBittree ------------------------------
EXTENDS Bittree
=============================================================================
