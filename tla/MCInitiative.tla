---------------------------- MODULE MCInitiative ----------------------------
EXTENDS Initiative
===============================================================================
