----------------------------- MODULE MCStorage -----------------------------
EXTENDS Storage
===============================================================================
