---------------------------- MODULE MCOmbreMemory ----------------------------
EXTENDS OmbreMemory

MCBatches == {"b1", "b2"}

\* One batch is looked at by the admin, the other one is not.
MCRetries == [b \in MCBatches |-> IF b = "b1" THEN 1 ELSE 0]
===============================================================================
