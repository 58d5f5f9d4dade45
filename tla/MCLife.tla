------------------------------- MODULE MCLife -------------------------------
EXTENDS Life
MCFits == [gaming |-> {"home"}, coffee |-> {"cafe"}]
===============================================================================
