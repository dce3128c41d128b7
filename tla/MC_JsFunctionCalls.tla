------------------------- MODULE MC_JsFunctionCalls -------------------------
\* The bodies and threads are in the configuration.  There is no symmetry, since
\* the run has a property under fairness.
EXTENDS JsFunctionCalls
=============================================================================
