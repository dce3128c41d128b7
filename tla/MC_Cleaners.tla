---------------------------- MODULE MC_Cleaners ----------------------------
\* The sizes are in the configuration: MaxMade objects are enough for a fragment
\* in a fragment, drawn again, with something to be cleaned up in each.
EXTENDS Cleaners
=============================================================================
