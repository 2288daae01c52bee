---------------------------- MODULE MCLifecycle ----------------------------
EXTENDS Lifecycle

\* Two events fill a block of the model.
MCEventSizes == {3}
===========================================================================
