------------------------------ MODULE MCCamac ------------------------------
EXTENDS Camac
===========================================================================
