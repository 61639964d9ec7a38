---------------------------- MODULE MCProcessIpc ----------------------------
EXTENDS ProcessIpc

AllPrograms == DOMAIN Programs
=============================================================================
