-------------------------- MODULE MCChildAdmission --------------------------
EXTENDS ChildAdmission
=============================================================================
