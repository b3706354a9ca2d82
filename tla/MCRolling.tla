------------------------------ MODULE MCRolling -------------------------------
\* Instances of RollingDispatch: what may go wrong in each, and its issues.
EXTENDS RollingDispatch
Issues3 == 1..3
OneContested == {1}
NoneContested == {}
NoFault == {}
Timeouts == {"timeout"}
=============================================================================
