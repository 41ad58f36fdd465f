--------------------------- MODULE MCJobDispatch ---------------------------
(* Instances of JobDispatch for TLC.                                        *)
EXTENDS JobDispatchStream

NoTemplates  == {}
SomeTemplates == {2}
=============================================================================
