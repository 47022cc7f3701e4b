------------------------------ MODULE MCFrost ------------------------------
EXTENDS Frost

MCNonces == {[hiding |-> 1, binding |-> 3], [hiding |-> 4, binding |-> 2]}
=============================================================================
