-------------------------- MODULE MCRancherAccess --------------------------
(* Constants for the runs of RancherAccess. *)
EXTENDS RancherAccess

\* A clock at the edge of the window, and one so far behind that only a delayed
\* request is in it; a real version, and one that is missing.
MCProfiles == {[skew |-> 2, version |-> 2], [skew |-> -3, version |-> Invalid]}
MCMinVersions == {NoGate, Invalid, 2}
=============================================================================
