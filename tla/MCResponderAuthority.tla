------------------------ MODULE MCResponderAuthority ------------------------
(* The instances of ResponderAuthority that TLC checks.                    *)
EXTENDS ResponderAuthorityProperties, TLC

GrantSymmetry == Permutations(Grants)
=============================================================================
