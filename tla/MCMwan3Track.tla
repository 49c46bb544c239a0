---------------------------- MODULE MCMwan3Track ----------------------------
(***************************************************************************)
(* Instances of Mwan3Track for TLC.                                        *)
(***************************************************************************)
EXTENDS Mwan3Track

FewRounds == [up |-> 2, down |-> 3]
ManyRounds == [up |-> 4, down |-> 2]
OneConfig == {FewRounds}
TwoConfigs == {FewRounds, ManyRounds}

=============================================================================
