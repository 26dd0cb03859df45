---------------------------- MODULE MC_Approval ----------------------------
(* Instances of Approval for TLC: two approvers, a third user to whom they  *)
(* may delegate, and the templates that make every stage mode and every     *)
(* race happen.                                                             *)
EXTENDS Approval, TLC

CONSTANTS u1, u2, u3, p1, p2, approver

MCMembers == approver :> {u1, u2}
WorkerSymmetry == Permutations({p1, p2})

Stage(mode, n, users, roles, timeout) ==
    [mode |-> mode, quorumN |-> n, users |-> users, roles |-> roles, timeout |-> timeout]

OneStage == [stages |-> <<Stage("any", 0, {u1, u2}, {}, 0)>>, cap |-> 0]
AllStage == [stages |-> <<Stage("all", 0, {u1, u2}, {}, 1)>>, cap |-> 0]
TwoStages == [stages |-> <<Stage("quorum", 2, {u1}, {approver}, 1),
                           Stage("all", 0, {u2}, {}, 0)>>, cap |-> 0]
AnyThenAll == [stages |-> <<Stage("any", 0, {u1, u2}, {}, 0),
                            Stage("all", 0, {u1}, {}, 0)>>, cap |-> 0]
NoStages == [stages |-> <<>>, cap |-> 0]

JustOneStage == {OneStage}
JustAnyThenAll == {AnyThenAll}
JustAllStage == {AllStage}
Shrinking == {TwoStages, NoStages}
=============================================================================
