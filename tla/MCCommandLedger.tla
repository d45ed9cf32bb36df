-------------------------- MODULE MCCommandLedger --------------------------
(* Small instances of CommandLedger for TLC.                               *)
EXTENDS CommandLedger, TLC

CONSTANTS r1, r2, owner, read, write

MCRequestId == {r1, r2}
MCCaller == {owner}
MCCapability == {read, write}
MCMutating == {write}
MCNeedsProvider == {write}
MCExpectation == {0, 1}

Symmetry == Permutations(MCRequestId)
=============================================================================
