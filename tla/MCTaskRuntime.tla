--------------------------- MODULE MCTaskRuntime ---------------------------
(* Small instances of TaskRuntime for TLC.                                 *)
EXTENDS TaskRuntime, TLC

CONSTANTS first, second, owner

MCTask == {first, second}
MCCaller == {owner}

\* A launch and a UI input stamped with the same second: the scheduler may
\* take either first.
MCMixed == (first :> "app.launch") @@ (second :> "ui")
MCInputs == [t \in MCTask |-> "ui"]
MCSubmitter == [t \in MCTask |-> owner]
MCExpiring == MCCaller \X Capability
MCCreated == [t \in MCTask |-> 1]

Symmetry == Permutations(MCTask)
=============================================================================
