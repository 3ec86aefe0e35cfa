----------------------------- MODULE MCEventBus -----------------------------
(* Small instances of the event bus for TLC.                               *)
EXTENDS EventBus, TLC

CONSTANTS kernel, s1, plugin_error, k1, a, b, o

MCSessions == {kernel, s1}
MCKinds == {plugin_error, k1}
MCSubs == {a, b, o}
Symmetry == Permutations(Queues) \cup Permutations(Publishers) \cup Permutations(Closers)

MCSubKind == a :> k1 @@ b :> k1 @@ o :> plugin_error
=============================================================================
