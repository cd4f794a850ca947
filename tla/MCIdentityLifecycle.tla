------------------------ MODULE MCIdentityLifecycle ------------------------
(* Small instances of IdentityLifecycle. *)
EXTENDS IdentityLifecycle, TLC

AllOperations ==
  LifecycleOps \cup {"embody", "register", "remove", "renew"}
HandoverOperations == AllOperations \ {"delete", "rebind", "remove"}
WithoutReacquisition == AllOperations \ {"respawn", "reset"}
Symmetric == Permutations(Runtimes)
FirstRow == [session |-> 0, gen |-> 0, token |-> 0]
=============================================================================
