----------------------------- MODULE SiteCommands -----------------------------
(***************************************************************************)
(* What a worker promises about its site table: every command either fails *)
(* and changes nothing, or has the effect that SiteTable gives it, on one  *)
(* site and in one step.  This is all the config manager relies on.        *)
(***************************************************************************)
EXTENDS SiteTable

CONSTANT Names
VARIABLE table

Set(n, c) == table' = [table EXCEPT ![n] = c]

Precommit(n, s) == Set(n, PrecommitSvc(table[n], s))
Update(n) == CanUpdate(table[n]) /\ Set(n, UpdateWithPrecommitted(table[n]))
Commit(n) == CanDeploy(table[n]) /\ Set(n, DeployStaged(table[n]))
PrepareAndCommit(n, s) == Set(n, DeployStaged(PrecommitSvc(table[n], s)))
Abort(n) == CanAbort(table[n]) /\ Set(n, AbortPrecommit(table[n]))
Remove(n) == CanRemove(table[n]) /\ Set(n, RemoveSite(table[n]))

Init == table = [n \in Names |-> Absent]

Next ==
  \E n \in Names :
    \/ Update(n) \/ Commit(n) \/ Abort(n) \/ Remove(n)
    \/ \E s \in Services : Precommit(n, s) \/ PrepareAndCommit(n, s)

Spec == Init /\ [][Next]_table
===============================================================================
