------------------------------ MODULE Upkeep ------------------------------
(***************************************************************************)
(* What the requests share beside their sessions: the settings and the     *)
(* daily budget.  A request is held to the limits of the settings that     *)
(* were in force when it arrived (ConfigManager.get), while the file       *)
(* changes and is reloaded.                                                *)
(***************************************************************************)
EXTENDS ConfigReload, Budget

vars == <<configVars, budgetVars>>

Init == ConfigInit /\ BudgetInit

Next ==
    \/ ConfigNext /\ UNCHANGED budgetVars
    \/ BudgetNext(settings) /\ UNCHANGED configVars

Spec == Init /\ [][Next]_vars

\* The watcher thread polls for ever; a load on the event loop runs to its end.
FairSpec ==
    /\ Spec
    /\ WF_vars(WatcherStep /\ UNCHANGED budgetVars)
    /\ WF_vars(Load("admin") /\ UNCHANGED budgetVars)

\* The types of the settings' and the budget's state.
TypeOK == ConfigTypeOK /\ BudgetTypeOK
=============================================================================
