---------------------------- MODULE MCPtMigration ----------------------------
(* PtMigration for TLC: one budget of faults per question.                 *)
EXTENDS PtMigration, TLC

Faults(crash, restart, timeout, late, memfull, refuse, lead, move) ==
    [k \in Kinds |->
        CASE k = "crash" -> crash [] k = "restart" -> restart
          [] k = "timeout" -> timeout [] k = "late" -> late
          [] k = "memfull" -> memfull [] k = "refuse" -> refuse
          [] k = "leader" -> lead [] k = "move" -> move [] k = "noconn" -> 0]

\* One leader and a store that dies; slow and refused commands; two moves.
BudgetFailover == Faults(1, 0, 2, 0, 0, 1, 0, 2)

\* A store that dies and comes back while commands are late and memory is short.
BudgetRestart == Faults(1, 1, 0, 1, 1, 0, 0, 0)

\* The leadership changes while a store dies and the PT is moved.
BudgetLeaders == Faults(1, 0, 0, 0, 0, 0, 1, 1)

\* The leadership changes during a takeover.
BudgetTakeover == Faults(1, 0, 0, 0, 0, 0, 1, 0)

\* The leadership changes during a move; no store fails.
BudgetRecoveredMove == Faults(0, 0, 0, 0, 0, 0, 1, 1)

\* The target of a move dies after a command has timed out.
BudgetClock == Faults(1, 0, 1, 0, 0, 0, 0, 1)

\* The target of a move dies and is back at once.
BudgetQuickRestart == Faults(1, 1, 0, 0, 0, 0, 0, 1)

\* Both stores of a move die.
BudgetTwoCrashes == Faults(2, 0, 0, 0, 0, 0, 0, 1)

Symmetry == Permutations(Nodes)
==============================================================================
