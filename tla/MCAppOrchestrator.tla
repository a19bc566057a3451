------------------------- MODULE MCAppOrchestrator -------------------------
(* Instances of AppOrchestrator: an app whose api depends on its db.       *)
EXTENDS AppOrchestrator, DependencyOrders, TLC
CONSTANTS db, api, c1, c2, all
Needs == (db :> {}) @@ (api :> {db})
DbThenApi == <<db, api>>
ASSUME OrderIsComputed == DbThenApi = StartupOrder(<<api, db>>, Needs)
\* A deprovision never looks at the service it may name: the one that names none
\* stands for it.
WholeDeprovisions == \A c \in Call : request[c].action = "deprovision" => request[c].only = All
=============================================================================
