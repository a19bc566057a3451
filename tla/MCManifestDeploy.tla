-------------------------- MODULE MCManifestDeploy --------------------------
(* Instances of ManifestDeploy for TLC: a base layer and an application     *)
(* image that builds on it, an app with a web and a worker service, and its *)
(* staging environment, which is deployed from the same manifest.           *)
EXTENDS ManifestDeploy, DependencyOrders

CONSTANTS d1, d2, b1, r1, prod, staging, web, worker, stage, base, app, v0, v1, v2

MCOrder == <<base, app>>
MCOneImage == <<app>>
ASSUME OrderIsComputed ==
  Order = BuildOrder(IF base \in Image THEN <<app, base>> ELSE <<app>>, BaseOf, None)
MCBaseOf == [i \in Image |-> IF i = app /\ base \in Image THEN base ELSE None]
MCImageOf == [b \in ImageBuild |-> CHOOSE i \in Image : i = app]
MCRefOf == [j \in Job |-> IF j = d1 THEN v1 ELSE v2]
MCContainersOf == [s \in Service |-> {app}]
MCServicesOf == [a \in App |-> IF a = prod THEN <<web, worker>> ELSE <<stage>>]
MCOneService == [a \in App |-> IF a = prod THEN <<web>> ELSE <<stage>>]
MCProd == [d \in Deploy \cup Redeploy |-> prod]
MCStaging == [d \in Deploy \cup Redeploy |-> IF d = d2 THEN staging ELSE prod]
=============================================================================
