--------------------------- MODULE MCEnvProvision ---------------------------
(* Instances of EnvProvision.                                                *)
EXTENDS EnvProvision, TLC
CONSTANTS stage, preview
\* Two long names of one app: other databases, but the same first 24 characters.
MCDbOf == [e \in Env |-> e]
MCTgOf == [e \in Env |-> "env"]
=============================================================================
