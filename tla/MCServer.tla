------------------------------- MODULE MCServer -------------------------------
(***************************************************************************)
(* The parts of the server that stand alone, one per behaviour: one        *)
(* upgrade at a time, the limiter of requests, the migration of the        *)
(* database, requests on nodes and profiles, a test of nodes, and the      *)
(* installation of a kernel.                                               *)
(*                                                                         *)
(* They share no state, so their behaviours are explored side by side in   *)
(* one run.  The variables of a part rest in a first state while another   *)
(* part runs.                                                              *)
(***************************************************************************)
EXTENDS ServerUpgrade, RateLimiter, SchemaMigration, Catalogue, NodeTests, KernelInstall, TLC

VARIABLE part  \* the part of this behaviour

-----------------------------------------------------------------------------
\* The small instances: functions among the constants.
RequestLimits == "a" :> 2 @@ "b" :> 1
LimitTimes == "a" :> 3 @@ "b" :> 3
CatalogueRows ==
  {[name |-> "a", port |-> 1], [name |-> "b", port |-> 1], [name |-> "B", port |-> 0],
   [name |-> "foreign", port |-> 0]}
LowerNames == "a" :> "a" @@ "b" :> "b" @@ "B" :> "b" @@ "foreign" :> "a"

ASSUME ServerAssumption ==
  /\ RateLimiterAssumption /\ SchemaAssumption /\ CatalogueAssumption
  /\ NodeTestsAssumption /\ KernelInstallAssumption

-----------------------------------------------------------------------------
Parts == {"upgrade", "limits", "schema", "catalogue", "nodeTests", "install"}

ServerInit ==
  /\ part \in Parts
  /\ Init /\ (part # "upgrade" => \A v \in Versions : ver <= v)
  /\ RateLimiterInit
  /\ SchemaInit /\ (part # "schema" => backend = "sqlite" /\ fresh /\ program = 1)
  /\ CatalogueInit /\ (part # "catalogue" => profiles = <<>>)
  /\ NodeTestsInit
  /\ KernelInstallInit /\ (part # "install" => disk = [p \in InstallPaths |-> Nothing])

ServerNext ==
  \/ /\ part = "upgrade" /\ Next
     /\ UNCHANGED <<part, limiterVars, schemaVars, catalogueVars, testVars, installVars>>
  \/ /\ part = "limits" /\ RateLimiterNext
     /\ UNCHANGED <<part, vars, schemaVars, catalogueVars, testVars, installVars>>
  \/ /\ part = "schema" /\ SchemaNext
     /\ UNCHANGED <<part, vars, limiterVars, catalogueVars, testVars, installVars>>
  \/ /\ part = "catalogue" /\ CatalogueNext
     /\ UNCHANGED <<part, vars, limiterVars, schemaVars, testVars, installVars>>
  \/ /\ part = "nodeTests" /\ NodeTestsNext
     /\ UNCHANGED <<part, vars, limiterVars, schemaVars, catalogueVars, installVars>>
  \/ /\ part = "install" /\ KernelInstallNext
     /\ UNCHANGED <<part, vars, limiterVars, schemaVars, catalogueVars, testVars>>

serverVars ==
  <<part, vars, limiterVars, schemaVars, catalogueVars, testVars, installVars>>

ServerSpec == ServerInit /\ [][ServerNext]_serverVars

-----------------------------------------------------------------------------
\* The type invariant of the part that runs.
ServerTypeOK ==
  /\ part \in Parts
  /\ part = "upgrade" => TypeOK
  /\ part = "limits" => RateLimiterTypeOK
  /\ part = "schema" => SchemaTypeOK
  /\ part = "catalogue" => CatalogueTypeOK
  /\ part = "nodeTests" => NodeTestsTypeOK
  /\ part = "install" => KernelInstallTypeOK
=============================================================================
