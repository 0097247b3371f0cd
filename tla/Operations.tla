------------------------------ MODULE Operations ------------------------------
(***************************************************************************)
(* The programs that operate a node.  They share no variable, so a          *)
(* behaviour is one of a single program: the first state chooses it, and    *)
(* the other programs stay as they begin.                                   *)
(***************************************************************************)
EXTENDS PackageStore, PackageMirror, NodeEnvironment, NativeBuild, Deployment, BotProfile

VARIABLE program

operationsVars ==
    <<program, storeVars, mirrorVars, environment, nativeVars, deployVars, botVars>>

-----------------------------------------------------------------------------
(* Every variable of the programs has its type, and a lock has at most one  *)
(* holder: that of the store (publish_directory) and that of the bucket.    *)
OperationsTypeOK ==
    /\ StoreTypeOK /\ MirrorTypeOK /\ EnvironmentTypeOK
    /\ NativeTypeOK /\ DeployTypeOK /\ BotTypeOK

-----------------------------------------------------------------------------
OperationsInit ==
    /\ program \in {"store", "mirror", "environment", "build", "deploy", "bot"}
    /\ StoreInit /\ MirrorInit /\ EnvironmentInit /\ NativeInit /\ DeployInit /\ BotInit
    /\ program # "store" => latest = (CHOOSE s \in Staged : TRUE).latest
    /\ program # "build" => inputs = CHOOSE i \in Inputs : TRUE

RunStore ==
    /\ program = "store" /\ StoreNext
    /\ UNCHANGED <<program, mirrorVars, environment, nativeVars, deployVars, botVars>>

RunMirror ==
    /\ program = "mirror" /\ MirrorNext
    /\ UNCHANGED <<program, storeVars, environment, nativeVars, deployVars, botVars>>

RunEnvironment ==
    /\ program = "environment" /\ EnvironmentNext
    /\ UNCHANGED <<program, storeVars, mirrorVars, nativeVars, deployVars, botVars>>

RunBuild ==
    /\ program = "build" /\ NativeNext
    /\ UNCHANGED <<program, storeVars, mirrorVars, environment, deployVars, botVars>>

RunDeploy ==
    /\ program = "deploy" /\ DeployNext
    /\ UNCHANGED <<program, storeVars, mirrorVars, environment, nativeVars, botVars>>

RunBot ==
    /\ program = "bot" /\ BotNext
    /\ UNCHANGED <<program, storeVars, mirrorVars, environment, nativeVars, deployVars>>

OperationsNext ==
    RunStore \/ RunMirror \/ RunEnvironment \/ RunBuild \/ RunDeploy \/ RunBot

\* No step of a deployment's job is enabled as another program begins, so the
\* fairness is that of Deployment alone.
OperationsSpec ==
    /\ OperationsInit
    /\ [][OperationsNext]_operationsVars
    /\ WF_deployVars(program = "deploy" /\ JobStep)

\* Deployments alone.
DeploymentsSpec ==
    /\ OperationsInit /\ program = "deploy"
    /\ [][OperationsNext]_operationsVars
=============================================================================
