------------------------------ MODULE NativeBuild ------------------------------
(***************************************************************************)
(* The target liboqs of the Makefile, which builds the native library in a  *)
(* directory that lasts from one make to the next, and records there what   *)
(* it was built from (scripts/verify_deployment_inputs.py).  The inputs may *)
(* change, and make may stop, at any step.                                  *)
(***************************************************************************)
EXTENDS Naturals

CONSTANT Inputs     \* source trees with their tools, options and environment flags

VARIABLES
    inputs,     \* what a build would use now
    library,    \* the inputs that liboqs.a was built from; {} if it is missing
    metadata,   \* .daochi-native-build.json; {} if it is missing
    make,       \* the step of the make under way
    since       \* the inputs there have been since it began (not in the code)

nativeVars == <<inputs, library, metadata, make, since>>

\* native_build_identity, as check-native-build expects to find it recorded ...
Expected(i) == [schema |-> 1, identity |-> i]

\* ... and as record-native-build writes it.
Recorded(i, built) == [schema |-> 1, identity |-> i, artifact |-> built]

NativeTypeOK ==
    /\ inputs \in Inputs
    /\ library \subseteq Inputs /\ (\A a, b \in library : a = b)
    /\ metadata \subseteq {Recorded(i, b) : i \in Inputs, b \in Inputs}
    /\ make \in {"idle", "check", "clean", "compile", "record", "made"}
    /\ since \subseteq Inputs

NativeInit ==
    /\ inputs \in Inputs
    /\ library = {} /\ metadata = {}
    /\ make = "idle" /\ since = {}

-----------------------------------------------------------------------------
\* Somebody edits the source, or the tools or flags change.
ChangeInputs ==
    /\ inputs' \in Inputs
    /\ since' = since \cup {inputs'}
    /\ UNCHANGED <<library, metadata, make>>

BeginMake ==
    /\ make \in {"idle", "made"}
    /\ make' = "check" /\ since' = {inputs}
    /\ UNCHANGED <<inputs, library, metadata>>

\* Mutant of CheckNativeBuild: any recorded build will do.
CheckPresent == library # {} /\ metadata # {}

CheckNativeBuild == library # {} /\ metadata = {Expected(inputs)}

Check ==
    /\ make = "check"
    /\ make' = IF CheckNativeBuild THEN "made" ELSE "clean"
    /\ UNCHANGED <<inputs, library, metadata, since>>

\* rm -rf takes the library and what was recorded of it.
Clean ==
    /\ make = "clean"
    /\ library' = {} /\ metadata' = {} /\ make' = "compile"
    /\ UNCHANGED <<inputs, since>>

Compile ==
    /\ make = "compile"
    /\ library' = {inputs} /\ make' = "record"
    /\ UNCHANGED <<inputs, metadata, since>>

\* The identity is that of the inputs now, not of those that were compiled.
RecordNativeBuild ==
    /\ make = "record" /\ library # {}
    /\ metadata' = {Recorded(inputs, b) : b \in library} /\ make' = "made"
    /\ UNCHANGED <<inputs, library, since>>

StopMake ==
    /\ make \notin {"idle", "made"}
    /\ make' = "idle"
    /\ UNCHANGED <<inputs, library, metadata, since>>

NativeNext ==
    \/ ChangeInputs \/ BeginMake \/ Check \/ Clean \/ Compile \/ RecordNativeBuild
    \/ StopMake

NativeSpec == NativeInit /\ [][NativeNext]_nativeVars

-----------------------------------------------------------------------------
(* A make that succeeds leaves a library built from inputs there were while *)
(* it ran, never one of an earlier make whose inputs were others - though   *)
(* what is recorded need not be what was compiled.                          *)
NativeFresh == make = "made" => library # {} /\ library \subseteq since
=============================================================================
