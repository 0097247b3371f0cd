---------------------------- MODULE NodeEnvironment ----------------------------
(***************************************************************************)
(* A node's environment file, /etc/daochi/daochi.env: an operator edits it, *)
(* scripts/migrate-legacy-env.py renames its settings, and the deployment's *)
(* set-environment.sh replaces some.  Of the lines that set one name the    *)
(* last counts.  Each program replaces the file atomically.                 *)
(***************************************************************************)
EXTENDS Naturals, Sequences, SequencesExt, TLC

CONSTANTS
    Names,       \* the names that lines set
    Values,
    Settings,    \* the names that start with KSYNC_ or DAOCHI_
    Ksync,       \* Ksync[n]: the DAOCHI_ name of a KSYNC_ name
    Renamed,     \* RENAMED_SETTINGS
    Deployed,    \* Deployed[n]: the values that a deployment sets
    MaxLines     \* bound on the lines of the file

Legacy == DOMAIN Ksync \cup DOMAIN Renamed

ASSUME NodeEnvironmentAssumption ==
    /\ Settings \subseteq Names /\ Legacy \subseteq Settings
    /\ \A n \in DOMAIN Ksync : Ksync[n] \in Settings \ DOMAIN Ksync
    /\ \A n \in DOMAIN Renamed : Renamed[n] \in Names \ Legacy
    /\ DOMAIN Ksync \cap DOMAIN Renamed = {}
    /\ IsInjective(Ksync) /\ IsInjective(Renamed)
    /\ IsFiniteSet(DOMAIN Deployed) /\ \A n \in DOMAIN Deployed : Deployed[n] \in Values
    /\ DOMAIN Deployed \subseteq Names \ Legacy
    /\ MaxLines \in Nat

VARIABLE environment    \* the lines

Line == [name : Names, value : Values]

EnvironmentTypeOK == environment \in Seq(Line) /\ Len(environment) <= MaxLines

EnvironmentInit == environment = <<>>

-----------------------------------------------------------------------------
NamesOf(lines) == {lines[i].name : i \in DOMAIN lines}

\* What the node reads for a name.
Effective(lines, n) ==
    lines[SelectLastInSeq(lines, LAMBDA line : line.name = n)].value

Recognised(lines) ==
    [n \in NamesOf(lines) \cap Settings |-> Effective(lines, n)]

Agree(settings, n, replacement) ==
    replacement \in DOMAIN settings => settings[replacement] = settings[n]

\* The settings, and each that has a name in `renaming` under that name too.
WithNames(settings, renaming) ==
    LET old == DOMAIN renaming \cap DOMAIN settings
    IN  [n \in DOMAIN settings \cup {renaming[k] : k \in old} |->
            IF n \in DOMAIN settings THEN settings[n]
            ELSE settings[CHOOSE k \in old : renaming[k] = n]]

Canonical(lines) == WithNames(WithNames(Recognised(lines), Ksync), Renamed)

\* Mutant of Conflicting: a conflicting file is migrated.
NoneConflict(lines) == FALSE

\* "conflicting settings": the migration refuses the file.
Conflicting(lines) ==
    LET settings == Recognised(lines)
        named == WithNames(settings, Ksync)
    IN  \/ \E n \in DOMAIN Ksync \cap DOMAIN settings : ~Agree(settings, n, Ksync[n])
        \/ \E n \in DOMAIN Renamed \cap DOMAIN named : ~Agree(named, n, Renamed[n])

\* Mutant of Replacement: a KSYNC_ name gets its DAOCHI_ name and no further one.
RenamedOnce(n) ==
    IF n \in DOMAIN Ksync THEN Ksync[n]
    ELSE IF n \in DOMAIN Renamed THEN Renamed[n] ELSE n

\* The name a setting has after the migration.
Replacement(n) ==
    LET daochi == IF n \in DOMAIN Ksync THEN Ksync[n] ELSE n
    IN  IF daochi \in DOMAIN Renamed THEN Renamed[daochi] ELSE daochi

\* migrate(canonical_only=False): the lines stay, and new names are appended.
Extended(lines) ==
    LET canonical == Canonical(lines)
        added == SetToSeq(DOMAIN canonical \ DOMAIN Recognised(lines))
    IN  lines \o [i \in DOMAIN added |-> [name |-> added[i], value |-> canonical[added[i]]]]

\* A set of places in their order.
InOrder(places) ==
    CHOOSE f \in [1..Cardinality(places) -> places] :
        \A i, j \in DOMAIN f : i < j => f[i] < f[j]

\* The lines that migrate(canonical_only=True) keeps: all but the settings whose
\* new name an earlier line has given.
Remaining(lines) ==
    {i \in DOMAIN lines : lines[i].name \in Settings =>
        \A j \in 1..i-1 : lines[j].name \in Settings =>
            Replacement(lines[j].name) # Replacement(lines[i].name)}

Rewritten(lines, i) ==
    LET name == Replacement(lines[i].name)
    IN  IF lines[i].name \in Settings
        THEN [name |-> name, value |-> Canonical(lines)[name]]
        ELSE lines[i]

\* migrate(canonical_only=True): each setting stays once, where it is first set,
\* under its new name.  (Nothing is left for the code's last loop to append.)
CanonicalOnly(lines) ==
    LET kept == InOrder(Remaining(lines))
    IN  [i \in DOMAIN kept |-> Rewritten(lines, kept[i])]

\* set-environment.sh
Replaced(lines, settings) ==
    LET kept == InOrder({i \in DOMAIN lines : lines[i].name \notin DOMAIN settings})
        added == SetToSeq(DOMAIN settings)
    IN  [i \in DOMAIN kept |-> lines[kept[i]]]
          \o [i \in DOMAIN added |-> [name |-> added[i], value |-> settings[added[i]]]]

-----------------------------------------------------------------------------
\* The operator adds a line.
Edit ==
    /\ \E line \in Line : environment' = Append(environment, line)
    /\ Len(environment') <= MaxLines

MigrateByHand ==
    /\ ~Conflicting(environment)
    /\ environment' = Extended(environment)
    /\ Len(environment') <= MaxLines

\* The deployment's install.sh, which stops at a conflict.
MigrateDeployed ==
    /\ ~Conflicting(environment)
    /\ environment' = CanonicalOnly(environment)

SetDeployed ==
    /\ environment' = Replaced(environment, Deployed)
    /\ Len(environment') <= MaxLines

EnvironmentNext == Edit \/ MigrateByHand \/ MigrateDeployed \/ SetDeployed

EnvironmentSpec == EnvironmentInit /\ [][EnvironmentNext]_environment

-----------------------------------------------------------------------------
\* A setting is renamed to a name outside Settings, which the file also sets,
\* and to something else: the migration does not look at that name, and so finds
\* no conflict.
SetTwice(lines, m) ==
    /\ m \in NamesOf(lines) \ Settings
    /\ \E n \in NamesOf(lines) \cap Legacy :
         Replacement(n) = m /\ Effective(lines, n) # Effective(lines, m)

\* The new name of n has the value of n; set twice, that of one of its old names.
Preserved(lines, new, n) ==
    /\ Replacement(n) \in NamesOf(new)
    /\ \E o \in NamesOf(lines) :
         /\ Replacement(o) = Replacement(n)
         /\ Effective(new, Replacement(n)) = Effective(lines, o)
         /\ Effective(lines, o) = Effective(lines, n) \/ SetTwice(lines, Replacement(n))

(* A migration loses no setting and changes none, under old and new names  *)
(* and in any order: the name that replaces a name has its value           *)
(* afterwards.  The exception is a setting whose new name lies outside the *)
(* names a migration looks at (MONERO_WALLET_RPC_URL) and is set already,  *)
(* to something else: one of the two values is kept, and which one depends *)
(* on the order of the lines.                                              *)
SettingsKept ==
    [][MigrateByHand \/ MigrateDeployed =>
         \A n \in NamesOf(environment) :
            Preserved(environment, environment', n)]_environment

(* A file that a deployment has migrated is one it does not change again,   *)
(* and holds no name of before.                                             *)
DeployedOnce ==
    [][MigrateDeployed =>
         /\ NamesOf(environment') \cap Legacy = {}
         /\ CanonicalOnly(environment') = environment']_environment
=============================================================================
