------------------------------ MODULE BotProfile ------------------------------
(***************************************************************************)
(* scripts/configure-lumi-bot.py: gives the bot's account at Telegram the   *)
(* command menus and the profile that the repository holds.  Runs may       *)
(* overlap (a run over ssh goes on when its caller has timed out), calls    *)
(* may fail with or without effect, and others edit the profile meanwhile.  *)
(***************************************************************************)
EXTENDS FiniteSets

CONSTANTS
    Bots,       \* the accounts that a token may belong to
    Lumi,       \* the one with the expected username
    Fields,     \* the two menus, the description, the short one, the button
    BotRuns     \* runs of the program

ASSUME BotProfileAssumption == Lumi \in Bots

VARIABLES
    configured,   \* configured[b]: the fields of bot b that have the wanted value
    configuring   \* configuring[r]: where run r is

botVars == <<configured, configuring>>

(***************************************************************************)
(* A run: the bot of its token, whether it applies or only compares, the    *)
(* fields still to visit, those found to differ, and (not in the code) the  *)
(* fields that others have edited since the comparison it reports began.    *)
(***************************************************************************)
Waiting == [step |-> "wait", bot |-> Lumi, apply |-> FALSE, todo |-> {},
            differ |-> {}, edited |-> {}]

BotSteps == {"wait", "identity", "read", "write", "verify", "verified"}

BotRun == [step : BotSteps, bot : Bots, apply : BOOLEAN, todo : SUBSET Fields,
           differ : SUBSET Fields, edited : SUBSET Fields]

BotTypeOK ==
    /\ configured \in [Bots -> SUBSET Fields]
    /\ configuring \in [BotRuns -> BotRun]

BotInit ==
    /\ configured = [b \in Bots |-> {}]
    /\ configuring = [r \in BotRuns |-> Waiting]

-----------------------------------------------------------------------------
Exit(r) == configuring' = [configuring EXCEPT ![r] = Waiting]

BeginConfigure(r) ==
    /\ configuring[r].step \in {"wait", "verified"}
    /\ \E b \in Bots, apply \in BOOLEAN :
         configuring' = [configuring EXCEPT
             ![r] = [Waiting EXCEPT !.step = "identity", !.bot = b, !.apply = apply]]
    /\ UNCHANGED configured

\* Mutant of Identity: the bot of the token is not looked at.
IdentityUnchecked(r) ==
    /\ configuring[r].step = "identity"
    /\ configuring' = [configuring EXCEPT ![r].step = "read", ![r].todo = Fields]
    /\ UNCHANGED configured

\* getMe: the token of another bot ends the run.
Identity(r) ==
    /\ configuring[r].step = "identity"
    /\ IF configuring[r].bot = Lumi
       THEN configuring' = [configuring EXCEPT ![r].step = "read", ![r].todo = Fields]
       ELSE Exit(r)
    /\ UNCHANGED configured

\* One call per field (here in any order).
ReadField(r) ==
    /\ configuring[r].step = "read"
    /\ \E f \in configuring[r].todo :
         configuring' = [configuring EXCEPT
             ![r].todo = @ \ {f},
             ![r].differ = @ \cup ({f} \ configured[configuring[r].bot])]
    /\ UNCHANGED configured

\* Without --apply the run reports whether all fields matched.
ReadAll(r) ==
    /\ configuring[r].step = "read" /\ configuring[r].todo = {}
    /\ IF configuring[r].apply
       THEN configuring' = [configuring EXCEPT ![r].step = "write",
                                               ![r].todo = configuring[r].differ]
       ELSE IF configuring[r].differ = {}
            THEN configuring' = [configuring EXCEPT ![r].step = "verified"]
            ELSE Exit(r)
    /\ UNCHANGED configured

SetField(b, f) == configured' = [configured EXCEPT ![b] = @ \cup {f}]

WriteField(r) ==
    /\ configuring[r].step = "write"
    /\ \E f \in configuring[r].todo :
         /\ SetField(configuring[r].bot, f)
         /\ configuring' = [configuring EXCEPT ![r].todo = @ \ {f}]

\* The call took effect, but its answer was lost, refused or too large.
WriteUnanswered(r) ==
    /\ configuring[r].step = "write"
    /\ \E f \in configuring[r].todo : SetField(configuring[r].bot, f)
    /\ Exit(r)

\* All is read again.
WroteAll(r) ==
    /\ configuring[r].step = "write" /\ configuring[r].todo = {}
    /\ configuring' = [configuring EXCEPT ![r].step = "verify", ![r].todo = Fields,
                                          ![r].edited = {}]
    /\ UNCHANGED configured

\* Mutant of VerifyField: what is read again is not compared.
VerifyNothing(r) ==
    /\ configuring[r].step = "verify"
    /\ \E f \in configuring[r].todo :
         configuring' = [configuring EXCEPT ![r].todo = @ \ {f}]
    /\ UNCHANGED configured

VerifyField(r) ==
    /\ configuring[r].step = "verify"
    /\ \E f \in configuring[r].todo :
         IF f \in configured[configuring[r].bot]
         THEN configuring' = [configuring EXCEPT ![r].todo = @ \ {f}]
         ELSE Exit(r)
    /\ UNCHANGED configured

VerifiedAll(r) ==
    /\ configuring[r].step = "verify" /\ configuring[r].todo = {}
    /\ configuring' = [configuring EXCEPT ![r].step = "verified"]
    /\ UNCHANGED configured

\* A call fails without effect.
ExitEarly(r) ==
    /\ configuring[r].step \notin {"wait", "verified"}
    /\ Exit(r)
    /\ UNCHANGED configured

\* Somebody else changes a field of the bot.
EditField ==
    \E f \in Fields :
        /\ configured' = [configured EXCEPT ![Lumi] = @ \ {f}]
        /\ configuring' = [r \in BotRuns |->
              IF configuring[r].step \in {"wait", "identity"} THEN configuring[r]
              ELSE [configuring[r] EXCEPT !.edited = @ \cup {f}]]

BotStep(r) ==
    \/ BeginConfigure(r) \/ Identity(r) \/ ReadField(r) \/ ReadAll(r) \/ WriteField(r)
    \/ WriteUnanswered(r) \/ WroteAll(r) \/ VerifyField(r) \/ VerifiedAll(r) \/ ExitEarly(r)

BotNext == EditField \/ \E r \in BotRuns : BotStep(r)

BotSpec == BotInit /\ [][BotNext]_botVars

-----------------------------------------------------------------------------
(* A run that reports the profile as verified is right about every field    *)
(* that nobody else has edited since it began to compare: not because of    *)
(* what it read before it wrote, or of a call whose answer was lost.        *)
VerdictHolds ==
    \A r \in BotRuns : configuring[r].step = "verified" =>
        Fields \ configured[Lumi] \subseteq configuring[r].edited

(* A token of another bot changes nothing of that bot.                      *)
OtherBotsUntouched == \A b \in Bots \ {Lumi} : configured[b] = {}
=============================================================================
