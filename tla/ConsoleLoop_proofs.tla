--------------------------- MODULE ConsoleLoop_proofs --------------------------
(***************************************************************************)
(* The safety properties of ConsoleSession, proved for behaviours of any   *)
(* length.  The strengthening says what the files of /run, the place in    *)
(* the script and the state of kmscon and its child imply of each other.   *)
(* Then, that the loop of the two units implements ConsoleSession with the *)
(* identity as refinement mapping, so that what is proved of               *)
(* console-session.sh on its own holds between the two units.  Last, what  *)
(* the loop never forgets and how many steps the script may take: what its *)
(* liveness properties rest on besides fairness.                           *)
(***************************************************************************)
EXTENDS ConsoleLoop, TLAPS

-----------------------------------------------------------------------------
(* console-session.sh on its own                                           *)

\* The script is in run_kmscon, or about to judge how it went.
InRun == pc \in {"poll", "grace", "reap", "judge"}

\* The way that is being tried is not one that has failed in this boot.
WayUntried ==
    /\ pc = "wait" \/ InRun => "FAILED" \notin files
    /\ InRun /\ way = "libseat" => "LIBSEAT_FAILED" \notin files

\* A run that went wrong is on record, and only those are.
BadOnRecord ==
    bad = (IF "FAILED" \in files THEN 1 ELSE 0)
            + (IF "LIBSEAT_FAILED" \in files THEN 1 ELSE 0)

\* Only a script in run_kmscon has a kmscon, and only a kmscon has a child
\* that is still to start.
OneKmscon ==
    /\ ~InRun \/ pc = "judge" => kmscon \in {"none", "dead"}
    /\ kmscon \in {"none", "dead"} => child # "forked"

\* While a kmscon is tried, the stamp tells whether a program was started.
StampTells ==
    /\ pc = "wait" => shown = 0
    /\ InRun => shown = (IF "STAMP" \in files THEN 1 ELSE 0)
    /\ InRun /\ child \in {"none", "forked"} => "STAMP" \notin files

IInv ==
    /\ TypeOK
    /\ WayUntried
    /\ BadOnRecord
    /\ OneKmscon
    /\ StampTells
    /\ WizardOnce

-----------------------------------------------------------------------------
LEMMA InitIInv == Init => IInv
BY DEF Init, IInv, TypeOK, WayUntried, BadOnRecord, OneKmscon, StampTells,
       WizardOnce, InRun

\* The steps of the script before it starts kmscon.
LEMMA BeforeRun ==
    IInv /\ (\/ \E r \in {"wizard", "shell"}, s \in {"seat", "none"} : Activate(r, s)
             \/ NoDisplay \/ DisplayReady) => IInv'
<1> SUFFICES ASSUME IInv,
                    \/ \E r \in {"wizard", "shell"}, s \in {"seat", "none"} : Activate(r, s)
                    \/ NoDisplay \/ DisplayReady
             PROVE  IInv'
    OBVIOUS
<1> USE DEF IInv, TypeOK, WayUntried, BadOnRecord, OneKmscon, StampTells,
            WizardOnce, InRun, bootVars, unitVars, kmsconVars
<1>1. ASSUME NEW r \in {"wizard", "shell"}, NEW s \in {"seat", "none"}, Activate(r, s)
      PROVE  IInv'
    BY <1>1 DEF Activate
<1>2. CASE NoDisplay
    BY <1>2 DEF NoDisplay, Direct
<1>3. CASE DisplayReady
    BY <1>3 DEF DisplayReady, StartKmscon
<1> QED
    BY <1>1, <1>2, <1>3

\* The steps of run_kmscon, which only look at the files and at kmscon.
LEMMA DuringRun ==
    IInv /\ (PollEnds \/ PollTimeout \/ GraceStopped \/ GraceKill \/ Reap) => IInv'
<1> SUFFICES ASSUME IInv,
                    PollEnds \/ PollTimeout \/ GraceStopped \/ GraceKill \/ Reap
             PROVE  IInv'
    OBVIOUS
<1> USE DEF IInv, TypeOK, WayUntried, BadOnRecord, OneKmscon, StampTells,
            WizardOnce, InRun, bootVars, unitVars, kmsconVars, history
<1>1. CASE PollEnds
    BY <1>1 DEF PollEnds
<1>2. CASE PollTimeout
    BY <1>2 DEF PollTimeout
<1>3. CASE GraceStopped
    BY <1>3 DEF GraceStopped
<1>4. CASE GraceKill
    BY <1>4 DEF GraceKill, Hangup
<1>5. CASE Reap
    BY <1>5 DEF Reap
<1> QED
    BY <1>1, <1>2, <1>3, <1>4, <1>5

\* The verdict on a kmscon, and the end of the activation.
LEMMA AfterRun ==
    IInv /\ (Finish \/ NextWay \/ DirectEnds \/ Over \/ Stop) => IInv'
<1> SUFFICES ASSUME IInv, Finish \/ NextWay \/ DirectEnds \/ Over \/ Stop
             PROVE  IInv'
    OBVIOUS
<1> USE DEF IInv, TypeOK, WayUntried, BadOnRecord, OneKmscon, StampTells,
            WizardOnce, InRun, bootVars, unitVars, kmsconVars, history
<1>1. CASE Finish
    <2>1. CASE krc = 0
        BY <1>1, <2>1 DEF Finish, Started
    <2>2. CASE krc # 0
        <3>1. /\ pc = "judge" /\ files' = files \cup {"FAILED"} /\ bad' = bad + 1
              /\ UNCHANGED <<options, display, role, session, way, kmscon, krc, child, late>>
              /\ \/ role = "shell" /\ pc' = "direct" /\ shown' = shown + 1
                 \/ pc' = "exited" /\ shown' = shown
            BY <1>1, <2>2 DEF Finish, Started, Direct
        <3>2. TypeOK'
            BY <3>1
        <3>3. WayUntried'
            BY <3>1
        <3>4. BadOnRecord'
            BY <3>1
        <3>5. OneKmscon'
            BY <3>1
        <3>6. StampTells' /\ WizardOnce'
            BY <3>1
        <3> QED
            BY <3>2, <3>3, <3>4, <3>5, <3>6
    <2> QED
        BY <2>1, <2>2
<1>2. CASE NextWay
    <2>1. CASE way = "libseat"
        <3>1. /\ pc = "judge" /\ "STAMP" \notin files /\ bad' = bad + 1
              /\ files' = (files \ {"STAMP"}) \cup {"LIBSEAT_FAILED"}
              /\ pc' = "poll" /\ way' = "plain" /\ late' = "no"
              /\ kmscon' = "alive" /\ krc' = 0 /\ child' = "none"
              /\ UNCHANGED <<options, display, role, session, shown>>
            BY <1>2, <2>1 DEF NextWay, Started, StartKmscon
        <3>2. TypeOK'
            BY <3>1
        <3>3. WayUntried'
            BY <3>1
        <3>4. BadOnRecord'
            <4>1. bad = 0
                BY <3>1, <2>1
            <4>2. "FAILED" \notin files' /\ "LIBSEAT_FAILED" \in files'
                BY <3>1
            <4> QED
                BY <3>1, <4>1, <4>2
        <3>5. OneKmscon'
            BY <3>1
        <3>6. StampTells' /\ WizardOnce'
            BY <3>1
        <3> QED
            BY <3>2, <3>3, <3>4, <3>5, <3>6
    <2>2. CASE way = "plain"
        <3>1. /\ pc = "judge" /\ "STAMP" \notin files /\ bad' = bad + 1
              /\ files' = files \cup {"FAILED"}
              /\ pc' = "direct" /\ shown' = shown + 1
              /\ UNCHANGED <<options, display, role, session, way, kmscon, krc, child, late>>
            BY <1>2, <2>2 DEF NextWay, Started, Direct
        <3>2. TypeOK'
            BY <3>1
        <3>3. WayUntried'
            BY <3>1
        <3>4. BadOnRecord'
            BY <3>1
        <3>5. OneKmscon'
            BY <3>1
        <3>6. StampTells' /\ WizardOnce'
            BY <3>1
        <3> QED
            BY <3>2, <3>3, <3>4, <3>5, <3>6
    <2> QED
        BY <2>1, <2>2
<1>3. CASE DirectEnds
    BY <1>3 DEF DirectEnds
<1>4. CASE Over
    BY <1>4 DEF Over
<1>5. CASE Stop
    BY <1>5 DEF Stop
<1> QED
    BY <1>1, <1>2, <1>3, <1>4, <1>5

\* What kmscon, its child and the display do meanwhile.
LEMMA Meanwhile == IInv /\ (Kmscon \/ ChildEnds \/ DisplayChanges) => IInv'
<1> SUFFICES ASSUME IInv, Kmscon \/ ChildEnds \/ DisplayChanges
             PROVE  IInv'
    OBVIOUS
<1> USE DEF IInv, TypeOK, WayUntried, BadOnRecord, OneKmscon, StampTells,
            WizardOnce, InRun, bootVars, unitVars, kmsconVars, history, KmsconUp
<1>1. CASE KmsconForks
    BY <1>1 DEF KmsconForks
<1>2. CASE ChildStarts
    BY <1>2 DEF ChildStarts
<1>3. CASE ChildEnds
    BY <1>3 DEF ChildEnds
<1>4. ASSUME NEW rc \in {0, 1}, KmsconEnds(rc)
      PROVE  IInv'
    BY <1>4 DEF KmsconEnds, Hangup
<1>5. CASE DisplayChanges
    BY <1>5 DEF DisplayChanges
<1> QED
    BY <1>1, <1>2, <1>3, <1>4, <1>5
    DEF Kmscon, KmsconOneshot, KmsconGivesUp, KmsconObeys, KmsconCrashes

LEMMA NextIInv == IInv /\ [Next]_sessionVars => IInv'
<1> SUFFICES ASSUME IInv, [Next]_sessionVars
             PROVE  IInv'
    OBVIOUS
<1>1. CASE Next
    BY <1>1, BeforeRun, DuringRun, AfterRun, Meanwhile DEF Next, Script
<1>2. CASE UNCHANGED sessionVars
    BY <1>2 DEF sessionVars, IInv, TypeOK, WayUntried, BadOnRecord, OneKmscon,
                StampTells, WizardOnce, InRun
<1> QED
    BY <1>1, <1>2

\* The strengthening is an invariant of every behaviour of console-session.sh.
THEOREM Inductive == Spec => []IInv
BY InitIInv, NextIInv, PTL DEF Spec

-----------------------------------------------------------------------------
\* Every variable stays in its range, however many activations a boot sees.
THEOREM SessionTypeCorrect == Spec => []TypeOK
<1>1. IInv => TypeOK
    BY DEF IInv
<1> QED
    BY <1>1, Inductive, PTL

\* One activation never runs the wizard twice, whatever kmscon does and
\* whenever its child leaves the stamp: before the timeout, in the grace period
\* after SIGTERM, or never.
THEOREM WizardNeverTwice == Spec => []WizardOnce
<1>1. IInv => WizardOnce
    BY DEF IInv
<1> QED
    BY <1>1, Inductive, PTL

\* A boot sees at most two kmscons that never got going or died, over any
\* number of activations of the two units.
THEOREM AtMostTwoBadRuns == Spec => []NoCrashLoop
<1>1. IInv => NoCrashLoop
    BY DEF IInv, TypeOK, BadOnRecord, NoCrashLoop
<1> QED
    BY <1>1, Inductive, PTL

\* Once "failed" is recorded no kmscon is started any more in this boot.
THEOREM FailedMeansNoKmscon == Spec => NoKmsconAfterFailed
<1>1. IInv /\ [Next]_sessionVars
        => [kmscon' = "alive" /\ kmscon # "alive" => "FAILED" \notin files']_sessionVars
    <2> SUFFICES ASSUME IInv, Next, kmscon' = "alive", kmscon # "alive"
                 PROVE  "FAILED" \notin files'
        OBVIOUS
    <2>1. DisplayReady \/ NextWay
        BY DEF Next, Script, Kmscon, Activate, NoDisplay, Direct, PollEnds,
               PollTimeout, GraceStopped, GraceKill, Reap, Finish, DirectEnds,
               Over, KmsconForks, ChildStarts, ChildEnds, KmsconOneshot,
               KmsconGivesUp, KmsconObeys, KmsconCrashes, KmsconEnds,
               DisplayChanges, Stop, kmsconVars
    <2>2. CASE DisplayReady
        BY <2>2 DEF DisplayReady, IInv, WayUntried
    <2>3. CASE NextWay
        BY <2>3 DEF NextWay, IInv, WayUntried, InRun, kmsconVars
    <2> QED
        BY <2>1, <2>2, <2>3
<1> QED
    BY <1>1, Inductive, PTL DEF Spec, NoKmsconAfterFailed

-----------------------------------------------------------------------------
(* Between the two units                                                   *)

LEMMA StepIsSession == [LoopNext]_vars => [Next]_sessionVars
<1> SUFFICES ASSUME [LoopNext]_vars
             PROVE  [Next]_sessionVars
    OBVIOUS
<1>1. CASE SessionStep
    BY <1>1 DEF SessionStep, Next
<1>2. CASE StartWizard
    BY <1>2 DEF StartWizard, Next
<1>3. CASE StartShell
    BY <1>3 DEF StartShell, Next
<1>4. CASE WizardOver \/ ShellOver
    BY <1>4 DEF WizardOver, ShellOver, Next
<1>5. CASE StopForConflict \/ ShellKilled \/ WizardKilled
    BY <1>5 DEF StopForConflict, ShellKilled, WizardKilled, Next
<1>6. CASE TypesExit \/ FontExit \/ WizardEnds \/ HungUpShellEnds
    BY <1>6 DEF TypesExit, FontExit, WizardEnds, HungUpShellEnds, Next
<1>7. CASE SkipWizard \/ ShellExit \/ AsksForWizard \/ FontRequest
             \/ FontInterrupted \/ Ages
    BY <1>7 DEF SkipWizard, ShellExit, PostYields, PostReload, PostShell,
                PostWizard, PostSleepEnds, AsksForWizard, FontRequest,
                FontInterrupted, Ages
<1>8. CASE UNCHANGED vars
    BY <1>8 DEF vars
<1> QED
    BY <1>1, <1>2, <1>3, <1>4, <1>5, <1>6, <1>7, <1>8
    DEF LoopNext, Systemd, Operator

\* However the units alternate, each step of the loop is one that
\* console-session.sh, kmscon or systemd makes in ConsoleSession, or none.
THEOREM LoopImplementsSession == LoopSpec => SessionSpec
<1>1. LoopInit => Init
    BY DEF LoopInit
<1> QED
    BY <1>1, StepIsSession, PTL DEF LoopSpec, SessionSpec, Spec

\* Therefore the wizard is never run twice by one activation, a boot sees at
\* most two failed kmscons, and none after "failed", in the loop as well.
THEOREM LoopKeepsSession ==
    LoopSpec => []WizardOnce /\ []NoCrashLoop /\ NoKmsconAfterFailed
BY LoopImplementsSession, WizardNeverTwice, AtMostTwoBadRuns, FailedMeansNoKmscon,
   PTL DEF SessionSpec

-----------------------------------------------------------------------------
LEMMA InitLoop == LoopInit => LoopTypeOK /\ MaintenanceSparesWizard
BY DEF LoopInit, Init, LoopTypeOK, TypeOK, MaintenanceSparesWizard

\* What the steps do to the loop's own variables.
LEMMA LoopTypeNext ==
    LoopTypeOK /\ TypeOK' /\ [LoopNext]_vars => LoopTypeOK'
<1> SUFFICES ASSUME LoopTypeOK, TypeOK', [LoopNext]_vars
             PROVE  LoopTypeOK'
    OBVIOUS
<1> USE DEF LoopTypeOK, loopVars
<1>1. CASE SessionStep \/ WizardKilled \/ WizardEnds \/ HungUpShellEnds
    BY <1>1 DEF SessionStep, WizardKilled, WizardEnds, HungUpShellEnds
<1>2. CASE StartWizard \/ SkipWizard \/ StartShell
    BY <1>2 DEF StartWizard, SkipWizard, StartShell
<1>3. CASE WizardOver \/ ShellOver
    BY <1>3 DEF WizardOver, ShellOver
<1>4. CASE StopForConflict \/ ShellKilled
    BY <1>4 DEF StopForConflict, ShellKilled
<1>5. CASE ShellExit
    BY <1>5 DEF ShellExit, PostYields, PostReload, PostShell, PostWizard, PostSleepEnds
<1>6. CASE Operator
    BY <1>6 DEF Operator, TypesExit, AsksForWizard, FontRequest, FontExit, FontInterrupted
<1>7. CASE Ages
    BY <1>7 DEF Ages
<1>8. CASE UNCHANGED vars
    BY <1>8 DEF vars
<1> QED
    BY <1>1, <1>2, <1>3, <1>4, <1>5, <1>6, <1>7, <1>8 DEF LoopNext, Systemd

\* Only StartWizard makes the wizard the active unit.
LEMMA MaintenanceNext ==
    MaintenanceSparesWizard /\ [LoopNext]_vars => MaintenanceSparesWizard'
<1> SUFFICES ASSUME MaintenanceSparesWizard, [LoopNext]_vars
             PROVE  MaintenanceSparesWizard'
    OBVIOUS
<1> USE DEF MaintenanceSparesWizard
<1>1. CASE StartWizard
    BY <1>1 DEF StartWizard
<1>2. CASE StartShell
    BY <1>2 DEF StartShell, Activate
<1>3. CASE ~StartWizard /\ ~StartShell
    <2>1. mode' = mode /\ role' = role /\ (pc = "idle" => pc' = "idle")
        BY <1>3 DEF LoopNext, vars, sessionVars, loopVars, bootVars, unitVars,
               SessionStep, Script, NoDisplay, DisplayReady, PollEnds, PollTimeout,
               GraceStopped, GraceKill, Reap, Finish, NextWay, Kmscon, KmsconForks,
               ChildStarts, KmsconOneshot, KmsconGivesUp, KmsconObeys, KmsconCrashes,
               KmsconEnds, DisplayChanges, Systemd, SkipWizard, WizardOver, ShellOver,
               StopForConflict, Over, Stop, ShellExit, PostYields, PostReload,
               PostShell, PostWizard, PostSleepEnds, Operator, TypesExit,
               AsksForWizard, FontRequest, FontExit, FontInterrupted, WizardEnds,
               HungUpShellEnds, ChildEnds, DirectEnds, ShellKilled, WizardKilled, Ages
    <2> QED
        BY <2>1
<1> QED
    BY <1>1, <1>2, <1>3

\* Every variable of the loop stays in its range.
THEOREM LoopTypeCorrect == LoopSpec => []LoopTypeOK
<1>1. LoopInit => LoopTypeOK
    BY InitLoop
<1> QED
    BY <1>1, LoopTypeNext, LoopImplementsSession, SessionTypeCorrect, PTL
    DEF LoopSpec, SessionSpec

\* An entry booted with installer.mode=shell never runs the wizard, not even
\* when the operator asks systemd for it.
THEOREM MaintenanceNeverWizard == LoopSpec => []MaintenanceSparesWizard
<1>1. LoopInit => MaintenanceSparesWizard
    BY InitLoop
<1> QED
    BY <1>1, MaintenanceNext, PTL DEF LoopSpec
-----------------------------------------------------------------------------
(* What the loop never forgets: the part of its liveness properties that   *)
(* is safety, for no step may lose what fairness is to bring about         *)

\* The program of a kmscon that is gone has been hung up.
HungUp == kmscon \in {"none", "dead"} => child # "running"

\* One unit at a time: shell-exit.sh runs when none is active, systemd's queue
\* holds one start job at most, none while the wizard is active, and none of the
\* shell before the shell's unit is over with shell-exit.sh.
Turns ==
    /\ post # "none" => pc = "idle"
    /\ jobs \in {{}, {"wizard"}, {"shell"}}
    /\ pc # "idle" \/ post # "none" => "shell" \notin jobs
    /\ pc # "idle" /\ role = "wizard" => jobs = {}

\* In a normal boot an idle console has a job or shell-exit.sh.
NeverLeft == mode = "normal" /\ pc = "idle" => jobs # {} \/ post # "none"

LoopInv == IInv /\ LoopTypeOK /\ HungUp /\ Turns /\ NeverLeft

\* The steps that leave the loop's variables and an idle console alone.
Inside ==
    /\ UNCHANGED <<mode, jobs, post, role>>
    /\ pc = "idle" <=> pc' = "idle"

LEMMA SessionSteps ==
    ASSUME TypeOK, SessionStep \/ WizardEnds \/ HungUpShellEnds \/ ShellKilled \/ WizardKilled
                   \/ StopForConflict \/ TypesExit \/ FontRequest \/ FontExit
                   \/ FontInterrupted \/ Ages \/ UNCHANGED vars
    PROVE  Inside
<1>1. CASE SessionStep
    BY <1>1 DEF SessionStep, Inside, loopVars, Script, NoDisplay, DisplayReady, PollEnds,
                PollTimeout, GraceStopped, GraceKill, Reap, Finish, NextWay, Direct,
                StartKmscon, Kmscon, KmsconForks, ChildStarts, KmsconOneshot, KmsconGivesUp,
                KmsconObeys, KmsconCrashes, KmsconEnds, DisplayChanges, unitVars
<1>2. CASE WizardEnds \/ HungUpShellEnds \/ TypesExit \/ FontExit
    BY <1>2 DEF WizardEnds, HungUpShellEnds, TypesExit, FontExit, ChildEnds, DirectEnds,
                Inside, loopVars, unitVars
<1>3. CASE ShellKilled \/ WizardKilled \/ StopForConflict
    BY <1>3 DEF ShellKilled, WizardKilled, StopForConflict, Stop, Inside, loopVars, unitVars
<1>4. CASE FontRequest \/ FontInterrupted \/ Ages \/ UNCHANGED vars
    BY <1>4 DEF FontRequest, FontInterrupted, Ages, vars, Inside, loopVars, sessionVars
<1> QED
    BY <1>1, <1>2, <1>3, <1>4

LEMMA HungUpNext ==
    ASSUME IInv, HungUp, [Next]_sessionVars
    PROVE  HungUp'
<1> USE DEF HungUp
<1>1. CASE \E r \in {"wizard", "shell"}, s \in {"seat", "none"} : Activate(r, s)
    BY <1>1 DEF Activate
<1>2. CASE NoDisplay \/ DisplayReady \/ NextWay
    BY <1>2 DEF NoDisplay, DisplayReady, NextWay, StartKmscon, kmsconVars
<1>3. CASE PollEnds \/ PollTimeout \/ GraceStopped \/ GraceKill \/ Reap \/ Finish
    BY <1>3 DEF PollEnds, PollTimeout, GraceStopped, GraceKill, Reap, Finish, Hangup, kmsconVars
<1>4. CASE Kmscon
    BY <1>4 DEF Kmscon, KmsconForks, ChildStarts, KmsconOneshot, KmsconGivesUp, KmsconObeys,
                KmsconCrashes, KmsconEnds, KmsconUp, Hangup, IInv, OneKmscon
<1>5. CASE ChildEnds \/ DirectEnds \/ Over \/ Stop \/ DisplayChanges \/ UNCHANGED sessionVars
    BY <1>5 DEF ChildEnds, DirectEnds, Over, Stop, DisplayChanges, kmsconVars, sessionVars
<1> QED
    BY <1>1, <1>2, <1>3, <1>4, <1>5 DEF Next, Script

\* Nobody is at a prompt while no unit is active.
LEMMA NoPromptWhenIdle ==
    ASSUME LoopInv, AtPrompt
    PROVE  pc # "idle" /\ post = "none"
BY DEF LoopInv, IInv, OneKmscon, InRun, HungUp, Turns, AtPrompt

LEMMA TurnsNext ==
    ASSUME LoopInv, [LoopNext]_vars
    PROVE  Turns' /\ NeverLeft'
<1> USE DEF Turns, NeverLeft
<1>0. TypeOK /\ Turns /\ NeverLeft
      /\ mode \in {"normal", "shell"} /\ role \in {"wizard", "shell"}
    BY DEF LoopInv, LoopTypeOK, TypeOK
<1>1. CASE Inside
    BY <1>0, <1>1 DEF Inside
<1>2. CASE StartWizard \/ StartShell
    BY <1>0, <1>2 DEF StartWizard, StartShell, Activate, Idle
<1>3. CASE SkipWizard
    BY <1>0, <1>3 DEF SkipWizard, Idle, sessionVars
<1>4. CASE WizardOver \/ ShellOver
    BY <1>0, <1>4 DEF WizardOver, ShellOver, Over, unitVars
<1>5. CASE ShellExit
    BY <1>0, <1>5 DEF ShellExit, PostYields, PostReload, PostShell, PostWizard,
                      PostSleepEnds, WizardPending, sessionVars
<1>6. CASE AsksForWizard
    BY <1>0, <1>6 DEF AsksForWizard, sessionVars
<1> QED
    BY <1>0, <1>1, <1>2, <1>3, <1>4, <1>5, <1>6, SessionSteps DEF LoopNext, Systemd, Operator

\* The invariant of the loop: whose turn it is.
THEOREM LoopInductive == LoopSpec => []LoopInv
<1>1. LoopInit => HungUp /\ Turns /\ NeverLeft
    BY DEF LoopInit, Init, HungUp, Turns, NeverLeft
<1>2. LoopInv /\ [LoopNext]_vars => HungUp' /\ Turns' /\ NeverLeft'
    BY TurnsNext, HungUpNext, StepIsSession DEF LoopInv
<1>3. LoopSpec => []IInv
    BY LoopImplementsSession, Inductive DEF SessionSpec
<1> QED
    BY <1>1, <1>2, <1>3, LoopTypeCorrect, PTL DEF LoopSpec, LoopInv

\* A normal boot never reaches a state in which no unit is active, no start job
\* is waiting and shell-exit.sh is not about to ask for one: what ConsoleReturns
\* needs besides fairness, and what a maintenance boot lacks.
THEOREM ConsoleNeverForgotten == LoopSpec => []NeverLeft
<1>1. LoopInv => NeverLeft
    BY DEF LoopInv
<1> QED
    BY <1>1, LoopInductive, PTL

WizardStarts == pc' # "idle" /\ role' = "wizard"

\* The wizard is asked for, and start_getty is not already on its way.
Requested == mode = "normal" /\ "wizard" \in jobs /\ post # "sleep"

\* The start job of the wizard stays in the queue until the wizard starts, and
\* once the shell has stopped for it nothing else is started before.
RequestKept ==
    [][Requested => WizardStarts \/ (Requested' /\ (pc = "idle" => pc' = "idle"))]_vars

\* A request for the wizard is never lost to a start job of the shell: not when
\* it comes while the shell runs, and not between its end and the look of
\* shell-exit.sh.  What RequestHonoured needs besides fairness.
THEOREM RequestNeverLost == LoopSpec => RequestKept
<1> DEFINE Kept == WizardStarts \/ (Requested' /\ (pc = "idle" => pc' = "idle"))
<1>1. ASSUME LoopInv, [LoopNext]_vars, Requested
      PROVE  Kept
    <2> USE DEF Turns, Requested
    <2>0. TypeOK /\ Turns
        BY <1>1 DEF LoopInv, LoopTypeOK
    <2>1. CASE Inside
        BY <1>1, <2>1 DEF Inside
    <2>2. CASE StartWizard
        BY <1>1, <2>2 DEF StartWizard, Activate, WizardStarts
    <2>3. CASE StartShell \/ SkipWizard
        BY <1>1, <2>0, <2>3 DEF StartShell, SkipWizard
    <2>4. CASE WizardOver \/ ShellOver
        BY <1>1, <2>4 DEF WizardOver, ShellOver, Over
    <2>5. CASE ShellExit
        BY <1>1, <2>0, <2>5 DEF ShellExit, PostYields, PostReload, PostShell, PostWizard,
                                PostSleepEnds, WizardPending, sessionVars
    <2>6. CASE AsksForWizard
        BY <1>1, <2>6 DEF AsksForWizard, sessionVars
    <2> HIDE DEF Kept
    <2> QED
        BY <1>1, <2>0, <2>1, <2>2, <2>3, <2>4, <2>5, <2>6, SessionSteps
        DEF LoopNext, Systemd, Operator
<1> QED
    BY <1>1, LoopInductive, PTL DEF LoopSpec, RequestKept, Requested

\* An exit typed in a shell that lived long enough, at the decision of
\* shell-exit.sh.
Exited == mode = "normal" /\ post = "check" /\ cause = "exit" /\ age = "old" /\ reload = "absent"

\* It is answered by a start job of the wizard.
ExitKept == [][Exited => Exited' \/ (pc' = "idle" /\ Requested')]_vars

\* An exit is never answered by another shell: with RequestNeverLost, what
\* ExitLeadsToWizard needs besides fairness.
THEOREM ExitNeverShell == LoopSpec => ExitKept
<1>1. ASSUME LoopInv, [LoopNext]_vars, Exited
      PROVE  Exited' \/ (pc' = "idle" /\ Requested')
    <2> USE DEF Exited, Requested
    <2>1. pc = "idle" /\ post = "check" /\ child # "running" /\ ~AtPrompt
        BY <1>1, NoPromptWhenIdle DEF LoopInv, Turns, IInv, OneKmscon, InRun, HungUp
    <2>2. CASE ShellExit
        BY <1>1, <2>1, <2>2 DEF ShellExit, PostYields, PostReload, PostShell, PostWizard,
             PostSleepEnds, WizardPending, ShellAgain, Unclean, sessionVars
    <2>3. CASE Systemd
        BY <1>1, <2>1, <2>3 DEF Systemd, StartWizard, StartShell, SkipWizard, Idle, WizardOver,
             ShellOver, StopForConflict, Over, Stop
    <2>4. CASE Operator \/ ShellKilled \/ WizardKilled \/ Ages
        BY <1>1, <2>1, <2>4 DEF Operator, TypesExit, AsksForWizard, FontRequest, FontExit,
             FontInterrupted, ShellKilled, WizardKilled, Ages, Stop, loopVars, sessionVars
    <2>5. CASE SessionStep \/ WizardEnds \/ HungUpShellEnds \/ UNCHANGED vars
        BY <1>1, <2>1, <2>5 DEF SessionStep, WizardEnds, HungUpShellEnds, vars, loopVars
    <2> QED
        BY <1>1, <2>2, <2>3, <2>4, <2>5 DEF LoopNext
<1> QED
    BY <1>1, LoopInductive, PTL DEF LoopSpec, ExitKept

-----------------------------------------------------------------------------
(* How many steps the script may take                                      *)

\* An upper bound of the steps the script has ahead of it in this activation.
StepsLeft ==
    CASE pc = "wait"  -> 10
      [] pc = "poll"  -> IF way = "libseat" THEN 9 ELSE 5
      [] pc = "grace" -> IF way = "libseat" THEN 8 ELSE 4
      [] pc = "reap"  -> IF way = "libseat" THEN 7 ELSE 3
      [] pc = "judge" -> IF way = "libseat" THEN 6 ELSE 2
      [] OTHER        -> 0

\* Each step of the script leaves fewer, and nothing around it gives it more
\* before the next activation.
ScriptAdvances ==
    [][(Script => StepsLeft' < StepsLeft) /\ (pc # "idle" => StepsLeft' <= StepsLeft)]_sessionVars

\* console-session.sh tries two ways and no way twice: within an activation it
\* takes at most ten of its steps, whatever kmscon does.  This is the variant of
\* ProgramAppears.
THEOREM ScriptNeverLoops == Spec => ScriptAdvances
<1> USE DEF StepsLeft
<1>1. ASSUME TypeOK, Script PROVE StepsLeft' < StepsLeft
    <2>1. CASE NoDisplay \/ DisplayReady
        BY <1>1, <2>1 DEF NoDisplay, DisplayReady, StartKmscon, Direct
    <2>2. CASE PollEnds \/ PollTimeout \/ GraceStopped \/ GraceKill \/ Reap
        BY <1>1, <2>2 DEF PollEnds, PollTimeout, GraceStopped, GraceKill, Reap, kmsconVars
    <2>3. CASE Finish \/ NextWay
        BY <1>1, <2>3 DEF Finish, NextWay, StartKmscon, Direct, kmsconVars
    <2> QED
        BY <1>1, <2>1, <2>2, <2>3 DEF Script
<1>2. StepsLeft \in Nat
    OBVIOUS
<1>3. ASSUME TypeOK, [Next]_sessionVars, ~Script, pc # "idle" PROVE StepsLeft' <= StepsLeft
    <2>1. CASE pc' = pc /\ way' = way
        BY <1>2, <2>1
    <2>2. CASE pc' \in {"exited", "idle"}
        BY <1>2, <2>2
    <2>3. (pc' = pc /\ way' = way) \/ pc' \in {"exited", "idle"}
        BY <1>3 DEF Next, Activate, DirectEnds, ChildEnds, Over, DisplayChanges, Stop, Kmscon,
                    KmsconForks, ChildStarts, KmsconOneshot, KmsconGivesUp, KmsconObeys,
                    KmsconCrashes, KmsconEnds, kmsconVars, sessionVars
    <2> QED
        BY <2>1, <2>2, <2>3
<1>4. ASSUME TypeOK, [Next]_sessionVars
      PROVE  (Script => StepsLeft' < StepsLeft) /\ (pc # "idle" => StepsLeft' <= StepsLeft)
    <2>1. StepsLeft \in Nat /\ StepsLeft' \in Nat
        OBVIOUS
    <2> HIDE DEF StepsLeft
    <2> QED
        BY <1>1, <1>3, <1>4, <2>1
<1> QED
    BY <1>4, SessionTypeCorrect, PTL DEF Spec, ScriptAdvances
================================================================================
