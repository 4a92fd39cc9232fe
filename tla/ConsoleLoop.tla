----------------------------- MODULE ConsoleLoop ------------------------------
(***************************************************************************)
(* The loop of the console: installer-wizard.service, then (OnSuccess,     *)
(* OnFailure) console-getty.service with the root shell, then, as          *)
(* shell-exit.sh decides in its ExecStopPost, the wizard or a fresh shell. *)
(* Both units run console-session.sh (ConsoleSession) and conflict with    *)
(* each other: a start job of the wizard first stops the shell.            *)
(*                                                                         *)
(* The state is the one of ConsoleSession (pc # "idle": the unit of role   *)
(* is active) with what systemd, shell-exit.sh and the operator's shell    *)
(* add.  systemd runs the jobs; a signal that kills the shell's unit is    *)
(* still the result "success", for its ExecStart has the prefix "-".       *)
(***************************************************************************)
EXTENDS ConsoleSession

VARIABLES
    mode,       \* the boot entry: "normal", or "shell" (installer.mode=shell)
    jobs,       \* units with a start job in systemd's queue
    post,       \* shell-exit.sh: "none", "check", or "sleep" in start_getty
    cause,      \* why the shell ends ("font": in set-kmscon-font's sleep)
    age,        \* has the shell's unit lived for MIN_LIFETIME?
    reload      \* RELOAD_STAMP: "absent" or "present"

loopVars == <<mode, jobs, post, cause, age, reload>>
vars == <<sessionVars, loopVars>>

LoopInit ==
    /\ Init
    /\ \/ mode = "normal" /\ jobs = {"wizard"}
       \/ mode = "shell" /\ jobs = {"shell"}
    /\ post = "none" /\ cause = "none" /\ age = "young"
    /\ reload = "absent"

-----------------------------------------------------------------------------
\* The units.

Idle == pc = "idle" /\ post = "none"

\* Mutant of StartWizard: the unit without its condition.
StartWizardAlways ==
    /\ Idle
    /\ "wizard" \in jobs
    /\ \E s \in {"seat", "none"} : Activate("wizard", s)
    /\ jobs' = jobs \ {"wizard"}
    /\ UNCHANGED <<mode, post, cause, age, reload>>

\* systemd runs a start job: ExecStartPre stamps the time, then ExecStart.
StartWizard ==
    /\ Idle
    /\ "wizard" \in jobs
    /\ mode = "normal"                      \* ConditionKernelCommandLine=
    /\ \E s \in {"seat", "none"} : Activate("wizard", s)
    /\ jobs' = jobs \ {"wizard"}
    /\ UNCHANGED <<mode, post, cause, age, reload>>

SkipWizard ==
    /\ Idle
    /\ "wizard" \in jobs
    /\ mode = "shell"
    /\ jobs' = jobs \ {"wizard"}
    /\ UNCHANGED <<sessionVars, mode, post, cause, age, reload>>

StartShell ==
    /\ Idle
    /\ "shell" \in jobs
    /\ \E s \in {"seat", "none"} : Activate("shell", s)
    /\ jobs' = jobs \ {"shell"}
    /\ cause' = "none" /\ age' = "young"
    /\ UNCHANGED <<mode, post, reload>>

\* Mutants of WizardOver: no OnSuccess=, or one that names another unit.
WizardOverAlone == role = "wizard" /\ Over /\ UNCHANGED loopVars

WizardOverOther ==
    /\ role = "wizard"
    /\ Over
    /\ jobs' = jobs \cup {"getty"}
    /\ UNCHANGED <<mode, post, cause, age, reload>>

\* The wizard's unit is over: OnSuccess= and OnFailure= both name the shell.
WizardOver ==
    /\ role = "wizard"
    /\ Over
    /\ jobs' = jobs \cup {"shell"}
    /\ UNCHANGED <<mode, post, cause, age, reload>>

\* The shell's unit stops: ExecStopPost.
ShellOver ==
    /\ role = "shell"
    /\ Over
    /\ post' = "check"
    /\ UNCHANGED <<mode, jobs, cause, age, reload>>

\* What ends the shell's unit from outside, with all its processes: Conflicts=
\* when the wizard is to start, a VT hangup, the OOM killer.
StopForConflict ==
    /\ role = "shell"
    /\ "wizard" \in jobs
    /\ Stop
    /\ cause' = "stopped"
    /\ UNCHANGED <<mode, jobs, post, age, reload>>

ShellKilled ==
    /\ role = "shell"
    /\ Stop
    /\ cause' \in {"hangup", "oom"}
    /\ UNCHANGED <<mode, jobs, post, age, reload>>

WizardKilled == role = "wizard" /\ Stop /\ UNCHANGED loopVars

-----------------------------------------------------------------------------
\* shell-exit.sh.

\* Mutant of Unclean: without the prefix "-" the status of the last command
\* before exit makes the result.
UncleanByStatus == cause \in {"oom", "exit"}

\* SERVICE_RESULT is not "success": of all causes, only the OOM killer's.
Unclean == cause = "oom"

\* Mutant of WizardPending: only is-active is asked, and the wizard is inactive
\* as long as the shell stops.
WizardPendingActive == "wizard" \in jobs /\ role = "wizard"

\* The wizard is starting, or has a start job waiting: leave getty stopped.
WizardPending == "wizard" \in jobs

PostYields ==
    /\ post = "check"
    /\ WizardPending
    /\ post' = "none"
    /\ UNCHANGED <<sessionVars, mode, jobs, cause, age, reload>>

PostReload ==
    /\ post = "check"
    /\ ~WizardPending
    /\ reload = "present"
    /\ reload' = "absent"
    /\ post' = "sleep"
    /\ UNCHANGED <<sessionVars, mode, jobs, cause, age>>

\* Maintenance entry, unclean end, or a shell that died within seconds.
ShellAgain == mode = "shell" \/ Unclean \/ age = "young"

PostShell ==
    /\ post = "check"
    /\ ~WizardPending
    /\ reload = "absent"
    /\ ShellAgain
    /\ post' = "sleep"
    /\ UNCHANGED <<sessionVars, mode, jobs, cause, age, reload>>

PostWizard ==
    /\ post = "check"
    /\ ~WizardPending
    /\ reload = "absent"
    /\ ~ShellAgain
    /\ jobs' = {"wizard"}
    /\ post' = "none"
    /\ UNCHANGED <<sessionVars, mode, cause, age, reload>>

\* Mutant of PostSleepEnds: the getty is started by hand, past
\* console-session.sh.
PostSleepEndsByHand ==
    /\ post = "sleep"
    /\ post' = "none"
    /\ pc' = "direct" /\ role' = "shell" /\ shown' = 1
    /\ UNCHANGED <<options, display, files, session, kmsconVars, late, bad>>
    /\ UNCHANGED <<mode, jobs, cause, age, reload>>

\* start_getty after its sleep; the job replaces a conflicting one, also one of
\* the wizard that came since shell-exit.sh looked.
PostSleepEnds ==
    /\ post = "sleep"
    /\ jobs' = {"shell"}
    /\ post' = "none"
    /\ UNCHANGED <<sessionVars, mode, cause, age, reload>>

ShellExit == PostYields \/ PostReload \/ PostShell \/ PostWizard \/ PostSleepEnds

-----------------------------------------------------------------------------
\* The programs, and the operator at the shell.

WizardEnds == role = "wizard" /\ (ChildEnds \/ DirectEnds) /\ UNCHANGED loopVars

\* The shell of a kmscon that died gets SIGHUP; the script looks after the rest.
HungUpShellEnds ==
    role = "shell" /\ child = "hungup" /\ ChildEnds /\ UNCHANGED loopVars

AtPrompt ==
    /\ role = "shell"
    /\ \/ pc = "direct"
       \/ child = "running" /\ cause # "font"

TypesExit ==
    /\ AtPrompt
    /\ \/ DirectEnds
       \/ child = "running" /\ ChildEnds
    /\ cause' = "exit"
    /\ UNCHANGED <<mode, jobs, post, age, reload>>

\* systemctl start installer-wizard, typed at the prompt or, at any moment, in
\* an ssh session: the job replaces one of the shell, which the wizard conflicts
\* with, and asks for nothing while the wizard is active.
AsksForWizard ==
    /\ pc = "idle" \/ role = "shell"
    /\ jobs' = {"wizard"}
    /\ UNCHANGED <<sessionVars, mode, post, cause, age, reload>>

\* set-kmscon-font in kmscon's shell: the stamp is written, a sleep follows ...
FontRequest ==
    /\ AtPrompt
    /\ child = "running"
    /\ pc # "direct"
    /\ reload' = "present"
    /\ cause' = "font"
    /\ UNCHANGED <<sessionVars, mode, jobs, post, age>>

\* ... then exit ends the shell ...
FontExit ==
    /\ cause = "font"
    /\ child = "running"
    /\ ChildEnds
    /\ cause' = "reload"
    /\ UNCHANGED <<mode, jobs, post, age, reload>>

\* ... unless the sleep is interrupted or exit leaves only a nested shell.
FontInterrupted ==
    /\ cause = "font"
    /\ child = "running"
    /\ cause' = "none"
    /\ UNCHANGED <<sessionVars, mode, jobs, post, age, reload>>

Ages ==
    /\ role = "shell"
    /\ pc # "idle"
    /\ age = "young"
    /\ age' = "old"
    /\ UNCHANGED <<sessionVars, mode, jobs, post, cause, reload>>

-----------------------------------------------------------------------------
SessionStep == (Script \/ Kmscon \/ DisplayChanges) /\ UNCHANGED loopVars

Systemd ==
    \/ StartWizard \/ SkipWizard \/ StartShell
    \/ WizardOver \/ ShellOver \/ StopForConflict

Operator ==
    TypesExit \/ AsksForWizard \/ FontRequest \/ FontExit \/ FontInterrupted

LoopNext ==
    \/ SessionStep
    \/ Systemd
    \/ ShellExit
    \/ Operator
    \/ WizardEnds \/ HungUpShellEnds
    \/ ShellKilled \/ WizardKilled
    \/ Ages

LoopSpec == LoopInit /\ [][LoopNext]_vars

\* The scripts and systemd go on; nothing is assumed of the operator, of kmscon
\* or of the programs.
FairLoopSpec ==
    /\ LoopSpec
    /\ WF_vars(Script /\ UNCHANGED loopVars)
    /\ WF_vars(Systemd)
    /\ WF_vars(ShellExit)

-----------------------------------------------------------------------------
LoopTypeOK ==
    /\ TypeOK
    /\ mode \in {"normal", "shell"}
    /\ jobs \subseteq {"wizard", "shell"}
    /\ post \in {"none", "check", "sleep"}
    /\ cause \in {"none", "font", "exit", "reload", "stopped", "hangup", "oom"}
    /\ age \in {"young", "old"}
    /\ reload \in {"absent", "present"}

\* The loop adds nothing to what console-session.sh does on its own: all that
\* holds of ConsoleSession holds of it between the two units.
SessionSpec == Spec

\* A booted entry with installer.mode=shell never runs the wizard, whatever is
\* typed at its shell or asked for over ssh.
MaintenanceSparesWizard == mode = "shell" /\ pc # "idle" => role = "shell"

\* In a normal boot the console is never left without a unit: whatever ended the
\* last one, the wizard or the shell is started again.
ConsoleReturns == mode = "normal" /\ pc = "idle" ~> pc # "idle"

\* exit typed in a shell that lived long enough, with no font change pending,
\* leads to the wizard, never to another shell.
ExitLeadsToWizard ==
    (mode = "normal" /\ post = "check" /\ cause = "exit" /\ age = "old"
        /\ reload = "absent")
    ~> (pc # "idle" /\ role = "wizard")

\* A wizard asked for, at the prompt or from elsewhere at any moment, is started,
\* however the shell ends while it is being stopped and whatever shell-exit.sh
\* finds then.  Excepted is a request within the second of start_getty, which has
\* looked for one before it.
RequestHonoured ==
    mode = "normal" /\ "wizard" \in jobs /\ post # "sleep"
    ~> pc # "idle" /\ role = "wizard"

\* installer.conf:33-35 says that "maintenance boot entries" get "a fresh getty"
\* when the shell has ended.
MaintenanceReturns == mode = "shell" /\ post = "check" ~> pc # "idle"
==============================================================================
