---------------------------- MODULE ConsoleSession ----------------------------
(***************************************************************************)
(* console-session.sh: the only program that ever starts the wizard or the *)
(* root shell on the console, inside kmscon when a display is up and       *)
(* directly on the VT otherwise.                                           *)
(*                                                                         *)
(* Three processes run side by side: the script (pc), kmscon, which may    *)
(* hang, crash or ignore signals, and kmscon's child (the script again,    *)
(* with --child), which leaves the file STAMP and then becomes the program.*)
(* The script knows the other two only through STAMP, kill -0, and wait.   *)
(* Time is not counted: a deadline may pass at any moment.                 *)
(*                                                                         *)
(* /run is a tmpfs, so one behaviour is one boot, a sequence of            *)
(* activations of the script by its two units.                             *)
(***************************************************************************)
EXTENDS Integers

VARIABLES
    options,        \* what the boot allows: "kmscon", "libseat"
    display,        \* display_ready(): "connected" or "none"
    files,          \* the files of /run: STAMP, FAILED, LIBSEAT_FAILED
    role,           \* ROLE: "wizard" or "shell"
    session,        \* have_logind_session(): "seat" or "none"
    pc,             \* where the script is
    way,            \* the way kmscon was started: "libseat" or "plain"
    kmscon,         \* "none", "alive", "asked" (sent SIGTERM) or "dead"
    krc,            \* its exit status: 0, or 1 for every other one
    child,          \* "none", "forked", "running", "hungup" or "gone"
    shown,          \* history: programs started for this activation
    late,           \* history: did this kmscon exceed its start timeout?
    bad             \* history: kmscon runs of this boot that went wrong

bootVars == <<options, display>>
unitVars == <<role, session>>
kmsconVars == <<way, kmscon, krc, child>>
history == <<shown, late, bad>>
sessionVars == <<options, display, files, role, session, pc, way, kmscon, krc,
                 child, shown, late, bad>>

Init ==
    /\ options \in SUBSET {"kmscon", "libseat"}
    /\ display \in {"connected", "none"}
    /\ files = {}
    /\ role = "wizard" /\ session = "none" /\ pc = "idle"
    /\ way = "plain" /\ kmscon = "none" /\ krc = 0 /\ child = "none"
    /\ shown = 0 /\ late = "no" /\ bad = 0

-----------------------------------------------------------------------------
\* The script.

\* direct: the script becomes the wizard, or agetty with the root shell.
Direct == pc' = "direct" /\ shown' = shown + 1

\* run_kmscon up to its polling loop: no stamp, and a fresh kmscon.
StartKmscon(w) ==
    /\ pc' = "poll"
    /\ way' = w
    /\ kmscon' = "alive" /\ krc' = 0 /\ child' = "none"
    /\ late' = "no"

\* Mutant of Activate: "failed" of an earlier activation is not looked at.
ActivateForgets(r, s) ==
    /\ pc = "idle"
    /\ role' = r
    /\ session' = s
    /\ late' = "no"
    /\ \/ "kmscon" \notin options /\ pc' = "direct" /\ shown' = 1
       \/ "kmscon" \in options /\ pc' = "wait" /\ shown' = 0
    /\ kmscon' = "none" /\ child' = "none"
    /\ UNCHANGED <<bootVars, files, way, krc, bad>>

\* systemd activates a unit; the script runs up to wait_for_display.  "kmscon"
\* is not among the options with installer.console=getty, without
\* /usr/bin/kmscon, or when the kernel console is not a virtual terminal.
Activate(r, s) ==
    /\ pc = "idle"
    /\ role' = r
    /\ session' = s
    /\ late' = "no"
    /\ \/ /\ "kmscon" \notin options \/ "FAILED" \in files
          /\ pc' = "direct"
          /\ shown' = 1
       \/ /\ "kmscon" \in options
          /\ "FAILED" \notin files
          /\ pc' = "wait"
          /\ shown' = 0
    /\ kmscon' = "none" /\ child' = "none"
    /\ UNCHANGED <<bootVars, files, way, krc, bad>>

\* wait_for_display gives up: no connected output at its last look.
NoDisplay ==
    /\ pc = "wait"
    /\ display = "none"
    /\ Direct
    /\ UNCHANGED <<bootVars, files, unitVars, kmsconVars, late, bad>>

\* wait_for_display succeeds, and kmscon is started: with libseat when there is
\* a seat session and libseat has not failed in this boot, else without.
DisplayReady ==
    /\ pc = "wait"
    /\ display = "connected"
    /\ \/ /\ session = "seat"
          /\ "libseat" \in options
          /\ "LIBSEAT_FAILED" \notin files
          /\ StartKmscon("libseat")
       \/ /\ \/ session # "seat"
             \/ "libseat" \notin options
             \/ "LIBSEAT_FAILED" \in files
          /\ StartKmscon("plain")
    /\ files' = files \ {"STAMP"}
    /\ UNCHANGED <<bootVars, unitVars, shown, bad>>

\* The polling loop ends: the child has left its stamp, or kmscon is gone.
PollEnds ==
    /\ pc = "poll"
    /\ "STAMP" \in files \/ kmscon = "dead"
    /\ pc' = "reap"
    /\ UNCHANGED <<bootVars, files, unitVars, kmsconVars, history>>

\* Neither within the start timeout: kill (SIGTERM).
PollTimeout ==
    /\ pc = "poll"
    /\ "STAMP" \notin files
    /\ kmscon = "alive"
    /\ kmscon' = "asked"
    /\ late' = "yes"
    /\ pc' = "grace"
    /\ UNCHANGED <<bootVars, files, unitVars, way, krc, child, shown, bad>>

\* What a program on kmscon's terminal goes through when kmscon dies.
Hangup(c) == CASE c = "forked" -> "gone" [] c = "running" -> "hungup"
               [] OTHER -> c

\* kmscon stopped within the grace period (the kill -9 then hits nothing) ...
GraceStopped ==
    /\ pc = "grace"
    /\ kmscon = "dead"
    /\ pc' = "reap"
    /\ UNCHANGED <<bootVars, files, unitVars, kmsconVars, history>>

\* Mutant of GraceKill: the script waits without a kill -9.
GraceNoKill ==
    /\ pc = "grace"
    /\ kmscon = "asked"
    /\ pc' = "reap"
    /\ UNCHANGED <<bootVars, files, unitVars, kmsconVars, history>>

\* ... or it did not: kill -9.
GraceKill ==
    /\ pc = "grace"
    /\ kmscon = "asked"
    /\ kmscon' = "dead" /\ krc' = 1 /\ child' = Hangup(child)
    /\ pc' = "reap"
    /\ UNCHANGED <<bootVars, files, unitVars, way, history>>

\* wait "$kpid"; this is where a session that got going is waited for.
Reap ==
    /\ pc = "reap"
    /\ kmscon = "dead"
    /\ pc' = "judge"
    /\ UNCHANGED <<bootVars, files, unitVars, kmsconVars, history>>

\* Mutant of Started: the exit status is taken for the stamp.
StartedByStatus == krc = 0

\* [ -e "$STAMP" ] && STARTED=1
Started == "STAMP" \in files

\* finish: the session got going and ended.
Finish ==
    /\ pc = "judge"
    /\ Started
    /\ \/ /\ krc = 0
          /\ pc' = "exited"
          /\ UNCHANGED <<files, shown, bad>>
       \/ /\ krc # 0
          /\ files' = files \cup {"FAILED"}
          /\ bad' = bad + 1
          /\ IF role = "shell" THEN Direct
                               ELSE pc' = "exited" /\ UNCHANGED shown
    /\ UNCHANGED <<bootVars, unitVars, kmsconVars, late>>

\* Mutant of NextWay: a failure of libseat is not recorded.
NextWayForgets ==
    /\ pc = "judge"
    /\ ~Started
    /\ bad' = bad + 1
    /\ \/ /\ way = "libseat"
          /\ files' = files \ {"STAMP"}
          /\ StartKmscon("plain")
          /\ UNCHANGED shown
       \/ /\ way = "plain"
          /\ Direct
          /\ UNCHANGED <<files, kmsconVars, late>>
    /\ UNCHANGED <<bootVars, unitVars>>

\* The session never got going: the next way down the list.
NextWay ==
    /\ pc = "judge"
    /\ ~Started
    /\ bad' = bad + 1
    /\ \/ /\ way = "libseat"
          /\ files' = (files \ {"STAMP"}) \cup {"LIBSEAT_FAILED"}
          /\ StartKmscon("plain")
          /\ UNCHANGED shown
       \/ /\ way = "plain"
          /\ files' = files \cup {"FAILED"}
          /\ Direct
          /\ UNCHANGED <<kmsconVars, late>>
    /\ UNCHANGED <<bootVars, unitVars>>

\* The program the script has become ends.
DirectEnds ==
    /\ pc = "direct"
    /\ pc' = "exited"
    /\ UNCHANGED <<bootVars, files, unitVars, kmsconVars, history>>

\* The unit is over; its next activation may follow.
Over ==
    /\ pc = "exited"
    /\ pc' = "idle"
    /\ UNCHANGED <<bootVars, files, unitVars, kmsconVars, history>>

Script ==
    \/ NoDisplay \/ DisplayReady
    \/ PollEnds \/ PollTimeout \/ GraceStopped \/ GraceKill
    \/ Reap \/ Finish \/ NextWay

-----------------------------------------------------------------------------
\* kmscon and what it runs (external, but for --child).

KmsconUp == kmscon \in {"alive", "asked"}

\* kmscon has a display and starts its child.
KmsconForks ==
    /\ KmsconUp
    /\ child = "none"
    /\ child' = "forked"
    /\ UNCHANGED <<bootVars, files, unitVars, pc, way, kmscon, krc, history>>

\* Mutant of ChildStarts: the stamp is left under another name.
ChildStartsElsewhere ==
    /\ child = "forked"
    /\ child' = "running"
    /\ files' = files \cup {"STAMP_CHILD"}
    /\ shown' = shown + 1
    /\ UNCHANGED <<bootVars, unitVars, pc, way, kmscon, krc, late, bad>>

\* --child: leave the stamp and become the wizard or login.
ChildStarts ==
    /\ child = "forked"
    /\ child' = "running"
    /\ files' = files \cup {"STAMP"}
    /\ shown' = shown + 1
    /\ UNCHANGED <<bootVars, unitVars, pc, way, kmscon, krc, late, bad>>

\* The program ends: cancelled, finished, exit typed in the shell.
ChildEnds ==
    /\ child \in {"running", "hungup"}
    /\ child' = "gone"
    /\ UNCHANGED <<bootVars, files, unitVars, pc, way, kmscon, krc, history>>

KmsconEnds(rc) ==
    /\ kmscon' = "dead" /\ krc' = rc /\ child' = Hangup(child)
    /\ UNCHANGED <<bootVars, files, unitVars, pc, way, history>>

\* --oneshot: kmscon exits when its child has.
KmsconOneshot == KmsconUp /\ child = "gone" /\ KmsconEnds(0)

\* kmscon finds no usable display and exits, whatever its status.
KmsconGivesUp ==
    \E rc \in {0, 1} : KmsconUp /\ child = "none" /\ KmsconEnds(rc)

\* kmscon obeys SIGTERM: its event loop ends and it exits with status 0.
KmsconObeys == kmscon = "asked" /\ KmsconEnds(0)

\* kmscon crashes (GPU reset, bug).
KmsconCrashes == KmsconUp /\ KmsconEnds(1)

\* The display driver loads, a cable is plugged in or out.
DisplayChanges ==
    /\ display' \in {"connected", "none"} \ {display}
    /\ UNCHANGED <<options, files, unitVars, pc, kmsconVars, history>>

\* systemd stops the unit, or the VT is hung up: every process of it dies.
Stop ==
    /\ pc \notin {"idle", "exited"}
    /\ pc' = "exited"
    /\ kmscon' = IF kmscon = "none" THEN "none" ELSE "dead"
    /\ child' = IF child = "none" THEN "none" ELSE "gone"
    /\ UNCHANGED <<bootVars, files, unitVars, way, krc, history>>

Kmscon ==
    \/ KmsconForks \/ ChildStarts
    \/ KmsconOneshot \/ KmsconGivesUp \/ KmsconObeys \/ KmsconCrashes

Next ==
    \/ \E r \in {"wizard", "shell"}, s \in {"seat", "none"} : Activate(r, s)
    \/ Script
    \/ DirectEnds \/ ChildEnds
    \/ Over
    \/ Kmscon
    \/ DisplayChanges
    \/ Stop

Spec == Init /\ [][Next]_sessionVars

\* The script itself always goes on, and its waits are bounded.  Nothing is
\* assumed of kmscon and its child: they may hang for ever.
FairSpec == Spec /\ WF_sessionVars(Script)

-----------------------------------------------------------------------------
TypeOK ==
    /\ options \subseteq {"kmscon", "libseat"}
    /\ display \in {"connected", "none"}
    /\ files \subseteq {"STAMP", "FAILED", "LIBSEAT_FAILED"}
    /\ role \in {"wizard", "shell"}
    /\ session \in {"seat", "none"}
    /\ pc \in {"idle", "wait", "poll", "grace", "reap", "judge", "direct", "exited"}
    /\ way \in {"libseat", "plain"}
    /\ kmscon \in {"none", "alive", "asked", "dead"}
    /\ krc \in {0, 1}
    /\ child \in {"none", "forked", "running", "hungup", "gone"}
    /\ shown \in Nat
    /\ late \in {"no", "yes"}
    /\ bad \in Nat

\* One activation never runs the wizard twice, neither in two kmscons nor in
\* kmscon and on the VT: a second wizard would ask the wipe questions while or
\* after the first one acted on them.
WizardOnce == role = "wizard" => shown <= 1

\* Once "failed" is recorded no kmscon is started any more in this boot.
NoKmsconAfterFailed ==
    [][kmscon' = "alive" /\ kmscon # "alive" => "FAILED" \notin files']_sessionVars

\* "no crash loop": a boot sees at most two kmscons that never get going or
\* that die, one with libseat and one without, however often the wizard and the
\* shell take turns.
NoCrashLoop == bad <= 2

\* Whatever kmscon does (it may hang, ignore SIGTERM, never start its child),
\* an activation gets its program on the screen or ends.
ProgramAppears ==
    pc \in {"wait", "poll", "grace"} ~>
        (child \in {"running", "hungup", "gone"} \/ pc \in {"direct", "exited"})

\* console-session.sh:36-38 says of a kmscon with "no child within the start
\* timeout": it "is stopped and the next way down the list is used at once".
NextWayAfterTimeout ==
    [][Finish /\ late = "yes" => pc' \in {"poll", "direct"}]_sessionVars
==============================================================================
