------------------------------- MODULE Launcher -------------------------------
(***************************************************************************)
(* openwrt-install-wizard.sh, the program the wizard's unit runs, with the *)
(* Python wizard (main.py, runner.py, logview.py), wizard.sh to fall back  *)
(* to, and setup.sh, which either of them starts.                          *)
(*                                                                         *)
(* The questions of the Python wizard are InstallFlow and those of         *)
(* wizard.sh DialogWizard; here they are one state each.  What matters is  *)
(* that a wizard which dies is replaced by the other one, and that this    *)
(* must not happen any more once setup.sh runs.  The launcher learns how   *)
(* far Python came from its exit status and the file marker only.          *)
(*                                                                         *)
(* A signal (terminal hung up, unit stopped, kill) reaches any of the      *)
(* processes, and each of them acts on it in its own time.  One behaviour  *)
(* is one boot, a sequence of activations.                                 *)
(***************************************************************************)
VARIABLES
    usable,     \* can the Python wizard be tried: "python" or "dialog"
    marker,     \* INSTALL_STARTED: "absent" or "present"
    pc,         \* the launcher, also after it became wizard.sh or setup.sh
    py,         \* how far the Python wizard is
    rc,         \* its exit status: 0, or 1 for every other one
    setup,      \* setup.sh: "none", "running", "ok", "failed" or "killed"
    view,       \* InstallProgress.rc: "open" (None), "ok" or "failed"
    signalled,  \* the processes a signal is on its way to
    marked      \* history: has this Python wizard touched the marker?

vars == <<usable, marker, pc, py, rc, setup, view, signalled, marked>>

Processes == {"launcher", "python", "setup"}

Init ==
    /\ usable \in {"python", "dialog"}
    /\ marker = "absent"
    /\ pc = "idle" /\ py = "none" /\ rc = 0
    /\ setup = "none" /\ view = "open"
    /\ signalled = {} /\ marked = "no"

-----------------------------------------------------------------------------
\* The launcher.

Activate ==
    /\ pc = "idle"
    /\ pc' = "begin"
    /\ py' = "none" /\ rc' = 0 /\ setup' = "none" /\ view' = "open"
    /\ signalled' = {} /\ marked' = "no"
    /\ UNCHANGED <<usable, marker>>

\* installer.ui=bash, no python3, no package, no prompt_toolkit: wizard.sh.
UseDialog ==
    /\ pc = "begin"
    /\ usable = "dialog"
    /\ pc' = "dialog"
    /\ UNCHANGED <<usable, marker, py, rc, setup, view, signalled, marked>>

\* Mutant of StartPython: the marker of an earlier run stays.
StartPythonKeepsMarker ==
    /\ pc = "begin"
    /\ usable = "python"
    /\ pc' = "python" /\ py' = "importing"
    /\ UNCHANGED <<usable, marker, rc, setup, view, signalled, marked>>

\* rm -f of the marker, then Python in the foreground.
StartPython ==
    /\ pc = "begin"
    /\ usable = "python"
    /\ marker' = "absent"
    /\ pc' = "python" /\ py' = "importing"
    /\ UNCHANGED <<usable, rc, setup, view, signalled, marked>>

Done ==
    /\ pc = "python" /\ py = "dead"
    /\ rc = 0
    /\ pc' = "exited"
    /\ UNCHANGED <<usable, marker, py, rc, setup, view, signalled, marked>>

\* Python failed after the installation started: a message, and the shell.
HandsOver ==
    /\ pc = "python" /\ py = "dead"
    /\ rc # 0
    /\ marker = "present"
    /\ pc' = "exited"
    /\ UNCHANGED <<usable, marker, py, rc, setup, view, signalled, marked>>

FallsBack ==
    /\ pc = "python" /\ py = "dead"
    /\ rc # 0
    /\ marker = "absent"
    /\ pc' = "dialog"
    /\ UNCHANGED <<usable, marker, py, rc, setup, view, signalled, marked>>

\* wizard.sh is cancelled or fails, or it becomes setup.sh.
DialogLeaves ==
    /\ pc = "dialog"
    /\ pc' = "exited"
    /\ UNCHANGED <<usable, marker, py, rc, setup, view, signalled, marked>>

DialogInstalls ==
    /\ pc = "dialog"
    /\ pc' = "setup"
    /\ setup' = "running"
    /\ UNCHANGED <<usable, marker, py, rc, view, signalled, marked>>

-----------------------------------------------------------------------------
\* The Python wizard.

\* ConsoleSession is entered and its signal handlers are installed.
PyReady ==
    /\ py = "importing"
    /\ py' = "asking"
    /\ UNCHANGED <<usable, marker, pc, rc, setup, view, signalled, marked>>

\* Mutant of PyCancelled: the interrupt is not caught, and Python exits with 130.
PyCancelledExits ==
    /\ py = "asking"
    /\ py' = "dead" /\ rc' = 130
    /\ UNCHANGED <<usable, marker, pc, setup, view, signalled, marked>>

PyCancelled ==
    /\ py = "asking"
    /\ py' = "dead" /\ rc' = 0
    /\ UNCHANGED <<usable, marker, pc, setup, view, signalled, marked>>

\* collect_plan() returns; run_install() validates and logs the selection.
PyPlans ==
    /\ py = "asking"
    /\ py' = "planned"
    /\ UNCHANGED <<usable, marker, pc, rc, setup, view, signalled, marked>>

\* Mutant of PyMarks: the marker is left out.
PyMarksNot ==
    /\ py = "planned"
    /\ py' = "marked" /\ marked' = "yes"
    /\ UNCHANGED <<usable, marker, pc, rc, setup, view, signalled>>

PyMarks ==
    /\ py = "planned"
    /\ marker' = "present"
    /\ py' = "marked" /\ marked' = "yes"
    /\ UNCHANGED <<usable, pc, rc, setup, view, signalled>>

\* The log view starts setup.sh, or reports that it could not.
PySpawns ==
    /\ py = "marked"
    /\ py' = "log"
    /\ \/ setup' = "running" /\ UNCHANGED view
       \/ view' = "failed" /\ UNCHANGED setup
    /\ UNCHANGED <<usable, marker, pc, rc, signalled, marked>>

\* Mutant of ViewEnds: the end of the output is taken for success.
ViewEndsAtEof ==
    /\ py = "log"
    /\ view = "open"
    /\ setup \in {"ok", "failed", "killed"}
    /\ view' = "ok"
    /\ UNCHANGED <<usable, marker, pc, py, rc, setup, signalled, marked>>

\* The output of setup.sh ends and its status is there.
ViewEnds ==
    /\ py = "log"
    /\ view = "open"
    /\ setup \in {"ok", "failed", "killed"}
    /\ view' = IF setup = "ok" THEN "ok" ELSE "failed"
    /\ UNCHANGED <<usable, marker, pc, py, rc, setup, signalled, marked>>

\* Continue, which is there only then.  ESC and Ctrl-C do nothing in the log.
Continue ==
    /\ py = "log"
    /\ view # "open"
    /\ py' = "report"
    /\ UNCHANGED <<usable, marker, pc, rc, setup, view, signalled, marked>>

\* The message that it failed is closed, or the question reboot or shell.
ReportClosed ==
    /\ py = "report"
    /\ py' = "dead" /\ rc' = 0
    /\ UNCHANGED <<usable, marker, pc, setup, view, signalled, marked>>

\* Python ends in the log view: its event loop may kill setup.sh or leave it.
Abandoned == {setup} \cup (IF py = "log" /\ setup = "running" THEN {"killed"} ELSE {})

Alive == py \in {"importing", "asking", "planned", "marked", "log", "report"}

\* An exception nobody handles, at any moment.
PyCrashes ==
    /\ Alive
    /\ py' = "dead" /\ rc' = 1
    /\ setup' \in Abandoned
    /\ UNCHANGED <<usable, marker, pc, view, signalled, marked>>

\* SIGTERM or SIGHUP: SystemExit(0), once the handlers are there.
PySignalled ==
    /\ "python" \in signalled
    /\ Alive
    /\ py' = "dead"
    /\ rc' = IF py = "importing" THEN 1 ELSE 0
    /\ setup' \in Abandoned
    /\ UNCHANGED <<usable, marker, pc, view, signalled, marked>>

-----------------------------------------------------------------------------
\* setup.sh (SetupRun), the kernel and systemd.

\* The end of setup.sh, which is the end of the launcher that became it.
SetupStops(how) ==
    /\ setup = "running"
    /\ setup' = how
    /\ pc' = IF pc = "setup" THEN "exited" ELSE pc
    /\ UNCHANGED <<usable, marker, py, rc, view, signalled, marked>>

SetupEnds == \E how \in {"ok", "failed"} : SetupStops(how)

SetupSignalled == "setup" \in signalled /\ SetupStops("killed")

LauncherSignalled ==
    /\ "launcher" \in signalled
    /\ pc \in {"begin", "python", "dialog"}
    /\ pc' = "exited"
    /\ UNCHANGED <<usable, marker, py, rc, setup, view, signalled, marked>>

Signal ==
    /\ pc \notin {"idle", "exited"}
    /\ signalled' \in SUBSET Processes
    /\ signalled \subseteq signalled' /\ signalled # signalled'
    /\ UNCHANGED <<usable, marker, pc, py, rc, setup, view, marked>>

\* The unit is over: systemd kills what is left of it.
Over ==
    /\ pc = "exited"
    /\ pc' = "idle"
    /\ py' = IF py = "none" THEN "none" ELSE "dead"
    /\ setup' = IF setup = "running" THEN "killed" ELSE setup
    /\ UNCHANGED <<usable, marker, rc, view, signalled, marked>>

Next ==
    \/ Activate \/ UseDialog \/ StartPython
    \/ Done \/ HandsOver \/ FallsBack
    \/ DialogLeaves \/ DialogInstalls
    \/ PyReady \/ PyCancelled \/ PyPlans \/ PyMarks \/ PySpawns
    \/ ViewEnds \/ Continue \/ ReportClosed
    \/ PyCrashes \/ PySignalled
    \/ SetupEnds \/ SetupSignalled \/ LauncherSignalled
    \/ Signal \/ Over

Spec == Init /\ [][Next]_vars

-----------------------------------------------------------------------------
TypeOK ==
    /\ usable \in {"python", "dialog"}
    /\ marker \in {"absent", "present"}
    /\ pc \in {"idle", "begin", "python", "dialog", "setup", "exited"}
    /\ py \in {"none", "importing", "asking", "planned", "marked", "log", "report",
               "dead"}
    /\ rc \in {0, 1}
    /\ setup \in {"none", "running", "ok", "failed", "killed"}
    /\ view \in {"open", "ok", "failed"}
    /\ signalled \in SUBSET Processes
    /\ marked \in {"no", "yes"}

\* The wipe questions of wizard.sh are never asked after setup.sh was started
\* in the same activation, wherever the Python wizard crashed or was killed.
NoSecondQuestions == pc = "dialog" => setup = "none"

\* "A stale marker from an earlier loop iteration must not suppress the
\* fallback": the launcher gives up only when this Python wizard has come to
\* the installation, however earlier activations ended.
StaleMarkerIgnored == [][HandsOver => marked = "yes"]_vars

\* What the operator is told at the end is what setup.sh did, even when it was
\* killed behind the wizard's back or never started.
ReportTruthful == py = "report" => (view = "ok" <=> setup = "ok")
==============================================================================
