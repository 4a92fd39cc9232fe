---------------------------- MODULE Launcher_proofs ----------------------------
(***************************************************************************)
(* The safety of the launcher, for any number of activations.              *)
(*                                                                         *)
(* The launcher decides after Python is dead, from a file.  That the file  *)
(* says what it is meant to say (MarkerSays), and that nothing but a       *)
(* marked Python or wizard.sh has started setup.sh (OnlyMarkedInstalls),   *)
(* is what makes the decision right.                                       *)
(***************************************************************************)
EXTENDS Launcher, TLAPS

Early == {"importing", "asking", "planned", "marked"}

\* The outcome of setup.sh is final and the view shows it.
Settled == setup # "running" /\ (view = "ok" <=> setup = "ok")

MarkerSays == pc = "python" => (marker = "present" <=> marked = "yes")

OnlyMarkedInstalls ==
    /\ pc = "python" /\ setup # "none" => marked = "yes"
    /\ py \in {"marked", "log", "report"} => marked = "yes"
    /\ pc = "dialog" => setup = "none"

Placed ==
    /\ Alive => pc \in {"python", "exited"}
    /\ pc = "begin" => marked = "no" /\ setup = "none" /\ view = "open"

Shown ==
    /\ py \in Early => setup = "none" /\ view = "open"
    /\ py = "log" => view = "open" \/ Settled
    /\ py = "report" => Settled

IInv == TypeOK /\ MarkerSays /\ OnlyMarkedInstalls /\ Placed /\ Shown

-----------------------------------------------------------------------------
LEMMA InitInvariant == Init => IInv
BY DEF Init, IInv, TypeOK, MarkerSays, OnlyMarkedInstalls, Placed, Shown,
       Settled, Early, Alive, Processes

\* The invariant is kept by every step of the launcher itself.
LEMMA LauncherKeeps ==
    IInv /\ (\/ Activate \/ UseDialog \/ StartPython \/ Done \/ HandsOver
             \/ FallsBack \/ DialogLeaves \/ DialogInstalls)
        => IInv'
<1> SUFFICES ASSUME IInv,
                    \/ Activate \/ UseDialog \/ StartPython \/ Done \/ HandsOver
                    \/ FallsBack \/ DialogLeaves \/ DialogInstalls
             PROVE  IInv'
    OBVIOUS
<1> USE DEF IInv, TypeOK, MarkerSays, OnlyMarkedInstalls, Placed, Shown,
            Settled, Early, Alive
<1>1. CASE Activate
    BY <1>1 DEF Activate
<1>2. CASE UseDialog
    BY <1>2 DEF UseDialog
<1>3. CASE StartPython
    BY <1>3 DEF StartPython
<1>4. CASE Done
    BY <1>4 DEF Done
<1>5. CASE HandsOver
    BY <1>5 DEF HandsOver
<1>6. CASE FallsBack
    \* Without a marker Python was not marked, so nothing was started.
    BY <1>6 DEF FallsBack
<1>7. CASE DialogLeaves
    BY <1>7 DEF DialogLeaves
<1>8. CASE DialogInstalls
    BY <1>8 DEF DialogInstalls
<1> QED
    BY <1>1, <1>2, <1>3, <1>4, <1>5, <1>6, <1>7, <1>8

\* The invariant is kept by every step of the Python wizard, its death included.
LEMMA PythonKeeps ==
    IInv /\ (\/ PyReady \/ PyCancelled \/ PyPlans \/ PyMarks \/ PySpawns
             \/ ViewEnds \/ Continue \/ ReportClosed \/ PyCrashes \/ PySignalled)
        => IInv'
<1> SUFFICES ASSUME IInv,
                    \/ PyReady \/ PyCancelled \/ PyPlans \/ PyMarks \/ PySpawns
                    \/ ViewEnds \/ Continue \/ ReportClosed \/ PyCrashes \/ PySignalled
             PROVE  IInv'
    OBVIOUS
<1> USE DEF IInv, TypeOK, MarkerSays, OnlyMarkedInstalls, Placed, Shown,
            Settled, Early, Alive
<1>1. CASE PyReady
    BY <1>1 DEF PyReady
<1>2. CASE PyCancelled
    BY <1>2 DEF PyCancelled
<1>3. CASE PyPlans
    BY <1>3 DEF PyPlans
<1>4. CASE PyMarks
    BY <1>4 DEF PyMarks
<1>5. CASE PySpawns
    BY <1>5 DEF PySpawns
<1>6. CASE ViewEnds
    BY <1>6 DEF ViewEnds
<1>7. CASE Continue
    BY <1>7 DEF Continue
<1>8. CASE ReportClosed
    BY <1>8 DEF ReportClosed
<1>9. CASE PyCrashes
    BY <1>9 DEF PyCrashes, Abandoned
<1>10. CASE PySignalled
    BY <1>10 DEF PySignalled, Abandoned
<1> QED
    BY <1>1, <1>2, <1>3, <1>4, <1>5, <1>6, <1>7, <1>8, <1>9, <1>10

\* The invariant is kept by setup.sh, the kernel and systemd.
LEMMA RestKeeps ==
    IInv /\ (SetupEnds \/ SetupSignalled \/ LauncherSignalled \/ Signal \/ Over)
        => IInv'
<1> SUFFICES ASSUME IInv,
                    SetupEnds \/ SetupSignalled \/ LauncherSignalled \/ Signal \/ Over
             PROVE  IInv'
    OBVIOUS
<1> USE DEF IInv, TypeOK, MarkerSays, OnlyMarkedInstalls, Placed, Shown,
            Settled, Early, Alive
<1>1. ASSUME NEW how \in {"ok", "failed", "killed"}, SetupStops(how)
      PROVE  IInv'
    BY <1>1 DEF SetupStops
<1>2. CASE SetupEnds
    BY <1>1, <1>2 DEF SetupEnds
<1>3. CASE SetupSignalled
    BY <1>1, <1>3 DEF SetupSignalled
<1>4. CASE LauncherSignalled
    BY <1>4 DEF LauncherSignalled
<1>5. CASE Signal
    BY <1>5 DEF Signal
<1>6. CASE Over
    BY <1>6 DEF Over
<1> QED
    BY <1>2, <1>3, <1>4, <1>5, <1>6

LEMMA StepInvariant == IInv /\ [Next]_vars => IInv'
<1> SUFFICES ASSUME IInv, [Next]_vars PROVE IInv'
    OBVIOUS
<1>1. CASE Next
    BY <1>1, LauncherKeeps, PythonKeeps, RestKeeps DEF Next
<1>2. CASE UNCHANGED vars
    BY <1>2 DEF vars, IInv, TypeOK, MarkerSays, OnlyMarkedInstalls, Placed,
                Shown, Settled, Early, Alive
<1> QED
    BY <1>1, <1>2

\* The inductive invariant holds, for any number of activations: the marker
\* says whether this Python wizard came to the installation, and setup.sh was
\* started by nothing else before the launcher has decided.
THEOREM LauncherInductive == Spec => []IInv
BY InitInvariant, StepInvariant, PTL DEF Spec

-----------------------------------------------------------------------------
\* The types of the launcher and of what it starts.
THEOREM LauncherTypeCorrect == Spec => []TypeOK
<1>1. IInv => TypeOK
    BY DEF IInv
<1> QED
    BY <1>1, LauncherInductive, PTL

\* wizard.sh never asks its wipe questions after setup.sh was started.
THEOREM QuestionsOnce == Spec => []NoSecondQuestions
<1>1. IInv => NoSecondQuestions
    BY DEF IInv, OnlyMarkedInstalls, NoSecondQuestions
<1> QED
    BY <1>1, LauncherInductive, PTL

\* The operator is told what setup.sh did.
THEOREM ReportIsTruthful == Spec => []ReportTruthful
<1>1. IInv => ReportTruthful
    BY DEF IInv, Shown, Settled, ReportTruthful
<1> QED
    BY <1>1, LauncherInductive, PTL

\* The launcher gives up only after a Python wizard of this activation that
\* came to the installation.
THEOREM MarkerIsFresh == Spec => StaleMarkerIgnored
<1>1. IInv /\ [Next]_vars => [HandsOver => marked = "yes"]_vars
    BY DEF IInv, MarkerSays, HandsOver
<1> QED
    BY <1>1, LauncherInductive, PTL DEF Spec, StaleMarkerIgnored
==============================================================================
