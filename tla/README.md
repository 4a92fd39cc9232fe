# A TLA+ model of the OpenWRT RAID installer and its build environment

This directory models the two halves of the repository. The first is the part
of the installer medium that decides which disks are erased and what is on the
console: its two wizards, the script that shows them, the loop of wizard and
root shell, the search for the medium itself, and `setup.sh`. The second is
the build environment which makes that medium: the downloads, the start of the
container, and the patches of the Buildroot tree. Paths below are relative to
`src/resources/buildrootConf/` unless they start with `src/`.

## 1. Inventory

| Component | Source | State it keeps | Operations |
|---|---|---|---|
| Question sequence | `iTUI/openwrt_install_wizard/{plan,flow,dialogs}.py` | index of the step, answers, the dialog shown | five steps, Back, Cancel, final validation |
| `console-session.sh` | `rootfs-overlay/usr/lib/installer/` | `/run` files STAMP, FAILED, LIBSEAT_FAILED; the kmscon process and its child | activation, wait for a display, libseat, plain kmscon, getty, `--child` |
| Wizard/shell loop | `installer-wizard.service`, `console-getty.service.d/installer.conf`, `shell-exit.sh`, `set-kmscon-font` in `etc/shared-shell.sh` | units, systemd's job queue, the stamp of the start time, RELOAD_STAMP | start, stop through Conflicts=, OnSuccess=/OnFailure=, ExecStopPost= |
| `wizard.sh` | `iTUI/wizard.sh` | shell variables | dialogs, once each |
| `setup.sh` | `automation/setup.sh` | partition tables, arrays, mounts, log | guard, wipe, partition, arrays, unpack, configure |
| Launcher, installation run | `iTUI/openwrt-install-wizard.sh`, `main.py`, `runner.py`, `logview.py`, `console.py` | marker `install-started`, the child process | Python wizard or `wizard.sh`, fallback, live log, signals |
| Boot media identity | `media.sh`, `storage.py` | `/run/installer-media-id`; the search in progress | by file, mounts, UUID, probe; save, load, list of targets |
| Logs on the media | `installer-bootlog.sh`, `bootlog-wrapper.sh`, `media.sh` | a stamp per log under `/run`, mount state of the media | snapshot, flush, unmount |
| `dependencyDownloader.py` | `src/repoScripts/`, `src/.github/workflows/` | a local copy, its `.part` file, the commit | fetch, compare, fetch again, replace, commit |
| Build container | `src/entrypoint.sh`, `src/resources/{getBuildroot,extractImageBuilder,buildOpenWRTimages}.sh` | two volumes that outlive the container, a marker | a start sequence of guarded steps; calls by hand |
| `customizeBuildroot` | `src/resources/customizeBuildroot/` | the unpacked Buildroot tree | three sequences of idempotent patches |
| Media build | `src/resources/{compileBuildroot,buildInstallerUSB}.sh` | none between steps | straight lines of tool calls |
| Presentation, recipes | `theme.py`, `widgets.py`, `custom_package/`, ... | none | none that change state |

How they interact. systemd starts `installer-wizard.service`;
`console-session.sh` runs the launcher (in kmscon or on the VT); the launcher
runs the Python wizard or `wizard.sh`; either ends in `setup.sh`. When the
unit ends, systemd starts the root shell with the same script, and when that
ends `shell-exit.sh` decides what comes next. The programs share nothing but
files under `/run`, exit statuses, and the disks. `installer-bootlog.sh`, the
wizards and `setup.sh` each look for the boot media with the same two pieces of
code and tell each other through `/run/installer-media-id`.

In the build environment a workflow fetches files into the repository, an image
is built from it, and a container of that image unpacks the ImageBuilder,
fetches Buildroot and patches it, on volumes that are there from earlier
containers.

What is hard in it:

* answers that outlive the question they depend on (Back in the question
  sequence), and two sources of truth for the boot media;
* three processes of the console that know each other only through a file,
  `kill -0` and `wait`, with deadlines that race with late answers;
* two units that start and stop each other, with decisions taken from the
  state of systemd's queue at one moment;
* an installation that fails at any command and is started again over what it
  left;
* a file in `/run` written in place by programs that may be interrupted, and
  read as the truth about which disk to spare by those that follow;
* guards that take a result for complete because a part of it is there: a
  marker, a Makefile, a line of a patch.

What makes each component correct is listed with its module below;
`PROJECT.json` lists the hazards line by line, and for each the properties
that would show it going wrong or the reason why none does yet.

## 2. Modules

```
InstallPlan <- InstallContract           (what is promised)
     ^  ^             ^
     |  +---- InstallFlow <- InstallFlow_proofs, MCInstallFlow
     +------- DialogWizard <- DialogWizard_proofs, MCDialogWizard
ConsoleSession <- MCConsoleSession
     ^
ConsoleLoop <- ConsoleLoop_proofs, MCConsoleLoop   (proofs of both)
Launcher <- Launcher_proofs, MCLauncher
SetupRun <- SetupRun_proofs, MCSetupRun
BootIdentity                             (what is promised)
     ^
MediaIdentity <- MediaIdentity_proofs, MCMediaIdentity
PatchText <- BuildrootPatches <- BuildrootPatches_proofs
                  ^                       ^
              BuildTree                   |
                  ^                       |
Downloader <- BuildEnv <- BuildEnv_proofs-+, MCBuildEnv
```

**InstallPlan** is `plan.py`: the limits, the RAID levels offered for a number
of disks, the room for ROOT, and `validate()`. Disks are elements of a set and
sizes are whole GiB, as in the code; the order of a selection never matters,
so it is a set.

**InstallContract** is the abstract specification of the question sequence: it
ends in a cancellation or in one plan that `setup.sh` can carry out (at least
two and at most four of the offered disks, not the boot media, vouched for if
the media is unknown, with room for BOOT and ROOT on every disk, and accepted
by `validate()`), and in nothing else.

**InstallFlow** is `collect_plan()` with its steps and dialogs. One action is
one answer and everything the code does up to the next dialog. `index` is the
code's variable, `dialog` says where inside a step the code waits, `chosen` is
the local of `step_disks`. `fresh` and `vouched` are history. The list of
targets may contain the boot media (`Init`), because `step_disks` is written
not to trust the list.

**DialogWizard** is `wizard.sh`. Its point is the command substitution around
`dlg_capture`: `exit 0` ends the subshell only, so `Cancel` is an action that
goes on with an answer nobody gave ("garbage": the escape sequence which
`clear` writes). Sizes and the default of the bitmap button are left out.

**ConsoleSession** is `console-session.sh`. `pc` is where the script is:
`wait` (for a display), `poll` (for the stamp), `grace` (after SIGTERM),
`reap` (`wait $kpid`), `judge` (which STARTED and status), `direct` (it has
become the program), `exited`. kmscon and its child run beside it and may do
anything a process may: hang, crash, exit with any status, ignore SIGTERM,
start the child late. A deadline may pass at any moment. kmscon is external;
what it does is taken from how the script uses it (`--oneshot`, the comments
at 34-42 and the fake kmscon of `src/resources/test_console_session.py`).

**ConsoleLoop** adds the two units, systemd's start jobs, `shell-exit.sh` and
the operator at the shell. It extends ConsoleSession and uses its actions; the
property `SessionSpec` (a theorem too) says that it drives the session only in
ways ConsoleSession allows, so all that is proved there holds in the loop. A
start job replaces a conflicting one, a stop of the shell runs to the end of
its ExecStopPost before the wizard starts, and a unit whose condition fails is
skipped without a result. The wizard may be asked for at any moment, for the
image runs sshd: at the prompt, while the shell stops, while `shell-exit.sh`
decides, and within the second of `start_getty`.

**Launcher** is `openwrt-install-wizard.sh` with what it runs: Python
(`main.py`, `runner.py`, `logview.py`, the signal handlers of `console.py`),
`wizard.sh`, and `setup.sh`, which Python starts as a child and `wizard.sh`
becomes. `pc` is the launcher, also after an `exec`; `py` is how far Python is.
InstallFlow, DialogWizard and SetupRun are one state each here. Python may
crash at any moment; a signal reaches any of the processes, and each acts on
it in its own time. Python that ends in the log view may kill `setup.sh`
(asyncio does when it closes the transport) or leave it behind; `Over` is
systemd, which kills what is left of the unit. The history variable `marked`
says whether this Python has touched the marker, which is what the file is
meant to tell the launcher.

**SetupRun** is `setup.sh` over several attempts and reboots. Because of
`set -e` and the ERR trap every command may end the attempt (`Fails`); what
was mounted or assembled stays. `table[d]` tells what the attempts have done to
a disk, `members[a]` which disks an array was made of. After a reset any array
may be running whose superblock may still be on one of them, also one that was
stopped before.

**BootIdentity** is the abstract specification of the search: the volume is
identified once, its name never changes, and `setup.sh` does not erase the
disk that bears it.

**MediaIdentity** is both searches. `sh` is the step of `media.sh`
(`installer_discover`: load, mounted volumes, UUID with its waiting, probe,
then the three moments of writing the file), `at` that of `storage.py`
(`find_media`), which runs `media.sh` for its last attempt. `stage` says which
program searches: bootlog, a wizard of either kind, or the guard of
`setup.sh`. The identity file is a sequence of lines, so it can be absent,
empty, or end after the first line. A `world` is a machine: which disks hold
installer files or the UUID, are mounted, removable, late. At every moment a
late disk may appear and a program be interrupted; a write may fail unnoticed,
`lsblk` may fail, a probe may time out with `media.sh` in the middle of its
work. One program runs at a time, as the units order them.

**Downloader** is `dependencyDownloader.py` and the workflow around it.
Contents of a file are versions, "half written" and "cut off unnoticed" (a
body without Content-Length that ends early). `mode` is the way the code
chooses: in memory, streamed, or without a length; on the streaming ways the
file is fetched twice and the server may have another version by then. The
steps of a job are those of the workflow, or a single call by hand.

**PatchText** is `util.py`: the helpers on texts, which are sequences of lines.
A line the code searches for, or several that stay together, is one string;
everything between the anchors is left out. `SystemExit` is the text of an
error, and `Torn` what an interrupted write leaves.

**BuildrootPatches** is `patches/`: each function there is an operator from the
text of a file to its new text, with the same anchors, markers and errors.

**BuildTree** is the tree on the volume. `getBuildroot.sh` turns its options
into a list of steps (`todo`): purge, get, a preflight check, then the edits of
`--customize`, `--update-kernel-support` or `--update-rust-version` in the
order of the code. Each step is an action; a call may be killed between two
steps and in the middle of a purge, an unpacking or a write. `base` is history:
the release that was unpacked to the end into an empty tree which no interrupted
write has torn since. `Undamaged` says what may have happened to such a tree:
every file of the release is there, and each patch makes of it what it makes of
the fresh one; the Makefile `Extends` the fresh one by include lines, in any of
the orders the three kinds of calls can bring.

**BuildEnv** composes the last two with the start of a container:
`extractImageBuilder.sh` line by line, then `getBuildroot.sh`, although the
line before may have failed. `Deploy` is the image: it takes the archive as it
is in the working tree at any moment of the downloader, and is started on a
host with volumes of its own. From then on the model follows that host and
sets the downloader's variables back, since nothing there reads them.

## 3. Runs

| Run | Bounds | States | Result |
|---|---|---|---|
| `install_flow` | 5 disks of sizes 2, 3, 6, 152, 200; none, three or five offered; media unknown, a disk, or a name that is no disk | 161,140 | pass |
| `console_session` | one boot, any number of activations | 3,592 | pass |
| `late_start` | the same | - | violation |
| `console_loop` | one boot of either entry, any number of rounds | 142,180 | pass |
| `maintenance_returns` | the same | - | violation |
| `launcher` | one boot, any number of activations | 735 | pass |
| `dialog_wizard` | 5 disks; none, one, three or five offered | 5,269 | pass |
| `cancel_leaves` | the same | - | violation |
| `media_identity` | the boot stick, a second stick, a disk, one that is no target; nine machines; two polls; three wizards | 15,028 | pass |
| `build_env` | two files of two versions, two jobs; a normal and an odd release; empty and old volume; three calls, one of them killed | 335,815 | pass |
| `setup_run` | boot disk and 3 targets, 2 attempts between reboots | 3,334,983 | pass |
| `stale_arrays` | the same | - | violation |

Why the bounds are enough. `install_flow`: five disks are one more than a plan
may have, so too few, each allowed number and too many occur; the sizes give a
disk without room, one with exactly 1 GB, and pairs whose smallest disk
differs; the sizes typed are no number, 0, 1, the largest that fits a small
disk, one more, and one only large disks hold. `console_session` and
`console_loop` have no bound, nor has `launcher`: their state is finite (`bad` and `shown` are
bounded by what is proved about them). `setup_run`: `MaxAttempts` = 2 is the
smallest bound with a retry; three targets let two attempts use the same,
overlapping and different disks. The targets are symmetric and only safety is
checked there, so SYMMETRY is sound. `media_identity`: the machines vary one
thing each (see MCMediaIdentity), so that every branch of both searches is
taken, each with the stick there from the start or late; with two polls a disk
may appear before, between and after them; three wizards let an identity be
torn, read, and read again. `build_env`: each of the three calls may be any of
the seven, so each kind of run follows each other one; a second interruption
meets only what a first one left, which the calls after it must already cope
with. In the odd release one anchor is not what a patch looks for; the old
volume holds the overrides of an earlier version of customizeBuildroot, which
`patch_systemd_mk` and `patch_linux_pam_mk` still know. A write is torn between
any two of the lines that the model keeps.

What each property means is said above its definition. In short:

* `NeverRaises`, `NothingStale`: however answers are taken back, those that
  are confirmed belong together, and the final `validate()` never raises (the
  launcher would answer an exception with the questions of `wizard.sh`).
* `BootMediaSpared`, `VouchedFor`, `RoomForRoot`: a plan never erases the boot
  media, erases only what was vouched for when that is unknown, and fits.
* `ContractSpec`: InstallFlow implements InstallContract.
* `WizardOnce`, `NoCrashLoop`, `NoKmsconAfterFailed`, `ProgramAppears`: one
  wizard per activation, two bad runs of kmscon per boot, none after "failed",
  and a program on the screen whatever kmscon does.
* `ConsoleReturns`, `ExitLeadsToWizard`, `RequestHonoured`,
  `MaintenanceSparesWizard`: the loop never leaves the console empty in a
  normal boot, `exit` and a request (but one in the second of `start_getty`)
  lead to the wizard, and a maintenance boot never does.
* `NoSecondQuestions`, `StaleMarkerIgnored`, `ReportTruthful`: whoever dies
  when, the wipe questions are not asked again after an installation began,
  the marker of an earlier activation suppresses nothing, and the report is
  what `setup.sh` did.
* `WipesTargetsOnly`, `RaidFitsDisks`: what `wizard.sh` hands to `setup.sh`.
* `BootDiskSurvives`, `FirstAttemptReleases`, `SuccessIsComplete`: the boot
  disk is only overwritten by an attempt that got it unguarded; disks are free
  before they are wiped in the first attempt; a success is complete.
* `BootDiskSpared`, `OfferedByTornFile`, `SearchEnds`, `KnownOnce`: with
  `installer.uuid` on the command line and no copy of the volume, the boot disk
  is never erased, although the wizards may not know it or offer it; a wizard
  that knows it offers it only by an unfinished file (the Python search takes
  the partition for the disk); every search ends; and the searches implement
  BootIdentity.
* `FetchedWhole`, `MarkerMeansWhole`: no half file is ever where another
  program reads it, and no half builder is ever taken for a whole one.
* `SuccessMeansPatched`: a call that succeeds on an undamaged tree leaves each
  file as one uninterrupted call on the fresh release would, each fix once in
  its patch directory, each link, and each include line once in the Makefile,
  whatever was killed or ran before. `FailsOnlyOnOddRelease`: it fails only for
  what the release lacks. `HashesChecked`: on any tree, torn files and old
  overrides included, a call that succeeds leaves the hash completion switched
  on, and `--customize` no exemption from it.

### Disagreements met

Four runs check what the repository says of itself and find it violated:

1. `late_start`: `console-session.sh:36-38` says of a kmscon with "no child
   within the start timeout" that "the next way down the list is used at
   once". A child that leaves its stamp during the grace period makes the
   script finish: the program was hung up with kmscon, the unit ends.
2. `maintenance_returns`: `installer.conf:33-35` promises "a fresh getty" to
   "maintenance boot entries". If the wizard is started by hand in such a
   boot, at the prompt or over ssh, the shell is stopped, `shell-exit.sh` yields to the start job, the
   wizard is skipped by its condition, and no unit is left on the console.
3. `cancel_leaves`: `wizard.sh:17` says that Cancel "leaves the wizard". In the
   three dialogs behind the checklist it ends the subshell only.
4. `stale_arrays`: `setup.sh:198` stops "any stale md arrays before wiping
   target disks". After an attempt that failed with its ROOT mounted, the
   stops are refused (and ignored), and a retry overwrites the start of a disk
   of the running array before `wipefs` notices.

### Deadlock and fairness

Deadlock is checked in the console, launcher and `setup.sh` runs. The two wizards end,
`media_identity` ends when `setup.sh` begins to erase, and `build_env` with the
last call, so their runs say `CHECK_DEADLOCK FALSE`.

`ProgramAppears` assumes `WF(Script)`: `console-session.sh` is a process that
is scheduled, and each of its waits has a deadline or waits for a process it
has killed. The loop assumes the same, and that systemd runs its jobs
(`WF(Systemd)`) and `shell-exit.sh` goes on (`WF(ShellExit)`); its one wait is
`sleep 1`. Nothing is assumed of kmscon, the programs, or the operator. `SearchEnds` assumes `WF(Program)`: a
search is a process without any wait that is not counted; not the operator, the
disks, the timeout nor an interruption has to come. Hence
`ConsoleReturns` starts from an idle console, and `RequestHonoured` needs the
stop of the shell, which is systemd's; no request has to come.

## 4. Proofs

TLAPS proves, for all values of the constants:

* **InstallFlow_proofs** (any finite set of disks, any sizes): `TypeOK`,
  `NeverRaises`, `BootMediaSpared`, `VouchedFor`, `RoomForRoot`,
  `NothingStale`, and that InstallFlow implements InstallContract. The
  inductive invariant `IInv` says, for each step, what the answers before it
  satisfy: from the RAID question on, the disks are two to four, spare the
  media and are vouched for if they must be; when the size menu or a later
  dialog is shown, the smallest disk has room; when `fresh` holds an answer it
  is valid for the disks as they are now. `NeverRaises` alone is not
  inductive: it says nothing before the last step. `MaxRootFits` and `NatMin`
  are the arithmetic under it: `max_root_gb` is a bound for every disk chosen.
* **ConsoleLoop_proofs**, of ConsoleSession (any number of activations):
  `TypeOK`, `WizardOnce`, `NoCrashLoop`, `NoKmsconAfterFailed`. `IInv` relates the
  stamp, the child and `shown` at each `pc` (before the stamp nothing has been
  shown; without it at `judge` nothing ever will be), and accounts for the bad
  runs in the files: no more of them than LIBSEAT_FAILED and FAILED record.
  `ScriptNeverLoops` is the variant under `ProgramAppears`: the script tries two
  ways and none twice, at most ten of its steps in an activation.
* **ConsoleLoop_proofs**, of the loop: every step is a step of ConsoleSession
  or leaves it alone (`LoopImplementsSession`), hence the invariants above hold
  of the loop (`LoopKeepsSession`); `LoopTypeOK`; `MaintenanceSparesWizard`; and
  what the liveness properties of the loop need besides fairness. An idle
  console of a normal boot always has a start job or `shell-exit.sh`
  (`ConsoleNeverForgotten`, for `ConsoleReturns`), a request for the wizard is
  not lost to a start job of the shell, whenever it comes but in the second of
  `start_getty`, where the code does lose it (`RequestNeverLost`, for
  `RequestHonoured`), and an `exit` is not answered by another shell
  (`ExitNeverShell`, for `ExitLeadsToWizard`). The invariant `LoopInv` adds to
  `IInv` that units, jobs and `shell-exit.sh` take turns (`Turns`) and that a
  program is hung up with its kmscon (`HungUp`): without the latter a program
  left over would type into an idle console.
* **Launcher_proofs** (any number of activations): `TypeOK`,
  `NoSecondQuestions`, `ReportTruthful`, `StaleMarkerIgnored`. The launcher
  decides after Python is dead, from a file; `IInv` says that the file tells
  the truth about this Python (`MarkerSays`) and that nothing but a marked
  Python has started `setup.sh` by then (`OnlyMarkedInstalls`).
* **SetupRun_proofs** (any disks, any `MaxAttempts`): `TypeOK`,
  `BootDiskSurvives`, `FirstAttemptReleases` and `SuccessIsComplete`. `IInv`
  says that past the guard the boot disk is among the attempt's disks only if
  the guard had no identity to compare them with, and that the loop only ever
  is at one of these disks. `FirstClean` adds that the first attempt after a
  boot finds nothing mounted and, past the guard, no array running; `Built` what
  an attempt has done to its disks and arrays by each step, from which a success
  follows.
* **DialogWizard_proofs** (any disks, any list): `TypeOK`, `WipesTargetsOnly`,
  `RaidFitsDisks`. `IInv` says from which dialog on the number of disks and the
  level are those of a RAID, and that only the cancelled RAID dialog breaks the
  latter.
* **MediaIdentity_proofs** (any disks, machines, deadlines and number of
  wizards): `TypeOK`; `KnownOnce`, the refinement of BootIdentity;
  `BootDiskSpared` and `OfferedByTornFile`. `IInv` relates the file to the step
  of `media.sh` (it is written only when it named nothing) and says that file
  and variables name disks that are there with their own parents; the
  refinement follows, because a loaded identity then is the file's. `JInv` adds
  that with one volume only the boot disk can be named, that a disk offered has
  been seen, and that `setup.sh`, which looks for the UUID itself, cannot get
  past its own search with the boot disk among the selected. `SearchNeverLoops`
  is the variant under `SearchEnds`: a search has at most `3 * UUID_WAIT + 19`
  of its steps and polls ahead, and nothing that happens beside it gives it more.
* **BuildEnv_proofs** (any files, releases, versions, jobs and calls):
  `TypeOK`, `FetchedWhole`, `MarkerMeansWhole`, and `CommitsChanges` (the
  workflow commits what it fetched and never calls `git commit` for nothing,
  unless a body was cut off), which no run checks on its own. The invariant of
  the downloader says that no copy is newer than the server (`Behind`) and so
  what is about to be written differs from what is there (`Newer`), also after
  the second fetch. That of the container says at each line what is known of
  archive, builder and marker (`Progress`). `OnlyNewer`: the versions in the
  working tree and in the repository only go up, unless a body was cut off.
* **BuildrootPatches_proofs** (any text): for each patch, what lines it adds,
  keeps and finds in a text, when it fails, and what it makes of its own result,
  also with another patch in between and from the overrides of the earlier
  version (`MakefileGrows`: the patch of the Makefile commutes with lines
  appended below it). They are the lemmas of the next item.
  The library's induction theorems cannot be used here, so an induction
  over the lines of a text is one over the set of the numbers for which the
  statement fails: it has no least element (`Least`).
* **BuildEnv_proofs**, of the tree (any releases, volumes, calls and
  interruptions): `HashesChecked`, by `TreeInv` (the edits of the running call
  that are no longer ahead have been done, in any tree); `EditIdempotent`, each
  edit of a file leaves alone what it has made of any text; and
  `SuccessMeansPatched` and `FailsOnlyOnOddRelease`, by the invariant `Sound`.
  Neither is inductive: they speak of the end of a call. `Sound` adds that the
  tree of a release is `Undamaged` at every step, that each edit done stays
  done under the edits after it (`AllRight`), and what kind of call a step ahead
  belongs to (`Ahead`). Hence a patch that fails on the tree fails on the
  fresh release.

The assumptions are those of the modules: `Disk` is finite, sizes are natural
numbers, `None` is neither a disk nor a number, the boot disk is a disk,
machines and volumes are well-formed, file names are distinct strings. Of the
build tree: texts are sequences of lines (`TextsAssumption`), a volume which is
said to hold a release does (`UndamagedAssumption`), and the archive holds every
file of its release (`ArchiveAssumption`). TLC evaluates all of them in the runs.

Model-checked only: the liveness properties `ProgramAppears`, `ConsoleReturns`,
`ExitLeadsToWizard`, `RequestHonoured` and `SearchEnds`, because TLAPS can prove
neither liveness under fairness nor ENABLED. What is proved of them is the part
that is safety: a variant or a promise that no step breaks, named above. Every
other property of a passing run is a theorem.

## 5. Not modelled

* The look of dialogs, messages, fonts, the contents of configuration files.
* The contents of the live log, `reboot -f`, and a reading of exit statuses
  finer than zero or not.
* Failures of writes to `/run`; the clock; orders to systemd other than a start
  of the wizard; udev assembling arrays by itself between two commands of
  `setup.sh`.
* The systemd transaction of the boot: the models begin when the first start
  job of a unit is in the queue.
* `fetch_hash_helper.py` and `fetch-hash.mk` as programs: they run inside
  `make`, after the tree is patched; the model says that they are installed
  whole and included. `buildOpenWRTimages.sh`, `compileBuildroot.sh` and
  `buildInstallerUSB.sh`: straight lines of tool calls.
* In the searches for the boot media: the parsing of the kernel command line
  and of `lsblk`, more than one volume on a disk, a mount that a killed probe
  leaves behind.
* The text between the anchors of the patches, and a file torn in the middle of
  a line.
* The components marked `not_modelled` in `PROJECT.json`.

## 6. Plan

In the order in which the modules are to be written:

1. **MediaLogs**: stamps, flushes and remounts over boots. Property: a later
   boot never overwrites a log, and the media is left unmounted. It also takes
   the mounts of a killed probe and the error branches of `setup.sh` that do
   not reach the ERR trap.
2. **ConsoleLoop**, extended by the clock and failures of `/run`.
3. **FetchHash**: the hash completion inside `make`, with parallel packages
   appending to hash files and downloads that fail.
4. Proofs: that MediaIdentity gives the wizards and `setup.sh` the outcomes
   InstallFlow, DialogWizard and SetupRun take as inputs; variants for
   `setup.sh`, the launcher and `getBuildroot.sh`, which have no liveness
   property yet.
