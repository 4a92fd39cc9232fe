------------------------------ MODULE BuildTree ------------------------------
(***************************************************************************)
(* The Buildroot tree on its volume: getBuildroot.sh fetches it and calls  *)
(* customizeBuildroot, which edits one file after the other in place.      *)
(* Each call may be killed between two edits or within one, and is run     *)
(* again over whatever is there.                                           *)
(***************************************************************************)
EXTENDS BuildrootPatches

CONSTANTS
    Stock,          \* the files of each release, as functions from name to text
    StockPatches,   \* the patch directories of each release
    Archive,        \* the order of names in the archive
    Volumes,        \* what the volume may hold at first
    CustomPackages, \* iter_custom_packages(), sorted
    MaxCalls,       \* bound: calls of getBuildroot.sh
    MaxKills        \* bound: interruptions

NoBase == "none"

ASSUME VolumesAssumption == \A v \in Volumes : v.base \in DOMAIN Stock \cup {NoBase}
\* The texts are sequences of lines, and the packages one of names.
ASSUME TextsAssumption ==
    /\ CustomPackages \in Seq(STRING)
    /\ \A r \in DOMAIN Stock : \A f \in DOMAIN Stock[r] : Stock[r][f] \in Seq(STRING)
    /\ \A v \in Volumes : \A f \in DOMAIN v.tree : v.tree[f] \in Seq(STRING)
ASSUME BoundsAssumption == MaxCalls \in Nat \ {0} /\ MaxKills \in Nat

VARIABLES
    tree,       \* the files there are
    patches,    \* the patch directories there are
    todo,       \* the steps ahead of the running call
    plan,       \* the edits of the running or last call
    result,     \* "none", "running", "ok", "failed" or "killed"
    base,       \* history: the release the tree was unpacked from, NoBase when
                \* it was not unpacked to the end or a write was interrupted since
    calls,
    kills

treevars == <<tree, patches, todo, plan, result, base, calls, kills>>

-----------------------------------------------------------------------------
(* The edits, named by their file                                          *)

LATE == "Makefile: custom-late.mk"
FETCH == "Makefile: fetch-hash.mk"
PURGE == "Makefile: target-finalize"

\* Mutant of FetchHash: the files are copied, but not included.
FilesOnly == <<"package/fetch-hash.mk", "package/fetch_hash_helper.py">>

\* write_fetch_hash_mk()
FetchHash == <<"package/fetch-hash.mk", "package/fetch_hash_helper.py", FETCH>>

\* customize_buildroot()
Customize ==
    <<"package/custom-late.mk", LATE>> \o FetchHash \o
    <<"Config.in", PURGE, "linux-tool-gpio.mk.in", "linux-tool-pci.mk.in",
      "openvmtools", "espflash/4.0.1",
      "systemd/Config.in", "systemd/systemd.mk",
      "linux-pam/Config.in", "linux-pam/linux-pam.mk",
      "espflash/Config.in", "espflash/espflash.mk",
      "ruby/Config.in", "ruby/ruby.mk">>

\* update_kernel_support()
UpdateKernel ==
    <<"linux-headers/Config.in.host", "toolchain/Config.in", "linux/Config.in",
      "linux/7.2.9", "linux-headers/7.2.9">> \o FetchHash

\* update_rust_version() with the variables of the environment that hold a
\* version; the others are skipped.
UpdateRust(env) ==
    (IF "RUST_VERSION" \in env THEN <<"rust/rust.mk", "rust-bin/rust-bin.mk">> ELSE <<>>)
    \o (IF "RUST_BINDGEN_VERSION" \in env THEN <<"rust-bindgen/rust-bindgen.mk">> ELSE <<>>)
    \o (IF env = {} THEN <<>> ELSE FetchHash)

Envs == SUBSET {"RUST_VERSION", "RUST_BINDGEN_VERSION"}
Plans == {<<>>, Customize, UpdateKernel} \cup {UpdateRust(env) : env \in Envs}

OfMakefile == {LATE, FETCH, PURGE}
FileOf(edit) == IF edit \in OfMakefile THEN "Makefile" ELSE edit

PatchDirs == {"openvmtools", "espflash/4.0.1"}
Links == {"linux/7.2.9", "linux-headers/7.2.9"}
Generated == {"package/custom-late.mk", "package/fetch-hash.mk",
              "package/fetch_hash_helper.py"}

\* Packages whose two files are edited when both are there.
Pairs == {{"systemd/Config.in", "systemd/systemd.mk"},
          {"linux-pam/Config.in", "linux-pam/linux-pam.mk"},
          {"espflash/Config.in", "espflash/espflash.mk"},
          {"ruby/Config.in", "ruby/ruby.mk"}}

\* The files that one edit each is for.
Edited == (UNION {ToSet(p) : p \in Plans}) \ (Links \cup PatchDirs \cup Generated \cup OfMakefile)

\* Files that need not be there.
Optional == {"linux-tool-gpio.mk.in", "linux-tool-pci.mk.in"} \cup UNION Pairs

\* What an edit makes of its text, or SystemExit.
Patched(edit, text) ==
    CASE edit = "package/custom-late.mk"        -> custom_late_mk_text(CustomPackages)
      [] edit = "package/fetch-hash.mk"         -> fetch_hash_mk
      [] edit = "package/fetch_hash_helper.py"  -> fetch_hash_helper
      [] edit = LATE                            -> included(text, CUSTOM_LATE_INCLUDE_BLOCK)
      [] edit = FETCH                           -> included(text, FETCH_HASH_INCLUDE_BLOCK)
      [] edit = PURGE                           -> patch_makefile(text)
      [] edit = "Config.in"                     -> patch_config_in(text)
      [] edit = "linux-tool-gpio.mk.in"         -> patch_linux_tools_grep_install(text)
      [] edit = "linux-tool-pci.mk.in"          ->
             patch_linux_tools_grep_install(patch_linux_tool_pci_mk_in(text))
      [] edit = "systemd/Config.in"             -> patch_systemd_config_in(text)
      [] edit = "systemd/systemd.mk"            -> patch_systemd_mk(text)
      [] edit = "linux-pam/Config.in"           -> patch_linux_pam_config_in(text)
      [] edit = "linux-pam/linux-pam.mk"        -> patch_linux_pam_mk(text)
      [] edit = "espflash/Config.in"            -> patch_espflash_config_in(text)
      [] edit = "espflash/espflash.mk"          -> patch_espflash_mk(text)
      [] edit = "ruby/Config.in"                -> patch_ruby_config_in(text)
      [] edit = "ruby/ruby.mk"                  -> patch_ruby_mk(text)
      [] edit = "linux-headers/Config.in.host"  -> patch_kernel_headers_host(text)
      [] edit = "toolchain/Config.in"           -> patch_toolchain_headers_at_least(text)
      [] edit = "linux/Config.in"               -> patch_linux_latest_version(text)
      [] OTHER                                  -> set_makefile_assignment(text)

\* The fix a patch directory is to hold.
Fix(dir) == IF dir = "openvmtools" THEN OPENVMTOOLS_C23_PATCH ELSE ESPFLASH_BAIL_PATCH

\* The directory a new link of a kernel series points to.
Prev(link) == IF link = "linux/7.2.9" THEN "linux/7.1.13" ELSE "linux-headers/7.1.13"

\* The text of a file of release r, and the patch files of a directory.
Fresh(r, f) == IF f \in DOMAIN Stock[r] THEN Stock[r][f] ELSE <<>>
FreshDir(r, d) == IF d \in DOMAIN StockPatches[r] THEN StockPatches[r][d] ELSE <<>>

\* The text is that of a Makefile fresh with include lines below it that fresh
\* has not, the target-finalize rule patched or not.
Tails == {<<>>, CUSTOM_LATE_INCLUDE_BLOCK, FETCH_HASH_INCLUDE_BLOCK,
          CUSTOM_LATE_INCLUDE_BLOCK \o FETCH_HASH_INCLUDE_BLOCK,
          FETCH_HASH_INCLUDE_BLOCK \o CUSTOM_LATE_INCLUDE_BLOCK}
Extends(text, fresh) ==
    \E tail \in Tails :
        /\ patch_makefile(text) = Then(patch_makefile(fresh), LAMBDA t : t \o tail)
        /\ \A l \in {CUSTOM_LATE_INCLUDE_MARKER, FETCH_HASH_INCLUDE_MARKER} :
             /\ Contains(text, l) <=> Contains(fresh, l) \/ Contains(tail, l)
             /\ ~(Contains(fresh, l) /\ Contains(tail, l))

\* These files and patch directories are those of release r, or what calls made
\* of them, be it in an earlier version: each patch makes of its file what it
\* makes of that of the release.
Undamaged(files, dirs, r) ==
    /\ DOMAIN Stock[r] \subseteq DOMAIN files
    /\ DOMAIN files \subseteq DOMAIN Stock[r] \cup Generated \cup Links
    /\ \A f \in DOMAIN Stock[r] \cap Edited : Patched(f, files[f]) = Patched(f, Stock[r][f])
    /\ "Makefile" \in DOMAIN Stock[r] => Extends(files["Makefile"], Stock[r]["Makefile"])
    /\ \A d \in PatchDirs :
         (IF d \in DOMAIN dirs THEN dirs[d] ELSE <<>>)
             \in {FreshDir(r, d), patch_added(FreshDir(r, d), Fix(d))}

\* A volume which is said to hold a release does.
ASSUME UndamagedAssumption ==
    \A v \in Volumes : v.base # NoBase => Undamaged(v.tree, v.patches, v.base)
\* Each file of a release is in its archive, and a patch directory is a sequence.
ASSUME ArchiveAssumption ==
    /\ Archive \in Seq(STRING)
    /\ \A r \in DOMAIN Stock :
         /\ DOMAIN Stock[r] \cup DOMAIN StockPatches[r] \subseteq ToSet(Archive)
         /\ \A d \in DOMAIN StockPatches[r] : StockPatches[r][d] \in Seq(Seq(STRING))

-----------------------------------------------------------------------------
Exists(file) == file \in DOMAIN tree
NoFiles == [f \in {} |-> <<>>]
Dir(dir) == IF dir \in DOMAIN patches THEN patches[dir] ELSE <<>>

\* new, and what old has besides.
Merged(new, old) ==
    [x \in DOMAIN new \cup DOMAIN old |-> IF x \in DOMAIN new THEN new[x] ELSE old[x]]

Put(file, text) ==
    /\ tree' = Merged([f \in {file} |-> text], tree)
    /\ UNCHANGED patches

\* The call ends.
End(how) ==
    /\ result' = how
    /\ todo' = <<>>
    /\ UNCHANGED <<plan, calls>>

\* The next step is done.
Done ==
    /\ todo' = Tail(todo)
    /\ result' = IF todo' = <<>> THEN "ok" ELSE "running"
    /\ UNCHANGED <<plan, calls, kills>>

Fails ==
    /\ End("failed")
    /\ UNCHANGED <<tree, patches, kills>>

\* getBuildroot.sh reads its options.
Start(steps, edits) ==
    /\ result # "running"
    /\ calls < MaxCalls
    /\ calls' = calls + 1
    /\ todo' = steps \o edits
    /\ plan' = edits
    /\ result' = IF todo' = <<>> THEN "ok" ELSE "running"
    /\ UNCHANGED <<tree, patches, base, kills>>

\* The download part, from its guards: -U alone leaves a Makefile alone, and
\* does not empty the directory when there is none.
Fetching(upgrade, force) ==
    CASE Exists("Makefile") /\ ~(upgrade /\ force) -> <<>>
      [] upgrade /\ ~force /\ ~Exists("Makefile")  -> <<"get">>
      [] OTHER                                     -> <<"purge", "get">>

GetBuildroot(upgrade, force) == Start(Fetching(upgrade, force), <<>>)

GetAndCustomize(upgrade, force) ==
    Start(Fetching(upgrade, force) \o <<"preflight">>, Customize)

UpdateKernelSupport == Start(<<"preflight kernel">>, UpdateKernel)

UpdateRustVersion(env) == Start(<<"preflight rust">>, UpdateRust(env))

\* The files each run asks for before it edits anything.
Required ==
    [preflight |-> {"Config.in", "Makefile", "package/Config.in"},
     kernel    |-> {"Config.in", "linux-headers/Config.in.host", "toolchain/Config.in",
                    "linux/Config.in"},
     rust      |-> {"Config.in"} \cup (ToSet(plan) \cap {"rust/rust.mk", "rust-bin/rust-bin.mk"})]

Preflight ==
    /\ todo # <<>>
    /\ \E check \in {<<"preflight", "preflight">>, <<"preflight kernel", "kernel">>,
                     <<"preflight rust", "rust">>} :
         /\ Head(todo) = check[1]
         /\ \/ /\ Required[check[2]] \subseteq DOMAIN tree
               /\ Done
               /\ UNCHANGED <<tree, patches, base>>
            \/ /\ ~(Required[check[2]] \subseteq DOMAIN tree)
               /\ Fails
               /\ UNCHANGED base

\* find -delete
Purge ==
    /\ todo # <<>> /\ Head(todo) = "purge"
    /\ tree' = NoFiles /\ patches' = NoFiles
    /\ base' = NoBase
    /\ Done

\* The files of release r among the first n names of the archive, over those
\* that are there.
Unpacked(r, n) ==
    LET names == {Archive[i] : i \in 1..n}
    IN  /\ tree' = Merged([f \in names \cap DOMAIN Stock[r] |-> Stock[r][f]], tree)
        /\ patches' = Merged([d \in names \cap DOMAIN StockPatches[r] |->
                              Merged(StockPatches[r][d], Dir(d))], patches)

\* The archive of release r, the latest on the server, is there and complete.
Get(r) ==
    /\ todo # <<>> /\ Head(todo) = "get"
    /\ Unpacked(r, Len(Archive))
    /\ base' = IF tree = NoFiles /\ patches = NoFiles THEN r ELSE NoBase
    /\ Done

\* curl finds no archive.
NoArchive ==
    /\ todo # <<>> /\ Head(todo) = "get"
    /\ Fails
    /\ UNCHANGED base

\* The transfer stops, tar fails, or the call is killed: the files unpacked so
\* far stay.
GetStops(r, n) ==
    /\ todo # <<>> /\ Head(todo) = "get"
    /\ Unpacked(r, n)
    /\ base' = NoBase
    /\ kills < MaxKills
    /\ kills' = kills + 1
    /\ End("failed")

\* An edit that does not apply to this tree: a file or directory that need not
\* be there is missing, or the link is there already.
NotApplicable(edit) ==
    \/ edit \in {"linux-tool-gpio.mk.in", "linux-tool-pci.mk.in"} /\ ~Exists(edit)
    \/ edit = "openvmtools" /\ edit \notin DOMAIN patches
    \/ edit = "espflash/4.0.1" /\ ~Exists("espflash/espflash.mk")
    \/ edit \in Links /\ (Exists(edit) \/ ~Exists(Prev(edit)))
    \/ \E pair \in Pairs : edit \in pair /\ ~(pair \subseteq DOMAIN tree)

Skip ==
    /\ todo # <<>> /\ Head(todo) \in ToSet(plan)
    /\ NotApplicable(Head(todo))
    /\ Done
    /\ UNCHANGED <<tree, patches, base>>

Before(edit) == IF Exists(FileOf(edit)) THEN tree[FileOf(edit)] ELSE <<>>
After(edit) ==
    IF edit \in Generated \/ Exists(FileOf(edit)) THEN Patched(edit, Before(edit))
    ELSE SystemExit

\* A file, which is not a link or a patch directory, is at its turn.
FileEdit(edit) ==
    /\ todo # <<>> /\ edit = Head(todo) /\ edit \in ToSet(plan)
    /\ edit \notin Links \cup PatchDirs
    /\ ~NotApplicable(edit)

Edit(edit) ==
    /\ FileEdit(edit)
    /\ After(edit) # SystemExit
    /\ Put(FileOf(edit), After(edit))
    /\ Done
    /\ UNCHANGED base

\* The patch stops with an error, and with it the call.
EditFails(edit) ==
    /\ FileEdit(edit)
    /\ After(edit) = SystemExit
    /\ Fails
    /\ UNCHANGED base

AddPatch(dir) ==
    /\ todo # <<>> /\ dir = Head(todo) /\ dir \in PatchDirs
    /\ ~NotApplicable(dir)
    /\ patches' = Merged([d \in {dir} |-> patch_added(Dir(dir), Fix(dir))], patches)
    /\ Done
    /\ UNCHANGED <<tree, base>>

Link(link) ==
    /\ todo # <<>> /\ link = Head(todo) /\ link \in Links
    /\ ~NotApplicable(link)
    /\ Put(link, tree[Prev(link)])
    /\ Done
    /\ UNCHANGED base

Interrupted ==
    /\ kills < MaxKills
    /\ kills' = kills + 1
    /\ End("killed")

\* The call is killed between two steps.
Kill ==
    /\ result = "running"
    /\ Interrupted
    /\ UNCHANGED <<tree, patches, base>>

\* The purge is killed half-way.
PurgeStops(n) ==
    /\ todo # <<>> /\ Head(todo) = "purge"
    /\ LET gone == {Archive[i] : i \in 1..n} IN
         /\ tree' = [f \in DOMAIN tree \ gone |-> tree[f]]
         /\ patches' = [d \in DOMAIN patches \ gone |-> patches[d]]
    /\ base' = NoBase
    /\ Interrupted

\* The call is killed, or the volume is full, while a file is written.  Files
\* are written in place, and only when something changes unless generated.
WriteStops(edit) ==
    /\ FileEdit(edit)
    /\ After(edit) # SystemExit
    /\ After(edit) # Before(edit) \/ edit \in Generated
    /\ \E text \in Torn(After(edit)) : Put(FileOf(edit), text)
    /\ base' = NoBase
    /\ Interrupted

PatchStops(dir) ==
    /\ todo # <<>> /\ dir = Head(todo) /\ dir \in PatchDirs
    /\ ~NotApplicable(dir) /\ ~patch_present(Dir(dir), Fix(dir))
    /\ \E text \in Torn(Fix(dir)) :
         patches' = Merged([d \in {dir} |-> Append(Dir(dir), text)], patches)
    /\ base' = NoBase
    /\ UNCHANGED tree
    /\ Interrupted

TreeInit ==
    /\ \E volume \in Volumes :
         tree = volume.tree /\ patches = volume.patches /\ base = volume.base
    /\ todo = <<>> /\ plan = <<>> /\ result = "none"
    /\ calls = 0 /\ kills = 0

TreeCall ==
    \/ \E upgrade, force \in BOOLEAN :
         GetBuildroot(upgrade, force) \/ GetAndCustomize(upgrade, force)
    \/ UpdateKernelSupport
    \/ \E env \in Envs : UpdateRustVersion(env)

TreeStep ==
    \/ Preflight \/ Purge \/ NoArchive \/ Skip
    \/ \E r \in DOMAIN Stock : Get(r)
    \/ \E edit \in ToSet(plan) :
         Edit(edit) \/ EditFails(edit) \/ AddPatch(edit) \/ Link(edit)

TreeStop ==
    \/ Kill
    \/ \E n \in 0..(Len(Archive) - 1) :
         PurgeStops(n) \/ \E r \in DOMAIN Stock : GetStops(r, n)
    \/ \E edit \in ToSet(plan) : WriteStops(edit) \/ PatchStops(edit)

-----------------------------------------------------------------------------
TreeTypeOK ==
    /\ result \in {"none", "running", "ok", "failed", "killed"}
    /\ result = "running" <=> todo # <<>>
    /\ plan \in Plans
    /\ base \in DOMAIN Stock \cup {NoBase}
    /\ calls \in 0..MaxCalls /\ kills \in 0..MaxKills

\* The files a call asks for, or edits without asking.
Needed ==
    {"Config.in", "Makefile"}
        \cup (IF plan = Customize THEN {"package/Config.in"} ELSE {})
        \cup {f \in ToSet(plan) \cap Edited : f \notin Optional}

\* A call that succeeds on an undamaged tree leaves every file of its edits as
\* one uninterrupted call on the fresh release leaves it, each fix once in its
\* patch directory, each link, and below the Makefile of the release the include
\* lines, each once: whatever earlier calls were killed and in whatever order the
\* three kinds of calls came (the idempotence that the tests of
\* customizeBuildroot ask of each patch alone).
SuccessMeansPatched ==
    result = "ok" /\ base # NoBase =>
        /\ \A f \in ToSet(plan) \cap (Edited \cup Generated) :
             NotApplicable(f) \/ (Exists(f) /\ tree[f] = Patched(f, Fresh(base, f)))
        /\ \A d \in ToSet(plan) \cap PatchDirs :
             NotApplicable(d) \/ Dir(d) = patch_added(FreshDir(base, d), Fix(d))
        /\ \A l \in ToSet(plan) \cap Links : NotApplicable(l)
        /\ \A e \in ToSet(plan) \cap OfMakefile :
             /\ Exists("Makefile")
             /\ Patched(e, tree["Makefile"]) = tree["Makefile"]
             /\ Extends(tree["Makefile"], Fresh(base, "Makefile"))

\* On an undamaged tree a call fails only when the release lacks a file it needs
\* or something a patch looks for, or when there is nothing to download.
FailsOnlyOnOddRelease ==
    result = "failed" /\ base # NoBase =>
        \/ ~(Needed \subseteq DOMAIN Stock[base])
        \/ \E e \in ToSet(plan) \ (Links \cup PatchDirs) :
             /\ FileOf(e) \in DOMAIN Stock[base]
             /\ Patched(e, Stock[base][FileOf(e)]) = SystemExit

\* A call that succeeds and edits anything leaves the hash completion switched
\* on, and --customize no line that exempts a tarball from the check of its
\* hash: also over files of an earlier version and over files left unfinished.
HashesChecked ==
    result = "ok" /\ plan # <<>> =>
        /\ Generated \ {"package/custom-late.mk"} \subseteq DOMAIN tree
        /\ tree["package/fetch-hash.mk"] = fetch_hash_mk
        /\ tree["package/fetch_hash_helper.py"] = fetch_hash_helper
        /\ Contains(tree["Makefile"], FETCH_HASH_INCLUDE_MARKER)
        /\ plan = Customize =>
             /\ {"systemd/Config.in", "systemd/systemd.mk"} \subseteq DOMAIN tree
                  => ~Contains(tree["systemd/systemd.mk"], SYSTEMD_NO_HASH)
             /\ {"linux-pam/Config.in", "linux-pam/linux-pam.mk"} \subseteq DOMAIN tree
                  => ~Contains(tree["linux-pam/linux-pam.mk"], LINUX_PAM_NO_HASH)
==============================================================================
