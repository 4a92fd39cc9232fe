---------------------------- MODULE BuildEnv_proofs ----------------------------
(***************************************************************************)
(* Proofs about the build environment: its types, that the downloader      *)
(* never leaves half a file, commits what it fetched and replaces no file  *)
(* by an older one, that the marker of extractImageBuilder.sh can be       *)
(* trusted, and that a call of getBuildroot.sh that succeeds leaves no     *)
(* download unchecked and the tree of a release as one uninterrupted call  *)
(* would, whatever came before.                                            *)
(***************************************************************************)
EXTENDS BuildEnv, BuildrootPatches_proofs

USE FilesAssumption, JobsAssumption DEF FilesAssumption, JobsAssumption

Bodies == Versions \cup {Cut}

\* A response or .part file that is about to be used is there.
Held ==
    /\ pc \in {"read", "compare", "again", "write", "fill"} =>
         body \in Bodies /\ (body = Cut => cut)
    /\ pc = "replace" => part[file] \in Bodies

\* No copy is newer than the server.
Behind ==
    /\ \A f \in Names : /\ dest[f] \in Versions => dest[f] <= remote[f]
                        /\ repo[f] \in Versions => repo[f] <= remote[f]
    /\ pc \in {"read", "compare", "again", "write", "fill"} /\ body \in Versions =>
         body <= remote[file]
    /\ pc = "replace" /\ part[file] \in Versions => part[file] <= remote[file]

\* What is about to be written differs from the local file.
Newer ==
    /\ pc \in {"read", "compare"} /\ body \in Versions =>
         (dest[file] \in Versions => dest[file] <= body)
    /\ pc = "again" /\ ~cut =>
         (dest[file] \in Versions => dest[file] < remote[file])
    /\ pc \in {"write", "fill"} /\ ~cut => body # dest[file]
    /\ pc = "replace" /\ ~cut => part[file] # dest[file]

\* The outputs of the steps tell which files differ from the repository.
Reported ==
    /\ pc = "commit" => workflow
    /\ workflow /\ pc # "idle" =>
         /\ \A f \in Names : f \in changed \/ dest[f] = repo[f]
         /\ cut \/ \A f \in changed : dest[f] # repo[f]
         /\ pc # "commit" => \A i \in 1..Len(Files) : Files[i] \in changed => i < at

DownloadInv == DownloadTypeOK /\ FetchedWhole /\ Held /\ Behind /\ Newer /\ Reported

\* The values of the downloader are numbers apart from each other.
LEMMA Values ==
    /\ NoFile = 0 /\ Half \in Nat /\ Cut \in Nat
    /\ Half > MaxVersions /\ Cut > Half
    /\ Versions \subseteq Contents /\ Kept \subseteq Contents /\ Bodies \subseteq Kept
    /\ NoFile \in Kept /\ NoFile \notin Bodies /\ Half \notin Kept /\ 1 \in Versions
    /\ Len(Files) \in Nat /\ Len(Files) >= 1
    /\ Half \in Contents /\ NoFile \in Contents
BY DEF NoFile, Half, Cut, Versions, Contents, Kept, Bodies

LEMMA FileIsName == DownloadTypeOK => file \in Names
BY DEF DownloadTypeOK, file, Names

LEMMA DownloadInitially == DownloadInit => DownloadInv
<1> SUFFICES ASSUME DownloadInit PROVE DownloadInv
  OBVIOUS
<1>1. DownloadTypeOK
  <2>1. repo \in [Names -> Kept] /\ dest \in [Names -> Contents]
    <3>1. \A f \in Names : repo[f] \in Kept
      BY Values DEF DownloadInit, Kept
    <3>2. dest = repo /\ repo = [f \in Names |-> repo[f]]
      BY DEF DownloadInit
    <3> QED BY <3>1, <3>2, Values
  <2>2. remote \in [Names -> Versions] /\ part \in [Names -> Contents]
    BY Values DEF DownloadInit
  <2>3. at \in 1..Len(Files) /\ jobs \in 0..MaxJobs /\ body \in Kept
    BY Values DEF DownloadInit
  <2> QED BY <2>1, <2>2, <2>3 DEF DownloadInit, DownloadTypeOK
<1>2. FetchedWhole /\ Held /\ Behind /\ Newer /\ Reported
  BY Values DEF DownloadInit, FetchedWhole, Held, Behind, Newer, Reported, Kept, Versions, NoFile
<1> QED BY <1>1, <1>2 DEF DownloadInv

\* The type invariant is kept by every step of the downloader.
LEMMA DownloadTypes ==
    ASSUME DownloadInv, DownloadNext
    PROVE  DownloadTypeOK'
<1> USE DEF DownloadInv, DownloadTypeOK
<1>0. file \in Names
  BY FileIsName
<1>1. ASSUME Checkout PROVE DownloadTypeOK'
  <2>1. dest' \in [Names -> Contents]
    BY <1>1, Values DEF Checkout
  <2>2. part' \in [Names -> Contents]
    BY <1>1, Values DEF Checkout
  <2>3. at' \in 1..Len(Files) /\ jobs' \in 0..MaxJobs
    BY <1>1, Values DEF Checkout, Begin
  <2> QED BY <1>1, <2>1, <2>2, <2>3 DEF Checkout, Begin
<1>2. ASSUME NEW i \in 1..Len(Files), ByHand(i) PROVE DownloadTypeOK'
  <2>1. at' \in 1..Len(Files) /\ jobs' \in 0..MaxJobs
    BY <1>2, Values DEF ByHand, Begin
  <2> QED BY <1>2, <2>1 DEF ByHand, Begin
<1>3. ASSUME NEW how \in {"memory", "stream", "unknown"}, Respond(how) PROVE DownloadTypeOK'
  BY <1>3, <1>0, Values DEF Respond, Answered, Kept
<1>4. ASSUME NEW how \in {"stream", "unknown"}, FetchAgain(how) PROVE DownloadTypeOK'
  BY <1>4, <1>0, Values DEF FetchAgain, Answered, Kept
<1>5. CASE Refused \/ ReadBreaks \/ Cancelled \/ PushFails
  BY <1>5 DEF Refused, ReadBreaks, Cancelled, PushFails, Failed, Over
<1>6. CASE Read
  BY <1>6, Values DEF Read, Kept
<1>7. CASE Unchanged
  BY <1>7 DEF Unchanged, Finished
<1>8. CASE Differs
  BY <1>8 DEF Differs, UseMemory
<1>9. CASE OpenPart
  BY <1>9, Values DEF OpenPart
<1>10. CASE FillPart
  <2>1. body \in Contents /\ Cut \in Contents
    BY Values DEF Kept
  <2> QED BY <1>10, <2>1 DEF FillPart
<1>11. CASE FillBreaks
  BY <1>11, Values DEF FillBreaks, Failed, Over
<1>12. CASE Replace
  <2>1. part[file] \in Kept
    BY <1>12, Values DEF Replace, Held
  <2> QED BY <1>12, <2>1, <1>0, Values DEF Replace, Finished, write_github_output
<1>13. CASE Commit
  <2>1. repo' \in [Names -> Kept]
    BY <1>13, Values DEF Commit, FetchedWhole
  <2> QED BY <1>13, <2>1 DEF Commit
<1>14. ASSUME NEW f \in Names, NewVersion(f) PROVE DownloadTypeOK'
  <2>1. remote[f] + 1 \in Versions
    BY <1>14 DEF NewVersion, Versions
  <2> QED BY <1>14, <2>1 DEF NewVersion
<1> QED BY <1>1, <1>2, <1>3, <1>4, <1>5, <1>6, <1>7, <1>8, <1>9, <1>10, <1>11, <1>12, <1>13,
           <1>14 DEF DownloadNext

\* What is kept of the responses and files.
LEMMA DownloadFiles ==
    ASSUME DownloadInv, DownloadNext
    PROVE  FetchedWhole' /\ Held' /\ Behind'
<1> DEFINE P == FetchedWhole' /\ Held' /\ Behind'
<1> USE DEF DownloadInv, DownloadTypeOK, FetchedWhole, Held, Behind
<1>0. file \in Names
  BY FileIsName
<1>a. remote[file] \in Bodies /\ remote[file] # Cut /\ remote[file] <= remote[file]
  BY <1>0 DEF Bodies, Cut, Versions
<1>b. at' = at => file' = file
  BY DEF file
<1>c. Cut \notin Versions
  BY DEF Cut, Versions
<1>1. ASSUME Checkout PROVE P
  BY <1>1 DEF Checkout, Begin
<1>2. ASSUME NEW i \in 1..Len(Files), ByHand(i) PROVE P
  BY <1>2 DEF ByHand, Begin
<1>3. ASSUME NEW how \in {"memory", "stream", "unknown"}, Respond(how) PROVE P
  BY <1>3, <1>0, <1>a, <1>b DEF Respond, Answered
<1>4. ASSUME NEW how \in {"stream", "unknown"}, FetchAgain(how) PROVE P
  BY <1>4, <1>0, <1>a, <1>b DEF FetchAgain, Answered
<1>5. CASE Refused \/ ReadBreaks \/ Cancelled \/ PushFails
  BY <1>5 DEF Refused, ReadBreaks, Cancelled, PushFails, Failed, Over
<1>6. CASE Read
  BY <1>6, <1>b, <1>c DEF Read, Bodies
<1>7. CASE Unchanged
  BY <1>7 DEF Unchanged, Finished
<1>8. CASE Differs
  BY <1>8, <1>b DEF Differs, UseMemory
<1>9. CASE OpenPart
  BY <1>9, <1>b DEF OpenPart
<1>10. CASE FillPart
  <2>1. part'[file] \in {body, Cut} /\ Cut \notin Versions
    BY <1>10, <1>0 DEF FillPart, Cut, Versions
  <2>2. file' = file
    BY <1>10 DEF FillPart, file
  <2> QED BY <1>10, <2>1, <2>2 DEF FillPart, Bodies
<1>11. CASE FillBreaks
  BY <1>11 DEF FillBreaks, Failed, Over
<1>12. CASE Replace
  <2>1. dest' = [dest EXCEPT ![file] = part[file]] /\ part[file] \in Kept
    BY <1>12, Values DEF Replace
  <2>2. ASSUME part[file] \in Versions PROVE part[file] <= remote[file]
    BY <1>12, <2>2 DEF Replace
  <2>3. FetchedWhole'
    BY <1>0, <2>1
  <2>4. pc' \in {"idle", "commit", "request"} /\ UNCHANGED <<remote, repo>>
    BY <1>12 DEF Replace, Finished
  <2>5. Behind'
    BY <1>0, <2>1, <2>2, <2>4
  <2> QED BY <2>3, <2>4, <2>5
<1>13. CASE Commit
  BY <1>13 DEF Commit
<1>14. ASSUME NEW f \in Names, NewVersion(f) PROVE P
  <2>1. ASSUME NEW g \in Names, NEW v \in Versions, v <= remote[g] PROVE v <= remote'[g]
    <3>1. remote[g] \in Nat /\ remote'[g] \in {remote[g], remote[g] + 1} /\ v \in Nat
      BY <1>14 DEF NewVersion, Versions
    <3> QED BY <3>1, <2>1
  <2>4. file' = file
    BY <1>14 DEF NewVersion, file
  <2> QED BY <1>14, <1>0, <2>1, <2>4 DEF NewVersion
<1> QED BY <1>1, <1>2, <1>3, <1>4, <1>5, <1>6, <1>7, <1>8, <1>9, <1>10, <1>11, <1>12, <1>13,
           <1>14 DEF DownloadNext

\* What is about to be written is still another file than the local one.
LEMMA DownloadDiffers ==
    ASSUME DownloadInv, DownloadNext
    PROVE  Newer'
<1> USE DEF DownloadInv, DownloadTypeOK, Newer
<1>0. file \in Names
  BY FileIsName
<1>a. remote[file] \in Versions /\ dest[file] \in Kept
  BY <1>0 DEF FetchedWhole
<1>b. at' = at => file' = file
  BY DEF file
<1>c. Cut \notin Versions /\ NoFile \notin Bodies
  BY Values DEF Cut, Versions
<1>1. CASE Checkout \/ \E i \in 1..Len(Files) : ByHand(i)
  BY <1>1 DEF Checkout, ByHand, Begin
<1>2. ASSUME NEW how \in {"memory", "stream", "unknown"}, Respond(how) PROVE Newer'
  <2>1. dest[file] \in Versions => dest[file] <= remote[file]
    BY <1>0 DEF Behind
  <2>2. pc' = "write" => dest[file] = NoFile
    BY <1>2 DEF Respond, LocalExists
  <2>3. body' # NoFile
    BY <1>2, <1>a, Values DEF Respond, Answered, Bodies
  <2> QED BY <1>2, <1>0, <1>b, <2>1, <2>2, <2>3 DEF Respond, Answered
<1>3. ASSUME NEW how \in {"stream", "unknown"}, FetchAgain(how) PROVE Newer'
  <2>1. ~cut /\ dest[file] \in Versions => dest[file] < remote[file]
    BY <1>3 DEF FetchAgain
  <2>2. ~cut => dest[file] # remote[file]
    BY <2>1, <1>a DEF Versions
  <2> QED BY <1>3, <1>b, <2>2 DEF FetchAgain, Answered
<1>4. CASE Refused \/ ReadBreaks \/ Cancelled \/ PushFails \/ FillBreaks
  BY <1>4 DEF Refused, ReadBreaks, Cancelled, PushFails, FillBreaks, Failed, Over
<1>5. CASE Read
  BY <1>5, <1>b, <1>c DEF Read
<1>6. CASE Unchanged \/ Replace
  BY <1>6 DEF Unchanged, Replace, Finished
<1>7. CASE Differs
  <2>1. body \in Bodies /\ (body = Cut => cut) /\ body # dest[file]
    BY <1>7, <1>c DEF Differs, Held, LocalExists
  <2>2. body \in Versions => body <= remote[file]
    BY <1>7 DEF Differs, Behind
  <2>3. ~cut /\ dest[file] \in Versions => dest[file] < remote[file]
    BY <1>7, <1>a, <2>1, <2>2 DEF Differs, Bodies, Versions
  <2> QED BY <1>7, <1>b, <2>1, <2>3 DEF Differs
<1>8. CASE OpenPart
  BY <1>8, <1>b DEF OpenPart
<1>9. CASE FillPart
  <2>1. ~cut' => part'[file] = body
    BY <1>9, <1>0 DEF FillPart
  <2> QED BY <1>9, <1>b, <2>1 DEF FillPart
<1>10. CASE Commit
  BY <1>10 DEF Commit
<1>11. ASSUME NEW f \in Names, NewVersion(f) PROVE Newer'
  <2>1. remote[file] \in Nat /\ remote'[file] \in {remote[file], remote[file] + 1}
    BY <1>11, <1>0, <1>a DEF NewVersion, Versions
  <2>2. ASSUME dest[file] \in Versions, dest[file] < remote[file]
        PROVE  dest[file] < remote'[file]
    BY <2>1, <2>2 DEF Versions
  <2> QED BY <1>11, <1>b, <2>2 DEF NewVersion
<1> QED BY <1>1, <1>2, <1>3, <1>4, <1>5, <1>6, <1>7, <1>8, <1>9, <1>10, <1>11 DEF DownloadNext

\* The outputs go on telling which files differ.
LEMMA DownloadReports ==
    ASSUME DownloadInv, DownloadNext
    PROVE  Reported'
<1> USE DEF DownloadInv, DownloadTypeOK, Reported
<1>0. file \in Names
  BY FileIsName
<1>1. CASE Checkout
  BY <1>1 DEF Checkout, Begin
<1>2. ASSUME NEW i \in 1..Len(Files), ByHand(i) PROVE Reported'
  BY <1>2 DEF ByHand, Begin
<1>3. ASSUME NEW how \in {"memory", "stream", "unknown"}, Respond(how) \/ FetchAgain(how)
      PROVE  Reported'
  BY <1>3 DEF Respond, FetchAgain, Answered
<1>4. CASE Refused \/ ReadBreaks \/ Cancelled \/ PushFails \/ FillBreaks
  BY <1>4 DEF Refused, ReadBreaks, Cancelled, PushFails, FillBreaks, Failed, Over
<1>5. CASE Read
  BY <1>5 DEF Read
<1>6. CASE Unchanged
  BY <1>6 DEF Unchanged, Finished
<1>7. CASE Differs
  BY <1>7 DEF Differs
<1>8. CASE OpenPart
  BY <1>8 DEF OpenPart
<1>9. CASE FillPart
  BY <1>9 DEF FillPart
<1>10. CASE Replace
  <2> SUFFICES ASSUME workflow', pc' # "idle" PROVE Reported'
    BY <1>10 DEF Replace, Finished
  <2>1. workflow /\ changed' = changed \cup {file} /\ UNCHANGED <<repo, cut>>
    BY <1>10 DEF Replace, Finished, write_github_output
  <2>2. dest' = [dest EXCEPT ![file] = part[file]]
    BY <1>10 DEF Replace
  <2>3. file \notin changed /\ dest[file] = repo[file]
    BY <1>10, <1>0, <2>1 DEF Replace, file
  <2>4. cut \/ part[file] # repo[file]
    BY <1>10, <2>3 DEF Replace, Newer
  <2>5. \A f \in Names : f \in changed' \/ dest'[f] = repo'[f]
    BY <1>0, <2>1, <2>2, <1>10 DEF Replace
  <2>6. cut' \/ \A f \in changed' : dest'[f] # repo'[f]
    BY <1>0, <2>1, <2>2, <2>4, <1>10 DEF Replace
  <2>7. ASSUME pc' # "commit", NEW i \in 1..Len(Files), Files[i] \in changed' PROVE i < at'
    <3>1. at' = at + 1
      BY <1>10, <2>1, <2>7 DEF Replace, Finished
    <3>2. i < at \/ i = at
      BY <1>10, <2>1, <2>7 DEF Replace, file
    <3> QED BY <3>1, <3>2
  <2> QED BY <2>5, <2>6, <2>7
<1>11. CASE Commit
  BY <1>11 DEF Commit
<1>12. ASSUME NEW f \in Names, NewVersion(f) PROVE Reported'
  BY <1>12 DEF NewVersion
<1> QED BY <1>1, <1>2, <1>3, <1>4, <1>5, <1>6, <1>7, <1>8, <1>9, <1>10, <1>11, <1>12
        DEF DownloadNext

LEMMA DownloadStep ==
    ASSUME DownloadInv, DownloadNext
    PROVE  DownloadInv'
BY DownloadTypes, DownloadFiles, DownloadDiffers, DownloadReports DEF DownloadInv

-----------------------------------------------------------------------------
(* The Buildroot tree                                                      *)

LEMMA TreeInitially == TreeInit => TreeTypeOK
BY VolumesAssumption, BoundsAssumption DEF TreeInit, TreeTypeOK, Plans

\* A call starts, a step of it is done, or it ends.
LEMMA StartTypes ==
    ASSUME TreeTypeOK, NEW steps, NEW edits \in Plans, Start(steps, edits)
    PROVE  TreeTypeOK'
BY BoundsAssumption DEF Start, TreeTypeOK

LEMMA DoneTypes ==
    ASSUME TreeTypeOK, todo # <<>>, Done, base' \in {base, NoBase} \cup DOMAIN Stock
    PROVE  TreeTypeOK'
BY DEF Done, TreeTypeOK

LEMMA EndTypes ==
    ASSUME TreeTypeOK, NEW how \in {"failed", "killed"}, End(how), base' \in {base, NoBase},
           kills' \in {kills, kills + 1}, kills' = kills \/ kills < MaxKills
    PROVE  TreeTypeOK'
BY BoundsAssumption DEF End, TreeTypeOK, TreeTypeOK

LEMMA TreeTypes ==
    ASSUME TreeTypeOK, TreeCall \/ TreeStep \/ TreeStop
    PROVE  TreeTypeOK'
<1>1. ASSUME NEW upgrade \in BOOLEAN, NEW force \in BOOLEAN,
             GetBuildroot(upgrade, force) \/ GetAndCustomize(upgrade, force)
      PROVE  TreeTypeOK'
  BY <1>1, StartTypes DEF GetBuildroot, GetAndCustomize, Plans
<1>2. ASSUME UpdateKernelSupport \/ \E env \in Envs : UpdateRustVersion(env) PROVE TreeTypeOK'
  BY <1>2, StartTypes DEF UpdateKernelSupport, UpdateRustVersion, Plans
<1>3. CASE Preflight
  BY <1>3, DoneTypes, EndTypes DEF Preflight, Fails
<1>4. CASE Purge \/ Skip
  BY <1>4, DoneTypes DEF Purge, Skip
<1>5. CASE NoArchive
  BY <1>5, EndTypes DEF NoArchive, Fails
<1>6. ASSUME NEW r \in DOMAIN Stock, Get(r) PROVE TreeTypeOK'
  BY <1>6, DoneTypes DEF Get
<1>7. ASSUME NEW e, Edit(e) \/ AddPatch(e) \/ Link(e) PROVE TreeTypeOK'
  BY <1>7, DoneTypes DEF Edit, FileEdit, AddPatch, Link
<1>8. ASSUME NEW e, EditFails(e) PROVE TreeTypeOK'
  BY <1>8, EndTypes DEF EditFails, Fails
<1>9. CASE Kill \/ \E n \in 0..(Len(Archive) - 1) : PurgeStops(n)
  BY <1>9, EndTypes DEF Kill, PurgeStops, Interrupted
<1>10. ASSUME NEW r, NEW n, GetStops(r, n) PROVE TreeTypeOK'
  BY <1>10, EndTypes DEF GetStops
<1>11. ASSUME NEW e, WriteStops(e) \/ PatchStops(e) PROVE TreeTypeOK'
  BY <1>11, EndTypes DEF WriteStops, PatchStops, Interrupted
<1> QED BY <1>1, <1>2, <1>3, <1>4, <1>5, <1>6, <1>7, <1>8, <1>9, <1>10, <1>11
        DEF TreeCall, TreeStep, TreeStop

-----------------------------------------------------------------------------
(* The container                                                           *)

BoxTypeOK ==
    /\ phase \in Extracting \cup {"sources", "getBuildroot", "up"}
    /\ image \in Kept /\ tarball \in {NoFile, image}
    /\ builder \in Contents /\ marker \in BOOLEAN

\* Where extractImageBuilder.sh is tells what it has done.
Progress ==
    /\ phase \in {"sources", "tar", "touch"} => ~marker
    /\ phase = "rm" => marker
    /\ phase = "tar" => tarball # NoFile
    /\ phase = "touch" \/ marker => builder \in Versions
    /\ ~marker => tarball = image

Inv == DownloadInv /\ TreeTypeOK /\ BoxTypeOK /\ Progress

LEMMA Initially == Init => Inv
BY DownloadInitially, TreeInitially, Values DEF Init, Inv, BoxTypeOK, Progress, Extracting

LEMMA DeployStep ==
    ASSUME Inv, Deploy
    PROVE  Inv'
<1> USE DEF Inv, Deploy
<1>1. image' \in Kept
  BY ImageBuilderAssumption DEF DownloadInv, FetchedWhole
<1>2. BoxTypeOK' /\ Progress'
  BY <1>1 DEF BoxTypeOK, Progress, Extracting
<1>3. TreeTypeOK'
  BY DEF TreeTypeOK, treevars
<1>4. DownloadTypeOK'
  <2>1. /\ remote' \in [Names -> Versions] /\ NoCopies \in [Names -> Kept]
        /\ NoCopies \in [Names -> Contents]
    BY Values DEF NoCopies
  <2>2. at' \in 1..Len(Files) /\ body' \in Kept /\ jobs' \in 0..MaxJobs
    BY Values
  <2> QED BY <2>1, <2>2 DEF DownloadTypeOK
<1>5. FetchedWhole' /\ Held' /\ Behind' /\ Newer' /\ Reported'
  BY Values DEF NoCopies, FetchedWhole, Held, Behind, Newer, Reported, Versions, NoFile
<1> QED BY <1>2, <1>3, <1>4, <1>5 DEF DownloadInv

\* A line of extractImageBuilder.sh touches neither the sources nor the tree.
LEMMA LineStep ==
    ASSUME Inv, NEW l, NEW next, Line(l, next), BoxTypeOK', Progress'
    PROVE  Inv'
<1>1. UNCHANGED <<dlvars, treevars>>
  BY DEF Line
<1>2. DownloadInv'
  BY <1>1 DEF Inv, DownloadInv, DownloadTypeOK, FetchedWhole, Held, Behind, Newer, Reported,
              dlvars, file
<1>3. TreeTypeOK'
  BY <1>1 DEF Inv, TreeTypeOK, treevars
<1> QED BY <1>2, <1>3 DEF Inv

LEMMA Unmoved ==
    ASSUME Inv, UNCHANGED dlvars
    PROVE  DownloadInv'
BY DEF Inv, DownloadInv, DownloadTypeOK, FetchedWhole, Held, Behind, Newer, Reported, dlvars, file

LEMMA Step ==
    ASSUME Inv, [Next]_vars
    PROVE  Inv'
<1> USE DEF Inv
<1>1. CASE Download
  <2>1. DownloadInv'
    BY <1>1, DownloadStep DEF Download
  <2>2. TreeTypeOK' /\ BoxTypeOK' /\ Progress'
    BY <1>1 DEF Download, TreeTypeOK, treevars, boxvars, BoxTypeOK, Progress
  <2> QED BY <2>1, <2>2
<1>2. CASE Deploy
  BY <1>2, DeployStep
<1>3. CASE Extracted \/ NoTarball \/ FirstBoot
  <2>1. BoxTypeOK' /\ Progress'
    BY <1>3 DEF Extracted, NoTarball, FirstBoot, Line, BoxTypeOK, Progress, Extracting
  <2> QED BY <1>3, <2>1, LineStep DEF Extracted, NoTarball, FirstBoot
<1>4. CASE Untar
  <2>1. tarball \in Versions
    BY <1>4, Values DEF Untar, Line, BoxTypeOK, Progress, Kept
  <2>2. BoxTypeOK' /\ Progress'
    BY <1>4, <2>1, Values DEF Untar, Line, BoxTypeOK, Progress, Extracting
  <2> QED BY <1>4, <2>2, LineStep DEF Untar
<1>5. CASE UntarFails
  <2>1. BoxTypeOK' /\ Progress'
    BY <1>5, Values DEF UntarFails, Line, BoxTypeOK, Progress, Extracting, Partial
  <2> QED BY <1>5, <2>1, LineStep DEF UntarFails
<1>6. CASE TouchMarker \/ RemoveTarball
  <2>1. BoxTypeOK' /\ Progress'
    BY <1>6 DEF TouchMarker, RemoveTarball, Line, BoxTypeOK, Progress, Extracting
  <2> QED BY <1>6, <2>1, LineStep DEF TouchMarker, RemoveTarball
<1>7. CASE StartGetBuildroot
  <2>1. TreeTypeOK'
    BY <1>7, TreeTypes DEF StartGetBuildroot, TreeCall
  <2>2. BoxTypeOK' /\ Progress'
    BY <1>7 DEF StartGetBuildroot, BoxTypeOK, Progress
  <2> QED BY <1>7, <2>1, <2>2, Unmoved DEF StartGetBuildroot
<1>8. CASE InTree
  <2>1. TreeTypeOK'
    BY <1>8, TreeTypes DEF InTree
  <2>2. BoxTypeOK' /\ Progress'
    BY <1>8 DEF InTree, boxvars, BoxTypeOK, Progress
  <2> QED BY <1>8, <2>1, <2>2, Unmoved DEF InTree
<1>9. CASE Restart
  <2>1. TreeTypeOK'
    BY <1>9, BoundsAssumption DEF Restart, TreeTypeOK
  <2>2. BoxTypeOK' /\ Progress'
    BY <1>9, Values DEF Restart, BoxTypeOK, Progress, Extracting, Partial
  <2> QED BY <1>9, <2>1, <2>2, Unmoved DEF Restart
<1>10. CASE StartAgain
  <2>1. TreeTypeOK' /\ BoxTypeOK' /\ Progress'
    BY <1>10 DEF StartAgain, treevars, TreeTypeOK, BoxTypeOK, Progress, Extracting
  <2> QED BY <1>10, <2>1, Unmoved DEF StartAgain
<1>11. CASE UNCHANGED vars
  <2>1. TreeTypeOK' /\ BoxTypeOK' /\ Progress'
    BY <1>11 DEF vars, treevars, boxvars, TreeTypeOK, BoxTypeOK, Progress
  <2> QED BY <1>11, <2>1, Unmoved DEF vars
<1> QED BY <1>1, <1>2, <1>3, <1>4, <1>5, <1>6, <1>7, <1>8, <1>9, <1>10, <1>11 DEF Next

\* Inv is inductive, and true of every state that can be reached.
THEOREM Reachable == Spec => []Inv
<1>1. Init => Inv
  BY Initially
<1>2. Inv /\ [Next]_vars => Inv'
  BY Step
<1> QED BY <1>1, <1>2, PTL DEF Spec

\* Every variable keeps its type.
THEOREM TypeCorrect == Spec => []TypeOK
<1>1. Inv => TypeOK
  BY DEF Inv, DownloadInv, BoxTypeOK, TypeOK
<1> QED BY <1>1, Reachable, PTL

\* dependencyDownloader.py never leaves half a file where docker build or its
\* own next run takes it for a whole one.
THEOREM NeverHalf == Spec => []FetchedWhole
<1>1. Inv => FetchedWhole
  BY DEF Inv, DownloadInv
<1> QED BY <1>1, Reachable, PTL

\* The workflow commits just when a file differs from the repository, unless a
\* body was cut off on the way.
THEOREM CommitIsNeeded == Spec => []CommitsChanges
<1>1. Inv => CommitsChanges
  <2> SUFFICES ASSUME Inv, pc = "commit" PROVE CommitsChanges
    BY DEF CommitsChanges
  <2>1. dest # repo => \E f \in Names : dest[f] # repo[f]
    BY DEF Inv, DownloadInv, DownloadTypeOK
  <2> QED BY <2>1 DEF Inv, DownloadInv, Reported, CommitsChanges, DownloadTypeOK
<1> QED BY <1>1, Reachable, PTL

\* A marked builder is whole, and an unmarked one can still be extracted.
THEOREM MarkerTrusted == Spec => []MarkerMeansWhole
<1>1. Inv => MarkerMeansWhole
  BY DEF Inv, Progress, MarkerMeansWhole
<1> QED BY <1>1, Reachable, PTL

-----------------------------------------------------------------------------
(* The files only get newer                                                *)

\* Unless a body of this run was cut off, what it is about to write is newer
\* than the local copy, and the working tree of a workflow is nowhere behind the
\* repository.
Forward ==
    /\ pc \in {"write", "fill"} /\ ~cut =>
         body \in Versions /\ (dest[file] \in Versions => dest[file] < body)
    /\ pc = "replace" /\ ~cut =>
         part[file] \in Versions /\ (dest[file] \in Versions => dest[file] < part[file])
    /\ workflow /\ pc # "idle" /\ ~cut =>
         \A f \in Names : repo[f] \in Versions => dest[f] \in Versions /\ repo[f] <= dest[f]

LEMMA DownloadForward ==
    ASSUME DownloadInv, Forward, DownloadNext
    PROVE  Forward'
<1> USE DEF DownloadInv, DownloadTypeOK, Forward
<1>0. file \in Names
  BY FileIsName
<1>a. remote[file] \in Versions /\ dest[file] \in Kept
  BY <1>0 DEF FetchedWhole
<1>b. at' = at => file' = file
  BY DEF file
<1>c. Cut \notin Versions /\ NoFile \notin Versions \cup Bodies
  BY Values DEF Cut, Versions, NoFile
<1>1. CASE Checkout
  <2>1. \A f \in Names : repo[f] \in Versions => repo[f] <= repo[f]
    BY DEF Versions
  <2> QED BY <1>1, <2>1 DEF Checkout, Begin
<1>2. ASSUME NEW i \in 1..Len(Files), ByHand(i) PROVE Forward'
  BY <1>2 DEF ByHand, Begin
<1>3. ASSUME NEW how \in {"memory", "stream", "unknown"}, Respond(how) PROVE Forward'
  <2>1. pc' = "write" => dest[file] = NoFile
    BY <1>3 DEF Respond, LocalExists
  <2> QED BY <1>3, <1>a, <1>b, <1>c, <2>1 DEF Respond, Answered
<1>4. ASSUME NEW how \in {"stream", "unknown"}, FetchAgain(how) PROVE Forward'
  <2>1. ~cut /\ dest[file] \in Versions => dest[file] < remote[file]
    BY <1>4 DEF FetchAgain, Newer
  <2> QED BY <1>4, <1>a, <1>b, <2>1 DEF FetchAgain, Answered
<1>5. CASE Refused \/ ReadBreaks \/ Cancelled \/ PushFails \/ FillBreaks
  BY <1>5 DEF Refused, ReadBreaks, Cancelled, PushFails, FillBreaks, Failed, Over
<1>6. CASE Read
  BY <1>6, <1>b DEF Read
<1>7. CASE Unchanged
  BY <1>7 DEF Unchanged, Finished
<1>8. CASE Differs
  <2>1. body \in Bodies /\ (body = Cut => cut) /\ body # dest[file]
    BY <1>8, <1>c DEF Differs, Held, LocalExists
  <2>2. ~cut => body \in Versions
    BY <2>1 DEF Bodies
  <2>3. ~cut /\ dest[file] \in Versions => dest[file] < body
    BY <1>8, <1>c, <2>1, <2>2 DEF Differs, Newer, Versions
  <2> QED BY <1>8, <1>b, <2>2, <2>3 DEF Differs
<1>9. CASE OpenPart
  BY <1>9, <1>b DEF OpenPart
<1>10. CASE FillPart
  <2>1. ~cut' => part'[file] = body
    BY <1>10, <1>0 DEF FillPart
  <2> QED BY <1>10, <1>b, <2>1 DEF FillPart
<1>11. CASE Replace
  <2>1. /\ dest' = [dest EXCEPT ![file] = part[file]]
        /\ UNCHANGED <<repo, workflow, cut>>
        /\ pc' \in {"idle", "commit", "request"} /\ pc = "replace"
    BY <1>11 DEF Replace, Finished
  <2>2. ASSUME workflow, ~cut, NEW f \in Names, repo[f] \in Versions
        PROVE  dest'[f] \in Versions /\ repo[f] <= dest'[f]
    <3>1. dest[f] \in Versions /\ repo[f] <= dest[f]
      BY <2>1, <2>2
    <3>2. CASE f = file
      <4>1. dest'[f] = part[file] /\ part[file] \in Versions /\ dest[f] < part[file]
        BY <1>0, <2>1, <2>2, <3>1, <3>2
      <4> QED BY <2>2, <3>1, <4>1 DEF Versions
    <3>3. CASE f # file
      BY <2>1, <3>1, <3>3
    <3> QED BY <3>2, <3>3
  <2> QED BY <2>1, <2>2
<1>12. CASE Commit
  BY <1>12 DEF Commit
<1>13. ASSUME NEW f \in Names, NewVersion(f) PROVE Forward'
  BY <1>13, <1>b DEF NewVersion
<1> QED BY <1>1, <1>2, <1>3, <1>4, <1>5, <1>6, <1>7, <1>8, <1>9, <1>10, <1>11, <1>12, <1>13
        DEF DownloadNext

LEMMA ForwardStep ==
    ASSUME Inv, Forward, [Next]_vars
    PROVE  Forward'
<1>1. CASE Download
  BY <1>1, DownloadForward DEF Download, Inv
<1>2. CASE Deploy
  BY <1>2 DEF Deploy, Forward
<1>3. CASE UNCHANGED dlvars
  BY <1>3 DEF Forward, dlvars, file
<1>4. Download \/ Deploy \/ UNCHANGED dlvars
  BY DEF Next, vars, Extracted, NoTarball, FirstBoot, Untar, UntarFails, TouchMarker,
         RemoveTarball, Line, StartGetBuildroot, InTree, Restart, StartAgain
<1> QED BY <1>1, <1>2, <1>3, <1>4

\* A run that replaces a version replaces it by a later one, and the workflow
\* commits no file that is older than the one in the repository: however the
\* server changes between the comparison and the second fetch of the streaming
\* path.  Only a body that was cut off can break this.
NeverBackwards ==
    [][Download /\ ~cut =>
         /\ pc = "replace" /\ dest[file] \in Versions /\ dest'[file] # dest[file] =>
              dest'[file] \in Versions /\ dest[file] < dest'[file]
         /\ \A f \in Names :
              repo[f] \in Versions => repo'[f] \in Versions /\ repo[f] <= repo'[f]]_vars

\* The versions in the working tree and in the repository only go up,
\* for any files, any number of versions and runs.
THEOREM OnlyNewer == Spec => NeverBackwards
<1>1. Init => Forward
  BY DEF Init, DownloadInit, Forward
<1>2. ASSUME Inv, Forward, Download, ~cut
      PROVE  /\ pc = "replace" /\ dest[file] \in Versions /\ dest'[file] # dest[file] =>
                  dest'[file] \in Versions /\ dest[file] < dest'[file]
             /\ \A f \in Names :
                  repo[f] \in Versions => repo'[f] \in Versions /\ repo[f] <= repo'[f]
  <2>0. DownloadInv /\ DownloadTypeOK /\ DownloadNext /\ file \in Names
    BY <1>2, FileIsName DEF Inv, DownloadInv, Download
  <2>1. ASSUME pc = "replace", dest[file] \in Versions, dest'[file] # dest[file]
        PROVE  dest'[file] \in Versions /\ dest[file] < dest'[file]
    <3>1. dest' \in {dest, [dest EXCEPT ![file] = part[file]]}
      BY <2>0, <2>1 DEF DownloadNext, Checkout, ByHand, Begin, Respond, FetchAgain, Answered,
         Refused, Read, ReadBreaks, Unchanged, Differs, OpenPart, FillPart, FillBreaks, Replace,
         Commit, PushFails, Cancelled, Failed, Over, NewVersion
    <3>2. dest'[file] = part[file]
      BY <2>0, <2>1, <3>1 DEF DownloadTypeOK
    <3> QED BY <1>2, <2>1, <3>2 DEF Forward
  <2>2. ASSUME NEW f \in Names, repo[f] \in Versions
        PROVE  repo'[f] \in Versions /\ repo[f] <= repo'[f]
    <3>1. repo' = repo \/ (Commit /\ repo' = dest)
      BY <2>0 DEF DownloadNext, Checkout, ByHand, Begin, Respond, FetchAgain, Answered,
         Refused, Read, ReadBreaks, Unchanged, Differs, OpenPart, FillPart, FillBreaks, Replace,
         Finished, Commit, PushFails, Cancelled, Failed, Over, NewVersion
    <3>2. CASE repo' = repo
      BY <2>2, <3>2 DEF Versions
    <3>3. CASE Commit /\ repo' = dest
      <4>1. workflow /\ pc # "idle"
        BY <2>0, <3>3 DEF Commit, DownloadInv, Reported
      <4> QED BY <1>2, <2>2, <3>3, <4>1 DEF Forward
    <3> QED BY <3>1, <3>2, <3>3
  <2> QED BY <2>1, <2>2
<1> QED BY <1>1, <1>2, ForwardStep, Reachable, PTL DEF Spec, NeverBackwards

-----------------------------------------------------------------------------
(* The plans of edits                                                      *)

\* No edit has the name of a step of the download, or that of the Makefile.
NotEdits == {"purge", "get", "Makefile"}
Hashing == {"package/fetch-hash.mk", "package/fetch_hash_helper.py", FETCH}

LEMMA FetchHashEdits ==
    /\ IsText(FetchHash) /\ \A l : Contains(FetchHash, l) <=> l \in Hashing
    /\ \A l \in NotEdits : ~Contains(FetchHash, l)
<1>1. IsText(FetchHash) /\ \A l : Contains(FetchHash, l) <=> l \in Hashing
  BY ThreeLine DEF FetchHash, Hashing
<1>2. NotEdits \cap Hashing = {}
  BY DEF NotEdits, Hashing, FETCH
<1> QED BY <1>1, <1>2

LEMMA CustomizeEdits ==
    /\ IsText(Customize) /\ \A l \in NotEdits : ~Contains(Customize, l)
    /\ \A l \in Hashing \cup {"systemd/systemd.mk", "linux-pam/linux-pam.mk"} :
         Contains(Customize, l)
<1> DEFINE a == <<"package/custom-late.mk", LATE>>
           b == <<"Config.in", PURGE, "linux-tool-gpio.mk.in", "linux-tool-pci.mk.in",
                  "openvmtools", "espflash/4.0.1",
                  "systemd/Config.in", "systemd/systemd.mk",
                  "linux-pam/Config.in", "linux-pam/linux-pam.mk",
                  "espflash/Config.in", "espflash/espflash.mk",
                  "ruby/Config.in", "ruby/ruby.mk">>
           A == {"package/custom-late.mk", LATE}
           B == {"Config.in", PURGE, "linux-tool-gpio.mk.in", "linux-tool-pci.mk.in",
                 "openvmtools", "espflash/4.0.1",
                 "systemd/Config.in", "systemd/systemd.mk",
                 "linux-pam/Config.in", "linux-pam/linux-pam.mk",
                 "espflash/Config.in", "espflash/espflash.mk",
                 "ruby/Config.in", "ruby/ruby.mk"}
<1>1. IsText(a) /\ \A l : Contains(a, l) <=> l \in A
  BY TwoLine
<1>2. IsText(b) /\ \A l : Contains(b, l) <=> l \in B
  BY FourteenLine
<1>3. Customize = a \o FetchHash \o b
  BY DEF Customize
<1>4. NotEdits \cap A = {} /\ NotEdits \cap B = {}
  BY DEF NotEdits, LATE, PURGE
<1>5. {"systemd/systemd.mk", "linux-pam/linux-pam.mk"} \subseteq B
  OBVIOUS
<1> HIDE DEF a, b, A, B
<1>6. /\ IsText(a \o FetchHash)
      /\ \A l : Contains(a \o FetchHash, l) <=> Contains(a, l) \/ Contains(FetchHash, l)
  BY <1>1, FetchHashEdits, JoinedText
<1> DEFINE c == a \o FetchHash
<1> HIDE DEF c
<1>7. IsText(c \o b) /\ \A l : Contains(c \o b, l) <=> Contains(c, l) \/ Contains(b, l)
  BY <1>2, <1>6, JoinedText DEF c
<1>8. Customize = c \o b
  BY <1>3 DEF c
<1> QED BY <1>1, <1>2, <1>4, <1>5, <1>6, <1>7, <1>8, FetchHashEdits DEF c

LEMMA UpdateKernelEdits ==
    /\ IsText(UpdateKernel) /\ \A l \in NotEdits : ~Contains(UpdateKernel, l)
    /\ \A l \in Hashing : Contains(UpdateKernel, l)
<1> DEFINE a == <<"linux-headers/Config.in.host", "toolchain/Config.in", "linux/Config.in",
                  "linux/7.2.9", "linux-headers/7.2.9">>
           A == {"linux-headers/Config.in.host", "toolchain/Config.in", "linux/Config.in",
                  "linux/7.2.9", "linux-headers/7.2.9"}
<1>1. IsText(a) /\ \A l : Contains(a, l) <=> l \in A
  BY FiveLine
<1>2. UpdateKernel = a \o FetchHash
  BY DEF UpdateKernel
<1>3. NotEdits \cap A = {}
  BY DEF NotEdits
<1> HIDE DEF a, A
<1>4. /\ IsText(a \o FetchHash)
      /\ \A l : Contains(a \o FetchHash, l) <=> Contains(a, l) \/ Contains(FetchHash, l)
  BY <1>1, FetchHashEdits, JoinedText
<1> QED BY <1>1, <1>2, <1>3, <1>4, FetchHashEdits

LEMMA UpdateRustEdits ==
    ASSUME NEW env
    PROVE  LET p == UpdateRust(env) IN
           /\ IsText(p) /\ \A l \in NotEdits : ~Contains(p, l)
           /\ p # <<>> => \A l \in Hashing : Contains(p, l)
<1> DEFINE two == <<"rust/rust.mk", "rust-bin/rust-bin.mk">>
           one == <<"rust-bindgen/rust-bindgen.mk">>
           a == IF "RUST_VERSION" \in env THEN two ELSE <<>>
           b == IF "RUST_BINDGEN_VERSION" \in env THEN one ELSE <<>>
           c == IF env = {} THEN <<>> ELSE FetchHash
<1>1. IsText(a) /\ \A l \in NotEdits : ~Contains(a, l)
  <2>1. IsText(two) /\ \A l \in NotEdits : ~Contains(two, l)
    <3>1. NotEdits \cap {"rust/rust.mk", "rust-bin/rust-bin.mk"} = {}
      BY DEF NotEdits
    <3> QED BY <3>1, TwoLine
  <2> HIDE DEF two
  <2> QED BY <2>1, EmptyText
<1>2. IsText(b) /\ \A l \in NotEdits : ~Contains(b, l)
  <2>1. IsText(one) /\ \A l \in NotEdits : ~Contains(one, l)
    <3>1. NotEdits \cap {"rust-bindgen/rust-bindgen.mk"} = {}
      BY DEF NotEdits
    <3> QED BY <3>1, OneLine
  <2> HIDE DEF one
  <2> QED BY <2>1, EmptyText
<1>3. /\ IsText(c) /\ \A l \in NotEdits : ~Contains(c, l)
      /\ env # {} => \A l \in Hashing : Contains(c, l)
  BY FetchHashEdits, EmptyText
<1>4. UpdateRust(env) = a \o b \o c
  BY DEF UpdateRust
<1>5. env = {} => UpdateRust(env) = <<>>
  BY DEF UpdateRust
<1> HIDE DEF a, b, c
<1>6. IsText(a \o b) /\ \A l : Contains(a \o b, l) <=> Contains(a, l) \/ Contains(b, l)
  BY <1>1, <1>2, JoinedText
<1> DEFINE d == a \o b
<1> HIDE DEF d
<1>7. IsText(d \o c) /\ \A l : Contains(d \o c, l) <=> Contains(d, l) \/ Contains(c, l)
  BY <1>3, <1>6, JoinedText DEF d
<1>8. UpdateRust(env) = d \o c
  BY <1>4 DEF d
<1> QED BY <1>1, <1>2, <1>3, <1>5, <1>6, <1>7, <1>8 DEF d

LEMMA PlanEdits ==
    ASSUME NEW p \in Plans
    PROVE  /\ IsText(p) /\ \A l \in NotEdits : ~Contains(p, l)
           /\ p # <<>> => \A l \in Hashing : Contains(p, l)
           /\ p = Customize => Contains(p, "systemd/systemd.mk") /\ Contains(p, "linux-pam/linux-pam.mk")
<1>1. p = <<>> \/ p = Customize \/ p = UpdateKernel \/ \E env \in Envs : p = UpdateRust(env)
  BY DEF Plans
<1>2. CASE p = <<>>
  BY <1>2, EmptyText, CustomizeEdits
<1>3. CASE p = Customize
  BY <1>3, CustomizeEdits
<1>4. CASE p = UpdateKernel
  BY <1>4, UpdateKernelEdits, CustomizeEdits
<1>5. ASSUME NEW env, p = UpdateRust(env)
      PROVE  /\ IsText(p) /\ \A l \in NotEdits : ~Contains(p, l)
             /\ p # <<>> => \A l \in Hashing : Contains(p, l)
             /\ p = Customize => Contains(p, "systemd/systemd.mk") /\ Contains(p, "linux-pam/linux-pam.mk")
  BY <1>5, UpdateRustEdits, CustomizeEdits
<1> QED BY <1>1, <1>2, <1>3, <1>4, <1>5

-----------------------------------------------------------------------------
(* What the edits of the tree leave behind                                 *)

\* The files whose lines HashesChecked is about are texts.
TextFiles == {"Makefile", "systemd/systemd.mk", "linux-pam/linux-pam.mk"}
TreeTexts == \A f \in TextFiles \cap DOMAIN tree : IsText(tree[f])

\* The edits of a call are done from the first to the last: what is left to do
\* ends as its plan ends.
Agree ==
    \A i \in 1..Len(plan) :
        i <= Len(todo) => todo[Len(todo) + 1 - i] = plan[Len(plan) + 1 - i]

\* What an edit leaves in the tree until the end of its call.
Has(edit) ==
    /\ edit = "package/fetch-hash.mk" => edit \in DOMAIN tree /\ tree[edit] = fetch_hash_mk
    /\ edit = "package/fetch_hash_helper.py" =>
         edit \in DOMAIN tree /\ tree[edit] = fetch_hash_helper
    /\ edit = FETCH =>
         "Makefile" \in DOMAIN tree /\ Contains(tree["Makefile"], FETCH_HASH_INCLUDE_MARKER)
    /\ edit = "systemd/systemd.mk" =>
         ({"systemd/Config.in", "systemd/systemd.mk"} \subseteq DOMAIN tree
            => ~Contains(tree["systemd/systemd.mk"], SYSTEMD_NO_HASH))
    /\ edit = "linux-pam/linux-pam.mk" =>
         ({"linux-pam/Config.in", "linux-pam/linux-pam.mk"} \subseteq DOMAIN tree
            => ~Contains(tree["linux-pam/linux-pam.mk"], LINUX_PAM_NO_HASH))

\* The edits that are no longer ahead have been done.
Applied == \A i \in 1..Len(plan) : i + Len(todo) <= Len(plan) => Has(plan[i])

TreeInv ==
    /\ IsText(todo)
    /\ TreeTexts
    /\ result \in {"running", "ok"} => Agree /\ Applied

\* The edits of the files HashesChecked is about.
LEMMA PatchedFiles ==
    ASSUME NEW text
    PROVE  /\ Patched("package/fetch-hash.mk", text) = fetch_hash_mk
           /\ Patched("package/fetch_hash_helper.py", text) = fetch_hash_helper
           /\ Patched(LATE, text) = included(text, CUSTOM_LATE_INCLUDE_BLOCK)
           /\ Patched(FETCH, text) = included(text, FETCH_HASH_INCLUDE_BLOCK)
           /\ Patched(PURGE, text) = patch_makefile(text)
           /\ Patched("systemd/systemd.mk", text) = patch_systemd_mk(text)
           /\ Patched("linux-pam/linux-pam.mk", text) = patch_linux_pam_mk(text)
BY DEF Patched, LATE, FETCH, PURGE

LEMMA EditedFile ==
    ASSUME NEW edit, edit \notin NotEdits
    PROVE  /\ FileOf(edit) = "Makefile" <=> edit \in {LATE, FETCH, PURGE}
           /\ FileOf(edit) # "Makefile" => FileOf(edit) = edit
           /\ edit \in Generated => FileOf(edit) = edit
BY DEF FileOf, OfMakefile, NotEdits, Generated, LATE, FETCH, PURGE

LEMMA EditedText ==
    ASSUME TreeTexts, NEW edit, edit \notin NotEdits, FileOf(edit) \in TextFiles,
           After(edit) # SystemExit
    PROVE  /\ FileOf(edit) \in DOMAIN tree /\ IsText(After(edit))
           /\ edit = "systemd/systemd.mk" => ~Contains(After(edit), SYSTEMD_NO_HASH)
           /\ edit = "linux-pam/linux-pam.mk" => ~Contains(After(edit), LINUX_PAM_NO_HASH)
           /\ edit = FETCH => Contains(After(edit), FETCH_HASH_INCLUDE_MARKER)
           /\ edit \in {LATE, PURGE} /\ Contains(tree["Makefile"], FETCH_HASH_INCLUDE_MARKER) =>
                Contains(After(edit), FETCH_HASH_INCLUDE_MARKER)
<1> DEFINE text == tree[FileOf(edit)]
<1>1. FileOf(edit) \in DOMAIN tree /\ After(edit) = Patched(edit, text)
  <2>1. edit \notin Generated
    <3>1. TextFiles \cap Generated = {}
      BY DEF TextFiles, Generated
    <3> QED BY <3>1, EditedFile
  <2> QED BY <2>1 DEF After, Before, Exists
<1>2. IsText(text)
  BY <1>1 DEF TreeTexts
<1>3. /\ edit \in {LATE, FETCH, PURGE, "systemd/systemd.mk", "linux-pam/linux-pam.mk"}
      /\ edit \in {LATE, FETCH, PURGE} => text = tree["Makefile"]
  BY EditedFile DEF TextFiles
<1>4. CASE edit = LATE
  <2>1. After(edit) = included(text, CUSTOM_LATE_INCLUDE_BLOCK)
    BY <1>1, <1>4, PatchedFiles
  <2>2. edit \notin {FETCH, "systemd/systemd.mk", "linux-pam/linux-pam.mk"}
    BY <1>4 DEF LATE, FETCH
  <2> HIDE DEF text
  <2> QED BY <1>1, <1>2, <1>3, <1>4, <2>1, <2>2, IncludeBlocks, IncludedText
<1>5. CASE edit = FETCH
  <2>1. After(edit) = included(text, FETCH_HASH_INCLUDE_BLOCK)
    BY <1>1, <1>5, PatchedFiles
  <2>2. edit \notin {"systemd/systemd.mk", "linux-pam/linux-pam.mk"}
    BY <1>5 DEF FETCH
  <2>3. FETCH_HASH_INCLUDE_BLOCK[2] = FETCH_HASH_INCLUDE_MARKER
    BY DEF FETCH_HASH_INCLUDE_BLOCK
  <2> HIDE DEF text
  <2> QED BY <1>1, <1>2, <2>1, <2>2, <2>3, IncludeBlocks, IncludedText
<1>6. CASE edit = PURGE
  <2>1. After(edit) = patch_makefile(text)
    BY <1>1, <1>6, PatchedFiles
  <2>2. edit \notin {FETCH, "systemd/systemd.mk", "linux-pam/linux-pam.mk"}
    BY <1>6 DEF PURGE, FETCH
  <2>3. FETCH_HASH_INCLUDE_MARKER \notin Rewritten
    BY DEF FETCH_HASH_INCLUDE_MARKER, Rewritten
  <2> HIDE DEF text
  <2> QED BY <1>1, <1>2, <1>3, <1>6, <2>1, <2>2, <2>3, PatchedMakefile
<1>7. CASE edit = "systemd/systemd.mk"
  <2>1. After(edit) = patch_systemd_mk(text)
    BY <1>1, <1>7, PatchedFiles
  <2>2. edit \notin {LATE, FETCH, PURGE, "linux-pam/linux-pam.mk"}
    BY <1>7 DEF LATE, PURGE, FETCH
  <2> HIDE DEF text
  <2> QED BY <1>1, <1>2, <2>1, <2>2, PatchedSystemd
<1>8. CASE edit = "linux-pam/linux-pam.mk"
  <2>1. After(edit) = patch_linux_pam_mk(text)
    BY <1>1, <1>8, PatchedFiles
  <2>2. edit \notin {LATE, FETCH, PURGE, "systemd/systemd.mk"}
    BY <1>8 DEF LATE, PURGE, FETCH
  <2> HIDE DEF text
  <2> QED BY <1>1, <1>2, <2>1, <2>2, PatchedLinuxPam
<1> QED BY <1>3, <1>4, <1>5, <1>6, <1>7, <1>8

\* An edit writes one file.
LEMMA PutFile ==
    ASSUME NEW name, NEW text, Put(name, text)
    PROVE  /\ DOMAIN tree' = DOMAIN tree \cup {name} /\ tree'[name] = text
           /\ \A f \in DOMAIN tree : f # name => tree'[f] = tree[f]
BY DEF Put, Merged

LEMMA PutText ==
    ASSUME TreeTexts, NEW name, NEW text, Put(name, text), name \in TextFiles => IsText(text)
    PROVE  TreeTexts'
<1> SUFFICES ASSUME NEW f \in TextFiles \cap DOMAIN tree' PROVE IsText(tree'[f])
  BY DEF TreeTexts
<1>1. /\ DOMAIN tree' = DOMAIN tree \cup {name} /\ tree'[name] = text
      /\ \A g \in DOMAIN tree : g # name => tree'[g] = tree[g]
  BY PutFile
<1>2. CASE f = name
  BY <1>1, <1>2
<1>3. CASE f # name
  BY <1>1, <1>3 DEF TreeTexts
<1> QED BY <1>2, <1>3

LEMMA StockText ==
    ASSUME TreeTexts, NEW r \in DOMAIN Stock, NEW n, Unpacked(r, n)
    PROVE  TreeTexts'
<1> DEFINE names == {Archive[i] : i \in 1..n}
           new == [f \in names \cap DOMAIN Stock[r] |-> Stock[r][f]]
<1>1. tree' = Merged(new, tree)
  BY DEF Unpacked
<1>2. \A f \in DOMAIN new : f \in DOMAIN Stock[r] /\ new[f] = Stock[r][f]
  OBVIOUS
<1> HIDE DEF new
<1>3. \A f \in DOMAIN tree' : IF f \in DOMAIN new THEN tree'[f] = new[f]
                              ELSE f \in DOMAIN tree /\ tree'[f] = tree[f]
  BY <1>1 DEF Merged
<1>4. \A f \in DOMAIN Stock[r] : IsText(Stock[r][f])
  BY TextsAssumption DEF IsText
<1> QED BY <1>2, <1>3, <1>4 DEF TreeTexts

LEMMA TornText ==
    ASSUME NEW text, IsText(text), NEW t \in Torn(text)
    PROVE  IsText(t)
<1>1. PICK A : text \in Seq(A)
  BY DEF IsText
<1>2. PICK n \in 0..(Len(text) - 1) : t = SubSeq(text, 1, n)
  BY DEF Torn
<1>3. t \in Seq(A)
  BY <1>1, <1>2
<1> QED BY <1>3 DEF IsText

\* Writing a file that Has does not look at leaves what there is.
LEMMA OtherFile ==
    ASSUME NEW name, NEW text, Put(name, text),
           name \notin {"package/fetch-hash.mk", "package/fetch_hash_helper.py", "Makefile",
                        "systemd/Config.in", "systemd/systemd.mk",
                        "linux-pam/Config.in", "linux-pam/linux-pam.mk"},
           NEW edit, Has(edit)
    PROVE  Has(edit)'
<1>1. /\ DOMAIN tree' = DOMAIN tree \cup {name}
      /\ \A f \in DOMAIN tree : f # name => tree'[f] = tree[f]
  BY PutFile
<1>2. ASSUME NEW f \in {"package/fetch-hash.mk", "package/fetch_hash_helper.py", "Makefile",
                        "systemd/Config.in", "systemd/systemd.mk",
                        "linux-pam/Config.in", "linux-pam/linux-pam.mk"}
      PROVE  (f \in DOMAIN tree' <=> f \in DOMAIN tree) /\ (f \in DOMAIN tree => tree'[f] = tree[f])
  BY <1>1, <1>2
<1> QED BY <1>2 DEF Has

\* An edit leaves what it is for, and what the others have left.
LEMMA EditKeeps ==
    ASSUME TreeTexts, NEW edit, edit \notin NotEdits, After(edit) # SystemExit,
           Put(FileOf(edit), After(edit)), NEW e, e \notin NotEdits, e = edit \/ Has(e)
    PROVE  Has(e)'
<1> DEFINE name == FileOf(edit)
           text == After(edit)
<1>1. /\ DOMAIN tree' = DOMAIN tree \cup {name} /\ tree'[name] = text
      /\ \A f \in DOMAIN tree : f # name => tree'[f] = tree[f]
  BY PutFile
<1>2. name \in DOMAIN tree \/ edit \in Generated
  BY DEF After, Exists
<1>3. name # "Makefile" => name = edit
  BY EditedFile
<1>4. edit \in {"package/fetch-hash.mk", "package/fetch_hash_helper.py"} => name = edit
  BY EditedFile DEF Generated
<1>5. /\ edit = "package/fetch-hash.mk" => text = fetch_hash_mk
      /\ edit = "package/fetch_hash_helper.py" => text = fetch_hash_helper
  BY PatchedFiles DEF After, Generated
<1>6. name = "Makefile" <=> edit \in {LATE, FETCH, PURGE}
  BY EditedFile
<1>7. name \in TextFiles =>
        /\ name \in DOMAIN tree
        /\ edit = "systemd/systemd.mk" => ~Contains(text, SYSTEMD_NO_HASH)
        /\ edit = "linux-pam/linux-pam.mk" => ~Contains(text, LINUX_PAM_NO_HASH)
        /\ edit = FETCH => Contains(text, FETCH_HASH_INCLUDE_MARKER)
        /\ edit \in {LATE, PURGE} /\ Contains(tree["Makefile"], FETCH_HASH_INCLUDE_MARKER) =>
             Contains(text, FETCH_HASH_INCLUDE_MARKER)
  BY EditedText
<1> HIDE DEF name, text
<1>8. CASE e = "package/fetch-hash.mk"
  <2>1. e \in DOMAIN tree' /\ tree'[e] = fetch_hash_mk
    BY <1>1, <1>3, <1>4, <1>5, <1>8 DEF Has
  <2> QED BY <1>8, <2>1 DEF Has, FETCH
<1>9. CASE e = "package/fetch_hash_helper.py"
  <2>1. e \in DOMAIN tree' /\ tree'[e] = fetch_hash_helper
    BY <1>1, <1>3, <1>4, <1>5, <1>9 DEF Has
  <2> QED BY <1>9, <2>1 DEF Has, FETCH
<1>10. CASE e = FETCH
  <2>1. "Makefile" \in DOMAIN tree' /\ Contains(tree'["Makefile"], FETCH_HASH_INCLUDE_MARKER)
    <3>1. CASE name = "Makefile"
      BY <1>1, <1>6, <1>7, <1>10, <3>1 DEF Has, TextFiles
    <3>2. CASE name # "Makefile"
      <4>1. e # edit
        BY <1>6, <1>10, <3>2
      <4> QED BY <1>1, <1>10, <3>2, <4>1 DEF Has
    <3> QED BY <3>1, <3>2
  <2> QED BY <1>10, <2>1 DEF Has, FETCH
<1>11. CASE e = "systemd/systemd.mk"
  <2> SUFFICES ASSUME {"systemd/Config.in", "systemd/systemd.mk"} \subseteq DOMAIN tree'
               PROVE  ~Contains(tree'["systemd/systemd.mk"], SYSTEMD_NO_HASH)
    BY <1>11 DEF Has, FETCH
  <2>1. {"systemd/Config.in", "systemd/systemd.mk"} \subseteq DOMAIN tree
    <3>1. name \in Generated => name \notin {"systemd/Config.in", "systemd/systemd.mk"}
      BY DEF Generated
    <3>2. name \in DOMAIN tree \/ name \in Generated
      BY <1>2, EditedFile DEF name
    <3> QED BY <1>1, <3>1, <3>2
  <2>2. CASE name = "systemd/systemd.mk"
    <3>1. name \in TextFiles /\ edit = "systemd/systemd.mk"
      BY <1>3, <2>2 DEF TextFiles
    <3> QED BY <1>1, <1>7, <2>2, <3>1
  <2>3. CASE name # "systemd/systemd.mk"
    <3>1. e # edit
      BY <1>3, <1>6, <1>11, <2>3 DEF LATE, FETCH, PURGE
    <3> QED BY <1>1, <1>11, <2>1, <2>3, <3>1 DEF Has
  <2> QED BY <2>2, <2>3
<1>12. CASE e = "linux-pam/linux-pam.mk"
  <2> SUFFICES ASSUME {"linux-pam/Config.in", "linux-pam/linux-pam.mk"} \subseteq DOMAIN tree'
               PROVE  ~Contains(tree'["linux-pam/linux-pam.mk"], LINUX_PAM_NO_HASH)
    BY <1>12 DEF Has, FETCH
  <2>1. {"linux-pam/Config.in", "linux-pam/linux-pam.mk"} \subseteq DOMAIN tree
    <3>1. name \in Generated => name \notin {"linux-pam/Config.in", "linux-pam/linux-pam.mk"}
      BY DEF Generated
    <3>2. name \in DOMAIN tree \/ name \in Generated
      BY <1>2, EditedFile DEF name
    <3> QED BY <1>1, <3>1, <3>2
  <2>2. CASE name = "linux-pam/linux-pam.mk"
    <3>1. name \in TextFiles /\ edit = "linux-pam/linux-pam.mk"
      BY <1>3, <2>2 DEF TextFiles
    <3> QED BY <1>1, <1>7, <2>2, <3>1
  <2>3. CASE name # "linux-pam/linux-pam.mk"
    <3>1. e # edit
      BY <1>3, <1>6, <1>12, <2>3 DEF LATE, FETCH, PURGE
    <3> QED BY <1>1, <1>12, <2>1, <2>3, <3>1 DEF Has
  <2> QED BY <2>2, <2>3
<1>13. CASE e \notin {"package/fetch-hash.mk", "package/fetch_hash_helper.py", FETCH,
                      "systemd/systemd.mk", "linux-pam/linux-pam.mk"}
  BY <1>13 DEF Has
<1> QED BY <1>8, <1>9, <1>10, <1>11, <1>12, <1>13

\* A step of the call is done that is one of the edits, or none of them.
LEMMA TailText ==
    ASSUME NEW t, IsText(t), t # <<>>
    PROVE  /\ IsText(Tail(t)) /\ Len(Tail(t)) = Len(t) - 1 /\ Len(t) \in Nat \ {0}
           /\ Head(t) = t[1] /\ \A i \in 1..(Len(t) - 1) : Tail(t)[i] = t[i + 1]
<1>1. PICK A : t \in Seq(A)
  BY DEF IsText
<1>2. Tail(t) \in Seq(A) /\ Len(Tail(t)) = Len(t) - 1 /\ Len(t) \in Nat \ {0}
  BY <1>1
<1>3. Head(t) = t[1] /\ \A i \in 1..(Len(t) - 1) : Tail(t)[i] = t[i + 1]
  BY <1>1
<1> QED BY <1>2, <1>3 DEF IsText

LEMMA TodoDone ==
    ASSUME TreeTypeOK, TreeInv, todo # <<>>, Done
    PROVE  /\ IsText(todo') /\ Len(todo') = Len(todo) - 1 /\ Len(todo) \in Nat \ {0}
           /\ Len(plan) \in Nat /\ plan' = plan /\ Agree' /\ Applied
           /\ Len(todo) <= Len(plan) => Head(todo) = plan[Len(plan) + 1 - Len(todo)]
<1>1. Agree /\ Applied /\ plan' = plan /\ todo' = Tail(todo)
  BY DEF TreeTypeOK, TreeInv, Done
<1>2. /\ IsText(todo') /\ Len(todo') = Len(todo) - 1 /\ Len(todo) \in Nat \ {0}
      /\ Head(todo) = todo[1] /\ \A i \in 1..(Len(todo) - 1) : todo'[i] = todo[i + 1]
  BY <1>1, TailText DEF TreeInv
<1>3. Len(plan) \in Nat
  <2>1. IsText(plan)
    BY PlanEdits DEF TreeTypeOK
  <2> QED BY <2>1 DEF IsText
<1>4. ASSUME NEW i \in 1..Len(plan), i <= Len(todo')
      PROVE  todo'[Len(todo') + 1 - i] = plan[Len(plan) + 1 - i]
  <2>1. /\ Len(todo') + 1 - i \in 1..(Len(todo) - 1)
        /\ (Len(todo') + 1 - i) + 1 = Len(todo) + 1 - i /\ i <= Len(todo)
    BY <1>2, <1>4
  <2>2. todo[Len(todo) + 1 - i] = plan[Len(plan) + 1 - i]
    BY <1>1, <2>1 DEF Agree
  <2> QED BY <1>2, <2>1, <2>2
<1>5. ASSUME Len(todo) <= Len(plan) PROVE Head(todo) = plan[Len(plan) + 1 - Len(todo)]
  <2>1. Len(todo) \in 1..Len(plan) /\ Len(todo) + 1 - Len(todo) = 1
    BY <1>2, <1>3, <1>5
  <2> QED BY <1>1, <1>2, <2>1 DEF Agree
<1> QED BY <1>1, <1>2, <1>3, <1>4, <1>5 DEF Agree

LEMMA EditDone ==
    ASSUME TreeTypeOK, TreeInv, todo # <<>>, Done, TreeTexts',
           \A e : Contains(plan, e) /\ (e = Head(todo) \/ Has(e)) => Has(e)'
    PROVE  TreeInv'
<1> DEFINE n == Len(plan)
           k == Len(todo)
<1>1. /\ Len(todo') = k - 1 /\ k \in Nat \ {0} /\ n \in Nat /\ plan' = plan
      /\ k <= n => Head(todo) = plan[n + 1 - k]
      /\ \A i \in 1..n : i + k <= n => Has(plan[i])
  BY TodoDone DEF Applied
<1>2. \A i \in 1..n : Contains(plan, plan[i])
  BY DEF Contains
<1> HIDE DEF n, k
<1>3. ASSUME NEW i \in 1..n, i + Len(todo') <= n PROVE Has(plan[i])'
  <2>1. CASE i + k <= n
    BY <1>1, <1>2, <2>1
  <2>2. CASE i + k > n
    <3>1. k <= n /\ n + 1 - k = i
      BY <1>1, <1>3, <2>2
    <3> QED BY <1>1, <1>2, <3>1
  <2> QED BY <1>1, <2>1, <2>2
<1>4. Applied'
  BY <1>1, <1>3 DEF Applied, n
<1> QED BY <1>4, TodoDone DEF TreeInv

LEMMA StepDone ==
    ASSUME TreeTypeOK, TreeInv, todo # <<>>, Done, TreeTexts', ~Contains(plan, Head(todo))
    PROVE  TreeInv'
<1>1. Len(todo) > Len(plan)
  <2> SUFFICES ASSUME Len(todo) <= Len(plan) PROVE FALSE
    BY TodoDone
  <2>1. Len(plan) + 1 - Len(todo) \in 1..Len(plan)
    BY TodoDone
  <2> QED BY <2>1, TodoDone DEF Contains
<1>2. Applied'
  BY <1>1, TodoDone DEF Applied
<1> QED BY <1>2, TodoDone DEF TreeInv

LEMMA CallStarts ==
    ASSUME TreeInv, NEW steps, IsText(steps), NEW edits \in Plans, Start(steps, edits)
    PROVE  TreeInv'
<1>1. todo' = steps \o edits /\ plan' = edits /\ tree' = tree
  BY DEF Start
<1>2. IsText(edits)
  BY PlanEdits
<1>3. /\ IsText(todo') /\ Len(todo') = Len(steps) + Len(edits)
      /\ Len(steps) \in Nat /\ Len(edits) \in Nat
  BY <1>1, <1>2, JoinedText
<1>4. \A i \in 1..Len(edits) : todo'[Len(steps) + i] = edits[i]
  <2>1. PICK A : steps \in Seq(A) /\ edits \in Seq(A)
    BY <1>2, Common
  <2> QED BY <1>1, <2>1, JoinedLines
<1>5. ASSUME NEW i \in 1..Len(edits)
      PROVE  todo'[Len(todo') + 1 - i] = edits[Len(edits) + 1 - i]
  <2>1. Len(edits) + 1 - i \in 1..Len(edits) /\ Len(steps) + (Len(edits) + 1 - i) = Len(todo') + 1 - i
    BY <1>3
  <2> QED BY <1>4, <2>1
<1>6. Agree' /\ Applied'
  BY <1>1, <1>3, <1>5 DEF Agree, Applied
<1> QED BY <1>1, <1>3, <1>6 DEF TreeInv, TreeTexts

LEMMA CallEnds ==
    ASSUME NEW how \in {"failed", "killed"}, End(how), TreeTexts'
    PROVE  TreeInv'
BY EmptyText DEF End, TreeInv

LEMMA SkippedHas ==
    ASSUME NEW edit, NotApplicable(edit)
    PROVE  Has(edit)
BY DEF NotApplicable, Has, Pairs, Links, FETCH

\* The step at hand when it is an edit, and when it is not.
LEMMA InPlan ==
    ASSUME TreeTypeOK
    PROVE  /\ \A e : e \in ToSet(plan) <=> Contains(plan, e)
           /\ \A e \in NotEdits : ~Contains(plan, e)
<1>1. IsText(plan) /\ \A e \in NotEdits : ~Contains(plan, e)
  BY PlanEdits DEF TreeTypeOK
<1>2. \A e : e \in ToSet(plan) <=> Contains(plan, e)
  BY <1>1 DEF ToSet, Contains, IsText
<1> QED BY <1>1, <1>2

LEMMA UnchangedHas ==
    ASSUME tree' = tree, NEW e, Has(e)
    PROVE  Has(e)'
BY DEF Has

LEMMA TreeTextsStay ==
    ASSUME TreeTexts, tree' = tree
    PROVE  TreeTexts'
BY DEF TreeTexts

LEMMA CallKeeps ==
    ASSUME TreeInv, TreeCall
    PROVE  TreeInv'
<1>1. \A upgrade, force \in BOOLEAN : IsText(Fetching(upgrade, force))
  <2>1. IsText(<<"get">>) /\ IsText(<<"purge", "get">>) /\ IsText(<<>>)
    BY OneLine, TwoLine, EmptyText
  <2> QED BY <2>1 DEF Fetching
<1>2. ASSUME NEW upgrade \in BOOLEAN, NEW force \in BOOLEAN, GetBuildroot(upgrade, force)
      PROVE  TreeInv'
  BY <1>1, <1>2, CallStarts DEF GetBuildroot, Plans
<1>3. ASSUME NEW upgrade \in BOOLEAN, NEW force \in BOOLEAN, GetAndCustomize(upgrade, force)
      PROVE  TreeInv'
  <2> DEFINE last == <<"preflight">>
             steps == Fetching(upgrade, force) \o last
  <2>1. IsText(last)
    BY OneLine
  <2> HIDE DEF last
  <2>2. IsText(steps)
    BY <1>1, <2>1, JoinedText
  <2>3. Start(steps, Customize) /\ Customize \in Plans
    BY <1>3 DEF GetAndCustomize, Plans, last
  <2> HIDE DEF steps
  <2> QED BY <2>2, <2>3, CallStarts
<1>4. CASE UpdateKernelSupport
  <2> DEFINE steps == <<"preflight kernel">>
  <2>1. IsText(steps)
    BY OneLine
  <2>2. Start(steps, UpdateKernel) /\ UpdateKernel \in Plans
    BY <1>4 DEF UpdateKernelSupport, Plans
  <2> HIDE DEF steps
  <2> QED BY <2>1, <2>2, CallStarts
<1>5. ASSUME NEW env \in Envs, UpdateRustVersion(env) PROVE TreeInv'
  <2> DEFINE steps == <<"preflight rust">>
  <2>1. IsText(steps)
    BY OneLine
  <2>2. Start(steps, UpdateRust(env)) /\ UpdateRust(env) \in Plans
    BY <1>5 DEF UpdateRustVersion, Plans
  <2> HIDE DEF steps
  <2> QED BY <2>1, <2>2, CallStarts
<1> QED BY <1>2, <1>3, <1>4, <1>5 DEF TreeCall

LEMMA StepKeeps ==
    ASSUME TreeTypeOK, TreeInv, TreeStep
    PROVE  TreeInv'
<1>0. TreeTexts
  BY DEF TreeInv
<1>1. CASE Preflight
  <2>1. PICK check \in {<<"preflight", "preflight">>, <<"preflight kernel", "kernel">>,
                        <<"preflight rust", "rust">>} :
           /\ Head(todo) = check[1] /\ todo # <<>> /\ tree' = tree
           /\ Done \/ Fails
    BY <1>1 DEF Preflight, Fails
  <2>2. TreeTexts'
    BY <1>0, <2>1, TreeTextsStay
  <2>3. CASE Done
    <3>1. Head(todo) \in {"preflight", "preflight kernel", "preflight rust"}
      <4>1. CASE check = <<"preflight", "preflight">>
        BY <2>1, <4>1
      <4>2. CASE check = <<"preflight kernel", "kernel">>
        BY <2>1, <4>2
      <4>3. CASE check = <<"preflight rust", "rust">>
        BY <2>1, <4>3
      <4> QED BY <4>1, <4>2, <4>3
    <3>2. Has(Head(todo))
      <4> DEFINE l == Head(todo)
      <4>1. l \notin {"package/fetch-hash.mk", "package/fetch_hash_helper.py", FETCH,
                      "systemd/systemd.mk", "linux-pam/linux-pam.mk"}
        BY <3>1 DEF FETCH
      <4> HIDE DEF l
      <4>2. Has(l)
        BY <4>1 DEF Has
      <4> QED BY <4>2 DEF l
    <3> QED BY <2>1, <2>2, <2>3, <3>2, EditDone, UnchangedHas
  <2>4. CASE Fails
    BY <2>2, <2>4, CallEnds DEF Fails
  <2> QED BY <2>1, <2>3, <2>4
<1>2. CASE Purge
  <2>1. tree' = NoFiles /\ todo # <<>> /\ Done /\ Head(todo) = "purge"
    BY <1>2 DEF Purge
  <2>2. TreeTexts'
    BY <2>1 DEF NoFiles, TreeTexts
  <2>3. ~Contains(plan, Head(todo))
    BY <2>1, InPlan DEF NotEdits
  <2> QED BY <2>1, <2>2, <2>3, StepDone
<1>3. CASE NoArchive
  BY <1>0, <1>3, TreeTextsStay, CallEnds DEF NoArchive, Fails
<1>4. ASSUME NEW r \in DOMAIN Stock, Get(r) PROVE TreeInv'
  <2>1. todo # <<>> /\ Done /\ Head(todo) = "get" /\ Unpacked(r, Len(Archive))
    BY <1>4 DEF Get
  <2>2. TreeTexts'
    BY <1>0, <2>1, StockText
  <2>3. ~Contains(plan, Head(todo))
    BY <2>1, InPlan DEF NotEdits
  <2> QED BY <2>1, <2>2, <2>3, StepDone
<1>5. CASE Skip
  <2>1. todo # <<>> /\ Done /\ tree' = tree /\ Has(Head(todo))
    BY <1>5, SkippedHas DEF Skip
  <2> QED BY <1>0, <2>1, EditDone, UnchangedHas, TreeTextsStay
<1>6. ASSUME NEW edit \in ToSet(plan), Edit(edit) PROVE TreeInv'
  <2>1. /\ todo # <<>> /\ edit = Head(todo) /\ After(edit) # SystemExit
        /\ Put(FileOf(edit), After(edit)) /\ Done
    BY <1>6 DEF Edit, FileEdit
  <2>2. edit \notin NotEdits
    BY InPlan
  <2>3. TreeTexts'
    BY <1>0, <2>1, <2>2, EditedText, PutText
  <2>4. ASSUME NEW e, Contains(plan, e), e = edit \/ Has(e) PROVE Has(e)'
    <3>1. e \notin NotEdits
      BY <2>4, InPlan
    <3> QED BY <1>0, <2>1, <2>2, <2>4, <3>1, EditKeeps
  <2> QED BY <2>1, <2>3, <2>4, EditDone
<1>7. ASSUME NEW edit \in ToSet(plan), EditFails(edit) PROVE TreeInv'
  BY <1>0, <1>7, TreeTextsStay, CallEnds DEF EditFails, Fails
<1>8. ASSUME NEW dir \in ToSet(plan), AddPatch(dir) PROVE TreeInv'
  <2>1. todo # <<>> /\ Done /\ tree' = tree /\ dir = Head(todo) /\ dir \in PatchDirs
    BY <1>8 DEF AddPatch
  <2>2. Has(dir)
    BY <2>1 DEF PatchDirs, Has, FETCH
  <2> QED BY <1>0, <2>1, <2>2, EditDone, UnchangedHas, TreeTextsStay
<1>9. ASSUME NEW link \in ToSet(plan), Link(link) PROVE TreeInv'
  <2>1. /\ todo # <<>> /\ link = Head(todo) /\ link \in Links /\ Done
        /\ Put(link, tree[Prev(link)])
    BY <1>9 DEF Link
  <2>2. Has(link)
    BY <2>1 DEF Links, Has, FETCH
  <2>3. link \notin {"package/fetch-hash.mk", "package/fetch_hash_helper.py", "Makefile",
                     "systemd/Config.in", "systemd/systemd.mk",
                     "linux-pam/Config.in", "linux-pam/linux-pam.mk"}
    BY <2>1 DEF Links
  <2>4. TreeTexts'
    BY <1>0, <2>1, <2>3, PutText DEF TextFiles
  <2> QED BY <2>1, <2>2, <2>3, <2>4, EditDone, OtherFile
<1> QED BY <1>1, <1>2, <1>3, <1>4, <1>5, <1>6, <1>7, <1>8, <1>9 DEF TreeStep

LEMMA StopKeeps ==
    ASSUME TreeTypeOK, TreeInv, TreeStop
    PROVE  TreeInv'
<1>0. TreeTexts
  BY DEF TreeInv
<1>1. CASE Kill
  BY <1>0, <1>1, TreeTextsStay, CallEnds DEF Kill, Interrupted
<1>2. ASSUME NEW n, PurgeStops(n) PROVE TreeInv'
  <2>1. DOMAIN tree' \subseteq DOMAIN tree /\ \A f \in DOMAIN tree' : tree'[f] = tree[f]
    BY <1>2 DEF PurgeStops
  <2> QED BY <1>0, <1>2, <2>1, CallEnds DEF PurgeStops, Interrupted, TreeTexts
<1>3. ASSUME NEW n, NEW r \in DOMAIN Stock, GetStops(r, n) PROVE TreeInv'
  BY <1>0, <1>3, StockText, CallEnds DEF GetStops
<1>4. ASSUME NEW edit \in ToSet(plan), WriteStops(edit) PROVE TreeInv'
  <2>1. /\ After(edit) # SystemExit /\ Interrupted
        /\ \E text \in Torn(After(edit)) : Put(FileOf(edit), text)
    BY <1>4 DEF WriteStops
  <2>2. PICK text \in Torn(After(edit)) : Put(FileOf(edit), text)
    BY <2>1
  <2>3. edit \notin NotEdits
    BY InPlan
  <2>4. FileOf(edit) \in TextFiles => IsText(text)
    BY <1>0, <2>1, <2>3, EditedText, TornText
  <2>5. TreeTexts'
    BY <1>0, <2>2, <2>4, PutText
  <2> QED BY <2>1, <2>5, CallEnds DEF Interrupted
<1>5. ASSUME NEW dir \in ToSet(plan), PatchStops(dir) PROVE TreeInv'
  BY <1>0, <1>5, TreeTextsStay, CallEnds DEF PatchStops, Interrupted
<1> QED BY <1>1, <1>2, <1>3, <1>4, <1>5 DEF TreeStop

LEMMA TreeInvInitially == TreeInit => TreeInv
<1> SUFFICES ASSUME TreeInit PROVE TreeInv
  OBVIOUS
<1>1. PICK v \in Volumes : tree = v.tree
  BY DEF TreeInit
<1>2. TreeTexts
  BY <1>1, TextsAssumption DEF TreeTexts, IsText
<1> QED BY <1>2, EmptyText DEF TreeInit, TreeInv

\* Nothing else touches the tree.
LEMMA TreeInvStays ==
    ASSUME TreeInv, UNCHANGED <<tree, todo, plan, result>>
    PROVE  TreeInv'
BY UnchangedHas DEF TreeInv, TreeTexts, Agree, Applied

LEMMA TreeInvStep ==
    ASSUME TreeTypeOK, TreeInv, [Next]_vars
    PROVE  TreeInv'
<1>1. CASE InTree
  BY <1>1, CallKeeps, StepKeeps, StopKeeps DEF InTree
<1>2. CASE StartGetBuildroot
  BY <1>2, CallKeeps DEF StartGetBuildroot, TreeCall
<1>3. CASE ~InTree /\ ~StartGetBuildroot
  <2>1. UNCHANGED <<tree, todo, plan, result>>
    BY <1>3 DEF Next, vars, treevars, Download, Deploy, Extracted, NoTarball, FirstBoot, Untar,
                UntarFails, TouchMarker, RemoveTarball, Line, Restart, StartAgain
  <2> QED BY <2>1, TreeInvStays
<1> QED BY <1>1, <1>2, <1>3

LEMMA HashesFollow ==
    ASSUME TreeTypeOK, TreeInv
    PROVE  HashesChecked
<1> SUFFICES ASSUME result = "ok", plan # <<>> PROVE HashesChecked
  BY DEF HashesChecked
<1>1. todo = <<>>
  BY DEF TreeTypeOK
<1>2. \A e : Contains(plan, e) => Has(e)
  <2>1. IsText(plan) /\ Len(todo) = 0
    BY <1>1, PlanEdits DEF TreeTypeOK
  <2>2. Len(plan) \in Nat
    BY <2>1 DEF IsText
  <2> QED BY <2>1, <2>2 DEF TreeInv, Applied, Contains
<1>3. plan \in Plans
  BY DEF TreeTypeOK
<1>4. Has("package/fetch-hash.mk") /\ Has("package/fetch_hash_helper.py") /\ Has(FETCH)
  BY <1>2, <1>3, PlanEdits DEF Hashing
<1>5. plan = Customize => Has("systemd/systemd.mk") /\ Has("linux-pam/linux-pam.mk")
  BY <1>2, <1>3, PlanEdits
<1>6. Generated \ {"package/custom-late.mk"} = {"package/fetch-hash.mk", "package/fetch_hash_helper.py"}
  BY DEF Generated
<1> QED BY <1>4, <1>5, <1>6 DEF HashesChecked, Has

\* The tree of every state that can be reached is as TreeInv says.
THEOREM TreeReachable == Spec => []TreeInv
<1>1. Init => TreeInv
  BY TreeInvInitially DEF Init
<1>2. Inv /\ TreeInv /\ [Next]_vars => TreeInv'
  BY TreeInvStep DEF Inv
<1> QED BY <1>1, <1>2, Reachable, PTL DEF Spec

\* A call of getBuildroot.sh that edits the tree and succeeds leaves the hash
\* completion on, and --customize no line that exempts a tarball from the check,
\* for any release, any volume and any number of calls and interruptions.
THEOREM HashesAlwaysChecked == Spec => []HashesChecked
<1>1. Inv /\ TreeInv => HashesChecked
  BY HashesFollow DEF Inv
<1> QED BY <1>1, Reachable, TreeReachable, PTL

-----------------------------------------------------------------------------
(* Idempotence of the edits                                                *)

\* The files that one edit each is for.
SingleFiles ==
    {"Config.in", "linux-tool-gpio.mk.in", "linux-tool-pci.mk.in",
     "systemd/Config.in", "systemd/systemd.mk", "linux-pam/Config.in", "linux-pam/linux-pam.mk",
     "espflash/Config.in", "espflash/espflash.mk", "ruby/Config.in", "ruby/ruby.mk",
     "linux-headers/Config.in.host", "toolchain/Config.in", "linux/Config.in",
     "rust/rust.mk", "rust-bin/rust-bin.mk", "rust-bindgen/rust-bindgen.mk"}

LEMMA PatchedSingle ==
    ASSUME NEW text
    PROVE  /\ Patched("Config.in", text) = patch_config_in(text)
           /\ Patched("linux-tool-gpio.mk.in", text) = patch_linux_tools_grep_install(text)
           /\ Patched("linux-tool-pci.mk.in", text) =
                patch_linux_tools_grep_install(patch_linux_tool_pci_mk_in(text))
           /\ Patched("systemd/Config.in", text) = patch_systemd_config_in(text)
           /\ Patched("linux-pam/Config.in", text) = patch_linux_pam_config_in(text)
           /\ Patched("espflash/Config.in", text) = patch_espflash_config_in(text)
           /\ Patched("espflash/espflash.mk", text) = patch_espflash_mk(text)
           /\ Patched("ruby/Config.in", text) = patch_ruby_config_in(text)
           /\ Patched("ruby/ruby.mk", text) = patch_ruby_mk(text)
           /\ Patched("linux-headers/Config.in.host", text) = patch_kernel_headers_host(text)
           /\ Patched("toolchain/Config.in", text) = patch_toolchain_headers_at_least(text)
           /\ Patched("linux/Config.in", text) = patch_linux_latest_version(text)
BY DEF Patched, LATE, FETCH, PURGE

LEMMA PatchedLate ==
    ASSUME NEW text
    PROVE  Patched("package/custom-late.mk", text) = custom_late_mk_text(CustomPackages)
BY DEF Patched, LATE, FETCH, PURGE

LEMMA PatchedRust ==
    ASSUME NEW text, NEW edit \in {"rust/rust.mk", "rust-bin/rust-bin.mk", "rust-bindgen/rust-bindgen.mk"}
    PROVE  Patched(edit, text) = set_makefile_assignment(text)
BY DEF Patched, LATE, FETCH, PURGE

\* The blocks put into Kconfig files, and the symbols they are known by.
LEMMA KconfigBlocks ==
    \A block \in {SYSTEMD_VERSION_OVERRIDE_KCONFIG, LINUX_PAM_VERSION_OVERRIDE_KCONFIG,
                  ESPFLASH_VERSION_OVERRIDE_KCONFIG, RUBY_KCONFIG} :
        IsText(block) /\ Contains(block, block[1])
<1>1. ASSUME NEW a, NEW b PROVE IsText(<<a, b>>) /\ Contains(<<a, b>>, a)
  BY TwoLine
<1>2. ASSUME NEW a, NEW b PROVE <<a, b>>[1] = a
  OBVIOUS
<1>3. ASSUME NEW block, NEW a, NEW b, block = <<a, b>>
      PROVE  IsText(block) /\ Contains(block, block[1])
  BY <1>1, <1>2, <1>3
<1>4. /\ SYSTEMD_VERSION_OVERRIDE_KCONFIG = <<"config SYSTEMD_VERSION_OVERRIDE", "string">>
      /\ LINUX_PAM_VERSION_OVERRIDE_KCONFIG = <<"config LINUX_PAM_VERSION_OVERRIDE", "string">>
      /\ ESPFLASH_VERSION_OVERRIDE_KCONFIG = <<"config ESPFLASH_VERSION_OVERRIDE", "string">>
      /\ RUBY_KCONFIG = <<"config RUBY_VERSION_OVERRIDE", "config RUBY_YJIT">>
  BY DEF SYSTEMD_VERSION_OVERRIDE_KCONFIG, LINUX_PAM_VERSION_OVERRIDE_KCONFIG,
         ESPFLASH_VERSION_OVERRIDE_KCONFIG, RUBY_KCONFIG
<1> QED BY <1>3, <1>4

LEMMA ConfigsTwice ==
    ASSUME NEW text, IsText(text),
           NEW edit \in {"systemd/Config.in", "linux-pam/Config.in", "espflash/Config.in",
                         "ruby/Config.in"},
           Patched(edit, text) # SystemExit
    PROVE  Patched(edit, Patched(edit, text)) = Patched(edit, text)
<1>1. CASE edit = "systemd/Config.in"
  <2> DEFINE block == SYSTEMD_VERSION_OVERRIDE_KCONFIG
             symbol == block[1]
             if_line == "if BR2_PACKAGE_SYSTEMD"
             r == insert_kconfig_after_if(text, if_line, symbol, block)
  <2>1. IsText(block) /\ Contains(block, symbol)
    BY KconfigBlocks
  <2>2. \A t : Patched(edit, t) = insert_kconfig_after_if(t, if_line, symbol, block)
    BY <1>1, PatchedSingle DEF patch_systemd_config_in
  <2>3. Patched(edit, text) = r /\ r # SystemExit
    BY <2>2
  <2> HIDE DEF block, symbol, if_line
  <2>4. insert_kconfig_after_if(r, if_line, symbol, block) = r
    BY <2>1, <2>3, KconfigTwice
  <2> QED BY <2>2, <2>3, <2>4
<1>2. CASE edit = "linux-pam/Config.in"
  <2> DEFINE block == LINUX_PAM_VERSION_OVERRIDE_KCONFIG
             symbol == block[1]
             if_line == "if BR2_PACKAGE_LINUX_PAM"
             r == insert_kconfig_after_if(text, if_line, symbol, block)
  <2>1. IsText(block) /\ Contains(block, symbol)
    BY KconfigBlocks
  <2>2. \A t : Patched(edit, t) = insert_kconfig_after_if(t, if_line, symbol, block)
    BY <1>2, PatchedSingle DEF patch_linux_pam_config_in
  <2>3. Patched(edit, text) = r /\ r # SystemExit
    BY <2>2
  <2> HIDE DEF block, symbol, if_line
  <2>4. insert_kconfig_after_if(r, if_line, symbol, block) = r
    BY <2>1, <2>3, KconfigTwice
  <2> QED BY <2>2, <2>3, <2>4
<1>3. CASE edit = "espflash/Config.in"
  <2> DEFINE block == ESPFLASH_VERSION_OVERRIDE_KCONFIG
             symbol == block[1]
             if_line == "if BR2_PACKAGE_ESPFLASH"
             r == append_kconfig_if_block(text, if_line, symbol, block)
  <2>1. IsText(block) /\ Contains(block, symbol)
    BY KconfigBlocks
  <2>2. \A t : Patched(edit, t) = append_kconfig_if_block(t, if_line, symbol, block)
    BY <1>3, PatchedSingle DEF patch_espflash_config_in
  <2>3. Patched(edit, text) = r /\ r # SystemExit
    BY <2>2
  <2> HIDE DEF block, symbol, if_line
  <2>4. append_kconfig_if_block(r, if_line, symbol, block) = r
    BY <2>1, <2>3, AppendedTwice
  <2> QED BY <2>2, <2>3, <2>4
<1>4. CASE edit = "ruby/Config.in"
  <2> DEFINE block == RUBY_KCONFIG
             symbol == block[1]
             if_line == "if BR2_PACKAGE_RUBY"
             r == append_kconfig_if_block(text, if_line, symbol, block)
  <2>1. IsText(block) /\ Contains(block, symbol)
    BY KconfigBlocks
  <2>2. \A t : Patched(edit, t) = append_kconfig_if_block(t, if_line, symbol, block)
    BY <1>4, PatchedSingle DEF patch_ruby_config_in
  <2>3. Patched(edit, text) = r /\ r # SystemExit
    BY <2>2
  <2> HIDE DEF block, symbol, if_line
  <2>4. append_kconfig_if_block(r, if_line, symbol, block) = r
    BY <2>1, <2>3, AppendedTwice
  <2> QED BY <2>2, <2>3, <2>4
<1> QED BY <1>1, <1>2, <1>3, <1>4

\* What an edit has made of a text it leaves alone when it meets it again: in the
\* next call, or in the next after one that was killed.
THEOREM EditIdempotent ==
    ASSUME NEW text, IsText(text), NEW edit \in SingleFiles \cup Generated \cup {LATE, FETCH, PURGE},
           Patched(edit, text) # SystemExit
    PROVE  Patched(edit, Patched(edit, text)) = Patched(edit, text)
<1>1. CASE edit \in {"systemd/Config.in", "linux-pam/Config.in", "espflash/Config.in", "ruby/Config.in"}
  BY <1>1, ConfigsTwice
<1>2. CASE edit \in {"rust/rust.mk", "rust-bin/rust-bin.mk", "rust-bindgen/rust-bindgen.mk"}
  <2>1. \A t : Patched(edit, t) = set_makefile_assignment(t)
    BY <1>2, PatchedRust
  <2> QED BY <2>1, AssignedTwice
<1>3. CASE edit = "Config.in"
  <2>1. \A t : Patched(edit, t) = patch_config_in(t)
    BY <1>3, PatchedSingle
  <2> QED BY <2>1, ConfigInTwice
<1>4. CASE edit = "linux-tool-gpio.mk.in"
  <2>1. \A t : Patched(edit, t) = patch_linux_tools_grep_install(t)
    BY <1>4, PatchedSingle
  <2> QED BY <2>1, GrepTwice
<1>5. CASE edit = "linux-tool-pci.mk.in"
  <2>1. \A t : Patched(edit, t) = patch_linux_tools_grep_install(patch_linux_tool_pci_mk_in(t))
    BY <1>5, PatchedSingle
  <2> QED BY <2>1, PciTwice
<1>6. CASE edit = "systemd/systemd.mk"
  <2>1. \A t : Patched(edit, t) = patch_systemd_mk(t)
    BY <1>6, PatchedFiles
  <2> QED BY <2>1, SystemdTwice
<1>7. CASE edit = "linux-pam/linux-pam.mk"
  <2>1. \A t : Patched(edit, t) = patch_linux_pam_mk(t)
    BY <1>7, PatchedFiles
  <2> QED BY <2>1, LinuxPamTwice
<1>8. CASE edit = "espflash/espflash.mk"
  <2>1. \A t : Patched(edit, t) = patch_espflash_mk(t)
    BY <1>8, PatchedSingle
  <2> QED BY <2>1, EspflashTwice
<1>9. CASE edit = "ruby/ruby.mk"
  <2>1. \A t : Patched(edit, t) = patch_ruby_mk(t)
    BY <1>9, PatchedSingle
  <2> QED BY <2>1, RubyTwice
<1>10. CASE edit = "linux-headers/Config.in.host"
  <2>1. \A t : Patched(edit, t) = patch_kernel_headers_host(t)
    BY <1>10, PatchedSingle
  <2> QED BY <2>1, HeadersTwice
<1>11. CASE edit = "toolchain/Config.in"
  <2>1. \A t : Patched(edit, t) = patch_toolchain_headers_at_least(t)
    BY <1>11, PatchedSingle
  <2> QED BY <2>1, ToolchainTwice
<1>12. CASE edit = "linux/Config.in"
  <2>1. \A t : Patched(edit, t) = patch_linux_latest_version(t)
    BY <1>12, PatchedSingle
  <2> QED BY <2>1, LatestTwice
<1>13. CASE edit \in {LATE, FETCH}
  BY <1>13, PatchedFiles, IncludeBlocks, IncludedTwice
<1>14. CASE edit = PURGE
  BY <1>14, PatchedFiles, MakefileTwice
<1>15. CASE edit \in Generated
  <2>1. \A t : Patched("package/custom-late.mk", t) = custom_late_mk_text(CustomPackages)
    BY PatchedLate
  <2> QED BY <1>15, <2>1, PatchedFiles DEF Generated
<1> QED BY <1>1, <1>2, <1>3, <1>4, <1>5, <1>6, <1>7, <1>8, <1>9, <1>10, <1>11, <1>12, <1>13,
           <1>14, <1>15 DEF SingleFiles

-----------------------------------------------------------------------------
(* The edits of the Makefile, over and over and in any order               *)

LEMMA TextAssociates ==
    ASSUME NEW u, NEW v, NEW w, IsText(u), IsText(v), IsText(w)
    PROVE  u \o (v \o w) = (u \o v) \o w
<1>1. PICK B : u \in Seq(B) /\ v \in Seq(B)
  BY Common
<1>2. PICK C : w \in Seq(C)
  BY DEF IsText
<1> DEFINE A == B \cup C
<1>3. u \in Seq(A) /\ v \in Seq(A) /\ w \in Seq(A)
  BY <1>1, <1>2, SeqGrows
<1> HIDE DEF A
<1> QED BY <1>3, JoinAssociates

LEMMA EmptyJoin ==
    ASSUME NEW s, IsText(s)
    PROVE  <<>> \o s = s /\ s \o <<>> = s
<1>1. PICK A : s \in Seq(A)
  BY DEF IsText
<1>2. <<>> \o s = s
  BY <1>1
<1>3. s \o <<>> = s
  BY <1>1
<1> QED BY <1>2, <1>3

\* The include lines.
LB == CUSTOM_LATE_INCLUDE_BLOCK
FB == FETCH_HASH_INCLUDE_BLOCK
LM == CUSTOM_LATE_INCLUDE_MARKER
FM == FETCH_HASH_INCLUDE_MARKER

LEMMA BlockLines ==
    /\ IsText(LB) /\ Inert(LB) /\ LB[2] = LM /\ Len(LB) = 2
    /\ IsText(FB) /\ Inert(FB) /\ FB[2] = FM /\ Len(FB) = 2
    /\ Contains(LB, LM) /\ ~Contains(LB, FM) /\ Contains(FB, FM) /\ ~Contains(FB, LM)
    /\ LM \in Markers /\ FM \in Markers /\ LM # FM
<1>1. /\ IsText(LB) /\ \A l : Contains(LB, l) <=> l \in {"# custom-late.mk", LM}
  BY TwoLine DEF LB, LM, CUSTOM_LATE_INCLUDE_BLOCK
<1>2. /\ IsText(FB) /\ \A l : Contains(FB, l) <=> l \in {"# fetch-hash.mk", FM}
  BY TwoLine DEF FB, FM, FETCH_HASH_INCLUDE_BLOCK
<1>3. LB[2] = LM /\ Len(LB) = 2 /\ FB[2] = FM /\ Len(FB) = 2
  <2>1. LB[2] = LM
    BY DEF LB, LM, CUSTOM_LATE_INCLUDE_BLOCK
  <2>2. FB[2] = FM
    BY DEF FB, FM, FETCH_HASH_INCLUDE_BLOCK
  <2>3. Len(LB) = 2 /\ Len(FB) = 2
    BY IncludeBlocks DEF LB, FB
  <2> QED BY <2>1, <2>2, <2>3
<1>4. "# custom-late.mk" \notin Anchors /\ "# custom-late.mk" # FM
  BY DEF Anchors, PHONY, Recipe, RmRf, HeaderLine, USR_DOC_COMMENT, DeadLine, FM, FETCH_HASH_INCLUDE_MARKER
<1>5. "# fetch-hash.mk" \notin Anchors /\ "# fetch-hash.mk" # LM
  BY DEF Anchors, PHONY, Recipe, RmRf, HeaderLine, USR_DOC_COMMENT, DeadLine, LM, CUSTOM_LATE_INCLUDE_MARKER
<1>6. LM \in Markers /\ FM \in Markers /\ LM # FM /\ LM \notin Anchors /\ FM \notin Anchors
  BY MarkerLines DEF LM, FM, Markers
<1>7. Inert(LB) /\ Inert(FB)
  <2>1. ASSUME NEW l \in Anchors PROVE ~Contains(LB, l) /\ ~Contains(FB, l)
    <3>1. l \notin {"# custom-late.mk", LM} /\ l \notin {"# fetch-hash.mk", FM}
      BY <1>4, <1>5, <1>6
    <3>2. (Contains(LB, l) => l \in {"# custom-late.mk", LM}) /\ (Contains(FB, l) => l \in {"# fetch-hash.mk", FM})
      BY <1>1, <1>2
    <3> QED BY <3>1, <3>2
  <2> QED BY <1>1, <1>2, <2>1 DEF Inert
<1>8. Contains(LB, LM) /\ Contains(FB, FM)
  BY <1>1, <1>2
<1>9. ~Contains(LB, FM) /\ ~Contains(FB, LM)
  BY <1>1, <1>2, <1>4, <1>5, <1>6
<1>10. IsText(LB) /\ IsText(FB)
  BY <1>1, <1>2
<1> QED BY <1>3, <1>6, <1>7, <1>8, <1>9, <1>10

LEMMA TailsAre == Tails = {<<>>, LB, FB, LB \o FB, FB \o LB}
BY DEF Tails, LB, FB

LEMMA TailLines ==
    ASSUME NEW tail \in Tails
    PROVE  /\ IsText(tail)
           /\ ~Contains(tail, LM) => tail \in {<<>>, FB}
           /\ ~Contains(tail, FM) => tail \in {<<>>, LB}
           /\ \A l : Contains(tail, l) => Contains(LB, l) \/ Contains(FB, l)
<1>1. tail \in {<<>>, LB, FB, LB \o FB, FB \o LB}
  BY TailsAre
<1>2. /\ IsText(LB) /\ IsText(FB) /\ Contains(LB, LM) /\ ~Contains(LB, FM)
      /\ Contains(FB, FM) /\ ~Contains(FB, LM)
  BY BlockLines
<1> DEFINE a == LB \o FB
           b == FB \o LB
<1>3. IsText(a) /\ \A l : Contains(a, l) <=> Contains(LB, l) \/ Contains(FB, l)
  BY <1>2, JoinedText
<1>4. IsText(b) /\ \A l : Contains(b, l) <=> Contains(FB, l) \/ Contains(LB, l)
  BY <1>2, JoinedText
<1> HIDE DEF a, b
<1>5. tail \in {<<>>, LB, FB, a, b}
  BY <1>1 DEF a, b
<1> QED BY <1>2, <1>3, <1>4, <1>5, EmptyText

\* An include block that is not there yet can be joined to the tail.
LEMMA TailGrown ==
    ASSUME NEW tail \in Tails, NEW block \in {LB, FB}, ~Contains(tail, block[2])
    PROVE  tail \o block \in Tails
<1>1. CASE block = LB
  <2>1. tail \in {<<>>, FB}
    BY <1>1, BlockLines, TailLines
  <2>2. <<>> \o LB = LB
    BY BlockLines, EmptyJoin
  <2> QED BY <1>1, <2>1, <2>2, TailsAre
<1>2. CASE block = FB
  <2>1. tail \in {<<>>, LB}
    BY <1>2, BlockLines, TailLines
  <2>2. <<>> \o FB = FB
    BY BlockLines, EmptyJoin
  <2> QED BY <1>2, <2>1, <2>2, TailsAre
<1> QED BY <1>1, <1>2

LEMMA PatchedLong ==
    ASSUME NEW text, IsText(text), patch_makefile(text) # SystemExit
    PROVE  IsText(patch_makefile(text)) /\ Len(patch_makefile(text)) >= 2
<1> DEFINE a == Stripped(text)
           r == Wrapped(a)
<1>1. a # SystemExit /\ r # SystemExit /\ patch_makefile(text) = r
  BY MakefileIs
<1>2. IsText(a) /\ StripDone(a)
  BY <1>1, StrippedDone
<1> HIDE DEF a
<1>3. IsText(r) /\ StripDone(r)
  BY <1>1, <1>2, WrappedDone
<1> HIDE DEF r
<1>4. PICK s, e, h, k : Settled(r, s, e, h, k)
  BY <1>3 DEF StripDone
<1>5. s \in 1..Len(r) /\ e \in s..Len(r) /\ h \in s..e /\ k \in (h + 1)..e /\ Len(r) \in Nat
  BY <1>3, <1>4 DEF Settled, RmAt, RuleAt, IsText
<1>6. Len(r) >= 2
  BY <1>5
<1> QED BY <1>1, <1>3, <1>6

\* A text with lines below it is no error.
LEMMA JoinedIsText ==
    ASSUME NEW s, NEW t, IsText(s), IsText(t), Len(s) >= 2 \/ Len(t) >= 2
    PROVE  IsText(s \o t) /\ s \o t # SystemExit
<1>1. IsText(s \o t) /\ Len(s \o t) = Len(s) + Len(t) /\ Len(s) \in Nat /\ Len(t) \in Nat
  BY JoinedText
<1> DEFINE r == s \o t
<1> HIDE DEF r
<1>2. Len(r) >= 2
  BY <1>1 DEF r
<1>3. r # SystemExit
  BY <1>2, TwoLinesSay
<1> QED BY <1>1, <1>3 DEF r

\* What Extends says, with its tail.
ExtendsBy(text, fresh, tail) ==
    /\ Grows(patch_makefile(fresh), patch_makefile(text), tail)
    /\ \A l \in Markers : /\ Contains(text, l) <=> Contains(fresh, l) \/ Contains(tail, l)
                          /\ ~(Contains(fresh, l) /\ Contains(tail, l))

LEMMA ExtendsIs ==
    ASSUME NEW text, NEW fresh
    PROVE  Extends(text, fresh) <=> \E tail \in Tails : ExtendsBy(text, fresh, tail)
BY DEF Extends, ExtendsBy, Markers, Then, Grows

\* What the three edits of the Makefile do to such a text.
LEMMA IncludeExtends ==
    ASSUME NEW text, IsText(text), NEW fresh, IsText(fresh), Extends(text, fresh),
           NEW block \in {LB, FB}
    PROVE  Extends(included(text, block), fresh)
<1>1. CASE Contains(text, block[2])
  BY <1>1 DEF included
<1>2. CASE ~Contains(text, block[2])
  <2>1. PICK tail \in Tails : ExtendsBy(text, fresh, tail)
    BY ExtendsIs
  <2>2. IsText(block) /\ Inert(block) /\ Len(block) = 2 /\ block[2] \in Markers /\ Contains(block, block[2])
    BY BlockLines
  <2>3. ~Contains(tail, block[2]) /\ ~Contains(fresh, block[2])
    BY <1>2, <2>1, <2>2 DEF ExtendsBy
  <2> DEFINE new == tail \o block
             r == text \o block
             p == patch_makefile(text)
             q == patch_makefile(fresh)
  <2>4. new \in Tails
    BY <2>3, TailGrown
  <2>5. IsText(tail)
    BY TailLines
  <2>6. \A l : Contains(new, l) <=> Contains(tail, l) \/ Contains(block, l)
    BY <2>2, <2>5, JoinedText
  <2>7. \A l : Contains(r, l) <=> Contains(text, l) \/ Contains(block, l)
    BY <2>2, JoinedText
  <2>8. \A l \in Markers : l # block[2] => ~Contains(block, l)
    BY BlockLines DEF Markers, LM, FM
  <2>9. Grows(p, patch_makefile(r), block)
    BY <2>2, MakefileGrows
  <2>10. Grows(q, p, tail)
    BY <2>1 DEF ExtendsBy
  <2> HIDE DEF p, q, r, new
  <2>11. Grows(q, patch_makefile(r), new)
    <3>1. CASE q = SystemExit
      BY <2>9, <2>10, <3>1 DEF Grows
    <3>2. CASE q # SystemExit
      <4>1. IsText(q) /\ Len(q) >= 2
        BY <3>2, PatchedLong DEF q
      <4>2. p = q \o tail /\ p # SystemExit
        <5>1. q \o tail # SystemExit
          BY <2>5, <4>1, JoinedIsText
        <5> QED BY <2>10, <3>2, <5>1 DEF Grows
      <4>3. patch_makefile(r) = p \o block
        BY <2>9, <4>2 DEF Grows
      <4>4. (q \o tail) \o block = q \o new
        BY <2>2, <2>5, <4>1, TextAssociates DEF new
      <4> QED BY <3>2, <4>2, <4>3, <4>4 DEF Grows
    <3> QED BY <3>1, <3>2
  <2>12. ASSUME NEW l \in Markers
         PROVE  /\ Contains(r, l) <=> Contains(fresh, l) \/ Contains(new, l)
                /\ ~(Contains(fresh, l) /\ Contains(new, l))
    <3>1. /\ Contains(text, l) <=> Contains(fresh, l) \/ Contains(tail, l)
          /\ ~(Contains(fresh, l) /\ Contains(tail, l))
      BY <2>1 DEF ExtendsBy
    <3> QED BY <2>3, <2>6, <2>7, <2>8, <3>1
  <2>13. ExtendsBy(r, fresh, new)
    BY <2>11, <2>12 DEF ExtendsBy, q
  <2>14. included(text, block) = r
    BY <1>2 DEF included, r
  <2> QED BY <2>4, <2>13, <2>14, ExtendsIs
<1> QED BY <1>1, <1>2

LEMMA PurgeExtends ==
    ASSUME NEW text, IsText(text), NEW fresh, IsText(fresh), Extends(text, fresh),
           patch_makefile(text) # SystemExit
    PROVE  Extends(patch_makefile(text), fresh)
<1>1. PICK tail \in Tails : ExtendsBy(text, fresh, tail)
  BY ExtendsIs
<1> DEFINE r == patch_makefile(text)
<1>2. patch_makefile(r) = r
  BY MakefileTwice
<1>3. \A l \in Markers : Contains(r, l) <=> Contains(text, l)
  BY MakefileMarkers
<1> HIDE DEF r
<1>4. ExtendsBy(r, fresh, tail)
  BY <1>1, <1>2, <1>3 DEF ExtendsBy, r
<1> QED BY <1>4, ExtendsIs DEF r

\* patch_makefile fails on such a text only when it fails on the release.
LEMMA PurgeFails ==
    ASSUME NEW text, NEW fresh, IsText(fresh), Extends(text, fresh),
           patch_makefile(text) = SystemExit
    PROVE  patch_makefile(fresh) = SystemExit
<1>1. PICK tail \in Tails : ExtendsBy(text, fresh, tail)
  BY ExtendsIs
<1> SUFFICES ASSUME patch_makefile(fresh) # SystemExit PROVE FALSE
  OBVIOUS
<1> DEFINE q == patch_makefile(fresh)
<1>2. IsText(q) /\ Len(q) >= 2
  BY PatchedLong
<1>3. Grows(q, SystemExit, tail) /\ q # SystemExit
  BY <1>1 DEF ExtendsBy
<1> HIDE DEF q
<1>4. q \o tail # SystemExit
  BY <1>2, TailLines, JoinedIsText
<1> QED BY <1>3, <1>4 DEF Grows

LEMMA IncludeWorks ==
    ASSUME NEW text, IsText(text), NEW block \in {LB, FB}
    PROVE  included(text, block) # SystemExit
<1>1. CASE Contains(text, block[2])
  <2>1. included(text, block) = text
    BY <1>1 DEF included
  <2>2. LM # "SystemExit" /\ FM # "SystemExit"
    BY DEF LM, FM, CUSTOM_LATE_INCLUDE_MARKER, FETCH_HASH_INCLUDE_MARKER
  <2>3. ~Contains(SystemExit, block[2])
    BY <2>2, OneLine, BlockLines DEF SystemExit
  <2> QED BY <1>1, <2>1, <2>3
<1>2. CASE ~Contains(text, block[2])
  <2>1. included(text, block) = text \o block
    BY <1>2 DEF included
  <2>2. IsText(block) /\ Len(block) = 2
    BY BlockLines
  <2>3. Len(text) >= 2 \/ Len(block) >= 2
    BY <2>2
  <2>4. text \o block # SystemExit
    BY <2>2, <2>3, JoinedIsText
  <2> QED BY <2>1, <2>4
<1> QED BY <1>1, <1>2

\* What one edit of the Makefile has settled the others leave settled.
Settles(e, text) == text # SystemExit /\ Patched(e, text) = text

LEMMA IncludeSettled ==
    ASSUME NEW text, IsText(text), NEW block \in {LB, FB}, included(text, block) = text
    PROVE  Contains(text, block[2])
<1> SUFFICES ASSUME ~Contains(text, block[2]) PROVE FALSE
  OBVIOUS
<1>1. text = text \o block
  BY DEF included
<1>2. Len(text \o block) = Len(text) + Len(block) /\ Len(text) \in Nat /\ Len(block) = 2
  BY BlockLines, JoinedText
<1> QED BY <1>1, <1>2

LEMMA OfBlocks ==
    ASSUME NEW text
    PROVE  /\ Patched(LATE, text) = included(text, LB)
           /\ Patched(FETCH, text) = included(text, FB)
           /\ Patched(PURGE, text) = patch_makefile(text)
BY PatchedFiles DEF LB, FB

LEMMA SettledStays ==
    ASSUME NEW text, IsText(text), NEW edit \in OfMakefile, NEW e \in OfMakefile,
           Patched(edit, text) # SystemExit, e = edit \/ Settles(e, text)
    PROVE  Settles(e, Patched(edit, text))
<1> DEFINE r == Patched(edit, text)
<1>1. CASE e = edit
  BY <1>1, EditIdempotent DEF Settles, OfMakefile
<1>2. CASE e # edit /\ edit = PURGE /\ Settles(e, text)
  <2>1. PICK block \in {LB, FB} : \A t : Patched(e, t) = included(t, block)
    BY <1>2, OfBlocks DEF OfMakefile
  <2>2. r = patch_makefile(text)
    BY <1>2, OfBlocks
  <2>3. included(text, block) = text
    BY <1>2, <2>1 DEF Settles
  <2>4. Contains(text, block[2]) /\ block[2] \in Markers
    BY <2>3, IncludeSettled, BlockLines
  <2>5. Contains(r, block[2])
    BY <2>2, <2>4, MakefileMarkers
  <2> HIDE DEF r
  <2>6. included(r, block) = r
    BY <2>5 DEF included
  <2> QED BY <2>1, <2>6 DEF Settles, r
<1>3. CASE edit \in {LATE, FETCH} /\ e = PURGE /\ Settles(e, text)
  <2>1. PICK block \in {LB, FB} : r = included(text, block)
    BY <1>3, OfBlocks
  <2>2. patch_makefile(text) = text /\ text # SystemExit
    BY <1>3, OfBlocks DEF Settles
  <2>3. IsText(block) /\ Inert(block)
    BY BlockLines
  <2>4. patch_makefile(text \o block) = text \o block
    <3>1. Grows(patch_makefile(text), patch_makefile(text \o block), block)
      BY <2>3, MakefileGrows
    <3> QED BY <2>2, <3>1 DEF Grows
  <2> HIDE DEF r
  <2>5. r = text \/ r = text \o block
    BY <2>1 DEF included
  <2>6. patch_makefile(r) = r
    BY <2>2, <2>4, <2>5
  <2> QED BY <1>3, <2>6, OfBlocks DEF Settles, r
<1>4. CASE e # edit /\ edit \in {LATE, FETCH} /\ e \in {LATE, FETCH} /\ Settles(e, text)
  <2>1. PICK block \in {LB, FB} : r = included(text, block)
    BY <1>4, OfBlocks
  <2>2. PICK other \in {LB, FB} : \A t : Patched(e, t) = included(t, other)
    BY <1>4, OfBlocks
  <2>3. included(text, other) = text
    BY <1>4, <2>2 DEF Settles
  <2>4. Contains(text, other[2])
    BY <2>3, IncludeSettled
  <2>5. IsText(block) /\ Contains(block, block[2])
    BY BlockLines
  <2>6. Contains(included(text, block), other[2])
    BY <2>4, <2>5, IncludedText
  <2>7. included(included(text, block), other) = included(text, block)
    BY <2>6 DEF included
  <2> HIDE DEF r
  <2> QED BY <2>1, <2>2, <2>7 DEF Settles, r
<1> QED BY <1>1, <1>2, <1>3, <1>4 DEF OfMakefile

\* The edits of the Makefile keep what Extends says, and fail only on a release
\* on which they fail.
LEMMA MakefileKept ==
    ASSUME NEW text, IsText(text), NEW fresh, IsText(fresh), Extends(text, fresh),
           NEW edit \in OfMakefile
    PROVE  /\ Patched(edit, text) # SystemExit => Extends(Patched(edit, text), fresh)
           /\ Patched(edit, text) = SystemExit => Patched(edit, fresh) = SystemExit
<1>1. CASE edit = LATE
  BY <1>1, OfBlocks, IncludeExtends, IncludeWorks
<1>2. CASE edit = FETCH
  BY <1>2, OfBlocks, IncludeExtends, IncludeWorks
<1>3. CASE edit = PURGE
  BY <1>3, OfBlocks, PurgeExtends, PurgeFails
<1> QED BY <1>1, <1>2, <1>3 DEF OfMakefile

-----------------------------------------------------------------------------
(* What the plans consist of                                               *)

KnownEdits == SingleFiles \cup Generated \cup OfMakefile \cup PatchDirs \cup Links
Checks == {"preflight", "preflight kernel", "preflight rust"}

LEMMA HashingKnown == \A l \in Hashing : l \in KnownEdits
BY DEF Hashing, KnownEdits, Generated, OfMakefile

LEMMA CustomizeNames ==
    ASSUME NEW l, Contains(Customize, l)
    PROVE  l \in KnownEdits
<1> DEFINE a == <<"package/custom-late.mk", LATE>>
           b == <<"Config.in", PURGE, "linux-tool-gpio.mk.in", "linux-tool-pci.mk.in",
                  "openvmtools", "espflash/4.0.1",
                  "systemd/Config.in", "systemd/systemd.mk",
                  "linux-pam/Config.in", "linux-pam/linux-pam.mk",
                  "espflash/Config.in", "espflash/espflash.mk",
                  "ruby/Config.in", "ruby/ruby.mk">>
           A == {"package/custom-late.mk", LATE}
           B == {"Config.in", PURGE, "linux-tool-gpio.mk.in", "linux-tool-pci.mk.in",
                 "openvmtools", "espflash/4.0.1",
                 "systemd/Config.in", "systemd/systemd.mk",
                 "linux-pam/Config.in", "linux-pam/linux-pam.mk",
                 "espflash/Config.in", "espflash/espflash.mk",
                 "ruby/Config.in", "ruby/ruby.mk"}
<1>1. IsText(a) /\ \A k : Contains(a, k) <=> k \in A
  BY TwoLine
<1>2. IsText(b) /\ \A k : Contains(b, k) <=> k \in B
  BY FourteenLine
<1>3. Customize = a \o FetchHash \o b
  BY DEF Customize
<1>4. A \subseteq KnownEdits
  BY DEF KnownEdits, Generated, OfMakefile
<1>5. B \subseteq KnownEdits
  BY DEF KnownEdits, SingleFiles, OfMakefile, PatchDirs
<1> HIDE DEF a, b, A, B
<1>6. /\ IsText(a \o FetchHash)
      /\ \A k : Contains(a \o FetchHash, k) <=> Contains(a, k) \/ Contains(FetchHash, k)
  BY <1>1, FetchHashEdits, JoinedText
<1> DEFINE c == a \o FetchHash
<1> HIDE DEF c
<1>7. \A k : Contains(c \o b, k) <=> Contains(c, k) \/ Contains(b, k)
  BY <1>2, <1>6, JoinedText DEF c
<1>8. Customize = c \o b
  BY <1>3 DEF c
<1>9. Contains(a, l) \/ Contains(FetchHash, l) \/ Contains(b, l)
  BY <1>6, <1>7, <1>8 DEF c
<1>10. l \in A \/ l \in Hashing \/ l \in B
  BY <1>1, <1>2, <1>9, FetchHashEdits
<1> QED BY <1>4, <1>5, <1>10, HashingKnown

LEMMA UpdateKernelNames ==
    /\ \A l : Contains(UpdateKernel, l) => l \in KnownEdits
    /\ \A l \in {"linux-headers/Config.in.host", "toolchain/Config.in", "linux/Config.in"} :
         Contains(UpdateKernel, l)
<1> DEFINE a == <<"linux-headers/Config.in.host", "toolchain/Config.in", "linux/Config.in",
                  "linux/7.2.9", "linux-headers/7.2.9">>
           A == {"linux-headers/Config.in.host", "toolchain/Config.in", "linux/Config.in",
                  "linux/7.2.9", "linux-headers/7.2.9"}
<1>1. IsText(a) /\ \A l : Contains(a, l) <=> l \in A
  BY FiveLine
<1>2. UpdateKernel = a \o FetchHash
  BY DEF UpdateKernel
<1>3. A \subseteq KnownEdits
  BY DEF KnownEdits, SingleFiles, Links
<1>4. {"linux-headers/Config.in.host", "toolchain/Config.in", "linux/Config.in"} \subseteq A
  OBVIOUS
<1> HIDE DEF a, A
<1>5. \A l : Contains(a \o FetchHash, l) <=> Contains(a, l) \/ Contains(FetchHash, l)
  BY <1>1, FetchHashEdits, JoinedText
<1> QED BY <1>1, <1>2, <1>3, <1>4, <1>5, FetchHashEdits, HashingKnown

LEMMA UpdateRustNames ==
    ASSUME NEW env, NEW l, Contains(UpdateRust(env), l)
    PROVE  l \in KnownEdits
<1> DEFINE two == <<"rust/rust.mk", "rust-bin/rust-bin.mk">>
           one == <<"rust-bindgen/rust-bindgen.mk">>
           a == IF "RUST_VERSION" \in env THEN two ELSE <<>>
           b == IF "RUST_BINDGEN_VERSION" \in env THEN one ELSE <<>>
           c == IF env = {} THEN <<>> ELSE FetchHash
<1>1. IsText(a) /\ (Contains(a, l) => l \in KnownEdits)
  <2>1. IsText(two) /\ (Contains(two, l) => l \in {"rust/rust.mk", "rust-bin/rust-bin.mk"})
    BY TwoLine
  <2> HIDE DEF two
  <2> QED BY <2>1, EmptyText DEF KnownEdits, SingleFiles
<1>2. IsText(b) /\ (Contains(b, l) => l \in KnownEdits)
  <2>1. IsText(one) /\ (Contains(one, l) => l \in {"rust-bindgen/rust-bindgen.mk"})
    BY OneLine
  <2> HIDE DEF one
  <2> QED BY <2>1, EmptyText DEF KnownEdits, SingleFiles
<1>3. IsText(c) /\ (Contains(c, l) => l \in KnownEdits)
  BY FetchHashEdits, HashingKnown, EmptyText
<1>4. UpdateRust(env) = a \o b \o c
  BY DEF UpdateRust
<1> HIDE DEF a, b, c
<1>5. IsText(a \o b) /\ (Contains(a \o b, l) <=> Contains(a, l) \/ Contains(b, l))
  BY <1>1, <1>2, JoinedText
<1> DEFINE d == a \o b
<1> HIDE DEF d
<1>6. Contains(d \o c, l) <=> Contains(d, l) \/ Contains(c, l)
  BY <1>3, <1>5, JoinedText DEF d
<1>7. UpdateRust(env) = d \o c
  BY <1>4 DEF d
<1> QED BY <1>1, <1>2, <1>3, <1>5, <1>6, <1>7 DEF d

LEMMA PlanNames ==
    ASSUME NEW p \in Plans
    PROVE  \A l : Contains(p, l) => l \in KnownEdits
<1>1. p = <<>> \/ p = Customize \/ p = UpdateKernel \/ \E env \in Envs : p = UpdateRust(env)
  BY DEF Plans
<1> QED BY <1>1, EmptyText, CustomizeNames, UpdateKernelNames, UpdateRustNames

LEMMA PlanSet ==
    ASSUME NEW p \in Plans
    PROVE  /\ \A l : l \in ToSet(p) <=> Contains(p, l)
           /\ ToSet(p) \subseteq KnownEdits
<1>1. IsText(p)
  BY PlanEdits
<1>2. \A l : l \in ToSet(p) <=> Contains(p, l)
  BY <1>1 DEF ToSet, Contains, IsText
<1> QED BY <1>2, PlanNames

\* The kinds of edits are apart, and no edit is a step of the download.
LEMMA KindsApart ==
    /\ Edited \subseteq SingleFiles
    /\ SingleFiles \cap (Generated \cup OfMakefile \cup PatchDirs \cup Links) = {}
    /\ Generated \cap (OfMakefile \cup PatchDirs \cup Links) = {}
    /\ OfMakefile \cap (PatchDirs \cup Links) = {} /\ PatchDirs \cap Links = {}
    /\ KnownEdits \cap Checks = {} /\ KnownEdits \cap NotEdits = {}
    /\ "Makefile" \notin Generated \cup Links /\ Optional \subseteq SingleFiles
<1>1. Edited \subseteq SingleFiles
  <2> SUFFICES ASSUME NEW e \in Edited PROVE e \in SingleFiles
    OBVIOUS
  <2>1. /\ \E p \in Plans : e \in ToSet(p)
        /\ e \notin Links \cup PatchDirs \cup Generated \cup OfMakefile
    BY DEF Edited
  <2> QED BY <2>1, PlanSet DEF KnownEdits
<1>2. /\ SingleFiles \cap (Generated \cup PatchDirs \cup Links) = {}
      /\ Generated \cap (PatchDirs \cup Links) = {} /\ PatchDirs \cap Links = {}
  BY DEF SingleFiles, Generated, PatchDirs, Links
<1>3. OfMakefile \cap (SingleFiles \cup Generated \cup PatchDirs \cup Links) = {}
  BY DEF OfMakefile, LATE, FETCH, PURGE, SingleFiles, Generated, PatchDirs, Links
<1>4. KnownEdits \cap Checks = {} /\ KnownEdits \cap NotEdits = {}
  BY DEF KnownEdits, OfMakefile, LATE, FETCH, PURGE, SingleFiles, Generated, PatchDirs, Links,
         Checks, NotEdits
<1>5. "Makefile" \notin Generated \cup Links
  BY DEF Generated, Links
<1>6. Optional \subseteq SingleFiles
  BY DEF Optional, Pairs, SingleFiles
<1> QED BY <1>1, <1>2, <1>3, <1>4, <1>5, <1>6

\* An edit of the plan that is none of the other kinds is one of Edited.
LEMMA EditedKind ==
    ASSUME NEW p \in Plans, NEW e \in ToSet(p)
    PROVE  e \in Edited \cup Generated \cup OfMakefile \cup PatchDirs \cup Links
<1> DEFINE sets == {ToSet(q) : q \in Plans}
<1>1. ToSet(p) \in sets
  OBVIOUS
<1> HIDE DEF sets
<1>2. e \in UNION sets
  BY <1>1
<1> QED BY <1>2 DEF Edited, sets

LEMMA FilesOfEdits ==
    ASSUME NEW e
    PROVE  /\ e \in SingleFiles \cup Generated => FileOf(e) = e /\ FileOf(e) # "Makefile"
           /\ e \in OfMakefile => FileOf(e) = "Makefile"
BY KindsApart DEF FileOf, KnownEdits, NotEdits

-----------------------------------------------------------------------------
(* What an undamaged tree stays                                            *)

\* What an edit, done or not to be done, leaves in the tree until the end.
Right(e) ==
    /\ e \in Edited \cup Generated =>
         NotApplicable(e) \/ (Exists(e) /\ tree[e] = Patched(e, Fresh(base, e)))
    /\ e \in PatchDirs => NotApplicable(e) \/ Dir(e) = patch_added(FreshDir(base, e), Fix(e))
    /\ e \in Links => NotApplicable(e)
    /\ e \in OfMakefile => Exists("Makefile") /\ Settles(e, tree["Makefile"])

LEMMA PatchAddedTwice ==
    ASSUME NEW A, NEW dir \in Seq(A), NEW fix \in A
    PROVE  patch_added(patch_added(dir, fix), fix) = patch_added(dir, fix)
<1>1. CASE patch_present(dir, fix)
  BY <1>1 DEF patch_added
<1>2. CASE ~patch_present(dir, fix)
  <2> DEFINE r == Append(dir, fix)
  <2>1. patch_added(dir, fix) = r
    BY <1>2 DEF patch_added
  <2>2. Len(dir) + 1 \in DOMAIN r /\ r[Len(dir) + 1] = fix
    OBVIOUS
  <2> HIDE DEF r
  <2>3. patch_present(r, fix)
    BY <2>2 DEF patch_present
  <2> QED BY <2>1, <2>3 DEF patch_added
<1> QED BY <1>1, <1>2

\* The directories of a release are as they are expected to be.
LEMMA DirTwice ==
    ASSUME NEW r \in DOMAIN Stock, NEW d, NEW dir, NEW fix, IsText(fix),
           dir \in {FreshDir(r, d), patch_added(FreshDir(r, d), fix)}
    PROVE  patch_added(dir, fix) = patch_added(FreshDir(r, d), fix)
<1>1. PICK B : FreshDir(r, d) \in Seq(B)
  <2>1. FreshDir(r, d) \in Seq(Seq(STRING)) \/ FreshDir(r, d) = <<>>
    BY ArchiveAssumption DEF FreshDir
  <2>2. <<>> \in Seq({})
    OBVIOUS
  <2> QED BY <2>1, <2>2
<1> DEFINE A == B \cup {fix}
<1>2. FreshDir(r, d) \in Seq(A)
  BY <1>1, SeqGrows
<1>3. fix \in A
  OBVIOUS
<1> HIDE DEF A
<1> QED BY <1>2, <1>3, PatchAddedTwice

LEMMA FixText == \A d : IsText(Fix(d))
<1>1. IsText(OPENVMTOOLS_C23_PATCH)
  BY TwoLine DEF OPENVMTOOLS_C23_PATCH
<1>2. IsText(ESPFLASH_BAIL_PATCH)
  BY TwoLine DEF ESPFLASH_BAIL_PATCH
<1> QED BY <1>1, <1>2 DEF Fix

\* A release extends itself.
LEMMA ExtendsItself ==
    ASSUME NEW fresh, IsText(fresh)
    PROVE  Extends(fresh, fresh)
<1> DEFINE q == patch_makefile(fresh)
           none == <<>>
<1>1. Grows(q, q, none)
  <2>1. q # SystemExit => IsText(q)
    BY PatchedLong
  <2> HIDE DEF q
  <2> QED BY <2>1, EmptyJoin DEF Grows
<1>2. none \in Tails /\ \A l : ~Contains(none, l)
  BY TailsAre, EmptyText
<1> HIDE DEF q, none
<1>3. ExtendsBy(fresh, fresh, none)
  BY <1>1, <1>2 DEF ExtendsBy, q
<1> QED BY <1>2, <1>3, ExtendsIs

\* A release that has just been unpacked is undamaged.
LEMMA FreshUndamaged ==
    ASSUME NEW r \in DOMAIN Stock, NEW files, NEW dirs,
           DOMAIN files = DOMAIN Stock[r], \A f \in DOMAIN files : files[f] = Stock[r][f],
           \A d \in PatchDirs : (IF d \in DOMAIN dirs THEN dirs[d] ELSE <<>>) = FreshDir(r, d)
    PROVE  Undamaged(files, dirs, r)
<1>1. "Makefile" \in DOMAIN Stock[r] => Extends(files["Makefile"], Stock[r]["Makefile"])
  <2> SUFFICES ASSUME "Makefile" \in DOMAIN Stock[r]
               PROVE  Extends(files["Makefile"], Stock[r]["Makefile"])
    OBVIOUS
  <2>1. IsText(Stock[r]["Makefile"]) /\ files["Makefile"] = Stock[r]["Makefile"]
    BY TextsAssumption DEF IsText
  <2> QED BY <2>1, ExtendsItself
<1>2. \A f \in DOMAIN Stock[r] \cap Edited : Patched(f, files[f]) = Patched(f, Stock[r][f])
  OBVIOUS
<1>3. DOMAIN Stock[r] \subseteq DOMAIN files /\ DOMAIN files \subseteq DOMAIN Stock[r] \cup Generated \cup Links
  OBVIOUS
<1>4. \A d \in PatchDirs :
         (IF d \in DOMAIN dirs THEN dirs[d] ELSE <<>>)
             \in {FreshDir(r, d), patch_added(FreshDir(r, d), Fix(d))}
  OBVIOUS
<1> QED BY <1>1, <1>2, <1>3, <1>4 DEF Undamaged

\* The archive, unpacked over nothing, is the release.
LEMMA AllUnpacked ==
    ASSUME NEW r \in DOMAIN Stock, tree = NoFiles, patches = NoFiles, Unpacked(r, Len(Archive))
    PROVE  Undamaged(tree', patches', r)
<1> DEFINE names == {Archive[i] : i \in 1..Len(Archive)}
<1>1. names = ToSet(Archive)
  BY ArchiveAssumption DEF ToSet
<1>2. DOMAIN Stock[r] \subseteq names /\ DOMAIN StockPatches[r] \subseteq names
  BY <1>1, ArchiveAssumption
<1>3. /\ tree' = Merged([f \in names \cap DOMAIN Stock[r] |-> Stock[r][f]], tree)
      /\ patches' = Merged([d \in names \cap DOMAIN StockPatches[r] |->
                            Merged(StockPatches[r][d], Dir(d))], patches)
  BY DEF Unpacked
<1> HIDE DEF names
<1>4. DOMAIN tree' = DOMAIN Stock[r] /\ \A f \in DOMAIN tree' : tree'[f] = Stock[r][f]
  BY <1>2, <1>3 DEF Merged, NoFiles
<1>5. /\ DOMAIN patches' = DOMAIN StockPatches[r]
      /\ \A d \in DOMAIN patches' : patches'[d] = Merged(StockPatches[r][d], Dir(d))
  BY <1>2, <1>3 DEF Merged, NoFiles
<1>6. \A d : Dir(d) = <<>>
  BY DEF Dir, NoFiles
<1>7. ASSUME NEW d \in DOMAIN StockPatches[r]
      PROVE  Merged(StockPatches[r][d], <<>>) = StockPatches[r][d]
  <2> DEFINE s == StockPatches[r][d]
             t == Merged(s, <<>>)
  <2>1. s \in Seq(Seq(STRING))
    BY ArchiveAssumption
  <2>2. DOMAIN s \cup DOMAIN <<>> = DOMAIN s
    OBVIOUS
  <2>3. t = [x \in DOMAIN s |-> s[x]]
    BY <2>2 DEF Merged
  <2> HIDE DEF s
  <2>4. s = [x \in DOMAIN s |-> s[x]]
    BY <2>1
  <2>5. t = s
    BY <2>3, <2>4
  <2> QED BY <2>5 DEF s
<1>8. \A d : (IF d \in DOMAIN patches' THEN patches'[d] ELSE <<>>) = FreshDir(r, d)
  BY <1>5, <1>6, <1>7 DEF FreshDir
<1> QED BY <1>4, <1>8, FreshUndamaged

\* What stays not applicable while files and patches are added.
LEMMA StaysNotApplicable ==
    ASSUME DOMAIN tree \subseteq DOMAIN tree',
           DOMAIN tree' \subseteq DOMAIN tree \cup Generated \cup Links,
           "openvmtools" \notin DOMAIN patches => "openvmtools" \notin DOMAIN patches',
           NEW e, NotApplicable(e)
    PROVE  NotApplicable(e)'
<1>1. ASSUME NEW f \in {"linux-tool-gpio.mk.in", "linux-tool-pci.mk.in", "espflash/espflash.mk"}
                        \cup {"linux/7.1.13", "linux-headers/7.1.13"}
      PROVE  f \in DOMAIN tree' => f \in DOMAIN tree
  BY DEF Generated, Links
<1>2. \A pair \in Pairs : pair \subseteq DOMAIN tree' => pair \subseteq DOMAIN tree
  <2> SUFFICES ASSUME NEW pair \in Pairs, NEW f \in pair, f \in DOMAIN tree' PROVE f \in DOMAIN tree
    OBVIOUS
  <2>1. f \notin Generated \cup Links
    BY DEF Pairs, Generated, Links
  <2> QED BY <2>1
<1>3. \A link : Prev(link) \in {"linux/7.1.13", "linux-headers/7.1.13"}
  BY DEF Prev
<1> QED BY <1>1, <1>2, <1>3 DEF NotApplicable, Exists

\* What an edit of a file writes.
EditWrites(edit) ==
    /\ DOMAIN tree' = DOMAIN tree \cup {FileOf(edit)} /\ tree'[FileOf(edit)] = After(edit)
    /\ \A f \in DOMAIN tree : f # FileOf(edit) => tree'[f] = tree[f]
    /\ patches' = patches
    /\ IF edit \in Generated THEN After(edit) = Patched(edit, Before(edit))
       ELSE FileOf(edit) \in DOMAIN tree /\ After(edit) = Patched(edit, tree[FileOf(edit)])

LEMMA EditIsWritten ==
    ASSUME NEW edit, After(edit) # SystemExit, Put(FileOf(edit), After(edit))
    PROVE  EditWrites(edit)
<1>1. patches' = patches
  BY DEF Put
<1>2. IF edit \in Generated THEN After(edit) = Patched(edit, Before(edit))
      ELSE FileOf(edit) \in DOMAIN tree /\ After(edit) = Patched(edit, tree[FileOf(edit)])
  BY DEF After, Before, Exists
<1> QED BY <1>1, <1>2, PutFile DEF EditWrites

LEMMA StockIsText ==
    ASSUME NEW r \in DOMAIN Stock, NEW f \in DOMAIN Stock[r]
    PROVE  IsText(Stock[r][f])
BY TextsAssumption DEF IsText

\* The Makefile of an undamaged tree is one of the release's files.
LEMMA MakefileIsStock ==
    ASSUME TreeTexts, base \in DOMAIN Stock, Undamaged(tree, patches, base), Exists("Makefile")
    PROVE  /\ "Makefile" \in DOMAIN Stock[base] /\ IsText(Stock[base]["Makefile"])
           /\ IsText(tree["Makefile"]) /\ Extends(tree["Makefile"], Stock[base]["Makefile"])
<1>1. "Makefile" \in DOMAIN Stock[base]
  BY KindsApart DEF Undamaged, Exists
<1>2. IsText(tree["Makefile"])
  BY DEF TreeTexts, TextFiles, Exists
<1> QED BY <1>1, <1>2, StockIsText DEF Undamaged

\* So is the file of another edit.
LEMMA EditedIsStock ==
    ASSUME base \in DOMAIN Stock, Undamaged(tree, patches, base), NEW e \in Edited, Exists(e)
    PROVE  e \in DOMAIN Stock[base] /\ Patched(e, tree[e]) = Patched(e, Stock[base][e])
BY KindsApart DEF Undamaged, Exists

LEMMA EditUndamaged ==
    ASSUME TreeTexts, base \in DOMAIN Stock, Undamaged(tree, patches, base),
           NEW edit \in Edited \cup Generated \cup OfMakefile,
           After(edit) # SystemExit, EditWrites(edit)
    PROVE  Undamaged(tree', patches', base)
<1> DEFINE r == base
<1>1. DOMAIN Stock[r] \subseteq DOMAIN tree'
  BY DEF EditWrites, Undamaged
<1>2. DOMAIN tree' \subseteq DOMAIN Stock[r] \cup Generated \cup Links
  <2>1. FileOf(edit) \in DOMAIN tree \cup Generated
    BY KindsApart, FilesOfEdits DEF EditWrites
  <2> QED BY <2>1 DEF EditWrites, Undamaged
<1>3. ASSUME NEW f \in DOMAIN Stock[r] \cap Edited
      PROVE  Patched(f, tree'[f]) = Patched(f, Stock[r][f])
  <2>1. f \in DOMAIN tree /\ Patched(f, tree[f]) = Patched(f, Stock[r][f])
    BY DEF Undamaged
  <2>2. CASE f # FileOf(edit)
    BY <2>1, <2>2 DEF EditWrites
  <2>3. CASE f = FileOf(edit)
    <3>1. f \in SingleFiles
      BY KindsApart
    <3>2. edit = f /\ edit \notin Generated
      BY <2>3, <3>1, KindsApart, FilesOfEdits DEF KnownEdits, NotEdits
    <3>3. tree'[f] = Patched(f, Stock[r][f]) /\ Patched(f, Stock[r][f]) # SystemExit
      BY <2>1, <2>3, <3>2 DEF EditWrites
    <3>4. IsText(Stock[r][f])
      BY StockIsText
    <3> QED BY <3>1, <3>3, <3>4, EditIdempotent
  <2> QED BY <2>2, <2>3
<1>4. ASSUME "Makefile" \in DOMAIN Stock[r]
      PROVE  Extends(tree'["Makefile"], Stock[r]["Makefile"])
  <2>1. Exists("Makefile")
    BY <1>4 DEF Undamaged, Exists
  <2>2. CASE edit \in OfMakefile
    <3>1. tree'["Makefile"] = Patched(edit, tree["Makefile"]) /\ tree'["Makefile"] # SystemExit
      BY <2>2, KindsApart, FilesOfEdits DEF EditWrites
    <3> QED BY <2>1, <2>2, <3>1, MakefileIsStock, MakefileKept
  <2>3. CASE edit \notin OfMakefile
    <3>1. FileOf(edit) # "Makefile"
      BY <2>3, KindsApart, FilesOfEdits
    <3> QED BY <2>1, <3>1, MakefileIsStock DEF EditWrites, Exists
  <2> QED BY <2>2, <2>3
<1>5. \A d \in PatchDirs :
         (IF d \in DOMAIN patches' THEN patches'[d] ELSE <<>>)
             \in {FreshDir(r, d), patch_added(FreshDir(r, d), Fix(d))}
  BY DEF EditWrites, Undamaged
<1> QED BY <1>1, <1>2, <1>3, <1>4, <1>5 DEF Undamaged

\* What has been done stays done when another edit is done.
LEMMA EditKeepsRight ==
    ASSUME TreeTexts, base \in DOMAIN Stock, Undamaged(tree, patches, base),
           NEW edit \in Edited \cup Generated \cup OfMakefile,
           After(edit) # SystemExit, EditWrites(edit), base' = base,
           NEW e \in KnownEdits, e = edit \/ Right(e)
    PROVE  Right(e)'
<1>1. FileOf(edit) \in DOMAIN tree \cup Generated
  BY KindsApart, FilesOfEdits DEF EditWrites
<1>2. /\ DOMAIN tree \subseteq DOMAIN tree'
      /\ DOMAIN tree' \subseteq DOMAIN tree \cup Generated \cup Links /\ patches' = patches
  BY <1>1 DEF EditWrites
<1>3. NotApplicable(e) => NotApplicable(e)'
  BY <1>2, StaysNotApplicable
<1>4. CASE e \in Edited \cup Generated
  <2>1. e \notin OfMakefile \cup PatchDirs \cup Links /\ e # "Makefile"
    BY <1>4, KindsApart DEF KnownEdits, NotEdits
  <2>2. CASE e = edit
    <3>1. FileOf(e) = e
      BY <1>4, KindsApart, FilesOfEdits
    <3>2. e \in DOMAIN tree' /\ tree'[e] = After(e)
      BY <2>2, <3>1 DEF EditWrites
    <3>3. After(e) = Patched(e, Fresh(base, e))
      <4>1. CASE e \in Generated
        <5>1. \A t, u : Patched(e, t) = Patched(e, u)
          BY <4>1, PatchedLate, PatchedFiles DEF Generated
        <5>2. After(e) = Patched(e, Before(e))
          BY <2>2, <4>1 DEF EditWrites
        <5> QED BY <5>1, <5>2
      <4>2. CASE e \notin Generated
        <5>1. e \in Edited /\ e \in DOMAIN tree /\ After(e) = Patched(e, tree[e])
          BY <1>4, <2>2, <3>1, <4>2 DEF EditWrites
        <5>2. e \in DOMAIN Stock[base] /\ Patched(e, tree[e]) = Patched(e, Stock[base][e])
          BY <5>1, EditedIsStock DEF Exists
        <5> QED BY <5>1, <5>2 DEF Fresh
      <4> QED BY <4>1, <4>2
    <3> QED BY <2>1, <3>2, <3>3 DEF Right, Exists
  <2>3. CASE e # edit
    <3>1. FileOf(edit) # e
      BY <2>1, <2>3, KindsApart, FilesOfEdits
    <3>2. NotApplicable(e) \/ (Exists(e) /\ tree[e] = Patched(e, Fresh(base, e)))
      BY <1>4, <2>3 DEF Right
    <3>3. Exists(e) => e \in DOMAIN tree' /\ tree'[e] = tree[e]
      BY <3>1 DEF EditWrites, Exists
    <3> QED BY <1>3, <2>1, <3>2, <3>3 DEF Right, Exists
  <2> QED BY <2>2, <2>3
<1>5. CASE e \in OfMakefile
  <2>1. e \notin Edited \cup Generated \cup PatchDirs \cup Links
    BY <1>5, KindsApart
  <2>2. Exists("Makefile") /\ FileOf(e) = "Makefile"
    <3>1. CASE e = edit
      BY <1>5, <2>1, <3>1, FilesOfEdits DEF EditWrites, Exists
    <3>2. CASE Right(e)
      BY <1>5, <3>2, FilesOfEdits DEF Right
    <3> QED BY <3>1, <3>2
  <2>3. IsText(tree["Makefile"])
    BY <2>2, MakefileIsStock
  <2>4. e # edit => Settles(e, tree["Makefile"])
    BY <1>5 DEF Right
  <2>5. Settles(e, tree'["Makefile"])
    <3>1. CASE edit \in OfMakefile
      <4>1. /\ tree'["Makefile"] = Patched(edit, tree["Makefile"])
            /\ Patched(edit, tree["Makefile"]) # SystemExit
        BY <3>1, KindsApart, FilesOfEdits DEF EditWrites
      <4> QED BY <1>5, <2>3, <2>4, <3>1, <4>1, SettledStays
    <3>2. CASE edit \notin OfMakefile
      <4>1. FileOf(edit) # "Makefile" /\ e # edit
        BY <1>5, <3>2, KindsApart, FilesOfEdits
      <4>2. tree'["Makefile"] = tree["Makefile"]
        BY <2>2, <4>1 DEF EditWrites, Exists
      <4> QED BY <2>4, <4>1, <4>2
    <3> QED BY <3>1, <3>2
  <2>6. "Makefile" \in DOMAIN tree'
    BY <1>2, <2>2 DEF Exists
  <2> QED BY <2>1, <2>5, <2>6 DEF Right, Exists, Settles
<1>6. CASE e \in PatchDirs \cup Links
  <2>1. e \notin Edited \cup Generated \cup OfMakefile
    BY <1>6, KindsApart
  <2>2. Right(e)
    BY <2>1
  <2>3. Dir(e)' = Dir(e)
    BY <1>2 DEF Dir
  <2> QED BY <1>3, <2>1, <2>2, <2>3 DEF Right
<1>7. CASE e \notin Edited \cup Generated \cup OfMakefile \cup PatchDirs \cup Links
  BY <1>7 DEF Right
<1> QED BY <1>4, <1>5, <1>6, <1>7

\* The patch directories.
LEMMA PatchKept ==
    ASSUME base \in DOMAIN Stock, Undamaged(tree, patches, base), NEW dir \in PatchDirs,
           patches' = Merged([d \in {dir} |-> patch_added(Dir(dir), Fix(dir))], patches),
           ~NotApplicable(dir), UNCHANGED <<tree, base>>
    PROVE  /\ Undamaged(tree', patches', base)
           /\ \A e : e = dir \/ Right(e) => Right(e)'
<1> DEFINE new == patch_added(FreshDir(base, dir), Fix(dir))
<1>1. Dir(dir) \in {FreshDir(base, dir), patch_added(FreshDir(base, dir), Fix(dir))}
  BY DEF Undamaged, Dir
<1>2. patch_added(Dir(dir), Fix(dir)) = new
  BY <1>1, DirTwice, FixText
<1> HIDE DEF new
<1>3. /\ DOMAIN patches' = DOMAIN patches \cup {dir} /\ patches'[dir] = new
      /\ \A d \in DOMAIN patches : d # dir => patches'[d] = patches[d]
  BY <1>2 DEF Merged
<1>4. Dir(dir)' = new /\ \A d : d # dir => Dir(d)' = Dir(d)
  BY <1>3 DEF Dir
<1>5. ASSUME NEW d \in PatchDirs
      PROVE  (IF d \in DOMAIN patches' THEN patches'[d] ELSE <<>>)
                 \in {FreshDir(base, d), patch_added(FreshDir(base, d), Fix(d))}
  <2>1. Dir(d)' = IF d \in DOMAIN patches' THEN patches'[d] ELSE <<>>
    BY DEF Dir
  <2>2. Dir(d) = IF d \in DOMAIN patches THEN patches[d] ELSE <<>>
    BY DEF Dir
  <2> QED BY <1>4, <2>1, <2>2 DEF Undamaged, new
<1>6. Undamaged(tree', patches', base)
  BY <1>5 DEF Undamaged
<1>7. "openvmtools" \notin DOMAIN patches => "openvmtools" \notin DOMAIN patches'
  <2>1. CASE dir = "openvmtools"
    BY <2>1 DEF NotApplicable
  <2>2. CASE dir # "openvmtools"
    BY <1>3, <2>2
  <2> QED BY <2>1, <2>2
<1>8. \A e : NotApplicable(e) => NotApplicable(e)'
  BY <1>7, StaysNotApplicable
<1>9. ASSUME NEW e, e = dir \/ Right(e) PROVE Right(e)'
  <2>1. CASE e = dir
    <3>1. e \notin Edited \cup Generated \cup OfMakefile \cup Links
      BY <2>1, KindsApart
    <3> QED BY <1>4, <2>1, <3>1 DEF Right, new
  <2>2. CASE e # dir
    <3>1. Dir(e)' = Dir(e)
      BY <1>4, <2>2
    <3> QED BY <1>8, <1>9, <2>2, <3>1 DEF Right, Exists
  <2> QED BY <2>1, <2>2
<1> QED BY <1>6, <1>9

\* The links.
LEMMA LinkKept ==
    ASSUME base \in DOMAIN Stock, Undamaged(tree, patches, base), NEW link \in Links,
           NEW text, Put(link, text), ~NotApplicable(link), base' = base
    PROVE  /\ Undamaged(tree', patches', base)
           /\ \A e \in KnownEdits : e = link \/ Right(e) => Right(e)'
<1>1. /\ DOMAIN tree' = DOMAIN tree \cup {link}
      /\ \A f \in DOMAIN tree : f # link => tree'[f] = tree[f]
  BY PutFile
<1>2. patches' = patches
  BY DEF Put
<1>3. link \notin DOMAIN tree
  BY DEF NotApplicable, Exists
<1>4. \A f \in DOMAIN tree : tree'[f] = tree[f]
  BY <1>1, <1>3
<1>5. Undamaged(tree', patches', base)
  <2>1. DOMAIN Stock[base] \subseteq DOMAIN tree
    BY DEF Undamaged
  <2>2. \A f \in DOMAIN Stock[base] \cap Edited : Patched(f, tree'[f]) = Patched(f, Stock[base][f])
    BY <1>4, <2>1 DEF Undamaged
  <2>3. "Makefile" \in DOMAIN Stock[base] => Extends(tree'["Makefile"], Stock[base]["Makefile"])
    BY <1>4, <2>1 DEF Undamaged
  <2> QED BY <1>1, <1>2, <2>1, <2>2, <2>3 DEF Undamaged
<1>6. \A e : NotApplicable(e) => NotApplicable(e)'
  BY <1>1, <1>2, StaysNotApplicable
<1>7. ASSUME NEW e \in KnownEdits, e = link \/ Right(e) PROVE Right(e)'
  <2>1. CASE e = link
    <3>1. e \notin Edited \cup Generated \cup OfMakefile \cup PatchDirs
      BY <2>1, KindsApart
    <3>2. NotApplicable(e)'
      BY <1>1, <2>1 DEF NotApplicable, Exists
    <3> QED BY <3>1, <3>2 DEF Right
  <2>2. CASE e # link
    <3>1. Dir(e)' = Dir(e)
      BY <1>2 DEF Dir
    <3>2. \A f : Exists(f) => Exists(f)' /\ tree'[f] = tree[f]
      BY <1>1, <1>4 DEF Exists
    <3> QED BY <1>6, <1>7, <2>2, <3>1, <3>2 DEF Right
  <2> QED BY <2>1, <2>2
<1> QED BY <1>5, <1>7

-----------------------------------------------------------------------------
(* A call on an undamaged tree                                             *)

\* What is ahead of a call belongs to its plan, and the archive is unpacked
\* into an empty directory, or into one without a Makefile.
Ahead ==
    /\ Contains(todo, "preflight") => plan = Customize
    /\ Contains(todo, "preflight kernel") => plan = UpdateKernel
    /\ \A i \in 2..Len(todo) : todo[i] = "get" => todo[i - 1] = "purge"

\* The edits of the call that are no longer ahead have been done.
AllRight == \A i \in 1..Len(plan) : i + Len(todo) <= Len(plan) => Right(plan[i])

Sound ==
    /\ Ahead
    /\ FailsOnlyOnOddRelease
    /\ base # NoBase =>
         /\ Undamaged(tree, patches, base)
         /\ todo # <<>> /\ Head(todo) = "get" => ~Exists("Makefile")
         /\ result \in {"running", "ok"} => AllRight

LEMMA StockNames == ASSUME TreeTypeOK, base # NoBase PROVE base \in DOMAIN Stock
BY DEF TreeTypeOK

\* A step of the call is done.
LEMMA AheadDone ==
    ASSUME TreeTypeOK, TreeInv, Ahead, todo # <<>>, Done
    PROVE  /\ Ahead'
           /\ todo' # <<>> /\ Head(todo') = "get" => Head(todo) = "purge"
<1>1. /\ IsText(todo') /\ Len(todo') = Len(todo) - 1 /\ Len(todo) \in Nat \ {0} /\ plan' = plan
      /\ Head(todo) = todo[1] /\ \A i \in 1..(Len(todo) - 1) : todo'[i] = todo[i + 1]
  BY TailText DEF TreeInv, Done
<1>2. \A l : Contains(todo', l) => Contains(todo, l)
  <2> SUFFICES ASSUME NEW l, NEW i \in 1..Len(todo'), todo'[i] = l PROVE Contains(todo, l)
    BY DEF Contains
  <2>1. i + 1 \in 1..Len(todo) /\ todo[i + 1] = l
    BY <1>1
  <2> QED BY <2>1 DEF Contains
<1>3. \A i \in 2..Len(todo') : todo'[i] = "get" => todo'[i - 1] = "purge"
  <2> SUFFICES ASSUME NEW i \in 2..Len(todo'), todo'[i] = "get" PROVE todo'[i - 1] = "purge"
    OBVIOUS
  <2>1. i + 1 \in 2..Len(todo) /\ todo[i + 1] = "get" /\ (i + 1) - 1 = i
    BY <1>1
  <2>2. todo[i] = "purge"
    BY <2>1 DEF Ahead
  <2>3. i - 1 \in 1..(Len(todo) - 1) /\ (i - 1) + 1 = i
    BY <1>1
  <2> QED BY <1>1, <2>2, <2>3
<1>4. ASSUME todo' # <<>>, Head(todo') = "get" PROVE Head(todo) = "purge"
  <2>1. Head(todo') = todo'[1] /\ Len(todo') \in Nat \ {0}
    BY <1>1, <1>4, TailText
  <2>2. 2 \in 2..Len(todo) /\ 1 \in 1..(Len(todo) - 1) /\ 1 + 1 = 2 /\ 2 - 1 = 1
    BY <1>1, <2>1
  <2>3. todo[2] = "get"
    BY <1>1, <1>4, <2>1, <2>2
  <2> QED BY <1>1, <2>2, <2>3 DEF Ahead
<1> QED BY <1>1, <1>2, <1>3, <1>4 DEF Ahead

\* It was one of the edits,
LEMMA EditDoneRight ==
    ASSUME TreeTypeOK, TreeInv, todo # <<>>, Done, AllRight,
           \A e : Contains(plan, e) /\ (e = Head(todo) \/ Right(e)) => Right(e)'
    PROVE  AllRight'
<1> DEFINE n == Len(plan)
           k == Len(todo)
<1>1. /\ Len(todo') = k - 1 /\ k \in Nat \ {0} /\ n \in Nat /\ plan' = plan
      /\ k <= n => Head(todo) = plan[n + 1 - k]
  BY TodoDone
<1>2. \A i \in 1..n : i + k <= n => Right(plan[i])
  BY DEF AllRight
<1>3. \A i \in 1..n : Contains(plan, plan[i])
  BY DEF Contains
<1> HIDE DEF n, k
<1>4. ASSUME NEW i \in 1..n, i + Len(todo') <= n PROVE Right(plan[i])'
  <2>1. CASE i + k <= n
    BY <1>1, <1>2, <1>3, <2>1
  <2>2. CASE i + k > n
    <3>1. k <= n /\ n + 1 - k = i
      BY <1>1, <1>4, <2>2
    <3> QED BY <1>1, <1>3, <3>1
  <2> QED BY <1>1, <2>1, <2>2
<1> QED BY <1>1, <1>4 DEF AllRight, n

\* or it was not.
LEMMA StepDoneRight ==
    ASSUME TreeTypeOK, TreeInv, todo # <<>>, Done, ~Contains(plan, Head(todo))
    PROVE  AllRight'
<1>1. Len(todo) > Len(plan)
  <2> SUFFICES ASSUME Len(todo) <= Len(plan) PROVE FALSE
    BY TodoDone
  <2>1. Len(plan) + 1 - Len(todo) \in 1..Len(plan)
    BY TodoDone
  <2> QED BY <2>1, TodoDone DEF Contains
<1> QED BY <1>1, TodoDone DEF AllRight

LEMMA DoneIsNoFailure ==
    ASSUME Done
    PROVE  FailsOnlyOnOddRelease'
BY DEF Done, FailsOnlyOnOddRelease

\* A step is done that keeps the tree undamaged and what has been done.
LEMMA SoundDone ==
    ASSUME TreeTypeOK, TreeInv, Sound, todo # <<>>, Done, base' = base,
           Head(todo) # "purge",
           base # NoBase => /\ Undamaged(tree', patches', base)
                            /\ AllRight => AllRight'
    PROVE  Sound'
<1>1. Ahead' /\ (todo' # <<>> => Head(todo') # "get")
  BY AheadDone DEF Sound
<1>2. result = "running"
  BY DEF TreeTypeOK
<1>3. ASSUME base' # NoBase PROVE Undamaged(tree', patches', base') /\ AllRight'
  BY <1>2, <1>3 DEF Sound
<1> QED BY <1>1, <1>3, DoneIsNoFailure DEF Sound

Checking(check) ==
    check \in {<<"preflight", "preflight">>, <<"preflight kernel", "kernel">>,
              <<"preflight rust", "rust">>}

LEMMA PreflightNames ==
    ASSUME NEW check, Checking(check)
    PROVE  /\ check[1] \in Checks
           /\ \/ check[1] = "preflight" /\ Required[check[2]] = {"Config.in", "Makefile", "package/Config.in"}
              \/ check[1] = "preflight kernel" /\ Required[check[2]] =
                    {"Config.in", "linux-headers/Config.in.host", "toolchain/Config.in",
                     "linux/Config.in"}
              \/ check[1] = "preflight rust" /\ Required[check[2]] =
                    {"Config.in"} \cup (ToSet(plan) \cap {"rust/rust.mk", "rust-bin/rust-bin.mk"})
<1>1. CASE check = <<"preflight", "preflight">>
  BY <1>1 DEF Required, Checks
<1>2. CASE check = <<"preflight kernel", "kernel">>
  BY <1>2 DEF Required, Checks
<1>3. CASE check = <<"preflight rust", "rust">>
  BY <1>3 DEF Required, Checks
<1> QED BY <1>1, <1>2, <1>3 DEF Checking

\* The files that have one edit each are needed unless they are optional.
LEMMA NeededEdits ==
    ASSUME TreeTypeOK, NEW f \in ToSet(plan) \cap SingleFiles, f \notin Optional
    PROVE  f \in Needed
<1>1. f \in Edited
  BY EditedKind, KindsApart DEF TreeTypeOK
<1> QED BY <1>1 DEF Needed

\* What a check asks for is needed.
LEMMA RequiredIsNeeded ==
    ASSUME TreeTypeOK, TreeInv, Ahead, todo # <<>>,
           NEW check, Checking(check), Head(todo) = check[1]
    PROVE  Required[check[2]] \subseteq Needed
<1>1. Contains(todo, check[1])
  <2>1. IsText(todo)
    BY DEF TreeInv
  <2>2. Head(todo) = todo[1] /\ Len(todo) \in Nat \ {0}
    BY <2>1, TailText
  <2>3. 1 \in 1..Len(todo)
    BY <2>2
  <2> QED BY <2>2, <2>3 DEF Contains
<1>2. "Config.in" \in Needed /\ "Makefile" \in Needed
  BY DEF Needed
<1>3. CASE check[1] = "preflight"
  <2>1. plan = Customize
    BY <1>1, <1>3 DEF Ahead
  <2>2. "package/Config.in" \in Needed
    BY <2>1 DEF Needed
  <2> QED BY <1>2, <1>3, <2>2, PreflightNames
<1>4. CASE check[1] = "preflight kernel"
  <2>1. plan = UpdateKernel
    BY <1>1, <1>4 DEF Ahead
  <2>2. ASSUME NEW f \in {"linux-headers/Config.in.host", "toolchain/Config.in", "linux/Config.in"}
        PROVE  f \in Needed
    <3>1. f \in ToSet(plan)
      BY <2>1, UpdateKernelNames, PlanSet DEF TreeTypeOK
    <3>2. f \in SingleFiles /\ f \notin Optional
      BY DEF SingleFiles, Optional, Pairs
    <3> QED BY <3>1, <3>2, NeededEdits
  <2> QED BY <1>2, <1>4, <2>2, PreflightNames
<1>5. CASE check[1] = "preflight rust"
  <2>1. ASSUME NEW f \in ToSet(plan) \cap {"rust/rust.mk", "rust-bin/rust-bin.mk"}
        PROVE  f \in Needed
    <3>1. f \in SingleFiles /\ f \notin Optional
      BY DEF SingleFiles, Optional, Pairs
    <3> QED BY <3>1, NeededEdits
  <2> QED BY <1>2, <1>5, <2>1, PreflightNames
<1> QED BY <1>3, <1>4, <1>5, PreflightNames

\* A call fails on an undamaged tree for a reason.
LEMMA SoundFails ==
    ASSUME TreeTypeOK, Sound, Fails, base' = base,
           base # NoBase => ~(Needed \subseteq DOMAIN tree)
                            \/ \E e \in ToSet(plan) \ (Links \cup PatchDirs) :
                                 /\ FileOf(e) \in DOMAIN Stock[base]
                                 /\ Patched(e, Stock[base][FileOf(e)]) = SystemExit
    PROVE  Sound'
<1>1. /\ result' = "failed" /\ todo' = <<>> /\ plan' = plan /\ tree' = tree /\ patches' = patches
  BY DEF Fails, End
<1>2. FailsOnlyOnOddRelease'
  <2> SUFFICES ASSUME base # NoBase
               PROVE  \/ ~(Needed' \subseteq DOMAIN Stock[base])
                      \/ \E e \in ToSet(plan) \ (Links \cup PatchDirs) :
                           /\ FileOf(e) \in DOMAIN Stock[base]
                           /\ Patched(e, Stock[base][FileOf(e)]) = SystemExit
    BY <1>1 DEF FailsOnlyOnOddRelease
  <2>1. DOMAIN Stock[base] \subseteq DOMAIN tree
    BY DEF Sound, Undamaged
  <2>2. Needed' = Needed
    BY <1>1 DEF Needed
  <2> QED BY <2>1, <2>2
<1>3. Ahead'
  <2>1. \A l : ~Contains(todo', l)
    BY <1>1, EmptyText
  <2>2. 2..Len(todo') = {}
    BY <1>1
  <2> QED BY <2>1, <2>2 DEF Ahead
<1> QED BY <1>1, <1>2, <1>3 DEF Sound

\* A call is killed, or stops after damage.
LEMMA SoundStops ==
    ASSUME Sound, NEW how \in {"failed", "killed"}, End(how),
           base' = NoBase \/ (how = "killed" /\ UNCHANGED <<tree, patches, base>>)
    PROVE  Sound'
<1>1. result' = how /\ todo' = <<>>
  BY DEF End
<1>2. Ahead'
  <2>1. \A l : ~Contains(todo', l)
    BY <1>1, EmptyText
  <2>2. 2..Len(todo') = {}
    BY <1>1
  <2> QED BY <2>1, <2>2 DEF Ahead
<1>3. FailsOnlyOnOddRelease'
  BY <1>1 DEF FailsOnlyOnOddRelease
<1> QED BY <1>1, <1>2, <1>3 DEF Sound

\* What a call starts with checks for its own edits, and fetches the tree only
\* into a directory it purges, or that has no Makefile.
StartsWith(steps, edits) ==
    /\ Contains(steps, "preflight") => edits = Customize
    /\ Contains(steps, "preflight kernel") => edits = UpdateKernel
    /\ \A i \in 1..Len(steps) :
         steps[i] = "get" => (i = 1 /\ ~Exists("Makefile")) \/ (i > 1 /\ steps[i - 1] = "purge")

LEMMA GetAfterPurge ==
    ASSUME NEW steps, NEW edits, StartsWith(steps, edits), NEW i \in 1..Len(steps), steps[i] = "get"
    PROVE  (i = 1 /\ ~Exists("Makefile")) \/ (i > 1 /\ steps[i - 1] = "purge")
<1>1. \A j \in 1..Len(steps) :
         steps[j] = "get" => (j = 1 /\ ~Exists("Makefile")) \/ (j > 1 /\ steps[j - 1] = "purge")
  BY Zenon DEF StartsWith
<1> QED BY <1>1, Zenon

\* A call starts.
LEMMA SoundStarts ==
    ASSUME Sound, NEW steps, IsText(steps), NEW edits \in Plans, Start(steps, edits),
           StartsWith(steps, edits)
    PROVE  Sound'
<1>1. /\ todo' = steps \o edits /\ plan' = edits /\ tree' = tree /\ patches' = patches
      /\ base' = base /\ result' # "failed"
  BY DEF Start
<1>2. IsText(edits) /\ \A l : Contains(edits, l) => l \in KnownEdits
  BY PlanEdits, PlanNames
<1>3. /\ IsText(todo') /\ Len(todo') = Len(steps) + Len(edits)
      /\ Len(steps) \in Nat /\ Len(edits) \in Nat
      /\ \A l : Contains(todo', l) <=> Contains(steps, l) \/ Contains(edits, l)
  BY <1>1, <1>2, JoinedText
<1>4. /\ \A i \in 1..Len(edits) : todo'[Len(steps) + i] = edits[i]
      /\ \A i \in 1..Len(steps) : todo'[i] = steps[i]
  <2>1. PICK A : steps \in Seq(A) /\ edits \in Seq(A)
    BY <1>2, Common
  <2> QED BY <1>1, <2>1, JoinedLines
<1>5. ~Contains(edits, "get") /\ ~Contains(edits, "preflight") /\ ~Contains(edits, "preflight kernel")
  BY <1>2, KindsApart DEF Checks, NotEdits
<1>6. ASSUME NEW i \in 1..Len(todo'), todo'[i] = "get"
      PROVE  i \in 1..Len(steps) /\ steps[i] = "get"
  <2>1. CASE i > Len(steps)
    <3>1. i - Len(steps) \in 1..Len(edits) /\ Len(steps) + (i - Len(steps)) = i
      BY <1>3, <2>1
    <3>2. edits[i - Len(steps)] = "get"
      BY <1>4, <1>6, <3>1
    <3> QED BY <1>5, <3>1, <3>2 DEF Contains
  <2>2. CASE i <= Len(steps)
    BY <1>3, <1>4, <1>6, <2>2
  <2> QED BY <1>3, <2>1, <2>2
<1>7. Ahead'
  <2>1. ASSUME NEW i \in 2..Len(todo'), todo'[i] = "get" PROVE todo'[i - 1] = "purge"
    <3>1. i \in 1..Len(todo') /\ i # 1
      BY <1>3
    <3>2. i \in 1..Len(steps) /\ steps[i] = "get"
      BY <1>6, <2>1, <3>1
    <3>3. steps[i - 1] = "purge"
      BY <3>1, <3>2, GetAfterPurge
    <3>4. i - 1 \in 1..Len(steps)
      BY <1>3, <3>1, <3>2
    <3> QED BY <1>4, <3>3, <3>4
  <2> QED BY <1>1, <1>3, <1>5, <2>1 DEF Ahead, StartsWith
<1>8. todo' # <<>> /\ Head(todo') = "get" => ~Exists("Makefile")'
  <2> SUFFICES ASSUME todo' # <<>>, Head(todo') = "get" PROVE ~Exists("Makefile")
    BY <1>1 DEF Exists
  <2>1. Head(todo') = todo'[1] /\ 1 \in 1..Len(todo')
    BY <1>3, TailText
  <2>2. steps[1] = "get" /\ 1 \in 1..Len(steps)
    BY <1>6, <2>1
  <2> QED BY <2>2, GetAfterPurge
<1>9. AllRight'
  BY <1>1, <1>3 DEF AllRight
<1>10. FailsOnlyOnOddRelease'
  BY <1>1 DEF FailsOnlyOnOddRelease
<1> QED BY <1>1, <1>7, <1>8, <1>9, <1>10 DEF Sound

LEMMA LinesIn ==
    ASSUME NEW S, NEW a \in S, NEW b \in S
    PROVE  /\ IsText(<<a>>) /\ \A l : Contains(<<a>>, l) => l \in S
           /\ IsText(<<a, b>>) /\ \A l : Contains(<<a, b>>, l) => l \in S
BY OneLine, TwoLine

LEMMA OtherLine ==
    ASSUME NEW a, NEW l, l # a
    PROVE  ~Contains(<<a>>, l)
BY OneLine

FetchSteps == {"purge", "get"}

LEMMA FetchStepsAre ==
    /\ "purge" \in FetchSteps /\ "get" \in FetchSteps
    /\ "preflight" \notin FetchSteps /\ "preflight kernel" \notin FetchSteps
BY DEF FetchSteps

LEMMA FetchingStarts ==
    ASSUME NEW upgrade \in BOOLEAN, NEW force \in BOOLEAN
    PROVE  LET steps == Fetching(upgrade, force) IN
           /\ IsText(steps) /\ \A l : Contains(steps, l) => l \in FetchSteps
           /\ steps \in {<<>>, <<"purge", "get">>} \/ (steps = <<"get">> /\ ~Exists("Makefile"))
<1> DEFINE one == <<"get">>
           two == <<"purge", "get">>
           steps == Fetching(upgrade, force)
<1>1. IsText(one) /\ \A l : Contains(one, l) => l \in FetchSteps
  BY LinesIn, FetchStepsAre
<1>2. IsText(two) /\ \A l : Contains(two, l) => l \in FetchSteps
  BY LinesIn, FetchStepsAre
<1>3. steps \in {<<>>, two} \/ (steps = one /\ ~Exists("Makefile"))
  BY DEF Fetching
<1> HIDE DEF one, two, steps
<1>4. IsText(steps) /\ \A l : Contains(steps, l) => l \in FetchSteps
  BY <1>1, <1>2, <1>3, EmptyText
<1> QED BY <1>3, <1>4 DEF one, two, steps

\* The steps of the download, with or without a check behind them.
LEMMA StepsInOrder ==
    ASSUME NEW a, a \in {<<>>, <<"purge", "get">>} \/ (a = <<"get">> /\ ~Exists("Makefile")),
           NEW b, b \in {<<>>, <<"preflight">>}, NEW i \in 1..Len(a \o b), (a \o b)[i] = "get"
    PROVE  (i = 1 /\ ~Exists("Makefile")) \/ (i > 1 /\ (a \o b)[i - 1] = "purge")
<1>1. CASE a = <<>>
  <2>1. CASE b = <<>>
    BY <1>1, <2>1
  <2>2. CASE b = <<"preflight">>
    BY <1>1, <2>2
  <2> QED BY <2>1, <2>2
<1>2. CASE a = <<"purge", "get">>
  <2>1. CASE b = <<>>
    BY <1>2, <2>1
  <2>2. CASE b = <<"preflight">>
    BY <1>2, <2>2
  <2> QED BY <2>1, <2>2
<1>3. CASE a = <<"get">> /\ ~Exists("Makefile")
  <2>1. CASE b = <<>>
    BY <1>3, <2>1
  <2>2. CASE b = <<"preflight">>
    BY <1>3, <2>2
  <2> QED BY <2>1, <2>2
<1> QED BY <1>1, <1>2, <1>3

LEMMA GetStarts ==
    ASSUME Sound, NEW upgrade \in BOOLEAN, NEW force \in BOOLEAN, GetBuildroot(upgrade, force)
    PROVE  Sound'
<1> DEFINE none == <<>>
           steps == Fetching(upgrade, force)
           both == steps \o none
<1>1. /\ IsText(steps) /\ \A l : Contains(steps, l) => l \in FetchSteps
      /\ steps \in {<<>>, <<"purge", "get">>} \/ (steps = <<"get">> /\ ~Exists("Makefile"))
  BY FetchingStarts
<1>2. Start(steps, none) /\ none \in Plans /\ none \in {<<>>, <<"preflight">>}
  BY DEF GetBuildroot, Plans
<1> HIDE DEF steps, none
<1>3. \A i \in 1..Len(both) :
         both[i] = "get" => (i = 1 /\ ~Exists("Makefile")) \/ (i > 1 /\ both[i - 1] = "purge")
  BY <1>1, <1>2, StepsInOrder
<1>4. both = steps
  BY <1>1, EmptyJoin DEF none
<1> HIDE DEF both
<1>5. StartsWith(steps, none)
  <2>1. ~Contains(steps, "preflight") /\ ~Contains(steps, "preflight kernel")
    BY <1>1, FetchStepsAre
  <2> QED BY <1>3, <1>4, <2>1, Zenon DEF StartsWith
<1> QED BY <1>1, <1>2, <1>5, SoundStarts

LEMMA CustomizeStarts ==
    ASSUME Sound, NEW upgrade \in BOOLEAN, NEW force \in BOOLEAN, GetAndCustomize(upgrade, force)
    PROVE  Sound'
<1> DEFINE last == <<"preflight">>
           steps == Fetching(upgrade, force)
           both == steps \o last
<1>1. /\ IsText(steps) /\ \A l : Contains(steps, l) => l \in FetchSteps
      /\ steps \in {<<>>, <<"purge", "get">>} \/ (steps = <<"get">> /\ ~Exists("Makefile"))
  BY FetchingStarts
<1>2. Start(both, Customize) /\ Customize \in Plans /\ last \in {<<>>, <<"preflight">>}
  BY DEF GetAndCustomize, Plans
<1>3. IsText(last) /\ ~Contains(last, "preflight kernel")
  BY OneLine, OtherLine
<1> HIDE DEF steps, last
<1>4. \A i \in 1..Len(both) :
         both[i] = "get" => (i = 1 /\ ~Exists("Makefile")) \/ (i > 1 /\ both[i - 1] = "purge")
  BY <1>1, <1>2, StepsInOrder
<1>5. IsText(both) /\ \A l : Contains(both, l) => Contains(steps, l) \/ Contains(last, l)
  BY <1>1, <1>3, JoinedText
<1> HIDE DEF both
<1>6. StartsWith(both, Customize)
  <2>1. ~Contains(both, "preflight kernel")
    BY <1>1, <1>3, <1>5, FetchStepsAre
  <2> QED BY <1>4, <2>1, Zenon DEF StartsWith
<1> QED BY <1>2, <1>5, <1>6, SoundStarts

\* A call that only edits starts with its check.
LEMMA CheckStarts ==
    ASSUME Sound, NEW check \in {"preflight kernel", "preflight rust"}, NEW edits \in Plans,
           Start(<<check>>, edits), check = "preflight kernel" => edits = UpdateKernel
    PROVE  Sound'
<1> DEFINE steps == <<check>>
<1>1. /\ IsText(steps) /\ ~Contains(steps, "preflight")
      /\ Contains(steps, "preflight kernel") => check = "preflight kernel"
      /\ ~Contains(steps, "get")
  BY OneLine, OtherLine
<1>2. \A i \in 1..Len(steps) : steps[i] # "get"
  <2>1. \A i \in 1..Len(steps) : Contains(steps, steps[i])
    BY DEF Contains
  <2> HIDE DEF steps
  <2> QED BY <1>1, <2>1
<1> HIDE DEF steps
<1>3. StartsWith(steps, edits)
  <2>1. ~Contains(steps, "preflight") /\ (Contains(steps, "preflight kernel") => edits = UpdateKernel)
    BY <1>1
  <2> QED BY <1>2, <2>1, Zenon DEF StartsWith
<1>4. Start(steps, edits)
  BY DEF steps
<1> QED BY <1>1, <1>3, <1>4, SoundStarts

LEMMA CallSound ==
    ASSUME Sound, TreeCall
    PROVE  Sound'
<1>1. CASE UpdateKernelSupport
  <2>1. UpdateKernel \in Plans
    BY DEF Plans
  <2> QED BY <1>1, <2>1, CheckStarts DEF UpdateKernelSupport
<1>2. ASSUME NEW env \in Envs, UpdateRustVersion(env) PROVE Sound'
  <2>1. UpdateRust(env) \in Plans
    BY DEF Plans
  <2>2. Start(<<"preflight rust">>, UpdateRust(env))
    BY <1>2 DEF UpdateRustVersion
  <2> QED BY <2>1, <2>2, CheckStarts
<1> QED BY <1>1, <1>2, GetStarts, CustomizeStarts DEF TreeCall

LEMMA PreflightSound ==
    ASSUME TreeTypeOK, TreeInv, Sound, Preflight
    PROVE  Sound'
<1>1. PICK check : /\ Checking(check) /\ Head(todo) = check[1] /\ todo # <<>>
                   /\ UNCHANGED <<tree, patches, base>>
                   /\ Done \/ (~(Required[check[2]] \subseteq DOMAIN tree) /\ Fails)
  BY DEF Preflight, Checking, Fails
<1>2. CASE Done
  <2>1. Head(todo) \in Checks
    BY <1>1, PreflightNames
  <2>2. ~Contains(plan, Head(todo)) /\ Head(todo) # "purge"
    BY <2>1, PlanNames, KindsApart DEF TreeTypeOK, Checks
  <2>3. AllRight'
    BY <1>1, <1>2, <2>2, StepDoneRight
  <2>4. base # NoBase => Undamaged(tree', patches', base)
    BY <1>1 DEF Sound
  <2> QED BY <1>1, <1>2, <2>2, <2>3, <2>4, SoundDone
<1>3. CASE ~(Required[check[2]] \subseteq DOMAIN tree) /\ Fails
  <2>1. Required[check[2]] \subseteq Needed
    BY <1>1, RequiredIsNeeded DEF Sound
  <2>2. ~(Needed \subseteq DOMAIN tree)
    BY <1>3, <2>1
  <2> QED BY <1>1, <1>3, <2>2, SoundFails
<1> QED BY <1>1, <1>2, <1>3

LEMMA PurgeSound ==
    ASSUME TreeTypeOK, TreeInv, Sound, Purge
    PROVE  Sound'
<1>1. Done /\ todo # <<>> /\ base' = NoBase
  BY DEF Purge
<1> QED BY <1>1, AheadDone, DoneIsNoFailure DEF Sound

LEMMA GetSound ==
    ASSUME TreeTypeOK, TreeInv, Sound, NEW r \in DOMAIN Stock, Get(r)
    PROVE  Sound'
<1>1. /\ todo # <<>> /\ Head(todo) = "get" /\ Done /\ Unpacked(r, Len(Archive))
      /\ base' = IF tree = NoFiles /\ patches = NoFiles THEN r ELSE NoBase
  BY DEF Get
<1>2. Ahead' /\ (todo' # <<>> => Head(todo') # "get")
  BY <1>1, AheadDone DEF Sound
<1>3. base' # NoBase => base' = r /\ Undamaged(tree', patches', r)
  BY <1>1, AllUnpacked
<1>4. AllRight'
  <2>1. ~Contains(plan, Head(todo))
    BY <1>1, InPlan DEF NotEdits
  <2> QED BY <1>1, <2>1, StepDoneRight
<1> QED BY <1>1, <1>2, <1>3, <1>4, DoneIsNoFailure DEF Sound

LEMMA NoArchiveSound ==
    ASSUME TreeTypeOK, TreeInv, Sound, NoArchive
    PROVE  Sound'
<1>1. todo # <<>> /\ Head(todo) = "get" /\ Fails /\ base' = base
  BY DEF NoArchive
<1>2. base # NoBase => ~(Needed \subseteq DOMAIN tree)
  BY <1>1 DEF Sound, Exists, Needed
<1> QED BY <1>1, <1>2, SoundFails

LEMMA SkipSound ==
    ASSUME TreeTypeOK, TreeInv, Sound, Skip
    PROVE  Sound'
<1>1. /\ todo # <<>> /\ Head(todo) \in ToSet(plan) /\ NotApplicable(Head(todo)) /\ Done
      /\ UNCHANGED <<tree, patches, base>>
  BY DEF Skip
<1>2. Head(todo) \in KnownEdits
  BY <1>1, PlanSet DEF TreeTypeOK
<1>3. Head(todo) \notin OfMakefile
  <2> SUFFICES ASSUME NEW e \in OfMakefile PROVE ~NotApplicable(e)
    BY <1>1
  <2>1. e \notin SingleFiles \cup PatchDirs \cup Links
    BY KindsApart
  <2>2. UNION Pairs \subseteq SingleFiles
    BY DEF Pairs, SingleFiles
  <2> QED BY <2>1, <2>2 DEF NotApplicable, SingleFiles, PatchDirs
<1>4. Right(Head(todo))
  BY <1>1, <1>3 DEF Right
<1>5. \A e : Right(e) => Right(e)'
  BY <1>1 DEF Right, NotApplicable, Exists, Dir
<1>6. AllRight => AllRight'
  BY <1>1, <1>4, <1>5, EditDoneRight
<1>7. base # NoBase => Undamaged(tree', patches', base)
  BY <1>1 DEF Sound
<1>8. Head(todo) # "purge"
  BY <1>2, KindsApart DEF NotEdits
<1> QED BY <1>1, <1>6, <1>7, <1>8, SoundDone

\* An edit that is at its turn is one of the plan.
LEMMA EditAtTurn ==
    ASSUME TreeTypeOK, NEW edit, FileEdit(edit)
    PROVE  /\ todo # <<>> /\ edit = Head(todo) /\ Contains(plan, edit) /\ edit \in ToSet(plan)
           /\ edit \in Edited \cup Generated \cup OfMakefile /\ edit \in KnownEdits
           /\ edit # "purge" /\ ~NotApplicable(edit) /\ edit \notin Links \cup PatchDirs
<1>1. /\ todo # <<>> /\ edit = Head(todo) /\ edit \in ToSet(plan)
      /\ edit \notin Links \cup PatchDirs /\ ~NotApplicable(edit)
  BY DEF FileEdit
<1>2. plan \in Plans
  BY DEF TreeTypeOK
<1> QED BY <1>1, <1>2, PlanSet, EditedKind, KindsApart DEF NotEdits

LEMMA EditSound ==
    ASSUME TreeTypeOK, TreeInv, Sound, NEW edit, Edit(edit)
    PROVE  Sound'
<1>1. /\ FileEdit(edit) /\ After(edit) # SystemExit /\ Done /\ base' = base
      /\ Put(FileOf(edit), After(edit))
  BY DEF Edit
<1>2. EditWrites(edit)
  BY <1>1, EditIsWritten
<1>3. TreeTexts
  BY DEF TreeInv
<1>4. ASSUME base # NoBase
      PROVE  Undamaged(tree', patches', base) /\ (AllRight => AllRight')
  <2>1. base \in DOMAIN Stock /\ Undamaged(tree, patches, base)
    BY <1>4, StockNames DEF Sound
  <2>2. Undamaged(tree', patches', base)
    BY <1>1, <1>2, <1>3, <2>1, EditAtTurn, EditUndamaged
  <2>3. \A e \in KnownEdits : e = edit \/ Right(e) => Right(e)'
    BY <1>1, <1>2, <1>3, <2>1, EditAtTurn, EditKeepsRight
  <2>4. \A e : Contains(plan, e) => e \in KnownEdits
    BY PlanNames DEF TreeTypeOK
  <2>5. AllRight => AllRight'
    BY <1>1, <2>3, <2>4, EditAtTurn, EditDoneRight
  <2> QED BY <2>2, <2>5
<1> QED BY <1>1, <1>4, EditAtTurn, SoundDone

LEMMA EditFailsSound ==
    ASSUME TreeTypeOK, TreeInv, Sound, NEW edit, EditFails(edit)
    PROVE  Sound'
<1>1. FileEdit(edit) /\ After(edit) = SystemExit /\ Fails /\ base' = base
  BY DEF EditFails
<1>2. TreeTexts
  BY DEF TreeInv
<1>3. ASSUME base # NoBase
      PROVE  \/ ~(Needed \subseteq DOMAIN tree)
             \/ \E e \in ToSet(plan) \ (Links \cup PatchDirs) :
                  /\ FileOf(e) \in DOMAIN Stock[base]
                  /\ Patched(e, Stock[base][FileOf(e)]) = SystemExit
  <2>1. base \in DOMAIN Stock /\ Undamaged(tree, patches, base)
    BY <1>3, StockNames DEF Sound
  <2>2. edit \notin Generated
    <3>1. custom_late_mk_text(CustomPackages) # SystemExit
      BY TextsAssumption, LateText
    <3>2. fetch_hash_mk # SystemExit /\ fetch_hash_helper # SystemExit
      BY DEF fetch_hash_mk, fetch_hash_helper, SystemExit
    <3>3. edit \in Generated => After(edit) = Patched(edit, Before(edit))
      BY DEF After
    <3> QED BY <1>1, <3>1, <3>2, <3>3, PatchedLate, PatchedFiles DEF Generated
  <2>3. CASE edit \in OfMakefile
    <3>1. FileOf(edit) = "Makefile"
      BY <2>3, FilesOfEdits
    <3>2. CASE ~Exists("Makefile")
      BY <3>2 DEF Exists, Needed
    <3>3. CASE Exists("Makefile")
      <4>1. Patched(edit, tree["Makefile"]) = SystemExit
        BY <1>1, <3>1, <3>3 DEF After, Before
      <4>2. /\ "Makefile" \in DOMAIN Stock[base]
            /\ Patched(edit, Stock[base]["Makefile"]) = SystemExit
        BY <1>2, <2>1, <2>3, <3>3, <4>1, MakefileIsStock, MakefileKept
      <4> QED BY <1>1, <3>1, <4>2, EditAtTurn
    <3> QED BY <3>2, <3>3
  <2>4. CASE edit \in Edited
    <3>1. FileOf(edit) = edit /\ edit \in SingleFiles
      BY <2>4, KindsApart, FilesOfEdits
    <3>2. CASE ~Exists(edit)
      <4>1. edit \notin Optional
        BY <1>1, <3>2, EditAtTurn DEF NotApplicable, Optional, Exists
      <4>2. edit \in Needed
        BY <1>1, <3>1, <4>1, EditAtTurn, NeededEdits
      <4> QED BY <3>2, <4>2 DEF Exists
    <3>3. CASE Exists(edit)
      <4>1. Patched(edit, tree[edit]) = SystemExit
        BY <1>1, <3>1, <3>3 DEF After, Before
      <4>2. edit \in DOMAIN Stock[base] /\ Patched(edit, Stock[base][edit]) = SystemExit
        BY <2>1, <2>4, <3>3, <4>1, EditedIsStock
      <4> QED BY <1>1, <3>1, <4>2, EditAtTurn
    <3> QED BY <3>2, <3>3
  <2> QED BY <1>1, <2>2, <2>3, <2>4, EditAtTurn
<1> QED BY <1>1, <1>3, SoundFails

LEMMA AddPatchSound ==
    ASSUME TreeTypeOK, TreeInv, Sound, NEW dir \in ToSet(plan), AddPatch(dir)
    PROVE  Sound'
<1>1. /\ todo # <<>> /\ dir = Head(todo) /\ dir \in PatchDirs /\ ~NotApplicable(dir) /\ Done
      /\ patches' = Merged([d \in {dir} |-> patch_added(Dir(dir), Fix(dir))], patches)
      /\ UNCHANGED <<tree, base>>
  BY DEF AddPatch
<1>2. ASSUME base # NoBase
      PROVE  Undamaged(tree', patches', base) /\ (AllRight => AllRight')
  <2>1. base \in DOMAIN Stock /\ Undamaged(tree, patches, base)
    BY <1>2, StockNames DEF Sound
  <2>2. Undamaged(tree', patches', base) /\ \A e : e = dir \/ Right(e) => Right(e)'
    BY <1>1, <2>1, PatchKept
  <2> QED BY <1>1, <2>2, EditDoneRight
<1>3. dir # "purge"
  BY <1>1 DEF PatchDirs
<1> QED BY <1>1, <1>2, <1>3, SoundDone

LEMMA LinkSound ==
    ASSUME TreeTypeOK, TreeInv, Sound, NEW link \in ToSet(plan), Link(link)
    PROVE  Sound'
<1>1. /\ todo # <<>> /\ link = Head(todo) /\ link \in Links /\ ~NotApplicable(link) /\ Done
      /\ Put(link, tree[Prev(link)]) /\ base' = base
  BY DEF Link
<1>2. ASSUME base # NoBase
      PROVE  Undamaged(tree', patches', base) /\ (AllRight => AllRight')
  <2>1. base \in DOMAIN Stock /\ Undamaged(tree, patches, base)
    BY <1>2, StockNames DEF Sound
  <2>2. Undamaged(tree', patches', base) /\ \A e \in KnownEdits : e = link \/ Right(e) => Right(e)'
    BY <1>1, <2>1, LinkKept
  <2>3. \A e : Contains(plan, e) => e \in KnownEdits
    BY PlanNames DEF TreeTypeOK
  <2> QED BY <1>1, <2>2, <2>3, EditDoneRight
<1>3. link # "purge"
  BY <1>1 DEF Links
<1> QED BY <1>1, <1>2, <1>3, SoundDone

LEMMA StepSound ==
    ASSUME TreeTypeOK, TreeInv, Sound, TreeStep
    PROVE  Sound'
BY PreflightSound, PurgeSound, NoArchiveSound, SkipSound, GetSound, EditSound, EditFailsSound,
   AddPatchSound, LinkSound DEF TreeStep

LEMMA StopSound ==
    ASSUME TreeTypeOK, Sound, TreeStop
    PROVE  Sound'
<1>1. CASE Kill
  BY <1>1, SoundStops DEF Kill, Interrupted
<1>2. ASSUME NEW n, PurgeStops(n) PROVE Sound'
  BY <1>2, SoundStops DEF PurgeStops, Interrupted
<1>3. ASSUME NEW n, NEW r \in DOMAIN Stock, GetStops(r, n) PROVE Sound'
  BY <1>3, SoundStops DEF GetStops
<1>4. ASSUME NEW edit, WriteStops(edit) PROVE Sound'
  BY <1>4, SoundStops DEF WriteStops, Interrupted
<1>5. ASSUME NEW dir, PatchStops(dir) PROVE Sound'
  BY <1>5, SoundStops DEF PatchStops, Interrupted
<1> QED BY <1>1, <1>2, <1>3, <1>4, <1>5 DEF TreeStop

LEMMA SoundStays ==
    ASSUME Sound, UNCHANGED <<tree, patches, todo, plan, result, base>>
    PROVE  Sound'
<1>1. Ahead'
  BY DEF Sound, Ahead
<1>2. FailsOnlyOnOddRelease'
  BY DEF Sound, FailsOnlyOnOddRelease, Needed
<1>3. \A e : Right(e) => Right(e)'
  BY DEF Right, NotApplicable, Exists, Dir
<1>4. AllRight => AllRight'
  BY <1>3 DEF AllRight
<1> QED BY <1>1, <1>2, <1>4 DEF Sound, Exists

LEMMA SoundInitially == TreeInit => Sound
<1> SUFFICES ASSUME TreeInit PROVE Sound
  OBVIOUS
<1>1. PICK v \in Volumes : tree = v.tree /\ patches = v.patches /\ base = v.base
  BY DEF TreeInit
<1>2. base # NoBase => Undamaged(tree, patches, base)
  BY <1>1, UndamagedAssumption
<1>3. todo = <<>> /\ result = "none"
  BY DEF TreeInit
<1>4. Ahead
  <2>1. \A l : ~Contains(todo, l)
    BY <1>3, EmptyText
  <2>2. 2..Len(todo) = {}
    BY <1>3
  <2> QED BY <2>1, <2>2 DEF Ahead
<1> QED BY <1>2, <1>3, <1>4 DEF Sound, FailsOnlyOnOddRelease

LEMMA SoundStep ==
    ASSUME TreeTypeOK, TreeInv, Sound, [Next]_vars
    PROVE  Sound'
<1>1. CASE InTree
  BY <1>1, CallSound, StepSound, StopSound DEF InTree
<1>2. CASE StartGetBuildroot
  BY <1>2, GetStarts DEF StartGetBuildroot
<1>3. CASE ~InTree /\ ~StartGetBuildroot
  <2>1. UNCHANGED <<tree, patches, todo, plan, result, base>>
    BY <1>3 DEF Next, vars, treevars, Download, Deploy, Extracted, NoTarball, FirstBoot, Untar,
                UntarFails, TouchMarker, RemoveTarball, Line, Restart, StartAgain
  <2> QED BY <2>1, SoundStays
<1> QED BY <1>1, <1>2, <1>3

LEMMA SuccessFollows ==
    ASSUME TreeTypeOK, TreeInv, Sound
    PROVE  SuccessMeansPatched
<1> SUFFICES ASSUME result = "ok", base # NoBase PROVE SuccessMeansPatched
  BY DEF SuccessMeansPatched
<1>1. todo = <<>> /\ plan \in Plans
  BY DEF TreeTypeOK
<1>2. \A e \in ToSet(plan) : Right(e)
  <2>1. IsText(plan) /\ Len(todo) = 0
    BY <1>1, PlanEdits
  <2>2. Len(plan) \in Nat
    BY <2>1 DEF IsText
  <2>3. \A i \in 1..Len(plan) : Right(plan[i])
    BY <2>1, <2>2 DEF Sound, AllRight
  <2> QED BY <1>1, <2>3, PlanSet DEF Contains
<1>3. \A f \in ToSet(plan) \cap (Edited \cup Generated) :
         NotApplicable(f) \/ (Exists(f) /\ tree[f] = Patched(f, Fresh(base, f)))
  BY <1>2 DEF Right
<1>4. \A d \in ToSet(plan) \cap PatchDirs :
         NotApplicable(d) \/ Dir(d) = patch_added(FreshDir(base, d), Fix(d))
  BY <1>2 DEF Right
<1>5. \A l \in ToSet(plan) \cap Links : NotApplicable(l)
  BY <1>2 DEF Right
<1>6. ASSUME NEW e \in ToSet(plan) \cap OfMakefile
      PROVE  /\ Exists("Makefile")
             /\ Patched(e, tree["Makefile"]) = tree["Makefile"]
             /\ Extends(tree["Makefile"], Fresh(base, "Makefile"))
  <2>1. Exists("Makefile") /\ Patched(e, tree["Makefile"]) = tree["Makefile"]
    BY <1>2 DEF Right, Settles
  <2>2. base \in DOMAIN Stock /\ Undamaged(tree, patches, base) /\ TreeTexts
    BY StockNames DEF Sound, TreeInv
  <2> QED BY <2>1, <2>2, MakefileIsStock DEF Fresh
<1> QED BY <1>3, <1>4, <1>5, <1>6 DEF SuccessMeansPatched

\* The tree of every state that can be reached, when its release is known, is
\* that of the release with the edits of any earlier calls.
THEOREM SoundReachable == Spec => []Sound
<1>1. Init => Sound
  BY SoundInitially DEF Init
<1>2. Inv /\ TreeInv /\ Sound /\ [Next]_vars => Sound'
  BY SoundStep DEF Inv
<1> QED BY <1>1, <1>2, Reachable, TreeReachable, PTL DEF Spec

\* A call of getBuildroot.sh that succeeds leaves every file of its edits as one
\* uninterrupted call on the fresh release leaves it, for any release, any custom
\* packages, any order of calls and any number of them and of interruptions.
THEOREM PatchedWhenSuccessful == Spec => []SuccessMeansPatched
<1>1. Inv /\ TreeInv /\ Sound => SuccessMeansPatched
  BY SuccessFollows DEF Inv
<1> QED BY <1>1, Reachable, TreeReachable, SoundReachable, PTL

\* A call fails on an undamaged tree only over what its release lacks or has
\* otherwise than the patches expect.
THEOREM FailsOnlyThen == Spec => []FailsOnlyOnOddRelease
<1>1. Sound => FailsOnlyOnOddRelease
  BY DEF Sound
<1> QED BY <1>1, SoundReachable, PTL
================================================================================
