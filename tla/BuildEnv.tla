------------------------------- MODULE BuildEnv -------------------------------
(***************************************************************************)
(* The build environment: an image is built from the working tree that     *)
(* dependencyDownloader.py fills, and a container runs entrypoint.sh each  *)
(* time it starts: extractImageBuilder.sh, then getBuildroot.sh.  Both     *)
(* keep their results on volumes which outlive the container, and the      *)
(* latter is also called by hand.                                          *)
(***************************************************************************)
EXTENDS Downloader, BuildTree

CONSTANT ImageBuilder   \* the name of the archive among Files

ASSUME ImageBuilderAssumption == ImageBuilder \in Names

VARIABLES
    phase,      \* "sources" (no image yet), "guard", "tar", "touch", "rm" (lines
                \* of extractImageBuilder.sh), "getBuildroot", or "up"
    image,      \* the archive in the image
    tarball,    \* the archive in the container
    builder,    \* the contents of OpenWRT-ImageBuilder on its volume
    marker      \* .extracted_marker on the same volume

boxvars == <<phase, image, tarball, builder, marker>>
vars == <<dlvars, treevars, boxvars>>

\* Half of an archive unpacked; NoFile is an empty volume.
Partial == Half
NoCopies == [f \in Names |-> NoFile]
Extracting == {"guard", "tar", "touch", "rm"}

-----------------------------------------------------------------------------
\* A step of the downloader.
Download ==
    /\ phase = "sources"
    /\ DownloadNext
    /\ UNCHANGED <<treevars, boxvars>>

\* docker build copies the archive, at any moment, or none: the pattern may
\* match nothing.  The image is pulled and started on a host with volumes of
\* its own.  From here on that host is followed, and the working tree is left
\* behind as it was at first.
Deploy ==
    /\ phase = "sources"
    /\ image' = dest[ImageBuilder] /\ tarball' = dest[ImageBuilder]
    /\ phase' = "guard"
    /\ remote' = [f \in Names |-> 1]
    /\ repo' = NoCopies /\ dest' = NoCopies /\ part' = NoCopies
    /\ pc' = "idle" /\ at' = 1 /\ workflow' = FALSE
    /\ mode' = "memory" /\ body' = NoFile
    /\ changed' = {} /\ cut' = FALSE /\ jobs' = 0
    /\ UNCHANGED <<treevars, builder, marker>>

\* A line of extractImageBuilder.sh.  entrypoint.sh goes on with the next
\* script whether this one fails or not.
Line(l, next) ==
    /\ phase = l
    /\ phase' = next
    /\ UNCHANGED <<dlvars, treevars, image>>

Extracted == marker /\ Line("guard", "getBuildroot") /\ UNCHANGED <<tarball, builder, marker>>

NoTarball ==
    /\ ~marker /\ tarball = NoFile
    /\ Line("guard", "getBuildroot")
    /\ UNCHANGED <<tarball, builder, marker>>

FirstBoot ==
    /\ ~marker /\ tarball # NoFile
    /\ Line("guard", "tar")
    /\ UNCHANGED <<tarball, builder, marker>>

Untar ==
    /\ tarball # Cut
    /\ Line("tar", "touch")
    /\ builder' = tarball
    /\ UNCHANGED <<tarball, marker>>

\* The archive is cut off, or the volume full.
UntarFails ==
    /\ Line("tar", "getBuildroot")
    /\ builder' = Partial
    /\ UNCHANGED <<tarball, marker>>

\* Mutant of TouchMarker: the archive is removed together with it.
RemoveTarballFirst ==
    /\ Line("touch", "rm")
    /\ tarball' = NoFile
    /\ UNCHANGED <<builder, marker>>

TouchMarker ==
    /\ Line("touch", "rm")
    /\ marker' = TRUE
    /\ UNCHANGED <<tarball, builder>>

RemoveTarball ==
    /\ Line("rm", "getBuildroot")
    /\ tarball' = NoFile
    /\ UNCHANGED <<builder, marker>>

\* The second script, without options.
StartGetBuildroot ==
    /\ phase = "getBuildroot"
    /\ GetBuildroot(FALSE, FALSE)
    /\ phase' = "up"
    /\ UNCHANGED <<dlvars, image, tarball, builder, marker>>

\* A step of getBuildroot.sh, or a call by hand once the container is up.
InTree ==
    /\ phase = "up"
    /\ TreeCall \/ TreeStep \/ TreeStop
    /\ UNCHANGED <<dlvars, boxvars>>

\* The container is stopped at any line and started again.
Restart ==
    /\ phase \in Extracting
    /\ kills < MaxKills
    /\ kills' = kills + 1
    /\ phase' = "guard"
    /\ builder' \in IF phase = "tar" THEN {builder, Partial} ELSE {builder}
    /\ UNCHANGED <<dlvars, tree, patches, todo, plan, result, base, calls, image, tarball,
                   marker>>

\* Once it is up, after a call of getBuildroot.sh has ended or was killed.  A
\* container that is created anew has the archive of its image again.
StartAgain ==
    /\ phase = "up" /\ result # "running"
    /\ calls < MaxCalls
    /\ phase' = "guard"
    /\ tarball' \in {tarball, image}
    /\ UNCHANGED <<dlvars, treevars, image, builder, marker>>

Init ==
    /\ DownloadInit /\ TreeInit
    /\ phase = "sources" /\ image = NoFile /\ tarball = NoFile
    /\ builder = NoFile /\ marker = FALSE

Next ==
    \/ Download \/ Deploy
    \/ Extracted \/ NoTarball \/ FirstBoot \/ Untar \/ UntarFails
    \/ TouchMarker \/ RemoveTarball
    \/ StartGetBuildroot \/ InTree
    \/ Restart \/ StartAgain

Spec == Init /\ [][Next]_vars

-----------------------------------------------------------------------------
TypeOK ==
    /\ DownloadTypeOK /\ TreeTypeOK
    /\ phase \in Extracting \cup {"sources", "getBuildroot", "up"}
    /\ image \in Kept /\ tarball \in {NoFile, image}
    /\ builder \in Contents /\ marker \in BOOLEAN

\* The marker on the volume means that the builder beside it is the whole one
\* of an archive, and without the marker the archive of the image is still there:
\* no stop of the container between the lines of extractImageBuilder.sh leaves
\* a builder that is used half-way or can never be completed.
MarkerMeansWhole ==
    phase # "sources" =>
        IF marker THEN builder \in Versions ELSE tarball = image
==============================================================================
