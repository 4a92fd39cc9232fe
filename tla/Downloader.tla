------------------------------ MODULE Downloader ------------------------------
(***************************************************************************)
(* dependencyDownloader.py and the workflow that runs it: each file is     *)
(* compared with the one on its server and replaced when they differ.  It  *)
(* runs by hand too, and may be killed or lose its connection anywhere.    *)
(***************************************************************************)
EXTENDS Naturals, Sequences, FiniteSets

CONSTANTS
    Files,          \* the steps of the workflow, a sequence of file names
    MaxVersions,    \* bound: versions of a file on its server
    MaxJobs         \* bound: runs

ASSUME FilesAssumption ==
    /\ Files \in Seq(STRING) /\ Files # <<>>
    /\ \A i, j \in 1..Len(Files) : Files[i] = Files[j] => i = j
ASSUME JobsAssumption == MaxVersions \in Nat \ {0} /\ MaxJobs \in Nat

\* Contents that are no version: no file, half of what was to be written, and
\* a body which ended early without anyone noticing.
NoFile == 0
Half == MaxVersions + 1
Cut == MaxVersions + 2

Names == {Files[i] : i \in 1..Len(Files)}
Versions == 1..MaxVersions
Contents == 0..(MaxVersions + 2)
Kept == {NoFile, Cut} \cup Versions

VARIABLES
    remote,     \* the version on the server
    repo,       \* what is committed
    dest,       \* the file in the working tree
    part,       \* its .part file
    pc,         \* where the run is
    at,         \* which of Files it is at
    workflow,   \* is it the workflow, or one step by hand
    mode,       \* "memory", "stream", or "unknown": without a Content-Length
    body,       \* the contents of the response
    changed,    \* the steps with the output changed=true
    cut,        \* history: a body of this run was cut off
    jobs

dlvars == <<remote, repo, dest, part, pc, at, workflow, mode, body, changed, cut, jobs>>

file == Files[at]
UseMemory == mode = "memory"
LocalExists == dest[file] # NoFile

-----------------------------------------------------------------------------
Begin(i, whole) ==
    /\ pc = "idle" /\ jobs < MaxJobs
    /\ jobs' = jobs + 1
    /\ at' = i /\ workflow' = whole
    /\ changed' = {} /\ cut' = FALSE
    /\ pc' = "request"
    /\ UNCHANGED <<remote, repo, mode, body>>

\* The workflow starts from a fresh checkout.
Checkout ==
    /\ Begin(1, TRUE)
    /\ dest' = repo
    /\ part' = [f \in Names |-> NoFile]

\* One call by hand, over what the last one left.
ByHand(i) ==
    /\ Begin(i, FALSE)
    /\ UNCHANGED <<dest, part>>

\* The run is over; an error of a step is one of the job, and skips the commit.
Over ==
    /\ pc' = "idle"
    /\ UNCHANGED <<remote, repo, at, workflow, mode, body, cut, jobs>>

Failed == Over /\ UNCHANGED <<dest, changed>>

\* Mutant of Finished: the workflow goes on after its last step.
RunsOn ==
    /\ pc' = IF workflow THEN "request" ELSE "idle"
    /\ at' = IF workflow THEN at + 1 ELSE at
    /\ UNCHANGED <<remote, repo, workflow, mode, body, cut, jobs>>

\* main() returns 0.
Finished ==
    /\ pc' = IF ~workflow THEN "idle" ELSE IF at = Len(Files) THEN "commit" ELSE "request"
    /\ at' = IF workflow /\ at < Len(Files) THEN at + 1 ELSE at
    /\ UNCHANGED <<remote, repo, workflow, mode, body, cut, jobs>>

\* get_response()
Answered ==
    /\ body' = remote[file]
    /\ UNCHANGED <<remote, repo, dest, part, at, workflow, changed, cut, jobs>>

\* A body is streamed to the file at once when there is no local copy.
Respond(how) ==
    /\ pc = "request"
    /\ mode' = how
    /\ pc' = IF how = "memory" \/ LocalExists THEN "read" ELSE "write"
    /\ Answered

\* The hash of a streamed body differed: it is fetched again, whatever there is
\* on the server by now.
FetchAgain(how) ==
    /\ pc = "again"
    /\ mode' = how
    /\ pc' = "write"
    /\ Answered

\* No connection, or an HTTP error.
Refused ==
    /\ pc \in {"request", "again"}
    /\ Failed /\ UNCHANGED part

\* read_into_buffer() and stream_hash()
Read ==
    /\ pc = "read"
    /\ pc' = "compare"
    /\ \/ UNCHANGED <<body, cut>>
       \/ mode = "unknown" /\ body' = Cut /\ cut' = TRUE
    /\ UNCHANGED <<remote, repo, dest, part, at, workflow, mode, changed, jobs>>

\* The connection breaks; with a Content-Length a short body is an error too.
ReadBreaks ==
    /\ pc = "read"
    /\ Failed /\ UNCHANGED part

\* The body is the local file: "unchanged".
Unchanged ==
    /\ pc = "compare"
    /\ LocalExists /\ body = dest[file]
    /\ Finished
    /\ UNCHANGED <<dest, part, changed>>

Differs ==
    /\ pc = "compare"
    /\ ~(LocalExists /\ body = dest[file])
    /\ pc' = IF UseMemory THEN "write" ELSE "again"
    /\ UNCHANGED <<remote, repo, dest, part, at, workflow, mode, body, changed, cut, jobs>>

\* Mutant of OpenPart: the file itself is opened.
OpenDest ==
    /\ pc = "write"
    /\ dest' = [dest EXCEPT ![file] = Half]
    /\ pc' = "fill"
    /\ UNCHANGED <<remote, repo, part, at, workflow, mode, body, changed, cut, jobs>>

\* write_buffer() and write_chunks()
OpenPart ==
    /\ pc = "write"
    /\ part' = [part EXCEPT ![file] = Half]
    /\ pc' = "fill"
    /\ UNCHANGED <<remote, repo, dest, at, workflow, mode, body, changed, cut, jobs>>

FillPart ==
    /\ pc = "fill"
    /\ pc' = "replace"
    /\ \/ part' = [part EXCEPT ![file] = body] /\ UNCHANGED cut
       \/ mode = "unknown" /\ part' = [part EXCEPT ![file] = Cut] /\ cut' = TRUE
    /\ UNCHANGED <<remote, repo, dest, at, workflow, mode, body, changed, jobs>>

\* The disk is full, or the connection breaks while it is streamed.
FillBreaks ==
    /\ pc = "fill"
    /\ part' = [part EXCEPT ![file] = NoFile]
    /\ Failed

\* The output changed=true, when it runs in a workflow.
write_github_output == IF workflow THEN {file} ELSE {}

\* "created" or "updated"
Replace ==
    /\ pc = "replace"
    /\ changed' = changed \cup write_github_output
    /\ dest' = [dest EXCEPT ![file] = part[file]]
    /\ part' = [part EXCEPT ![file] = NoFile]
    /\ Finished

\* The last step of the workflow.  It is skipped unless a step wrote a file;
\* git commit is an error when there is nothing to commit.
Commit ==
    /\ pc = "commit"
    /\ repo' = IF changed # {} THEN dest ELSE repo
    /\ pc' = "idle"
    /\ UNCHANGED <<remote, dest, part, at, workflow, mode, body, changed, cut, jobs>>

\* The branch has moved, or there is no connection.
PushFails ==
    /\ pc = "commit"
    /\ Failed /\ UNCHANGED part

\* Ctrl-C, or a newer run of the workflow cancels this one.
Cancelled ==
    /\ pc # "idle"
    /\ Failed /\ UNCHANGED part

\* The server has a new version.
NewVersion(f) ==
    /\ remote[f] < MaxVersions
    /\ remote' = [remote EXCEPT ![f] = @ + 1]
    /\ UNCHANGED <<repo, dest, part, pc, at, workflow, mode, body, changed, cut, jobs>>

DownloadInit ==
    /\ remote = [f \in Names |-> 1]
    /\ repo \in [Names -> {NoFile, 1}]
    /\ dest = repo
    /\ part = [f \in Names |-> NoFile]
    /\ pc = "idle" /\ at = 1 /\ workflow = FALSE
    /\ mode = "memory" /\ body = NoFile
    /\ changed = {} /\ cut = FALSE /\ jobs = 0

DownloadNext ==
    \/ Checkout \/ \E i \in 1..Len(Files) : ByHand(i)
    \/ \E how \in {"memory", "stream", "unknown"} : Respond(how)
    \/ \E how \in {"stream", "unknown"} : FetchAgain(how)
    \/ Refused \/ Read \/ ReadBreaks \/ Unchanged \/ Differs
    \/ OpenPart \/ FillPart \/ FillBreaks \/ Replace
    \/ Commit \/ PushFails \/ Cancelled
    \/ \E f \in Names : NewVersion(f)

-----------------------------------------------------------------------------
DownloadTypeOK ==
    /\ remote \in [Names -> Versions]
    /\ repo \in [Names -> Kept]
    /\ dest \in [Names -> Contents] /\ part \in [Names -> Contents]
    /\ pc \in {"idle", "request", "read", "compare", "again", "write", "fill", "replace",
               "commit"}
    /\ at \in 1..Len(Files)
    /\ workflow \in BOOLEAN /\ cut \in BOOLEAN
    /\ mode \in {"memory", "stream", "unknown"}
    /\ body \in Kept
    /\ changed \subseteq Names
    /\ jobs \in 0..MaxJobs

\* A file in the working tree is at every moment one that arrived, never half
\* of one: docker build may copy it while the script writes or after it was
\* killed, and the next run takes it for the local copy.  (A body without a
\* Content-Length that ends early counts as arrived; nothing can tell.)
FetchedWhole == \A f \in Names : dest[f] \in Kept

\* The workflow commits what it fetched: it skips the step only when the files
\* are those of the repository, and runs it only when one differs (git would
\* fail), unless a body was cut off on the way.
CommitsChanges ==
    pc = "commit" =>
        /\ dest # repo => changed # {}
        /\ changed # {} => dest # repo \/ cut
==============================================================================
