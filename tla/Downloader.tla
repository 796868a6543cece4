------------------------------ MODULE Downloader ------------------------------
(***************************************************************************)
(* Downloader (src/downloader/download.py) with the download record        *)
(* (src/manager/recorder.py, database.py): the files of one work are       *)
(* chosen, fetched beside each other with resume and retries into          *)
(* temporary files, moved into place and recorded.  Runs follow each other *)
(* and may be killed; the files, the temporary ones and the record stay.   *)
(*                                                                         *)
(* A file is a number of chunks.  The servers answer as they like; the     *)
(* video of a TikTok work that its address refuses is fetched through a    *)
(* browser session instead (TikTokAPIBridge.download_video).               *)
(***************************************************************************)
EXTENDS Naturals, FiniteSets

CONSTANTS Files,        \* the files of the work: images, or a video, music, covers
          Chunks,       \* of a file
          MaxRetry,     \* max_retry
          MaxRuns       \* bound on the runs

ASSUME DownloadAssumption ==
    /\ IsFiniteSet(Files) /\ Files # {} /\ Chunks \in Nat \ {0}
    /\ MaxRetry \in Nat /\ MaxRuns \in Nat

VARIABLES
    extras,     \* the files that are music or covers
    temp,       \* the chunks in a temporary file
    mixed,      \* temporary files that are no prefix of their file
    actual,     \* the file in place: none, whole, bad
    recorded,   \* the work is in download_data
    job,        \* request_file of a file: where it stands, its failures
    run,        \* batch_processing
    runCount,
    outcome,    \* of the last run: ok; it had addresses, found a record, large files
    bridged,    \* temporary files that a browser session has begun
    spliced     \* auxiliary: files put together from answers that do not fit:
                \* a server answered a range with the whole of it, or went on
                \* with what a browser session had begun

disk == <<temp, mixed, actual, bridged>>
progress == <<run, runCount, outcome>>
downloadVars == <<extras, disk, recorded, job, progress, spliced>>

NoJob == [at |-> "none", failures |-> 0]
NoOutcome == [ok |-> FALSE, address |-> FALSE, known |-> FALSE, large |-> {}]

DownloadTypeOK ==
    /\ extras \subseteq Files /\ mixed \subseteq Files
    /\ bridged \subseteq Files /\ spliced \subseteq Files
    /\ temp \in [Files -> 0..Chunks]
    /\ actual \in [Files -> {"none", "whole", "bad"}]
    /\ recorded \in BOOLEAN
    /\ job \in [Files -> [at : {"none", "queued", "writing", "refused", "streaming", "noting",
                                "dropping", "good", "bad"},
                          failures : 0..(MaxRetry + 1)]]
    /\ run \in {"rest", "load", "lost"} /\ runCount \in 0..MaxRuns
    /\ outcome \in [ok : BOOLEAN, address : BOOLEAN, known : BOOLEAN, large : SUBSET Files]

DownloadInit ==
    /\ extras \in {{}, {CHOOSE f \in Files : TRUE}}
    /\ temp = [f \in Files |-> 0] /\ mixed = {}
    /\ actual = [f \in Files |-> "none"]
    /\ recorded = FALSE
    /\ job = [f \in Files |-> NoJob]
    /\ run = "rest" /\ runCount = 0 /\ outcome = NoOutcome
    /\ bridged = {} /\ spliced = {}

Missing == {f \in Files : actual[f] = "none"}

-----------------------------------------------------------------------------
(* batch_processing: download_image, _video, _music, _cover                *)

\* A file in place is not fetched again; of a recorded work, or when the
\* extractor found no address for them, none of the main files is.
Select(address) ==
    /\ run = "rest" /\ runCount < MaxRuns
    /\ runCount' = runCount + 1
    /\ run' = "load"
    /\ job' = [f \in Files |-> IF f \in Missing /\ (f \in extras \/ (address /\ ~recorded))
                               THEN [NoJob EXCEPT !.at = "queued"] ELSE NoJob]
    /\ outcome' = [NoOutcome EXCEPT !.address = address, !.known = recorded]
    /\ UNCHANGED <<extras, disk, recorded, spliced>>

\* gather has ended; after an exception it has let the other files go on, and
\* the next run of the work is taken to wait for them.
RunEnds ==
    /\ run # "rest"
    /\ \A f \in Files : job[f].at \in {"none", "good", "bad"}
    /\ run' = "rest"
    /\ outcome' = IF run = "lost" THEN NoOutcome
                  ELSE [outcome EXCEPT !.ok = outcome.address /\ \A f \in Files : job[f].at # "bad"]
    /\ job' = [f \in Files |-> NoJob]
    /\ UNCHANGED <<extras, disk, recorded, runCount, spliced>>

\* The process or the task is killed.
RunKilled ==
    /\ run # "rest"
    /\ run' = "rest"
    /\ outcome' = NoOutcome
    /\ job' = [f \in Files |-> NoJob]
    /\ UNCHANGED <<extras, disk, recorded, runCount, spliced>>

-----------------------------------------------------------------------------
(* request_file; its semaphore can only make a file wait, as any may here. *)

At(f, s) == job' = [job EXCEPT ![f].at = s]

\* Retry.retry
Fails(f) ==
    job' = [job EXCEPT ![f] = [at |-> IF @.failures = MaxRetry THEN "bad" ELSE "queued",
                               failures |-> @.failures + 1]]

\* Mutant: the file is asked for from its beginning.
RequestWithoutRange(f) ==
    /\ job[f].at = "queued"
    /\ \/ Fails(f) /\ UNCHANGED <<temp, mixed, outcome>>
       \/ /\ At(f, "writing")
          /\ mixed' = IF temp[f] > 0 THEN mixed \cup {f} ELSE mixed
          /\ UNCHANGED <<temp, outcome>>
    /\ UNCHANGED <<extras, actual, bridged, recorded, run, runCount, spliced>>

Begun(f) == temp[f] > 0 /\ f \in bridged

\* The request, from the first chunk that is not there.  It fails, is refused
\* when nothing is left to send (416), is answered, by some servers with all
\* of the file, or the file is too large; the one main file of a work, the
\* video, may be forbidden (403).  What a browser session has begun has another
\* length: the address may have more to send, or nothing.
Request(f) ==
    /\ job[f].at = "queued"
    /\ \/ Fails(f) /\ UNCHANGED <<temp, mixed, bridged, outcome, spliced>>
       \/ /\ temp[f] = Chunks \/ Begun(f)
          /\ temp' = [temp EXCEPT ![f] = 0] /\ mixed' = mixed \ {f} /\ bridged' = bridged \ {f}
          /\ Fails(f)
          /\ UNCHANGED <<outcome, spliced>>
       \/ /\ temp[f] < Chunks /\ ~Begun(f)
          /\ At(f, "writing")
          /\ bridged' = bridged \ {f}
          /\ UNCHANGED <<temp, mixed, outcome, spliced>>
       \/ /\ temp[f] > 0
          /\ At(f, "writing")
          /\ mixed' = mixed \cup {f} /\ spliced' = spliced \cup {f}
          /\ UNCHANGED <<temp, bridged, outcome>>
       \/ /\ Files \ extras = {f}
          /\ At(f, "refused")
          /\ UNCHANGED <<temp, mixed, bridged, outcome, spliced>>
       \/ /\ At(f, "good")
          /\ outcome' = [outcome EXCEPT !.large = @ \cup {f}]
          /\ UNCHANGED <<temp, mixed, bridged, spliced>>
    /\ UNCHANGED <<extras, actual, recorded, run, runCount>>

\* TikTokAPIBridge.download_video: the session is there, and the temporary file
\* is opened anew; or there is none, the identity cools down, or it is switched
\* off.
Bridge(f) ==
    /\ job[f].at = "refused"
    /\ \/ /\ At(f, "streaming")
          /\ temp' = [temp EXCEPT ![f] = 0] /\ mixed' = mixed \ {f}
          /\ bridged' = bridged \cup {f}
       \/ Fails(f) /\ UNCHANGED <<temp, mixed, bridged>>
    /\ UNCHANGED <<extras, actual, recorded, progress, spliced>>

\* The session's stream breaks off.
BridgeBreaks(f) ==
    /\ job[f].at = "streaming"
    /\ Fails(f)
    /\ UNCHANGED <<extras, disk, recorded, progress, spliced>>

\* The move of what the session has loaded raises outside every handler: the
\* run ends with the exception.
BridgeEscapes(f) ==
    /\ job[f].at = "streaming" /\ temp[f] = Chunks
    /\ At(f, "bad")
    /\ run' = "lost"
    /\ UNCHANGED <<extras, disk, recorded, runCount, outcome, spliced>>

\* download_file and download_video: chunk after chunk is appended.
Write(f) ==
    /\ job[f].at \in {"writing", "streaming"} /\ temp[f] < Chunks
    /\ temp' = [temp EXCEPT ![f] = @ + 1]
    /\ UNCHANGED <<extras, mixed, actual, bridged, recorded, job, progress, spliced>>

\* The answer breaks off: the record of the work is deleted; or the chunk
\* cannot be written, or the file not be moved.
Breaks(f) ==
    /\ job[f].at = "writing"
    /\ At(f, "dropping") \/ Fails(f)
    /\ UNCHANGED <<extras, disk, recorded, progress, spliced>>

\* delete_id
Dropped(f) ==
    /\ job[f].at = "dropping"
    /\ recorded' = FALSE
    /\ Fails(f)
    /\ UNCHANGED <<extras, disk, progress, spliced>>

\* The end of the answer: save_file moves the temporary file.
Saved(f) ==
    /\ job[f].at \in {"writing", "streaming"} /\ temp[f] = Chunks
    /\ actual' = [actual EXCEPT ![f] = IF f \in mixed THEN "bad" ELSE "whole"]
    /\ temp' = [temp EXCEPT ![f] = 0] /\ mixed' = mixed \ {f} /\ bridged' = bridged \ {f}
    /\ At(f, "noting")
    /\ UNCHANGED <<extras, recorded, progress, spliced>>

\* update_id
Noted(f) ==
    /\ job[f].at = "noting"
    /\ recorded' = TRUE
    /\ At(f, "good")
    /\ UNCHANGED <<extras, disk, progress, spliced>>

DownloadNext ==
    \/ (\E address \in BOOLEAN : Select(address)) \/ RunEnds \/ RunKilled
    \/ \E f \in Files : Request(f) \/ Bridge(f) \/ BridgeBreaks(f) \/ BridgeEscapes(f) \/ Write(f)
                         \/ Breaks(f) \/ Dropped(f) \/ Saved(f) \/ Noted(f)

DownloadSpec == DownloadInit /\ [][DownloadNext]_downloadVars

-----------------------------------------------------------------------------
(* Properties *)

\* Through interrupted, resumed and retried transfers of several files, by
\* their addresses or a browser session, and kills anywhere: what is moved into
\* place is the whole file, unless a server answered a range with all of it, or
\* went on with what a browser session had begun; a recorded work has a file in
\* place; and a run that reports success, and found no record to skip the
\* work for, has left every file that it was to fetch in place.
DownloadsHonest ==
    /\ \A f \in Files : actual[f] = "bad" => f \in spliced
    /\ recorded => Missing # Files
    /\ run = "rest" /\ outcome.ok /\ ~outcome.known => Missing \subseteq outcome.large
=============================================================================
