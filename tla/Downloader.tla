----------------------------- MODULE Downloader -----------------------------
(***************************************************************************)
(* One destination of core/async_downloader.py over several calls and      *)
(* lives of the launcher.  The server replaces the file under the same URL *)
(* now and then: a file is a sequence of Blocks blocks, a block is named   *)
(* by the revision it belongs to.  An artifact is what _partial_identity   *)
(* hashes: another artifact for the destination has another partial file,  *)
(* and the one metadata file beside them names the one in use.             *)
(***************************************************************************)
EXTENDS Integers, Sequences, FiniteSets

CONSTANTS Artifact, NoArtifact, Blocks, MaxRevision, MaxRetries

ASSUME DownloadAssumption ==
    NoArtifact \notin Artifact /\ {Blocks, MaxRevision, MaxRetries} \subseteq Nat \ {0}

VARIABLES dest,      \* the installed file; the sequence <<0>> is the one before
          partial,   \* partial file of each artifact, <<>> when there is none
          meta,      \* metadata: the artifact and the validator stored, 0: none
          revision,  \* what the server has now
          tagged,    \* the server sends ETag or Last-Modified
          mishap,    \* an answer may end early unnoticed, a file may be locked
          task       \* the task of _download_file and its progress

downloadVars == <<dest, partial, meta, revision, tagged, mishap, task>>

\* What the caller knows: nothing, the size, or the size and the hash (of
\* revision 1).
Declarations == {"nothing", "size", "hash"}
NoMeta == [artifact |-> NoArtifact, tag |-> 0]
NoTask == [artifact |-> NoArtifact, declares |-> "nothing", step |-> "idle",
           attempt |-> 0, append |-> FALSE, answer |-> 0, restarted |-> FALSE]

Files == UNION {[1..n -> 0..MaxRevision] : n \in 0..Blocks}

DownloadTypeOK ==
    /\ dest \in Files
    /\ partial \in [Artifact -> Files]
    /\ meta \in [artifact: Artifact \union {NoArtifact}, tag: 0..MaxRevision]
    /\ revision \in 1..MaxRevision
    /\ tagged \in BOOLEAN
    /\ mishap \subseteq {"short", "locked"}
    /\ task.step \in {"idle", "prepare", "recheck", "request", "answer", "open",
                       "receive", "validate"}
    /\ task.attempt \in 0..MaxRetries

DownloadInit ==
    /\ dest \in {<<>>, <<0>>}
    /\ partial = [a \in Artifact |-> <<>>]
    /\ meta = NoMeta
    /\ revision = 1
    /\ tagged \in BOOLEAN
    /\ mishap \in SUBSET {"short", "locked"}
    /\ task = NoTask

-----------------------------------------------------------------------------
Mine == partial[task.artifact]
Step(name) == task' = [task EXCEPT !.step = name]
Whole(file) == \E r \in 1..MaxRevision : file = [i \in 1..Blocks |-> r]

\* _safe_unlink reports nothing when the file is locked.
Unlinked(files, a) ==
    {[files EXCEPT ![a] = <<>>]}
        \union (IF "locked" \in mishap THEN {files} ELSE {})

\* _clear_partial_state with remove_partial, followed by _prepare_partial_file.
StartAfresh ==
    /\ partial' \in Unlinked(partial, task.artifact)
    /\ meta' = [artifact |-> task.artifact, tag |-> 0]

ForgetMeta == meta' = IF meta.artifact = task.artifact THEN NoMeta ELSE meta

AgainOrFailed ==
    IF task.attempt < MaxRetries
    THEN task' = [NoTask EXCEPT !.artifact = task.artifact, !.declares = task.declares,
                                !.step = "prepare", !.attempt = task.attempt + 1]
    ELSE task' = NoTask

\* _should_skip; the hash of an existing file is only looked at on demand.
SkipExisting(declares, verify) ==
    /\ dest # <<>>
    /\ declares # "nothing" => Len(dest) = Blocks
    /\ (declares = "hash" /\ verify) => dest = [i \in 1..Blocks |-> 1]

\* download_files with one task for this destination.
BeginDownload(a, declares) ==
    /\ task = NoTask
    /\ \E skip, verify \in BOOLEAN : ~(skip /\ SkipExisting(declares, verify))
    /\ task' = [NoTask EXCEPT !.artifact = a, !.declares = declares,
                              !.step = "prepare", !.attempt = 1]
    /\ UNCHANGED <<dest, partial, meta, revision, tagged, mishap>>

\* _prepare_partial_file: the metadata of another artifact goes away with its
\* partial file.  A partial file of the declared size is validated at once.
PreparePartial ==
    /\ task.step = "prepare"
    /\ IF meta.artifact \in {task.artifact, NoArtifact}
       THEN UNCHANGED partial
       ELSE partial' \in Unlinked(partial, meta.artifact)
    /\ meta' = IF meta.artifact = task.artifact THEN meta
               ELSE [artifact |-> task.artifact, tag |-> 0]
    /\ IF task.declares # "nothing" /\ Len(Mine) = Blocks
       THEN Step("recheck") ELSE Step("request")
    /\ UNCHANGED <<dest, revision, tagged, mishap>>

CanResume == Mine # <<>> /\ meta.artifact = task.artifact /\ meta.tag # 0

\* The request asks for the rest of the file if the stored validator still
\* holds; without a validator the partial file is dropped first.
SendRequest ==
    /\ task.step = "request"
    /\ IF Mine # <<>> /\ ~CanResume THEN StartAfresh ELSE UNCHANGED <<partial, meta>>
    /\ task' = [task EXCEPT !.step = "answer", !.append = CanResume]
    /\ UNCHANGED <<dest, revision, tagged, mishap>>

\* 200, with the whole file of now.
AnswerWhole ==
    /\ task.step = "answer"
    /\ IF task.append THEN StartAfresh ELSE UNCHANGED <<partial, meta>>
    /\ task' = [task EXCEPT !.step = "open", !.append = FALSE, !.answer = revision]
    /\ UNCHANGED <<dest, revision, tagged, mishap>>

ValidatorHolds == meta.tag = revision

\* 206, with the rest of the file, validator and Content-Range accepted.
AnswerRest ==
    /\ task.step = "answer" /\ task.append
    /\ Len(Mine) < Blocks
    /\ ValidatorHolds
    /\ task' = [task EXCEPT !.step = "open", !.answer = revision]
    /\ UNCHANGED <<dest, partial, meta, revision, tagged, mishap>>

\* 206 for another revision, another range, or unasked: once per attempt the
\* request is repeated from zero, then what there is goes to the validation.
AnswerUnsafe ==
    /\ task.step = "answer"
    /\ StartAfresh
    /\ task' = IF task.restarted THEN [task EXCEPT !.step = "validate", !.append = FALSE]
               ELSE [task EXCEPT !.step = "request", !.restarted = TRUE, !.append = FALSE]
    /\ UNCHANGED <<dest, revision, tagged, mishap>>

\* An answer that is larger than allowed, or an error of the local disk.
AnswerTooLong ==
    /\ task.step \in {"answer", "receive"}
    /\ partial' \in Unlinked(partial, task.artifact)
    /\ ForgetMeta
    /\ task' = NoTask
    /\ UNCHANGED <<dest, revision, tagged, mishap>>

\* requests.RequestException: the partial file and its metadata stay.
ConnectionFails ==
    /\ task.step \in {"answer", "receive"}
    /\ AgainOrFailed
    /\ UNCHANGED <<dest, partial, meta, revision, tagged, mishap>>

\* _store_response_validators, then the partial file is opened.
StoreValidators ==
    /\ task.step = "open"
    /\ meta' = [artifact |-> task.artifact, tag |-> IF tagged THEN task.answer ELSE 0]
    /\ \/ /\ partial' = IF task.append THEN partial
                        ELSE [partial EXCEPT ![task.artifact] = <<>>]
          /\ Step("receive")
       \/ /\ task' = NoTask       \* death between the two
          /\ UNCHANGED partial
    /\ UNCHANGED <<dest, revision, tagged, mishap>>

ReceiveBlock ==
    /\ task.step = "receive"
    /\ Len(Mine) < Blocks
    /\ partial' = [partial EXCEPT ![task.artifact] = Append(@, task.answer)]
    /\ UNCHANGED <<dest, meta, revision, tagged, mishap, task>>

\* The end of an answer.  Only for a resumed one does the code know where it
\* should have been: it then reports a retry and goes on to the validation.
EndOfAnswer ==
    /\ task.step = "receive"
    /\ Len(Mine) = Blocks \/ "short" \in mishap
    /\ IF task.append /\ Len(Mine) < Blocks /\ task.attempt = MaxRetries
       THEN task' = NoTask
       ELSE task' = [task EXCEPT !.step = "validate", !.append = FALSE, !.answer = 0]
    /\ UNCHANGED <<dest, partial, meta, revision, tagged, mishap>>

Acceptable_Length == task.declares # "nothing" => Len(Mine) = Blocks

\* _validate_and_move: size and hash as far as the caller declared them.
Acceptable ==
    /\ Mine # <<>>
    /\ task.declares # "nothing" => Len(Mine) = Blocks
    /\ task.declares = "hash" => Mine = [i \in 1..Blocks |-> 1]

ActivateFile ==
    /\ task.step \in {"recheck", "validate"}
    /\ Acceptable
    /\ dest' = Mine
    /\ partial' = [partial EXCEPT ![task.artifact] = <<>>]
    /\ ForgetMeta
    /\ task' = NoTask
    /\ UNCHANGED <<revision, tagged, mishap>>

\* RejectPartial that asks again within the attempt, whatever it has rejected.
RejectPartial_Endless ==
    /\ task.step \in {"recheck", "validate"}
    /\ partial' \in Unlinked(partial, task.artifact)
    /\ Step("request") /\ meta' = [artifact |-> task.artifact, tag |-> 0]
    /\ UNCHANGED <<dest, revision, tagged, mishap>>

\* Not acceptable, or the destination cannot be replaced.  A partial file of
\* an earlier attempt is then given up within this one.
RejectPartial ==
    /\ task.step \in {"recheck", "validate"}
    /\ partial' \in Unlinked(partial, task.artifact)
    /\ IF task.step = "recheck"
       THEN Step("request") /\ meta' = [artifact |-> task.artifact, tag |-> 0]
       ELSE AgainOrFailed /\ ForgetMeta
    /\ UNCHANGED <<dest, revision, tagged, mishap>>

\* The launcher is closed or dies during a download.
LauncherDies ==
    /\ task # NoTask
    /\ task' = NoTask
    /\ UNCHANGED <<dest, partial, meta, revision, tagged, mishap>>

ServerReplacesFile ==
    /\ revision < MaxRevision
    /\ revision' = revision + 1
    /\ UNCHANGED <<dest, partial, meta, tagged, mishap, task>>

DownloadStep ==
    \/ PreparePartial \/ SendRequest \/ AnswerWhole \/ AnswerRest \/ AnswerUnsafe
    \/ AnswerTooLong \/ ConnectionFails \/ StoreValidators \/ ReceiveBlock
    \/ EndOfAnswer \/ ActivateFile \/ RejectPartial

DownloadNext ==
    \/ DownloadStep
    \/ LauncherDies \/ ServerReplacesFile
    \/ \E a \in Artifact, declares \in Declarations : BeginDownload(a, declares)

DownloadSpec == DownloadInit /\ [][DownloadNext]_downloadVars

-----------------------------------------------------------------------------
\* Whatever the server, the network and the disk do, a file with a declared
\* hash is installed as it was declared, or not at all.
DeclaredIsExact ==
    [][dest' # dest /\ task.declares = "hash" => dest' = [i \in 1..Blocks |-> 1]]_downloadVars

\* Without a hash too, a download resumed over changes of the file on the
\* server, retries and restarts of the launcher is never a mixture of two
\* revisions nor a piece of one, if lost ends of answers are noticed and
\* stale partial files can be removed.
InstalledIsOneRevision ==
    [][dest' # dest /\ mishap = {} => Whole(dest')]_downloadVars

\* Whatever the server, the network and the disk do, what is installed is one
\* file, and the declared one (_download_file, _validate_and_move).
InstalledIsRight == DeclaredIsExact /\ InstalledIsOneRevision

\* The retries, restarts and resumptions of a task come to an end.
DownloadEnds == task # NoTask ~> task = NoTask
=============================================================================
