--------------------------- MODULE AssetsManager ---------------------------
(***************************************************************************)
(* Hot update, cocos2d::extension::AssetsManagerEx                         *)
(* (src/extensions/assets-manager/AssetsManagerEx.cpp).  The application   *)
(* asks whether the server has a newer version and downloads what differs  *)
(* from its own: version file, manifest, then the assets, into a temporary *)
(* directory that is merged into the storage path when all are there.  A   *)
(* manifest saved in the temporary directory records what was downloaded,  *)
(* so that the next start can resume.                                      *)
(*                                                                         *)
(* Everything runs in the main thread, but dispatchUpdateEvent calls the   *)
(* application's listener in the middle of a function, and the listener    *)
(* may call the public functions again.  stack holds what remains to be    *)
(* run: the function on top is executed by one action, "listener" stands   *)
(* for the application being inside its callback.                          *)
(*                                                                         *)
(* Not modelled: byte counts and percentages, manifests without URLs,      *)
(* loadLocalManifest and loadRemoteManifest with objects of the            *)
(* application's own, search paths.  The package of every version stays on *)
(* the server.                                                             *)
(***************************************************************************)
EXTENDS Manifest, FiniteSetsExt, SequencesExt

CONSTANTS
    Compressed,        \* the assets that are downloaded as archives
    MaxConcurrent,     \* _maxConcurrentTask
    MaxDepth,          \* bound: stack at which a listener still calls the API
    Null, NoFile, Garbage, NoAsset

ASSUME AssetsManagerAssumption ==
    /\ IsFiniteSet(Asset) /\ Compressed \subseteq Asset
    /\ MaxConcurrent \in Nat \ {0}
    /\ MaxDepth \in Nat
    /\ NoAsset \notin Asset
    /\ Null \notin ManifestObject
    /\ NoFile \notin ManifestFile /\ Garbage \notin ManifestFile /\ NoFile # Garbage

VersionId == "@version"
ManifestId == "@manifest"
ASSUME IdAssumption == VersionId \notin Asset /\ ManifestId \notin Asset

(* The content of a file that is not an asset of any version: an archive,  *)
(* a part, what failed its verification, or no file at all.                *)
Bad == -1

VARIABLES
    state,             \* _updateState
    entry,             \* _updateEntry
    local,             \* what _localManifest promises
    remote,            \* *_remoteManifest
    temp,              \* *_tempManifest, when it is an object of its own
    alias,             \* _tempManifest = _remoteManifest
    units,             \* _downloadUnits
    unitsVersion,      \* the version their URLs name
    failed,            \* _failedUnits
    queue,             \* _queue
    wait,              \* _totalWaitToDownload
    curr,              \* _currConcurrentTask
    transfers,         \* tasks given to the downloader and not reported
    unzip,             \* archives given to the task pool and not reported
    stack,             \* functions still to run, the running one first
    storage,           \* disk: files in _storagePath
    cached,            \* disk: the manifest that the next start will choose
    tempFiles,         \* disk: files in _tempStoragePath
    tempFile,          \* disk: project.manifest.temp
    tempRenamed,       \* disk: project.manifest in _tempStoragePath
    server,            \* the newest version the server has answered with
    incidents,         \* history: what has happened of the kinds in Incident
    touched,           \* history: assets whose stored file was removed or replaced and is
                       \*   no longer that of the cached manifest
    freed              \* history: _remoteManifest was used after its release

memory == <<state, entry, local, remote, temp, alias, units, unitsVersion, failed,
            queue, wait, curr, transfers, unzip, stack>>
disk == <<storage, cached, tempFiles, tempFile, tempRenamed>>
manifests == <<remote, temp, alias>>
downloads == <<units, unitsVersion, failed, queue, wait, curr>>
history == <<incidents, touched, freed>>
vars == <<memory, disk, server, history>>

State == {"UNCHECKED", "DOWNLOADING_VERSION", "DOWNLOADING_MANIFEST", "MANIFEST_LOADED",
          "NEED_UPDATE", "READY_TO_UPDATE", "UPDATING", "UP_TO_DATE", "FAIL_TO_UPDATE"}
Entry == {"NONE", "CHECK_UPDATE", "DO_UPDATE"}
Function == {"listener", "versionFound", "manifestFound", "parseFailed", "manifestFailed",
             "prepareUpdate", "readyToUpdate", "batchDownload", "queueDownload", "finished",
             "updateSucceed", "merge", "fileError", "fileFailed", "fileDone"}

(* What may have happened so that the storage does not hold what it        *)
(* claims:                                                                 *)
(* "selfResumed", an update resumed from the states of a manifest that was *)
(* only just parsed;                                                       *)
(* "torn", a restart after the manifest was merged and before all assets   *)
(* were;                                                                   *)
(* "reverted", an update to a version that has an asset again as the local *)
(* one has it, after another update had removed or replaced its file and   *)
(* was given up;                                                           *)
(* "emptied", a manifest of no bytes, for which what was parsed before it  *)
(* was taken;                                                              *)
(* "spoiled", the saved manifest overwritten by such a one, or by the part *)
(* of one whose download failed.                                           *)
Incident == {"selfResumed", "torn", "reverted", "emptied", "spoiled"}

NoFiles == [a \in Asset |-> 0]

TypeOK ==
    /\ state \in State /\ entry \in Entry
    /\ local \in View
    /\ remote \in ManifestObject \cup {Null}
    /\ temp \in ManifestObject \cup {Null}
    /\ alias \in BOOLEAN
    /\ units \subseteq Asset /\ unitsVersion \in 0..MaxVersion
    /\ failed \subseteq Asset /\ queue \subseteq Asset
    /\ wait \in Nat /\ curr \in Nat
    /\ transfers \subseteq Asset \cup {VersionId, ManifestId}
    /\ unzip \subseteq Asset
    /\ stack \in Seq([fn : Function, asset : Asset \cup {NoAsset}])
    /\ storage \in [Asset -> Nat \cup {Bad}] /\ tempFiles \in [Asset -> Nat \cup {Bad}]
    /\ cached \in View
    /\ tempFile \in ManifestFile \cup {NoFile, Garbage}
    /\ tempRenamed \in ManifestFile \cup {NoFile, Garbage}
    /\ server \in Version
    /\ incidents \subseteq Incident /\ touched \subseteq Asset /\ freed \in BOOLEAN
-----------------------------------------------------------------------------
(* What the engine's memory is after a start: the cached manifest or the   *)
(* package's, and the temporary manifest if there is one to parse.         *)
Started(file) ==
    /\ state' = "UNCHECKED" /\ entry' = "NONE"
    /\ local' = cached'
    /\ remote' = Unparsed
    /\ temp' = CASE file = NoFile  -> Unparsed
                 [] file = Garbage -> Null
                 [] OTHER          -> ParseFile(Unparsed, file)
    /\ alias' = FALSE
    /\ units' = {} /\ unitsVersion' = 0 /\ failed' = {} /\ queue' = {}
    /\ wait' = 0 /\ curr' = 0
    /\ transfers' = {} /\ unzip' = {}
    /\ stack' = <<>>

Init ==
    /\ state = "UNCHECKED" /\ entry = "NONE"
    /\ local = Package /\ remote = Unparsed /\ temp = Unparsed /\ alias = FALSE
    /\ units = {} /\ unitsVersion = 0 /\ failed = {} /\ queue = {} /\ wait = 0 /\ curr = 0
    /\ transfers = {} /\ unzip = {} /\ stack = <<>>
    /\ storage = NoFiles /\ cached = Package
    /\ tempFiles = NoFiles /\ tempFile = NoFile /\ tempRenamed = NoFile
    /\ server = 1
    /\ incidents = {} /\ touched = {} /\ freed = FALSE
-----------------------------------------------------------------------------
(* The stack.                                                              *)
OnAsset(fn, a) == [fn |-> fn, asset |-> a]
Frame(fn) == OnAsset(fn, NoAsset)
Runs(fn) == stack # <<>> /\ Head(stack).fn = fn

(* The running function ends and leaves frames to run.                     *)
Leave(frames) == stack' = frames \o Tail(stack)

(* The application calls a function: from a listener, or at any other time *)
(* when no function runs.                                                  *)
MayCall == stack = <<>> \/ (Runs("listener") /\ Len(stack) <= MaxDepth)
Call(frames) == MayCall /\ stack' = frames \o stack

(* A callback of the downloader or of the task pool enters.                *)
Enter(frames) == stack = <<>> /\ stack' = frames

(* dispatchUpdateEvent calls the listener before what is left to run below *)
(* it.  When nothing is, the listener's calls are those the application    *)
(* makes at any time, and the callback needs no frame.                     *)
Notify(below) == IF below = <<>> THEN <<>> ELSE <<Frame("listener")>> \o below

(* The manifest that _tempManifest points to, and its assignment.          *)
Temp == IF alias THEN remote ELSE temp
TempBecomes(m) ==
    IF alias
    THEN remote' = m /\ UNCHANGED <<temp, alias>>
    ELSE temp' = m /\ UNCHANGED <<remote, alias>>
SetTempState(assets, s) == TempBecomes(SetAssetDownloadState(Temp, assets, s))

RemoveTempStorage == tempFiles' = NoFiles /\ tempFile' = NoFile /\ tempRenamed' = NoFile

Fetch(id, s) == state' = s /\ transfers' = transfers \cup {id}
DownloadVersion == Fetch(VersionId, "DOWNLOADING_VERSION")
DownloadManifest == Fetch(ManifestId, "DOWNLOADING_MANIFEST")
-----------------------------------------------------------------------------
(* checkUpdate() *)
CheckUpdate ==
    /\ entry = "NONE"
    /\ \/ /\ state \in {"FAIL_TO_UPDATE", "UNCHECKED"}
          /\ DownloadVersion
          /\ entry' = "CHECK_UPDATE"
          /\ Call(<<>>)
       \/ /\ state \in {"UP_TO_DATE", "NEED_UPDATE"}
          /\ MayCall /\ stack' = Notify(stack)    \* the event resets the entry
          /\ UNCHANGED <<state, entry, transfers>>
       \/ /\ state \notin {"FAIL_TO_UPDATE", "UNCHECKED", "UP_TO_DATE", "NEED_UPDATE"}
          /\ entry' = "CHECK_UPDATE"
          /\ Call(<<>>)
          /\ UNCHANGED <<state, transfers>>
    /\ UNCHANGED <<local, manifests, downloads, unzip, disk, server, history>>

(* parseManifest() of a file that cannot be parsed; below is what is left  *)
(* to run of its callers.                                                  *)
ManifestUnreadable(below) ==
    /\ remote' = Cleared(remote)
    /\ state' = "MANIFEST_LOADED" /\ entry' = "NONE"
    /\ stack' = Notify(<<Frame("parseFailed")>> \o below)
    /\ tempFile' = Garbage
    /\ UNCHANGED <<local, temp, alias, downloads, unzip, storage, cached, tempFiles, tempRenamed,
                   server, history>>

(* startUpdate(): prepareUpdate() if an update is needed, and then what    *)
(* there is to do if it is ready.                                          *)
StartUpdate ==
    CASE state = "NEED_UPDATE"     -> <<Frame("prepareUpdate"), Frame("readyToUpdate")>>
      [] state = "READY_TO_UPDATE" -> <<Frame("readyToUpdate")>>
      [] OTHER                     -> <<>>

(* update(), by the state it finds.                                        *)
UpdateFetches ==
    /\ entry = "NONE"
    /\ \/ state = "UNCHECKED" /\ DownloadVersion
       \/ state \in {"FAIL_TO_UPDATE", "NEED_UPDATE"} /\ ~ remote.loaded /\ DownloadManifest
    /\ entry' = "DO_UPDATE"
    /\ Call(<<>>)
    /\ UNCHANGED <<local, manifests, downloads, unzip, disk, server, history>>

(* The only manifest a listener finds in this state is unreadable.         *)
UpdateParses ==
    /\ entry = "NONE"
    /\ state = "MANIFEST_LOADED"
    /\ MayCall
    /\ ManifestUnreadable(stack)
    /\ UNCHANGED transfers

UpdateStarts ==
    /\ entry = "NONE"
    /\ state \in {"FAIL_TO_UPDATE", "NEED_UPDATE"} /\ remote.loaded
    /\ entry' = "DO_UPDATE"
    /\ Call(StartUpdate)
    /\ UNCHANGED <<state, local, manifests, downloads, transfers, unzip, disk, server, history>>

UpdateRequested ==                          \* nothing is started
    /\ entry = "NONE"
    /\ state \in {"DOWNLOADING_VERSION", "DOWNLOADING_MANIFEST", "READY_TO_UPDATE"}
    /\ entry' = "DO_UPDATE"
    /\ Call(<<>>)
    /\ UNCHANGED <<state, local, manifests, downloads, transfers, unzip, disk, server, history>>

Update == UpdateFetches \/ UpdateParses \/ UpdateStarts \/ UpdateRequested

(* prepareUpdate() called by the application.  Environment: not when only  *)
(* the version file was read.  The code does not refuse that: see README.  *)
CallPrepareUpdate ==
    /\ state = "NEED_UPDATE" /\ remote.loaded
    /\ Call(<<Frame("prepareUpdate")>>)
    /\ UNCHANGED <<state, entry, local, manifests, downloads, transfers, unzip, disk,
                   server, history>>

(* downloadFailedAssets(), i.e. updateAssets(_failedUnits).  Environment:  *)
(* it is called when the update has failed.  The code does not refuse it   *)
(* in other states: see the README.                                        *)
DownloadFailedAssets ==
    /\ state = "FAIL_TO_UPDATE"
    /\ remote.loaded
    /\ Call(<<Frame(IF failed # {} THEN "batchDownload" ELSE "finished")>>)
    /\ state' = "UPDATING"
    /\ units' = failed /\ wait' = Cardinality(failed)
    /\ UNCHANGED <<entry, local, manifests, unitsVersion, failed, queue, curr, transfers, unzip,
                   disk, server, history>>

API == CheckUpdate \/ Update \/ CallPrepareUpdate \/ DownloadFailedAssets
-----------------------------------------------------------------------------
(* The server: versions are published at any time, but only seen when it   *)
(* answers.  It does not go back to an older version; what a version holds *)
(* may be what an older one held.                                          *)
Answers == server' \in server..MaxVersion

(* onSuccess and onError for the version file, and parseVersion(): without *)
(* a version the manifest is fetched anyway.                               *)
VersionUnknown ==
    /\ stack = <<>> /\ VersionId \in transfers
    /\ state' = "DOWNLOADING_MANIFEST"
    /\ transfers' = (transfers \ {VersionId}) \cup {ManifestId}
    /\ \E garbage \in BOOLEAN :               \* not an error but an unreadable file
          remote' = IF garbage THEN Cleared(remote) ELSE remote
    /\ UNCHANGED <<entry, local, temp, alias, downloads, unzip, stack, disk, server, history>>

(* What parseVersion() does with a version, read from the file or, if that *)
(* has no bytes, read earlier.                                             *)
VersionSuccess ==
    /\ VersionId \in transfers /\ transfers' = transfers \ {VersionId}
    /\ \/ Answers /\ remote' = ParseVersion(remote, server')
       \/ UNCHANGED server /\ remote.version # 0 /\ remote' = Reload(remote, FALSE)
    /\ \/ /\ VersionGreaterOrEquals(local, remote')
          /\ state' = "UP_TO_DATE" /\ entry' = "NONE"
          /\ RemoveTempStorage
          /\ Enter(<<>>)
       \/ /\ ~ VersionGreaterOrEquals(local, remote')
          /\ state' = "NEED_UPDATE"
          /\ entry' = IF entry = "CHECK_UPDATE" THEN "NONE" ELSE entry
          /\ Enter(IF entry = "DO_UPDATE" THEN Notify(<<Frame("versionFound")>>) ELSE <<>>)
          /\ UNCHANGED <<tempFiles, tempFile, tempRenamed>>
    /\ UNCHANGED <<local, temp, alias, downloads, unzip, storage, cached, history>>

VersionFound ==
    /\ Runs("versionFound") /\ Leave(<<>>)
    /\ DownloadManifest
    /\ UNCHANGED <<entry, local, manifests, downloads, unzip, disk, server, history>>

(* onSuccess and onError for the manifest; what follows their events.  A   *)
(* task that failed may have left its part of the file under the final     *)
(* name: see the Downloader.                                               *)
ManifestLoaded(file) ==
    /\ transfers' = transfers \ {ManifestId}
    /\ \/ /\ VersionGreaterOrEquals(local, remote')
          /\ state' = "UP_TO_DATE" /\ entry' = "NONE"
          /\ RemoveTempStorage
          /\ Enter(<<>>)
       \/ /\ ~ VersionGreaterOrEquals(local, remote')
          /\ state' = "NEED_UPDATE"
          /\ entry' = IF entry = "CHECK_UPDATE" THEN "NONE" ELSE entry
          /\ tempFile' = file
          /\ Enter(Notify(<<Frame("manifestFound")>>))
          /\ UNCHANGED <<tempFiles, tempRenamed>>
    /\ UNCHANGED <<local, temp, alias, downloads, unzip, storage, cached, touched, freed>>

ManifestSuccess ==
    /\ ManifestId \in transfers
    /\ Answers
    /\ remote' = ParseFile(remote, Published(server'))
    /\ ManifestLoaded(Published(server'))
    /\ UNCHANGED incidents

(* A file of no bytes, after a version file or another manifest.           *)
ManifestEmpty ==
    /\ ManifestId \in transfers /\ remote.version # 0
    /\ remote' = Reload(remote, TRUE)
    /\ ManifestLoaded(Garbage)
    /\ incidents' = incidents \cup {"emptied", "spoiled"}
    /\ UNCHANGED server

ManifestInvalid ==
    /\ stack = <<>> /\ ManifestId \in transfers
    /\ transfers' = transfers \ {ManifestId}
    /\ ManifestUnreadable(<<>>)

ManifestError ==
    /\ ManifestId \in transfers /\ transfers' = transfers \ {ManifestId}
    /\ entry' = "NONE"
    /\ tempFile' \in {tempFile, Garbage}
    /\ incidents' = IF tempFile' = Garbage THEN incidents \cup {"spoiled"} ELSE incidents
    /\ Enter(Notify(<<Frame("manifestFailed")>>))
    /\ UNCHANGED <<state, local, manifests, downloads, unzip, storage, cached, tempFiles,
                   tempRenamed, server, touched, freed>>

ManifestFailed ==
    /\ \/ Runs("manifestFailed") /\ state' = "FAIL_TO_UPDATE"
       \/ Runs("parseFailed") /\ state' = "UNCHECKED"
    /\ Leave(<<>>)
    /\ UNCHANGED <<entry, local, manifests, downloads, transfers, unzip, disk, server, history>>

ManifestFound ==
    /\ Runs("manifestFound")
    /\ Leave(IF entry = "DO_UPDATE" THEN StartUpdate ELSE <<>>)
    /\ UNCHANGED <<state, entry, local, manifests, downloads, transfers, unzip, disk, server,
                   history>>
-----------------------------------------------------------------------------
(* prepareUpdate() *)
Resumable ==
    Temp # Null /\ Temp.loaded /\ Temp.updating /\ VersionEquals(Temp, remote)

PrepareResume ==
    /\ Runs("prepareUpdate") /\ Leave(<<>>)
    /\ Resumable
    /\ tempFile' = SavedFile(Temp)
    /\ failed' = {} /\ units' = GenResumeAssetsList(Temp) /\ wait' = Cardinality(units')
    /\ unitsVersion' = Temp.version
    /\ state' = "READY_TO_UPDATE"
    /\ incidents' = IF alias THEN incidents \cup {"selfResumed"} ELSE incidents
    /\ UNCHANGED <<entry, local, manifests, queue, curr, transfers, unzip, storage, cached,
                   tempFiles, tempRenamed, server, touched, freed>>

PrepareFresh ==
    LET deleted == Deleted(local, ViewOf(remote))
        changed == Changed(local, ViewOf(remote))
        marked  == SetUpdating(SetAssetDownloadState(remote, changed, "unstarted"), TRUE)
    IN
    /\ Runs("prepareUpdate")
    /\ ~ Resumable
    /\ \/ /\ Temp = Null                     \* initManifests removed the directory
          /\ UNCHANGED <<tempFiles, tempRenamed>>
       \/ /\ Temp # Null
          /\ tempFiles' = NoFiles /\ tempRenamed' = NoFile
    /\ freed' = (freed \/ alias)
    /\ alias' = TRUE /\ temp' = Null
    /\ failed' = {} /\ units' = changed /\ wait' = Cardinality(changed)
    /\ unitsVersion' = remote.version
    /\ storage' = [a \in Asset |-> IF a \in deleted THEN 0 ELSE storage[a]]
    /\ touched' = touched \cup {a \in deleted : storage[a] # 0}
    /\ incidents' = IF touched \cap (Listed(remote) \ changed) # {}
                    THEN incidents \cup {"reverted"} ELSE incidents
    /\ \/ /\ deleted \cup changed = {}
          /\ tempFile' = IF Temp = Null THEN tempFile ELSE SavedFile(remote)
          /\ Leave(<<Frame("updateSucceed")>>)
          /\ UNCHANGED <<state, remote>>
       \/ /\ deleted \cup changed # {}
          /\ remote' = marked
          /\ tempFile' = SavedFile(marked)
          /\ state' = "READY_TO_UPDATE"
          /\ Leave(<<>>)
    /\ UNCHANGED <<entry, local, queue, curr, transfers, unzip, cached, server>>

(* The second half of startUpdate(), and batchDownload().                  *)
ReadyToUpdate ==
    /\ Runs("readyToUpdate")
    /\ IF state = "READY_TO_UPDATE"
       THEN state' = "UPDATING" /\ Leave(Notify(<<Frame("batchDownload")>>))
       ELSE UNCHANGED state /\ Leave(<<>>)
    /\ UNCHANGED <<entry, local, manifests, downloads, transfers, unzip, disk, server, history>>

BatchDownload ==
    /\ Runs("batchDownload") /\ Leave(<<Frame("queueDownload")>>)
    /\ queue' = units
    /\ UNCHANGED <<state, entry, local, manifests, units, unitsVersion, failed, wait, curr,
                   transfers, unzip, disk, server, history>>

(* queueDowload(): the keys come out of an unordered map, so in any order. *)
(* The manifest is saved when the share of the files that succeeded has    *)
(* passed the next save point: not before the first, and then at any time. *)
QueueDownload ==
    /\ Runs("queueDownload") /\ wait # 0 /\ Leave(<<>>)
    /\ \E started \in SUBSET queue :
          /\ Cardinality(started) =
                Min({Cardinality(queue), Max({0, MaxConcurrent - curr})})
          /\ queue' = queue \ started
          /\ curr' = curr + Cardinality(started)
          /\ transfers' = transfers \cup started
          /\ SetTempState(started, "downloading")
    /\ \E save \in BOOLEAN :
          /\ save => \E a \in units : Temp.states[a] = "successed"
          /\ tempFile' = IF save THEN SavedFile(IF alias THEN remote' ELSE temp') ELSE tempFile
    /\ UNCHANGED <<state, entry, local, units, unitsVersion, failed, wait, unzip, storage, cached,
                   tempFiles, tempRenamed, server, history>>

(* onDownloadUnitsFinished(), which queueDowload() calls at once when      *)
(* nothing is awaited.                                                     *)
UnitsFinished == Runs("finished") \/ (Runs("queueDownload") /\ wait = 0)

FinishedWithErrors ==
    /\ UnitsFinished /\ failed # {} /\ stack' = Notify(Tail(stack))
    /\ tempFile' = SavedFile(Temp)
    /\ state' = "FAIL_TO_UPDATE" /\ entry' = "NONE"
    /\ UNCHANGED <<local, manifests, downloads, transfers, unzip, storage, cached, tempFiles,
                   tempRenamed, server, history>>

Finished ==
    /\ UnitsFinished /\ failed = {}
    /\ Leave(IF state = "UPDATING" THEN <<Frame("updateSucceed")>> ELSE <<>>)
    /\ UNCHANGED <<state, entry, local, manifests, downloads, transfers, unzip, disk, server,
                   history>>
-----------------------------------------------------------------------------
(* Mutant: the temporary manifest keeps its name.                          *)
UpdateSucceedUnnamed ==
    /\ Runs("updateSucceed") /\ Leave(<<Frame("merge")>>)
    /\ TempBecomes(SetUpdating(Temp, FALSE))
    /\ UNCHANGED <<state, entry, local, downloads, transfers, unzip, disk, server, history>>

(* updateSucceed(): the manifest gets its final name, the files of the     *)
(* temporary directory move one by one in the order of its listing, then   *)
(* the manifests are swapped.                                              *)
UpdateSucceed ==
    /\ Runs("updateSucceed") /\ Leave(<<Frame("merge")>>)
    /\ TempBecomes(SetUpdating(Temp, FALSE))
    /\ tempRenamed' = IF tempFile = NoFile THEN tempRenamed ELSE tempFile
    /\ tempFile' = NoFile
    /\ UNCHANGED <<state, entry, local, downloads, transfers, unzip, storage, cached, tempFiles,
                   server, history>>

MergeManifest ==
    /\ Runs("merge") /\ tempRenamed # NoFile
    /\ \/ /\ tempRenamed # Garbage
          /\ cached' = ViewOf(tempRenamed) /\ touched' = {}
       \/ /\ tempRenamed = Garbage
          /\ cached' = Package /\ touched' = touched \cup {a \in Asset : storage[a] # 0}
    /\ tempRenamed' = NoFile
    /\ UNCHANGED <<memory, storage, tempFiles, tempFile, server, incidents, freed>>

MergeFile(a) ==
    /\ Runs("merge") /\ tempFiles[a] # 0
    /\ storage' = [storage EXCEPT ![a] = tempFiles[a]]
    /\ tempFiles' = [tempFiles EXCEPT ![a] = 0]
    /\ touched' = IF cached = ViewOf(remote) THEN touched ELSE touched \cup {a}
    /\ UNCHANGED <<memory, cached, tempFile, tempRenamed, server, incidents, freed>>

(* From here on _tempManifest points to the new local manifest and is not  *)
(* used any more.                                                          *)
SwapManifests ==
    /\ Runs("merge") /\ tempRenamed = NoFile /\ tempFiles = NoFiles
    /\ stack' = Notify(Tail(stack))
    /\ local' = ViewOf(remote)
    /\ remote' = Null /\ temp' = Null /\ alias' = FALSE
    /\ state' = "UP_TO_DATE" /\ entry' = "NONE"
    /\ UNCHANGED <<downloads, transfers, unzip, disk, server, history>>
-----------------------------------------------------------------------------
(* Mutant: a file that arrived at the second attempt stays a failed one.   *)
FileSuccessStillFailed(a) ==
    /\ SetTempState({a}, "successed")
    /\ wait' = IF a \in units THEN wait - 1 ELSE wait
    /\ Enter(Notify(<<Frame("fileDone")>>))
    /\ UNCHANGED <<state, entry, local, units, unitsVersion, failed, queue, curr, storage, cached,
                   tempFile, tempRenamed, server, history>>

(* Mutant: a file is counted once for each of its two events.              *)
FileSuccessTwice(a) ==
    /\ SetTempState({a}, "successed")
    /\ failed' = failed \ {a}
    /\ wait' = IF a \in units THEN wait - 2 ELSE wait
    /\ Enter(Notify(<<Frame("fileDone")>>))
    /\ UNCHANGED <<state, entry, local, units, unitsVersion, queue, curr, storage, cached,
                   tempFile, tempRenamed, server, history>>

(* fileSuccess: its two events, which change nothing, are one callback.    *)
FileSuccess(a) ==
    /\ SetTempState({a}, "successed")
    /\ failed' = failed \ {a}
    /\ wait' = IF a \in units THEN wait - 1 ELSE wait
    /\ Enter(Notify(<<Frame("fileDone")>>))
    /\ UNCHANGED <<state, entry, local, units, unitsVersion, queue, curr, storage, cached,
                   tempFile, tempRenamed, server, history>>

(* Mutant: the task that ended keeps its place.                            *)
FileDoneStill ==
    /\ Runs("fileDone") /\ Leave(<<Frame("queueDownload")>>)
    /\ UNCHANGED <<state, entry, local, manifests, downloads, transfers, unzip, disk, server,
                   history>>

FileDone ==
    /\ Runs("fileDone") /\ Leave(<<Frame("queueDownload")>>)
    /\ curr' = Max({0, curr - 1})
    /\ UNCHANGED <<state, entry, local, manifests, units, unitsVersion, failed, queue, wait,
                   transfers, unzip, disk, server, history>>

(* fileError before its event, with below left to run, and after it.       *)
FileError(a, below) ==
    /\ wait' = IF a \in units THEN wait - 1 ELSE wait
    /\ failed' = IF a \in units THEN failed \cup {a} ELSE failed
    /\ entry' = "NONE"
    /\ stack' = Notify(<<OnAsset("fileFailed", a)>> \o below)
    /\ UNCHANGED <<state, local, manifests, units, unitsVersion, queue, curr, storage, cached,
                   tempFile, tempRenamed, server, history>>

FileFailed ==
    /\ Runs("fileFailed") /\ Leave(<<Frame("queueDownload")>>)
    /\ SetTempState({Head(stack).asset}, "unstarted")
    /\ curr' = Max({0, curr - 1})
    /\ UNCHANGED <<state, entry, local, units, unitsVersion, failed, queue, wait, transfers,
                   unzip, disk, server, history>>

(* Mutant: an archive is a success when it has arrived.                    *)
AssetSuccessUnread(a) ==
    /\ stack = <<>> /\ a \in transfers
    /\ transfers' = transfers \ {a}
    /\ tempFiles' = [tempFiles EXCEPT ![a] =
                        IF a \in Compressed THEN Bad ELSE Content[unitsVersion][a]]
    /\ FileSuccess(a)
    /\ UNCHANGED unzip

(* onSuccess and onError for an asset.  The downloader has put the file in *)
(* its place before it reports success.  What a task leaves that failed,   *)
(* or whose file the application's verification rejected, may be anything. *)
AssetSuccess(a) ==
    /\ stack = <<>> /\ a \in transfers
    /\ transfers' = transfers \ {a}
    /\ \/ /\ a \notin Compressed
          /\ tempFiles' = [tempFiles EXCEPT ![a] = Content[unitsVersion][a]]
          /\ FileSuccess(a)
          /\ UNCHANGED unzip
       \/ /\ a \in Compressed
          /\ tempFiles' = [tempFiles EXCEPT ![a] = Bad]
          /\ unzip' = unzip \cup {a}
          /\ UNCHANGED <<state, entry, local, manifests, downloads, stack, storage, cached,
                         tempFile, tempRenamed, server, history>>

AssetError(a) ==
    /\ stack = <<>> /\ a \in transfers
    /\ transfers' = transfers \ {a}
    /\ tempFiles' = [tempFiles EXCEPT ![a] = Bad]
    /\ FileError(a, <<>>)
    /\ UNCHANGED unzip

(* decompressFinished, posted by the pool when decompress() has ended.     *)
UnzipSuccess(a) ==
    /\ a \in unzip /\ unzip' = unzip \ {a}
    /\ tempFiles' = [tempFiles EXCEPT ![a] = Content[unitsVersion][a]]
    /\ FileSuccess(a)
    /\ UNCHANGED transfers

UnzipError(a) ==
    /\ a \in unzip /\ unzip' = unzip \ {a}
    /\ entry' = "NONE"                         \* ERROR_DECOMPRESS
    /\ Enter(Notify(<<OnAsset("fileError", a)>>))
    /\ UNCHANGED <<state, local, manifests, downloads, transfers, disk, server, history>>

UnzipFailed ==
    /\ Runs("fileError")
    /\ FileError(Head(stack).asset, Tail(stack))
    /\ UNCHANGED <<transfers, unzip, tempFiles>>
-----------------------------------------------------------------------------
(* The listener returns.                                                   *)
Return ==
    /\ Runs("listener") /\ Leave(<<>>)
    /\ UNCHANGED <<state, entry, local, manifests, downloads, transfers, unzip, disk, server,
                   history>>

(* The process dies, anywhere, and starts again.  In a function that saves *)
(* the temporary manifest it may die in the middle of the file, and what   *)
(* cannot be parsed makes initManifests remove the temporary directory.    *)
Restart ==
    \E file \in {tempFile} \cup
               (IF \E fn \in {"prepareUpdate", "queueDownload", "finished"} : Runs(fn)
                THEN {Garbage} ELSE {}) :
        /\ IF file = Garbage
           THEN RemoveTempStorage
           ELSE UNCHANGED <<tempFiles, tempFile, tempRenamed>>
        /\ UNCHANGED <<storage, cached, server, touched, freed>>
        /\ incidents' = IF Runs("merge") /\ tempRenamed = NoFile /\ tempFiles # NoFiles
                        THEN incidents \cup {"torn"} ELSE incidents
        /\ Started(file)

(* The functions on the stack, and the callbacks of what is under way.     *)
Functions ==
    \/ Return \/ VersionFound \/ ManifestFound \/ ManifestFailed
    \/ PrepareResume \/ PrepareFresh \/ ReadyToUpdate
    \/ BatchDownload \/ QueueDownload \/ FinishedWithErrors \/ Finished
    \/ UpdateSucceed \/ MergeManifest \/ (\E a \in Asset : MergeFile(a)) \/ SwapManifests
    \/ FileDone \/ FileFailed \/ UnzipFailed

Callbacks ==
    \/ VersionUnknown \/ VersionSuccess
    \/ ManifestSuccess \/ ManifestEmpty \/ ManifestInvalid \/ ManifestError
    \/ \E a \in Asset :
          AssetSuccess(a) \/ AssetError(a) \/ UnzipSuccess(a) \/ UnzipError(a)

Next == API \/ Functions \/ Callbacks \/ Restart

Spec == Init /\ [][Next]_vars

(* The main loop runs what is on the stack and calls back for what ended;  *)
(* a transfer ends, if only by its timeout, and so does a decompression.   *)
FairSpec == Spec /\ WF_vars(Functions \/ Callbacks)
-----------------------------------------------------------------------------
(* Files found as the search paths have them, storage before package, are  *)
(* those of the version.                                                   *)
Found(a) == IF storage[a] # 0 THEN storage[a] ELSE Content[1][a]
Complete(v) == \A a \in Holds(v) : Found(a) = Content[v][a]

AtRest == stack = <<>>
Outstanding == transfers \cap Asset
Ending == Cardinality({i \in DOMAIN stack : stack[i].fn \in {"fileError", "fileFailed", "fileDone"}})

(* When the manager reports that the local version is the newest, every    *)
(* file of that version is there: whatever the order of failures, retries, *)
(* restarts and new versions, unless one of the first four incidents has   *)
(* happened.                                                               *)
UpdateComplete ==
    state = "UP_TO_DATE" /\ incidents \subseteq {"spoiled"} => Complete(local.version)

(* What updateSucceed() says of itself where it begins: every thing is     *)
(* correctly downloaded.  Whatever the new version holds is in the         *)
(* temporary directory, or found as it should be without.  It is not asked *)
(* of a storage that was torn or reverted, nor after an empty manifest.    *)
CorrectlyDownloaded ==
    Runs("updateSucceed") /\ incidents \subseteq {"selfResumed", "spoiled"} =>
        \A a \in Holds(remote.version) :
            Content[remote.version][a] = IF tempFiles[a] # 0 THEN tempFiles[a] ELSE Found(a)

(* And that the temporary version turns to the cached version: the next    *)
(* start chooses the version that was swapped in, unless its saved         *)
(* manifest was spoiled.                                                   *)
Cached ==
    state = "UP_TO_DATE" /\ remote = Null /\ "spoiled" \notin incidents => cached = local

(* The concurrency counter is exactly the downloads, decompressions and    *)
(* completions under way, and between callbacks of an update the counter   *)
(* of awaited files is exactly the queued ones and those: neither drifts   *)
(* over errors, retries and resumptions, so the update neither stalls at   *)
(* the limit nor ends early.                                               *)
CountersExact ==
    /\ curr = Cardinality(Outstanding) + Cardinality(unzip) + Ending
    /\ curr <= MaxConcurrent
    /\ AtRest /\ state = "UPDATING" =>
          /\ curr > 0
          /\ wait = Cardinality(queue) + Cardinality(Outstanding) + Cardinality(unzip)

(* During an update every asset that the temporary manifest still wants is *)
(* queued, under way or remembered as failed; after a failed one, exactly  *)
(* the failed ones are wanted.                                             *)
NothingForgotten ==
    AtRest =>
        /\ state = "UPDATING" =>
              GenResumeAssetsList(Temp) = queue \cup Outstanding \cup unzip \cup failed
        /\ state = "FAIL_TO_UPDATE" /\ remote.loaded => GenResumeAssetsList(Temp) = failed

(* What the saved manifest marks as downloaded is in the temporary         *)
(* directory, so that a restart at any moment may skip it.                 *)
ResumeSound ==
    tempFile \in ManifestFile =>
        \A a \in Asset : tempFile.states[a] = "successed" =>
            tempFiles[a] = Content[tempFile.version][a]

(* _remoteManifest is not used after prepareUpdate released it under the   *)
(* name _tempManifest.                                                     *)
ManifestAlive == ~ freed

(* An update that has begun ends, in success or failure.                   *)
UpdateEnds == state = "UPDATING" ~> state # "UPDATING"
=============================================================================
