------------------------------ MODULE Manifest ------------------------------
(***************************************************************************)
(* The manifest of a version, cocos2d::extension::Manifest                 *)
(* (src/extensions/assets-manager/Manifest.cpp): what it lists, what       *)
(* differs between two of them, and what is left to download according to  *)
(* the states it records.                                                  *)
(*                                                                         *)
(* A file's content stands for its md5; Content[v][a] is what version v    *)
(* holds under asset a, 0 when it does not have it.                        *)
(***************************************************************************)
EXTENDS Integers, FiniteSets

CONSTANTS
    Asset,             \* names of the assets of all versions
    MaxVersion,        \* bound: versions the server publishes
    Content            \* what each version holds under each asset

Version == 1..MaxVersion

ASSUME ContentAssumption ==
    /\ MaxVersion \in Nat \ {0}
    /\ Content \in [Version -> [Asset -> Nat]]

(* "absent": the manifest does not list the asset.                         *)
DownloadState == {"absent", "unmarked", "unstarted", "downloading", "successed"}

(* The "updating" entry of a manifest's JSON.                              *)
Flag == {"absent", "true", "false"}

(* A manifest object.  Its version, states and flag are those of its JSON, *)
(* the one it parsed last; version 0 and no assets stand for none, before  *)
(* anything was parsed and after what could not be.  The states are the    *)
(* object's as well while it is loaded, else it has no assets and nothing  *)
(* asks for their states.  updating is the member, which clear() leaves    *)
(* alone.                                                                  *)
ManifestObject == [version : 0..MaxVersion, loaded : BOOLEAN, updating : BOOLEAN,
                   flag : Flag, states : [Asset -> DownloadState]]

(* What saveToFile writes of one: its JSON.                                *)
ManifestFile == [version : Version, updating : Flag, states : [Asset -> DownloadState]]

(* What a manifest promises: its version and the assets it lists.          *)
View == [version : 0..MaxVersion, listed : SUBSET Asset]

Listed(m) == {a \in Asset : m.states[a] # "absent"}
ViewOf(m) == [version |-> m.version, listed |-> Listed(m)]
Holds(v) == {a \in Asset : Content[v][a] # 0}
Package == [version |-> 1, listed |-> Holds(1)]

NoStates == [a \in Asset |-> "absent"]
Unparsed == [version |-> 0, loaded |-> FALSE, updating |-> FALSE,
             flag |-> "absent", states |-> NoStates]

(* The manifest file of a version as the server has it.                    *)
Published(v) ==
    [version |-> v, updating |-> "absent",
     states  |-> [a \in Asset |-> IF a \in Holds(v) THEN "unmarked" ELSE "absent"]]

(* Mutant: clear() resets the updating flag as well.                       *)
ClearedUpdating(m) == Unparsed

(* loadVersion takes the member from the entry, if there is one.           *)
Flagged(flag, updating) == IF flag = "absent" THEN updating ELSE flag = "true"

(* parseFile on an object m, of a file that cannot be parsed and of one    *)
(* that can; parseVersion of a version file, which lists no assets.        *)
Cleared(m) == [Unparsed EXCEPT !.updating = m.updating]
ParseFile(m, file) ==
    [version |-> file.version, loaded |-> TRUE, updating |-> Flagged(file.updating, m.updating),
     flag |-> file.updating, states |-> file.states]
ParseVersion(m, v) == [Cleared(m) EXCEPT !.version = v]

(* Both on a file of no bytes: the object is cleared and its JSON is not,  *)
(* and what it parsed before is loaded again, by parseFile as a manifest.  *)
Reload(m, loaded) ==
    [m EXCEPT !.loaded = loaded, !.updating = Flagged(m.flag, m.updating)]

SavedFile(m) == [version |-> m.version, updating |-> m.flag, states |-> m.states]

SetUpdating(m, updating) ==
    IF m.loaded
    THEN [m EXCEPT !.updating = updating, !.flag = IF updating THEN "true" ELSE "false"]
    ELSE m

SetAssetDownloadState(m, assets, s) ==
    [m EXCEPT !.states = [a \in Asset |->
        IF a \in assets \cap Listed(m) THEN s ELSE m.states[a]]]

VersionEquals(m, n) == m.version = n.version
VersionGreaterOrEquals(m, n) == m.version >= n.version

(* genDiff from view m to view n: the assets only m lists, and those that  *)
(* are new in n or have another content there.                             *)
Deleted(m, n) == m.listed \ n.listed
Changed(m, n) ==
    {a \in n.listed : a \in m.listed => Content[m.version][a] # Content[n.version][a]}

(* Mutant: a download that was interrupted is not taken up again.          *)
ResumeUnstarted(m) == {a \in Listed(m) : m.states[a] = "unstarted"}

GenResumeAssetsList(m) == {a \in Listed(m) : m.states[a] \notin {"successed", "unmarked"}}
=============================================================================
