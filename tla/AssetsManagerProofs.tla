------------------------ MODULE AssetsManagerProofs ------------------------
(***************************************************************************)
(* The safety properties of AssetsManager, for any assets and versions.    *)
(* The invariant IInv says, for each state of the update, which functions  *)
(* are on the stack, what the counters count, which assets are still       *)
(* wanted, how the saved manifest follows the one in memory, and what the  *)
(* disk holds.                                                             *)
(***************************************************************************)
EXTENDS AssetsManager, FiniteSetTheorems, TLAPS

(* Frames that may be below others: what they do depends on the state.     *)
IdleFn == {"listener", "manifestFound", "readyToUpdate"}

(* Functions that are executed as soon as they are on the stack.           *)
WorkFn == {"prepareUpdate", "queueDownload", "finished", "updateSucceed", "merge"}

FrameType == [fn : Function, asset : Asset \cup {NoAsset}]
Only(s, fns) == \A i \in DOMAIN s : s[i].fn \in fns
Over(f) == {<<f>>, <<Frame("listener"), f>>}

AtBatch(s) == s # <<>> /\ Head(s).fn = "batchDownload" /\ Only(Tail(s), IdleFn)
BatchAhead(s) ==
    AtBatch(s) \/ (s # <<>> /\ Head(s) = Frame("listener") /\ AtBatch(Tail(s)))

ErringIn(s) == {a \in Asset : s \in Over(OnAsset("fileError", a))}
FailingIn(s) == {a \in Asset : s \in Over(OnAsset("fileFailed", a))}
FileAhead(s) == s \in Over(Frame("fileDone")) \/ ErringIn(s) # {} \/ FailingIn(s) # {}

(* Where the update stands, as the stack tells.                            *)
PlaceOf(s) ==
    IF s # <<>> /\ Head(s).fn \in WorkFn THEN Head(s).fn
    ELSE IF BatchAhead(s) THEN "batchDownload"
    ELSE IF FileAhead(s) THEN "file"
    ELSE IF Only(s, IdleFn) THEN "idle" ELSE "other"

Place == PlaceOf(stack)
Erring == ErringIn(stack)
Failing == FailingIn(stack)

(* Which functions are on the stack in each state.                         *)
AtWork(places) == Place \in places /\ Only(Tail(stack), IdleFn)
StackStands ==
    /\ state \in {"UNCHECKED", "MANIFEST_LOADED", "DOWNLOADING_VERSION"} =>
          Only(stack, {"listener", "parseFailed"})
    /\ state = "DOWNLOADING_VERSION" /\ remote.loaded => stack = <<>>
    /\ state = "FAIL_TO_UPDATE" => stack = <<>>
    /\ state = "DOWNLOADING_MANIFEST" =>
          stack = <<>> \/ stack \in Over(Frame("manifestFailed"))
    /\ state = "NEED_UPDATE" /\ ~ remote.loaded =>
          stack = <<>> \/ (entry = "DO_UPDATE" /\ stack \in Over(Frame("versionFound")))
    /\ state = "NEED_UPDATE" /\ remote.loaded =>
          Place = "idle" \/ AtWork({"prepareUpdate", "updateSucceed", "merge"})
    /\ state \in {"READY_TO_UPDATE", "UP_TO_DATE"} => Place = "idle"
    /\ state = "UPDATING" =>
          \/ Place \in {"idle", "batchDownload", "file"}
          \/ AtWork({"queueDownload", "finished", "updateSucceed", "merge"})
    /\ Place = "batchDownload" /\ failed # {} => stack = <<Frame("batchDownload")>>
    /\ Place = "queueDownload" /\ failed # {} => Tail(stack) = <<>>

(* The version file and the manifest are fetched for a call that waits.    *)
Fetches ==
    /\ VersionId \in transfers \/ ManifestId \in transfers => entry # "NONE"
    /\ VersionId \in transfers => state \in {"UNCHECKED", "DOWNLOADING_VERSION"}
    /\ ManifestId \in transfers => state = "DOWNLOADING_MANIFEST" /\ stack = <<>>

(* A manifest that was parsed lists what its version holds, unless it came *)
(* from a version file; and then the saved one is spoiled as well.         *)
Full == ~ {"emptied", "spoiled"} \subseteq incidents
ListsHeld(m) == m.version \in Version /\ (Full => Listed(m) = Holds(m.version))
ObjectStands(m) ==
    /\ m.loaded => ListsHeld(m)
    /\ m.flag # "absent" => (m.updating <=> m.flag = "true")
ViewStands(v) == v.version \in Version /\ (Full => v.listed = Holds(v.version))

Merging == Place = "merge"
Succeeding == Place = "updateSucceed"

(* An update is prepared, runs, or has failed and may be taken up again.   *)
Underway ==
    \/ state \in {"READY_TO_UPDATE", "UPDATING"}
    \/ /\ state \in {"FAIL_TO_UPDATE", "DOWNLOADING_VERSION", "DOWNLOADING_MANIFEST"}
       /\ remote.loaded

(* The manifests in memory and on the disk, and which of them is whose.    *)
ManifestsStand ==
    /\ ViewStands(local) /\ ViewStands(cached)
    /\ tempFile \in ManifestFile => ListsHeld(tempFile)
    /\ tempRenamed \in ManifestFile => ListsHeld(tempRenamed)
    /\ temp # Null => ObjectStands(temp)
    /\ remote # Null => ObjectStands(remote)
    /\ remote = Null => state = "UP_TO_DATE" /\ ~ alias /\ temp = Null
    /\ alias => temp = Null /\ (remote.updating \/ Succeeding \/ Merging)
    /\ state = "NEED_UPDATE" /\ (Succeeding \/ Merging) => alias
    /\ remote # Null /\ ~ alias =>
          \A a \in Asset : remote.states[a] \in {"absent", "unmarked"}
    /\ remote # Null /\ remote.version # 0 =>
          remote.version <= server /\ (state # "UP_TO_DATE" => local.version < remote.version)
    /\ state \in {"UNCHECKED", "MANIFEST_LOADED"} => ~ remote.loaded
    /\ Underway =>
          /\ remote.loaded /\ Temp # Null /\ Temp.loaded
          /\ Temp.version = remote.version /\ unitsVersion = remote.version
          /\ ~ Merging => Temp.updating

(* The counters and the places an asset can be in.                         *)
Quiet == queue = {} /\ Outstanding = {} /\ unzip = {} /\ curr = 0
Apart ==
    /\ queue \cap Outstanding = {} /\ queue \cap unzip = {} /\ queue \cap Erring = {}
    /\ Outstanding \cap unzip = {} /\ Outstanding \cap Erring = {} /\ unzip \cap Erring = {}
Pending == queue \cup Outstanding \cup unzip \cup Erring
Counting ==
    /\ state # "UPDATING" \/ Place \in {"batchDownload", "finished", "updateSucceed", "merge"}
          => Quiet
    /\ state = "READY_TO_UPDATE" \/ Place = "batchDownload" => wait = Cardinality(units)
    /\ curr <= MaxConcurrent
    /\ state = "UPDATING" /\ Place # "batchDownload" =>
          /\ Apart /\ Pending \subseteq units
          /\ wait = Cardinality(queue) + Cardinality(Outstanding) + Cardinality(unzip)
                      + Cardinality(Erring)
          /\ curr = Cardinality(Outstanding) + Cardinality(unzip)
                      + (IF Place = "file" THEN 1 ELSE 0)
          /\ Place = "idle" => curr > 0

(* What the temporary manifest still wants.                                *)
Wanted == GenResumeAssetsList(Temp)
Wanting ==
    /\ state = "READY_TO_UPDATE" => Wanted = units /\ failed = {}
    /\ Underway /\ state \notin {"READY_TO_UPDATE", "UPDATING"} => Wanted = failed
    /\ state = "UPDATING" =>
          /\ Wanted = IF Place = "batchDownload" THEN units ELSE Pending \cup failed
          /\ failed \subseteq units /\ failed \subseteq Wanted
          /\ Place \in {"finished", "updateSucceed", "merge"} => failed = {}
          /\ Failing \subseteq failed

(* How the saved manifest follows the one in memory.                       *)
SavedAs(f, m) ==
    /\ f.version = m.version
    /\ \A a \in Asset :
          /\ f.states[a] = "unmarked" <=> m.states[a] = "unmarked"
          /\ f.states[a] = "successed" => m.states[a] = "successed"
UpdateFound == state = "NEED_UPDATE" /\ remote.loaded
Saved ==
    /\ Underway /\ ~ Merging =>
          /\ tempFile \in ManifestFile => SavedAs(tempFile, Temp)
          /\ tempFile # NoFile
          /\ tempFile = Garbage => "spoiled" \in incidents
    /\ UpdateFound /\ ~ Merging =>
          /\ tempFile # NoFile
          /\ tempFile = Garbage => "spoiled" \in incidents
          /\ tempFile \in ManifestFile => tempFile.version = remote.version
    /\ Merging =>
          /\ tempFile = NoFile
          /\ tempRenamed = Garbage => "spoiled" \in incidents
          /\ tempRenamed \in ManifestFile => tempRenamed.version = remote.version
          /\ tempRenamed = NoFile =>
                \/ cached = ViewOf(remote)
                \/ "spoiled" \in incidents /\ (Full => cached = Package)
    /\ \/ cached = local
       \/ Merging /\ tempRenamed = NoFile
       \/ state = "UP_TO_DATE" /\ remote = Null /\ "spoiled" \in incidents

(* What is marked as downloaded is there.                                  *)
Marked(m) == \A a \in Asset :
    m.states[a] = "successed" => tempFiles[a] = Content[m.version][a]
Downloaded ==
    /\ ~ alias /\ temp = Null => tempFiles = NoFiles
    /\ state # "UP_TO_DATE" /\ ~ Merging /\ Temp # Null => Marked(Temp)
    /\ tempFile \in ManifestFile => Marked(tempFile)

(* What the storage holds.  Part of a version is found without downloading *)
(* it: what the manifest has not marked.  What the cached version holds is *)
(* there but for the files that are touched, and then it is not the newest.*)
Sound == incidents \subseteq {"spoiled"}
PartOf(m) == \A a \in Asset :
    /\ m.states[a] = "unmarked" => tempFiles[a] = 0 /\ Found(a) = Content[m.version][a]
    /\ m.states[a] = "absent" => tempFiles[a] = 0
Keeps(v) == \A a \in Holds(v) :
    a \notin touched => Found(a) = Content[v][a]
ToMerge(v) == \A a \in Asset :
    /\ tempFiles[a] # 0 => tempFiles[a] = Content[v][a]
    /\ tempFiles[a] = 0 /\ a \in Holds(v) => Found(a) = Content[v][a]
Stored ==
    Sound =>
      /\ ~ alias /\ ~ Merging /\ temp # Null /\ temp.loaded /\ temp.updating => PartOf(temp)
      /\ alias /\ ~ Merging /\ Underway => PartOf(remote)
      /\ tempFile \in ManifestFile /\ tempFile.updating = "true" => PartOf(tempFile)
      /\ Merging \/ Succeeding => ToMerge(remote.version)
      /\ ~ (/\ Merging /\ tempRenamed = NoFile /\ tempFiles # NoFiles
            /\ cached = ViewOf(remote)) => Keeps(cached.version)
      /\ touched # {} => cached.version < server
      /\ state = "UP_TO_DATE" => Complete(local.version)

IInv ==
    /\ TypeOK
    /\ StackStands
    /\ Fetches
    /\ ManifestsStand
    /\ Counting
    /\ Wanting
    /\ Saved
    /\ Downloaded
    /\ Stored
    /\ ManifestAlive
-----------------------------------------------------------------------------
(* Sequences of frames: what is put in front is the head.                  *)
LEMMA FrontFrame ==
    ASSUME NEW s \in Seq(FrameType), NEW f \in FrameType
    PROVE  /\ <<f>> \o s \in Seq(FrameType)
           /\ <<f>> \o s # <<>>
           /\ Head(<<f>> \o s) = f
           /\ Tail(<<f>> \o s) = s
           /\ Len(<<f>> \o s) = Len(s) + 1
<1> DEFINE t == <<f>> \o s
<1>1. t \in Seq(FrameType) /\ Len(t) = Len(s) + 1 /\ t[1] = f
  OBVIOUS
<1>2. t # <<>> /\ Head(t) = f
  BY <1>1
<1>3. Tail(t) = s
  <2>1. \A i \in 1..Len(s) : t[i + 1] = s[i]
    OBVIOUS
  <2>2. Len(Tail(t)) = Len(s) /\ Tail(t) \in Seq(FrameType)
    BY <1>1, <1>2
  <2>3. \A i \in 1..Len(s) : Tail(t)[i] = s[i]
    BY <1>1, <1>2, <2>1
  <2> HIDE DEF t
  <2> QED  BY <2>2, <2>3
<1> QED  BY <1>1, <1>2, <1>3

(* A sequence that is not empty is its head in front of its tail.          *)
LEMMA TailType ==
    ASSUME NEW s \in Seq(FrameType), s # <<>>
    PROVE  Tail(s) \in Seq(FrameType) /\ Head(s) \in FrameType /\ s = <<Head(s)>> \o Tail(s)
<1> DEFINE t == <<Head(s)>> \o Tail(s)
<1>1. Tail(s) \in Seq(FrameType) /\ Head(s) \in FrameType
  OBVIOUS
<1>2. t \in Seq(FrameType) /\ Len(t) = Len(s)
  BY <1>1
<1>3. \A i \in 1..Len(s) : t[i] = s[i]
  BY <1>1
<1> HIDE DEF t
<1>4. t = s
  BY <1>2, <1>3
<1> QED  BY <1>1, <1>4 DEF t

(* What is put in front of functions of a kind, or is their head, and is   *)
(* one of the kind.                                                        *)
LEMMA OnlyFront ==
    ASSUME NEW s \in Seq(FrameType), NEW f \in FrameType, NEW F,
           Only(s, F), f.fn \in F
    PROVE  Only(<<f>> \o s, F)
<1> DEFINE t == <<f>> \o s
<1>1. Len(t) = Len(s) + 1 /\ t[1] = f /\ t \in Seq(FrameType)
  OBVIOUS
<1>2. \A i \in 1..Len(s) : t[i + 1] = s[i]
  OBVIOUS
<1> HIDE DEF t
<1>3. ASSUME NEW i \in DOMAIN t PROVE t[i].fn \in F
  <2>1. CASE i = 1  BY <1>1, <2>1
  <2>2. CASE i # 1
    <3>1. i - 1 \in 1..Len(s) /\ (i - 1) + 1 = i
      BY <1>1, <2>2
    <3>2. t[i] = s[i - 1]
      BY <1>2, <3>1
    <3> QED  BY <3>1, <3>2 DEF Only
  <2> QED  BY <2>1, <2>2
<1> QED  BY <1>3 DEF Only, t

LEMMA OnlyTail ==
    ASSUME NEW s \in Seq(FrameType), NEW F, Only(s, F), s # <<>>
    PROVE  Only(Tail(s), F) /\ Head(s).fn \in F
<1>1. Len(Tail(s)) = Len(s) - 1 /\ \A i \in 1..(Len(s) - 1) : Tail(s)[i] = s[i + 1]
  OBVIOUS
<1>2. 1 \in DOMAIN s /\ Head(s) = s[1]
  OBVIOUS
<1>3. \A i \in DOMAIN Tail(s) : i + 1 \in DOMAIN s
  BY <1>1
<1> QED  BY <1>1, <1>2, <1>3 DEF Only

(* What is below a frame, and a second one, when there are no more.        *)
LEMMA FrontOfNone ==
    ASSUME NEW f \in FrameType
    PROVE  /\ <<f>> \o <<>> = <<f>>
           /\ Head(<<f>>) = f /\ Tail(<<f>>) = <<>> /\ <<f>> # <<>>
OBVIOUS

LEMMA FrontOfOne ==
    ASSUME NEW f \in FrameType, NEW g \in FrameType
    PROVE  /\ <<g>> \o <<f>> = <<g, f>>
           /\ Head(<<g, f>>) = g /\ Tail(<<g, f>>) = <<f>>
           /\ <<g, f>> # <<>> /\ <<f>> # <<g, f>>
<1> DEFINE t == <<g>> \o <<f>>
           u == <<g, f>>
<1>1. t \in Seq(FrameType) /\ u \in Seq(FrameType) /\ Len(t) = 2 /\ Len(u) = 2
  OBVIOUS
<1>2. t[1] = g /\ t[2] = f /\ u[1] = g /\ u[2] = f
  OBVIOUS
<1>3. t = u
  <2> HIDE DEF t, u
  <2> QED  BY <1>1, <1>2
<1>4. Head(t) = g /\ Tail(t) = <<f>>
  <2>1. <<f>> \in Seq(FrameType)
    OBVIOUS
  <2> QED  BY <2>1, FrontFrame
<1>5. Len(<<f>>) = 1
  OBVIOUS
<1> QED  BY <1>1, <1>3, <1>4, <1>5

(* Frames without an asset.                                                *)
LEMMA FrameTypes ==
    \A fn \in Function : Frame(fn) \in FrameType /\ Frame(fn).fn = fn
BY DEF Frame, OnAsset, FrameType
(* Frames of an asset.                                                     *)
LEMMA AssetFrames ==
    \A a \in Asset : \A fn \in Function :
        OnAsset(fn, a) \in FrameType /\ OnAsset(fn, a).fn = fn /\ OnAsset(fn, a).asset = a
BY DEF OnAsset, FrameType

(* What Over says of the head and of what is below it.                     *)
LEMMA OverParts ==
    ASSUME NEW f \in FrameType, NEW s, s \in Over(f)
    PROVE  /\ s \in Seq(FrameType) /\ s # <<>>
           /\ \/ Head(s) = f /\ Tail(s) = <<>>
              \/ Head(s) = Frame("listener") /\ Tail(s) = <<f>>
<1> Frame("listener") \in FrameType
  BY FrameTypes DEF Function
<1>1. CASE s = <<f>>
  BY <1>1, FrontOfNone
<1>2. CASE s = <<Frame("listener"), f>>
  <2>1. /\ Head(<<Frame("listener"), f>>) = Frame("listener")
        /\ Tail(<<Frame("listener"), f>>) = <<f>> /\ <<Frame("listener"), f>> # <<>>
    BY FrontOfOne
  <2>2. <<Frame("listener"), f>> \in Seq(FrameType)
    OBVIOUS
  <2> QED  BY <1>2, <2>1, <2>2
<1> QED  BY <1>1, <1>2 DEF Over

(* A frame that is not a listener's tells what is over it.                 *)
LEMMA OverSame ==
    ASSUME NEW f \in FrameType, NEW g \in FrameType, NEW s,
           s \in Over(f), s \in Over(g), f.fn # "listener", g.fn # "listener"
    PROVE  f = g
<1>1. Frame("listener").fn = "listener"
  BY FrameTypes DEF Function
<1>2. Head(<<f>>) = f /\ Head(<<g>>) = g
  OBVIOUS
<1> QED  BY <1>1, <1>2, OverParts

(* Where nothing but idle frames is on the stack, no batch and no file     *)
(* event is ahead.                                                         *)
LEMMA NotAhead ==
    ASSUME NEW s \in Seq(FrameType), Only(s, IdleFn)
    PROVE  ~ BatchAhead(s) /\ ErringIn(s) = {} /\ FailingIn(s) = {} /\ ~ FileAhead(s)
<1>1. s # <<>> => Head(s).fn \in IdleFn /\ Tail(s) \in Seq(FrameType) /\ Only(Tail(s), IdleFn)
  BY OnlyTail, TailType
<1>2. ASSUME s # <<>>, Tail(s) # <<>> PROVE Head(Tail(s)).fn \in IdleFn
  BY <1>1, <1>2, OnlyTail
<1>3. ~ BatchAhead(s)
  BY <1>1, <1>2 DEF BatchAhead, AtBatch, IdleFn
<1>4. ASSUME NEW f \in FrameType, s \in Over(f) PROVE f.fn \in IdleFn
  <2>1. Head(<<f>>) = f /\ <<f>> # <<>>
    OBVIOUS
  <2> QED  BY <1>1, <1>2, <1>4, <2>1, OverParts
<1>5. ErringIn(s) = {}
  BY <1>4, AssetFrames DEF ErringIn, IdleFn, Function
<1>6. FailingIn(s) = {}
  BY <1>4, AssetFrames DEF FailingIn, IdleFn, Function
<1>7. s \notin Over(Frame("fileDone"))
  BY <1>4, FrameTypes DEF IdleFn, Function
<1> QED  BY <1>3, <1>5, <1>6, <1>7 DEF FileAhead

(* What Place is for each kind of stack.                                   *)
LEMMA PlaceIdle ==
    ASSUME NEW s \in Seq(FrameType), Only(s, IdleFn)
    PROVE  PlaceOf(s) = "idle" /\ ErringIn(s) = {} /\ FailingIn(s) = {}
<1>1. s # <<>> => Head(s).fn \in IdleFn
  BY OnlyTail
<1> QED  BY <1>1, NotAhead DEF PlaceOf, IdleFn, WorkFn

LEMMA PlaceEmpty ==
    PlaceOf(<<>>) = "idle" /\ ErringIn(<<>>) = {} /\ FailingIn(<<>>) = {}
<1>1. <<>> \in Seq(FrameType) /\ Only(<<>>, IdleFn)
  BY DEF Only
<1> QED  BY <1>1, PlaceIdle

(* The head is no listener and nothing that a file event leaves.           *)
LEMMA PlaceHead ==
    ASSUME NEW s \in Seq(FrameType), s # <<>>,
           Head(s).fn \notin {"listener", "fileError", "fileFailed", "fileDone"}
    PROVE  ErringIn(s) = {} /\ FailingIn(s) = {} /\ ~ FileAhead(s)
<1>0. Frame("listener").fn = "listener"
  BY FrameTypes DEF Function
<1>1. ASSUME NEW f \in FrameType, s \in Over(f) PROVE f.fn = Head(s).fn
  BY <1>0, <1>1, OverParts
<1>2. ErringIn(s) = {}
  BY <1>1, AssetFrames DEF ErringIn, Function
<1>3. FailingIn(s) = {}
  BY <1>1, AssetFrames DEF FailingIn, Function
<1>4. s \notin Over(Frame("fileDone"))
  BY <1>1, FrameTypes DEF Function
<1> QED  BY <1>2, <1>3, <1>4 DEF FileAhead

LEMMA PlaceWork ==
    ASSUME NEW s \in Seq(FrameType), s # <<>>, Head(s).fn \in WorkFn
    PROVE  PlaceOf(s) = Head(s).fn /\ ErringIn(s) = {} /\ FailingIn(s) = {}
BY PlaceHead DEF PlaceOf, WorkFn

LEMMA PlaceBatch ==
    ASSUME NEW s \in Seq(FrameType), Only(s, IdleFn)
    PROVE  LET t == <<Frame("batchDownload")>> \o s
               u == <<Frame("listener")>> \o t
           IN  /\ PlaceOf(t) = "batchDownload" /\ ErringIn(t) = {} /\ FailingIn(t) = {}
               /\ PlaceOf(u) = "batchDownload" /\ ErringIn(u) = {} /\ FailingIn(u) = {}
<1> DEFINE f == Frame("batchDownload")
           l == Frame("listener")
           t == <<f>> \o s
           u == <<l>> \o t
<1>1. f \in FrameType /\ f.fn = "batchDownload" /\ l \in FrameType /\ l.fn = "listener"
  BY FrameTypes DEF Function
<1>2. t \in Seq(FrameType) /\ t # <<>> /\ Head(t) = f /\ Tail(t) = s
  BY <1>1, FrontFrame
<1> HIDE DEF t
<1>3. u \in Seq(FrameType) /\ u # <<>> /\ Head(u) = l /\ Tail(u) = t
  BY <1>1, <1>2, FrontFrame
<1> HIDE DEF u, f, l
<1>4. BatchAhead(t) /\ Head(t).fn \notin WorkFn
  BY <1>1, <1>2 DEF BatchAhead, AtBatch, WorkFn
<1>5. BatchAhead(u) /\ Head(u).fn \notin WorkFn
  BY <1>1, <1>2, <1>3 DEF BatchAhead, AtBatch, WorkFn, l
<1>6. ErringIn(t) = {} /\ FailingIn(t) = {}
  BY <1>1, <1>2, PlaceHead
<1>7. ASSUME NEW g \in FrameType, u \in Over(g) PROVE g.fn \in {"listener", "batchDownload"}
  <2>1. Head(<<g>>) = g
    OBVIOUS
  <2> QED  BY <1>1, <1>2, <1>3, <1>7, <2>1, OverParts
<1>8. ErringIn(u) = {}
  BY <1>7, AssetFrames DEF ErringIn, Function
<1>9. FailingIn(u) = {}
  BY <1>7, AssetFrames DEF FailingIn, Function
<1>10. PlaceOf(t) = "batchDownload" /\ PlaceOf(u) = "batchDownload"
  BY <1>2, <1>3, <1>4, <1>5 DEF PlaceOf
<1> QED  BY <1>6, <1>8, <1>9, <1>10 DEF t, u, f, l
(* A callback about a file, and what remains of it after its listener.     *)
LEMMA PlaceFileDone ==
    ASSUME NEW s, s \in Over(Frame("fileDone"))
    PROVE  PlaceOf(s) = "file" /\ ErringIn(s) = {} /\ FailingIn(s) = {}
<1> DEFINE f == Frame("fileDone")
<1>1. f \in FrameType /\ f.fn = "fileDone"
  BY FrameTypes DEF Function
<1>2. Frame("listener").fn = "listener"
  BY FrameTypes DEF Function
<1> HIDE DEF f
<1>3. /\ s # <<>> /\ Head(s).fn \notin WorkFn
      /\ ~ BatchAhead(s)
  <2>1. Head(<<f>>) = f
    OBVIOUS
  <2>2. s \in Over(f)
    BY DEF f
  <2> QED  BY <1>1, <1>2, <2>1, <2>2, OverParts DEF BatchAhead, AtBatch, WorkFn
<1>4. ErringIn(s) = {} /\ FailingIn(s) = {}
  <2>1. ASSUME NEW a \in Asset, NEW fn \in {"fileError", "fileFailed"}
        PROVE  s \notin Over(OnAsset(fn, a))
    BY <1>1, AssetFrames, OverSame DEF Function, f
  <2> QED  BY <2>1 DEF ErringIn, FailingIn
<1> QED  BY <1>3, <1>4 DEF PlaceOf, FileAhead

LEMMA PlaceFile ==
    ASSUME NEW a \in Asset, NEW fn \in {"fileError", "fileFailed"},
           NEW s, s \in Over(OnAsset(fn, a))
    PROVE  /\ PlaceOf(s) = "file"
           /\ ErringIn(s) = IF fn = "fileError" THEN {a} ELSE {}
           /\ FailingIn(s) = IF fn = "fileFailed" THEN {a} ELSE {}
<1> DEFINE f == OnAsset(fn, a)
<1>1. f \in FrameType /\ f.fn = fn /\ f.asset = a
  BY AssetFrames DEF Function
<1>2. Frame("listener").fn = "listener"
  BY FrameTypes DEF Function
<1>3. ASSUME NEW b \in Asset, NEW gn \in {"fileError", "fileFailed"}, s \in Over(OnAsset(gn, b))
      PROVE  gn = fn /\ b = a
  <2>1. OnAsset(gn, b) \in FrameType /\ OnAsset(gn, b).fn = gn /\ OnAsset(gn, b).asset = b
    BY AssetFrames DEF Function
  <2>2. f = OnAsset(gn, b)
    BY <1>1, <1>3, <2>1, OverSame
  <2> QED  BY <1>1, <2>1, <2>2
<1> HIDE DEF f
<1>4. /\ s # <<>> /\ Head(s).fn \notin WorkFn
      /\ ~ BatchAhead(s)
  <2>1. Head(<<f>>) = f
    OBVIOUS
  <2>2. s \in Over(f)
    BY DEF f
  <2> QED  BY <1>1, <1>2, <2>1, <2>2, OverParts DEF BatchAhead, AtBatch, WorkFn
<1>5. ErringIn(s) = IF fn = "fileError" THEN {a} ELSE {}
  BY <1>3 DEF ErringIn
<1>6. FailingIn(s) = IF fn = "fileFailed" THEN {a} ELSE {}
  BY <1>3 DEF FailingIn
<1> QED  BY <1>4, <1>5, <1>6 DEF PlaceOf, FileAhead

(* What the place tells of the stack.                                      *)
LEMMA PlaceTells ==
    ASSUME NEW s \in Seq(FrameType)
    PROVE  /\ \A fn \in WorkFn : PlaceOf(s) = fn <=> s # <<>> /\ Head(s).fn = fn
           /\ PlaceOf(s) = "batchDownload" => BatchAhead(s)
           /\ PlaceOf(s) = "file" => FileAhead(s)
           /\ PlaceOf(s) = "idle" => Only(s, IdleFn)
BY DEF PlaceOf, WorkFn

(* Erring and Failing are about one callback.                              *)
LEMMA NoFileAhead ==
    ASSUME NEW s \in Seq(FrameType), PlaceOf(s) # "file"
    PROVE  ErringIn(s) = {} /\ FailingIn(s) = {}
<1>1. CASE ErringIn(s) # {}
  BY <1>1, PlaceFile DEF ErringIn
<1>2. CASE FailingIn(s) # {}
  BY <1>2, PlaceFile DEF FailingIn
<1> QED  BY <1>1, <1>2

(* The running function is the place when it is executed at once.          *)
LEMMA HeadTells ==
    ASSUME TypeOK
    PROVE  /\ stack \in Seq(FrameType)
           /\ \A fn \in WorkFn : Runs(fn) <=> Place = fn
<1>1. stack \in Seq(FrameType)
  BY DEF TypeOK, FrameType
<1> QED  BY <1>1, PlaceTells DEF Runs, Place

(* What the running function tells of the place.                           *)
LEMMA RunsBatch ==
    ASSUME TypeOK, Runs("batchDownload")
    PROVE  Place \in {"batchDownload", "other"}
<1>1. stack \in Seq(FrameType)
  BY DEF TypeOK, FrameType
<1>2. ~ FileAhead(stack) /\ ~ Only(stack, IdleFn)
  BY <1>1, PlaceHead, OnlyTail DEF Runs, IdleFn
<1> QED  BY <1>2 DEF Place, PlaceOf, Runs, WorkFn
LEMMA PlaceQuiet ==
    ASSUME NEW s \in Seq(FrameType), Only(s, {"listener", "parseFailed"})
    PROVE  PlaceOf(s) \in {"idle", "other"}
<1>1. s # <<>> => /\ Head(s).fn \in {"listener", "parseFailed"} /\ Tail(s) \in Seq(FrameType)
                  /\ Only(Tail(s), {"listener", "parseFailed"})
  BY OnlyTail, TailType
<1>2. ASSUME s # <<>>, Tail(s) # <<>> PROVE Head(Tail(s)).fn \in {"listener", "parseFailed"}
  BY <1>1, <1>2, OnlyTail
<1>3. ~ BatchAhead(s)
  BY <1>1, <1>2 DEF BatchAhead, AtBatch
<1>4. ASSUME NEW f \in FrameType, s \in Over(f) PROVE f.fn \in {"listener", "parseFailed"}
  <2>1. Head(<<f>>) = f /\ <<f>> # <<>>
    OBVIOUS
  <2> QED  BY <1>1, <1>2, <1>4, <2>1, OverParts
<1>5. ErringIn(s) = {}
  BY <1>4, AssetFrames DEF ErringIn, Function
<1>6. FailingIn(s) = {}
  BY <1>4, AssetFrames DEF FailingIn, Function
<1>7. s \notin Over(Frame("fileDone"))
  BY <1>4, FrameTypes DEF Function
<1>8. ~ FileAhead(s)
  BY <1>5, <1>6, <1>7 DEF FileAhead
<1> QED  BY <1>1, <1>3, <1>8 DEF PlaceOf, WorkFn

(* A stack with one function of the fetches is at no place of an update.   *)
LEMMA PlaceOther ==
    ASSUME NEW fn \in {"manifestFailed", "versionFound"}, NEW s, s \in Over(Frame(fn))
    PROVE  s \in Seq(FrameType) /\ PlaceOf(s) = "other"
<1> DEFINE f == Frame(fn)
<1>1. f \in FrameType /\ f.fn = fn
  BY FrameTypes DEF Function
<1>2. Frame("listener").fn = "listener"
  BY FrameTypes DEF Function
<1> HIDE DEF f
<1>3. /\ s \in Seq(FrameType) /\ s # <<>>
      /\ \/ Head(s) = f /\ Tail(s) = <<>>
         \/ Head(s) = Frame("listener") /\ Tail(s) = <<f>>
  BY <1>1, OverParts DEF f
<1>4. Head(<<f>>) = f /\ <<f>> # <<>>
  OBVIOUS
<1>5. ~ BatchAhead(s) /\ Head(s).fn \notin WorkFn
  BY <1>1, <1>2, <1>3, <1>4 DEF BatchAhead, AtBatch, WorkFn
<1>6. ASSUME NEW g \in FrameType, s \in Over(g), g.fn # "listener" PROVE g.fn = fn
  BY <1>1, <1>6, OverSame DEF f
<1>7. ErringIn(s) = {}
  BY <1>6, AssetFrames DEF ErringIn, Function
<1>8. FailingIn(s) = {}
  BY <1>6, AssetFrames DEF FailingIn, Function
<1>9. s \notin Over(Frame("fileDone"))
  BY <1>6, FrameTypes DEF Function
<1>10. ~ FileAhead(s)
  BY <1>7, <1>8, <1>9 DEF FileAhead
<1>11. ~ Only(s, IdleFn)
  BY <1>1, <1>3, <1>4, OnlyTail, TailType DEF IdleFn
<1> QED  BY <1>3, <1>5, <1>10, <1>11 DEF PlaceOf

(* The stack after a step.                                                 *)
LEMMA StackSame ==
    ASSUME stack' = stack
    PROVE  Place' = Place /\ Erring' = Erring /\ Failing' = Failing
BY DEF Place, Erring, Failing

(* The place after a step that leaves idle frames, or nothing.             *)
LEMMA StackIdle ==
    ASSUME stack' \in Seq(FrameType), Only(stack', IdleFn)
    PROVE  Place' = "idle" /\ Erring' = {} /\ Failing' = {}
BY PlaceIdle DEF Place, Erring, Failing

LEMMA StackEmpty ==
    ASSUME stack' = <<>>
    PROVE  /\ Place' = "idle" /\ Erring' = {} /\ Failing' = {}
           /\ stack' \in Seq(FrameType)
           /\ \A F : Only(stack', F)
<1>1. <<>> \in Seq(FrameType)
  OBVIOUS
<1>2. \A F : Only(<<>>, F)
  BY DEF Only
<1> QED  BY <1>1, <1>2, PlaceEmpty DEF Place, Erring, Failing

(* The running function leaves nothing, or one frame that is run at once.  *)
LEMMA LeaveNone ==
    ASSUME stack \in Seq(FrameType), stack # <<>>, Leave(<<>>)
    PROVE  stack' = Tail(stack) /\ stack' \in Seq(FrameType)
<1>1. Tail(stack) \in Seq(FrameType)
  BY TailType
<1>2. \A s \in Seq(FrameType) : <<>> \o s = s
  OBVIOUS
<1> QED  BY <1>1, <1>2 DEF Leave

(* The running function leaves nothing over idle frames.                   *)
LEMMA LeaveIdle ==
    ASSUME stack \in Seq(FrameType), stack # <<>>, Only(Tail(stack), IdleFn), Leave(<<>>)
    PROVE  /\ stack' = Tail(stack) /\ stack' \in Seq(FrameType) /\ Only(stack', IdleFn)
           /\ Place' = "idle" /\ Erring' = {} /\ Failing' = {}
BY LeaveNone, StackIdle

(* The running function leaves one that is executed at once.               *)
LEMMA LeaveWork ==
    ASSUME stack \in Seq(FrameType), stack # <<>>, NEW fn \in WorkFn, Leave(<<Frame(fn)>>)
    PROVE  /\ stack' \in Seq(FrameType) /\ stack' # <<>>
           /\ Tail(stack') = Tail(stack)
           /\ Place' = fn /\ Erring' = {} /\ Failing' = {}
<1>1. Tail(stack) \in Seq(FrameType)
  BY TailType
<1>2. Frame(fn) \in FrameType /\ Frame(fn).fn = fn
  BY FrameTypes DEF WorkFn, Function
<1>3. /\ stack' \in Seq(FrameType) /\ stack' # <<>> /\ Tail(stack') = Tail(stack)
      /\ Head(stack') = Frame(fn)
  BY <1>1, <1>2, FrontFrame DEF Leave
<1> QED  BY <1>2, <1>3, PlaceWork DEF Place, Erring, Failing
-----------------------------------------------------------------------------
(* Steps that change neither manifests nor downloads nor files: the state, *)
(* the entry and the stack move together.                                  *)
Early == {"UNCHECKED", "MANIFEST_LOADED", "DOWNLOADING_VERSION", "FAIL_TO_UPDATE",
          "DOWNLOADING_MANIFEST", "NEED_UPDATE"}

Moves ==
    \/ /\ state' = state /\ Place' = Place /\ Erring' = Erring /\ Failing' = Failing
    \/ /\ state = "NEED_UPDATE" /\ state' = "NEED_UPDATE" /\ remote.loaded
       /\ Place = "idle" /\ Place' = "prepareUpdate"
    \/ /\ state = "READY_TO_UPDATE" /\ state' = "UPDATING"
       /\ Place = "idle" /\ Place' = "batchDownload" /\ Erring' = {} /\ Failing' = {}
    \/ /\ state \in Early /\ state' \in Early
       /\ Place \in {"idle", "other"} /\ Place' \in {"idle", "other"}
       /\ remote.loaded => /\ state \notin {"NEED_UPDATE", "UNCHECKED", "MANIFEST_LOADED"}
                           /\ state' \notin {"NEED_UPDATE", "UNCHECKED", "MANIFEST_LOADED"}
    \/ /\ state = "UPDATING" /\ state' = "UPDATING" /\ failed = {} /\ wait = 0
       /\ Place \in {"queueDownload", "finished"} /\ Place' = "updateSucceed"
       /\ Erring' = {} /\ Failing' = {}

Controls ==
    /\ UNCHANGED <<local, manifests, downloads, unzip, disk, server, history>>
    /\ TypeOK' /\ StackStands' /\ Fetches'
    /\ Outstanding' = Outstanding
    /\ Moves

(* What the manifests list is asked of fewer histories after a step.       *)
LEMMA StandsStay ==
    ASSUME incidents \subseteq incidents'
    PROVE  /\ \A m : ListsHeld(m) => ListsHeld(m)'
           /\ \A m : ObjectStands(m) => ObjectStands(m)'
           /\ \A v : ViewStands(v) => ViewStands(v)'
BY DEF Full, ListsHeld, ObjectStands, ViewStands, Listed, Holds

LEMMA SoundFull ==
    ASSUME Sound
    PROVE  /\ \A m : ListsHeld(m) => Listed(m) = Holds(m.version)
           /\ \A v : ViewStands(v) => v.listed = Holds(v.version)
BY DEF Sound, Full, ListsHeld, ViewStands

(* The assets are finitely many, so sets of them have a count.             *)
LEMMA AssetsFinite ==
    \A S \in SUBSET Asset : IsFiniteSet(S) /\ Cardinality(S) \in Nat
BY AssetsManagerAssumption, FS_Subset, FS_CardinalityType

(* An empty set is what a count of 0 says.                                 *)
LEMMA NoneLeft ==
    \A S \in SUBSET Asset : Cardinality(S) = 0 => S = {}
BY AssetsFinite, FS_EmptySet

(* An update that awaits nothing has nothing under way.                    *)
LEMMA NothingAwaited ==
    ASSUME IInv, state = "UPDATING", Place \in {"queueDownload", "finished"}, wait = 0
    PROVE  Quiet /\ Pending = {}
<1>1. Place = "finished" => Quiet
  BY DEF IInv, Counting
<1>2. /\ queue \subseteq Asset /\ Outstanding \subseteq Asset /\ unzip \subseteq Asset
      /\ Erring \subseteq Asset
  BY DEF IInv, TypeOK, Outstanding, Erring, ErringIn
<1>3. /\ Cardinality(queue) \in Nat /\ Cardinality(Outstanding) \in Nat
      /\ Cardinality(unzip) \in Nat /\ Cardinality(Erring) \in Nat
  BY <1>2, AssetsFinite
<1>4. /\ wait = Cardinality(queue) + Cardinality(Outstanding) + Cardinality(unzip)
                  + Cardinality(Erring)
      /\ curr = Cardinality(Outstanding) + Cardinality(unzip)
  BY <1>3 DEF IInv, Counting
<1>5. /\ Cardinality(queue) = 0 /\ Cardinality(Outstanding) = 0 /\ Cardinality(unzip) = 0
      /\ Cardinality(Erring) = 0
  BY <1>3, <1>4
<1>6. queue = {} /\ Outstanding = {} /\ unzip = {} /\ Erring = {}
  BY <1>2, <1>5, NoneLeft
<1> QED  BY <1>4, <1>5, <1>6 DEF Quiet, Pending

(* A step that changes only the stack, the state and the entry, and moves  *)
(* the place as Moves allows, keeps the invariant.                         *)
LEMMA ControlsKeep ==
    ASSUME IInv, Controls
    PROVE  IInv'
<1> USE DEF manifests, downloads, disk, history
<1>1. /\ Temp' = Temp /\ Wanted' = Wanted /\ Sound' = Sound
      /\ UNCHANGED <<local, remote, temp, alias, units, unitsVersion, failed, queue, wait, curr,
                     unzip, storage, cached, tempFiles, tempFile, tempRenamed, server,
                     incidents, touched, freed>>
  BY DEF Controls, Temp, Wanted, GenResumeAssetsList, Listed, Sound
<1>2. /\ Quiet' = Quiet
      /\ Outstanding' = Outstanding
      /\ Erring' = Erring => Apart' = Apart /\ Pending' = Pending
      /\ \A m : Marked(m)' = Marked(m)
      /\ \A m : PartOf(m)' = PartOf(m)
      /\ \A m : ListsHeld(m)' = ListsHeld(m) /\ ObjectStands(m)' = ObjectStands(m)
      /\ \A v : ViewStands(v)' = ViewStands(v)
      /\ Full' = Full
      /\ \A v : Keeps(v)' = Keeps(v) /\ ToMerge(v)' = ToMerge(v)
  BY <1>1 DEF Controls, Quiet, Apart, Pending, Marked, PartOf, Keeps, ToMerge, Found, Full,
              ListsHeld, ObjectStands, ViewStands, Listed, Holds
<1>3. Moves /\ TypeOK' /\ StackStands' /\ Fetches'
  BY DEF Controls
<1>4. IInv
  OBVIOUS
<1>5. ManifestsStand'
  BY <1>1, <1>2, <1>3, <1>4
     DEF IInv, Moves, ManifestsStand, Early, Underway, Merging, Succeeding
<1>6. Counting'
  <2>1. ASSUME state = "UPDATING", failed = {}, wait = 0,
               Place \in {"queueDownload", "finished"}
        PROVE  Quiet /\ Pending = {}
    BY <1>4, <2>1, NothingAwaited
  <2>2. Erring = {} \/ Place = "file"
    BY <1>4, HeadTells, NoFileAhead DEF IInv, Place, Erring
  <2> QED  BY <1>1, <1>2, <1>3, <1>4, <2>1, <2>2 DEF IInv, Moves, Counting, Early
<1>7. Wanting'
  <2>1. state = "UPDATING" /\ failed = {} /\ wait = 0 /\ Place \in {"queueDownload", "finished"}
           => Quiet /\ Pending = {}
    BY <1>4, NothingAwaited
  <2>2. ASSUME state = "READY_TO_UPDATE" PROVE Wanted = units /\ failed = {}
    BY <1>4, <2>2 DEF IInv, Wanting
  <2>3. Quiet /\ Erring' = {} => Pending' = {}
    BY <1>1, <1>3 DEF Quiet, Pending, Controls
  <2>4. ASSUME Underway', state' \notin {"READY_TO_UPDATE", "UPDATING"}
        PROVE  Wanted' = failed'
    BY <1>1, <1>3, <1>4, <2>4 DEF IInv, Wanting, Moves, Early, Underway
  <2>5. ASSUME state' = "READY_TO_UPDATE"
        PROVE  Wanted' = units' /\ failed' = {}
    BY <1>1, <1>3, <1>4, <2>5 DEF IInv, Wanting, Moves, Early
  <2>6. ASSUME state' = "UPDATING"
        PROVE  /\ Wanted' = IF Place' = "batchDownload" THEN units' ELSE Pending' \cup failed'
               /\ failed' \subseteq units' /\ failed' \subseteq Wanted'
               /\ Place' \in {"finished", "updateSucceed", "merge"} => failed' = {}
               /\ Failing' \subseteq failed'
    BY <1>1, <1>2, <1>3, <1>4, <2>1, <2>2, <2>3, <2>6 DEF IInv, Wanting, Moves, Early
  <2> QED  BY <2>4, <2>5, <2>6 DEF Wanting
<1>8. Saved'
  BY <1>1, <1>2, <1>3, <1>4
     DEF IInv, Moves, Saved, Early, Underway, Merging, UpdateFound, ViewOf, Listed
<1>9. Downloaded'
  BY <1>1, <1>2, <1>3, <1>4 DEF IInv, Moves, Downloaded, Early, Merging
<1>10. Stored'
  <2>1. ASSUME Place' = "updateSucceed", Place # "updateSucceed", Sound
        PROVE  ToMerge(remote.version)
    <3>1. Wanted = {} /\ state = "UPDATING" /\ ~ Merging
      BY <1>3, <1>4, <2>1, NothingAwaited DEF Moves, IInv, Wanting, Merging
    <3>2. /\ Temp # Null /\ ListsHeld(Temp) /\ Temp.version = remote.version /\ Marked(Temp)
          /\ Temp \in ManifestObject
      BY <3>1, <1>4 DEF IInv, ManifestsStand, Underway, Temp, ObjectStands, Downloaded, TypeOK
    <3>3. PartOf(Temp)
      BY <2>1, <3>1, <3>2, <1>4 DEF IInv, Stored, Underway, ManifestsStand, Temp
    <3>4. \A a \in Asset : Temp.states[a] \in {"absent", "unmarked", "successed"}
      BY <3>1, <3>2 DEF Wanted, GenResumeAssetsList, Listed, ManifestObject, DownloadState
    <3> QED  BY <2>1, <3>2, <3>3, <3>4, SoundFull DEF ToMerge, PartOf, Marked, Listed, Holds
  <2> QED  BY <1>1, <1>2, <1>3, <1>4, <2>1
           DEF IInv, Moves, Stored, Early, Underway, Merging, Succeeding, Complete, Found, Holds
<1>11. ManifestAlive'
  BY <1>1, <1>4 DEF IInv, ManifestAlive
<1> QED  BY <1>3, <1>5, <1>6, <1>7, <1>8, <1>9, <1>10, <1>11 DEF IInv
(* The listener, or the application at rest, calls.                        *)
LEMMA MayCallFacts ==
    ASSUME TypeOK, StackStands, MayCall
    PROVE  /\ Place \notin WorkFn
           /\ state = "NEED_UPDATE" /\ remote.loaded => Place = "idle"
           /\ Place = "idle" => Only(stack, IdleFn)
<1>1. stack \in Seq(FrameType)
  BY HeadTells
<1>2. Place \notin WorkFn
  BY <1>1, PlaceTells, PlaceEmpty DEF MayCall, Runs, Place, WorkFn
<1>3. Place = "idle" => Only(stack, IdleFn)
  BY <1>1, PlaceTells DEF Place
<1> QED  BY <1>2, <1>3 DEF StackStands, AtWork, WorkFn

(* A call that leaves nothing to run.                                      *)
LEMMA CallNothing ==
    ASSUME TypeOK, Call(<<>>)
    PROVE  stack' = stack
<1>1. \A s \in Seq(FrameType) : <<>> \o s = s
  OBVIOUS
<1> QED  BY <1>1, HeadTells DEF Call

(* A call that is only remembered.                                         *)
LEMMA RequestKeeps ==
    ASSUME IInv, entry = "NONE", entry' \in Entry \ {"NONE"}, stack' = stack,
           UNCHANGED <<state, transfers, local, manifests, downloads, unzip, disk, server, history>>
    PROVE  IInv'
<1> USE DEF manifests, downloads, disk, history
<1>1. TypeOK'
  BY DEF IInv, TypeOK
<1>2. Place' = Place /\ Erring' = Erring /\ Failing' = Failing
  BY StackSame
<1>3. StackStands'
  BY <1>2 DEF IInv, StackStands, AtWork
<1>4. Fetches' /\ Outstanding' = Outstanding
  BY DEF IInv, Fetches, Outstanding
<1> QED  BY <1>1, <1>2, <1>3, <1>4, ControlsKeep DEF Controls, Moves

(* An event while functions are on the stack: its listener may call.       *)
LEMMA NotifyOnly ==
    ASSUME NEW s \in Seq(FrameType), NEW F, Only(s, F), "listener" \in F
    PROVE  Notify(s) \in Seq(FrameType) /\ Only(Notify(s), F)
<1>1. Frame("listener") \in FrameType /\ Frame("listener").fn = "listener"
  BY FrameTypes DEF Function
<1>2. <<>> \in Seq(FrameType) /\ Only(<<>>, F)
  BY DEF Only
<1>3. <<Frame("listener")>> \o s \in Seq(FrameType) /\ Only(<<Frame("listener")>> \o s, F)
  BY <1>1, FrontFrame, OnlyFront
<1> QED  BY <1>2, <1>3 DEF Notify

(* An event with one function below it.                                    *)
LEMMA NotifyOne ==
    ASSUME NEW f \in FrameType
    PROVE  Notify(<<f>>) \in Over(f) /\ Notify(<<f>>) \in Seq(FrameType)
<1>1. Frame("listener") \in FrameType
  BY FrameTypes DEF Function
<1>2. Notify(<<f>>) = <<Frame("listener"), f>>
  <2>1. <<f>> # <<>>
    OBVIOUS
  <2> QED  BY <1>1, <2>1, FrontOfOne DEF Notify
<1>3. Notify(<<f>>) \in Over(f)
  BY <1>2 DEF Over
<1> QED  BY <1>3, OverParts

LEMMA CheckUpdateKeeps ==
    ASSUME IInv, CheckUpdate
    PROVE  IInv'
<1> USE DEF manifests, downloads, disk, history
<1>0. /\ TypeOK /\ StackStands /\ Fetches
      /\ stack \in Seq(FrameType)
      /\ UNCHANGED <<local, remote, temp, alias, units, unitsVersion, failed, queue, wait, curr,
                     unzip, storage, cached, tempFiles, tempFile, tempRenamed, server,
                     incidents, touched, freed>>
  BY HeadTells DEF IInv, CheckUpdate
<1>1. CASE state \in {"FAIL_TO_UPDATE", "UNCHECKED"}
  <2>1. /\ state' = "DOWNLOADING_VERSION" /\ transfers' = transfers \cup {VersionId}
        /\ entry' = "CHECK_UPDATE" /\ stack' = stack /\ entry = "NONE"
    BY <1>0, <1>1, CallNothing DEF CheckUpdate, DownloadVersion, Fetch
  <2>2. TypeOK'
    BY <1>0, <2>1 DEF TypeOK, State, Entry
  <2>3. Place' = Place /\ Erring' = Erring /\ Failing' = Failing
    BY <2>1, StackSame
  <2>4. Place \in {"idle", "other"}
    BY <1>0, <1>1, PlaceQuiet, PlaceEmpty DEF StackStands, Place
  <2>5. remote.loaded => stack = <<>>
    BY <1>0, <1>1 DEF StackStands, IInv, ManifestsStand
  <2>6. StackStands'
    <3>1. Only(stack, {"listener", "parseFailed"})
      BY <1>0, <1>1 DEF StackStands, Only
    <3> QED  BY <1>0, <1>1, <2>1, <2>3, <2>4, <2>5, <3>1 DEF StackStands
  <2>7. Fetches' /\ Outstanding' = Outstanding
    <3>1. VersionId # ManifestId
      BY DEF VersionId, ManifestId
    <3> QED  BY <1>0, <2>1, <3>1, IdAssumption DEF Fetches, Outstanding
  <2>8. Moves
    BY <1>1, <2>1, <2>3, <2>4 DEF Moves, Early, IInv, ManifestsStand
  <2> QED  BY <1>0, <2>2, <2>6, <2>7, <2>8, ControlsKeep DEF Controls
<1>2. CASE state \in {"UP_TO_DATE", "NEED_UPDATE"}
  <2>1. state' = state /\ entry' = entry /\ transfers' = transfers
        /\ stack' = Notify(stack) /\ entry = "NONE" /\ MayCall
    BY <1>2 DEF CheckUpdate
  <2>2. state = "NEED_UPDATE" /\ ~ remote.loaded => stack = <<>>
    BY <1>0, <2>1 DEF StackStands
  <2>3. Only(stack, IdleFn) /\ Place = "idle" /\ Erring = {} /\ Failing = {}
    <3>1. CASE stack = <<>>
      BY <3>1, PlaceEmpty DEF Only, Place, Erring, Failing
    <3>2. CASE stack # <<>>
      <4>1. Place = "idle" /\ Only(stack, IdleFn)
        BY <1>0, <1>2, <2>1, <2>2, <3>2, MayCallFacts DEF StackStands
      <4> QED  BY <1>0, <4>1, PlaceIdle DEF Erring, Failing
    <3> QED  BY <3>1, <3>2
  <2>4. stack' \in Seq(FrameType) /\ Only(stack', IdleFn)
    BY <1>0, <2>1, <2>3, NotifyOnly DEF IdleFn
  <2>5. Place' = "idle" /\ Erring' = {} /\ Failing' = {}
    BY <2>4, StackIdle
  <2>6. TypeOK'
    BY <1>0, <2>1, <2>4 DEF TypeOK, FrameType
  <2>7. state = "NEED_UPDATE" /\ ~ remote.loaded => stack' = <<>>
    BY <2>1, <2>2 DEF Notify
  <2>8. StackStands'
    BY <1>0, <1>2, <2>1, <2>5, <2>7 DEF StackStands
  <2>9. Fetches' /\ Outstanding' = Outstanding
    BY <1>0, <1>2, <2>1 DEF Fetches, Outstanding
  <2> QED  BY <1>0, <2>1, <2>3, <2>5, <2>6, <2>8, <2>9, ControlsKeep DEF Controls, Moves
<1>3. CASE state \notin {"FAIL_TO_UPDATE", "UNCHECKED", "UP_TO_DATE", "NEED_UPDATE"}
  <2>1. /\ entry = "NONE" /\ entry' = "CHECK_UPDATE" /\ stack' = stack
        /\ UNCHANGED <<state, transfers>>
    BY <1>0, <1>3, CallNothing DEF CheckUpdate
  <2> QED  BY <1>0, <2>1, RequestKeeps DEF Entry
<1> QED  BY <1>1, <1>2, <1>3

LEMMA UpdateFetchesKeeps ==
    ASSUME IInv, UpdateFetches
    PROVE  IInv'
<1> USE DEF manifests, downloads, disk, history
<1>0. /\ TypeOK /\ StackStands /\ Fetches
      /\ stack \in Seq(FrameType) /\ stack' = stack
      /\ entry = "NONE" /\ entry' = "DO_UPDATE"
      /\ UNCHANGED <<local, remote, temp, alias, units, unitsVersion, failed, queue, wait, curr,
                     unzip, storage, cached, tempFiles, tempFile, tempRenamed, server,
                     incidents, touched, freed>>
  BY HeadTells, CallNothing DEF IInv, UpdateFetches
<1>1. Place' = Place /\ Erring' = Erring /\ Failing' = Failing
  BY <1>0, StackSame
<1>2. VersionId # ManifestId
  BY DEF VersionId, ManifestId
<1>3. \/ /\ state = "UNCHECKED" /\ state' = "DOWNLOADING_VERSION"
         /\ transfers' = transfers \cup {VersionId}
      \/ /\ state \in {"FAIL_TO_UPDATE", "NEED_UPDATE"} /\ ~ remote.loaded
         /\ state' = "DOWNLOADING_MANIFEST" /\ transfers' = transfers \cup {ManifestId}
         /\ stack = <<>>
  BY <1>0 DEF UpdateFetches, DownloadVersion, DownloadManifest, Fetch, StackStands
<1>4. state = "UNCHECKED" => ~ remote.loaded
  BY DEF IInv, ManifestsStand
<1>5. TypeOK'
  BY <1>0, <1>3 DEF TypeOK, State, Entry
<1>6. Place \in {"idle", "other"}
  BY <1>0, <1>3, PlaceQuiet, PlaceEmpty DEF StackStands, Place
<1>7. StackStands'
  BY <1>0, <1>1, <1>3, <1>4, <1>6 DEF StackStands
<1>8. Fetches' /\ Outstanding' = Outstanding
  BY <1>0, <1>2, <1>3, IdAssumption DEF Fetches, Outstanding
<1>9. Moves
  BY <1>1, <1>3, <1>4, <1>6, <1>0 DEF Moves, Early
<1> QED  BY <1>0, <1>5, <1>7, <1>8, <1>9, ControlsKeep DEF Controls
(* Two frames in front of a stack.                                         *)
LEMMA FrontTwo ==
    ASSUME NEW s \in Seq(FrameType), NEW f \in FrameType, NEW g \in FrameType
    PROVE  <<f, g>> \o s = <<f>> \o (<<g>> \o s)
<1> DEFINE t == <<f, g>> \o s
           u == <<f>> \o (<<g>> \o s)
<1>1. t \in Seq(FrameType) /\ Len(t) = Len(s) + 2 /\ t[1] = f /\ t[2] = g
  OBVIOUS
<1>2. \A i \in 1..Len(s) : t[i + 2] = s[i]
  OBVIOUS
<1>3. u \in Seq(FrameType) /\ Len(u) = Len(s) + 2 /\ u[1] = f /\ u[2] = g
  OBVIOUS
<1>4. \A i \in 1..Len(s) : u[i + 2] = s[i]
  OBVIOUS
<1> HIDE DEF t, u
<1>5. ASSUME NEW i \in 1..(Len(s) + 2) PROVE t[i] = u[i]
  <2>1. CASE i \in {1, 2}
    BY <1>1, <1>3, <2>1
  <2>2. CASE i \notin {1, 2}
    <3>1. i - 2 \in 1..Len(s) /\ (i - 2) + 2 = i
      BY <2>2
    <3> QED  BY <1>2, <1>4, <3>1
  <2> QED  BY <2>1, <2>2
<1>6. t = u
  BY <1>1, <1>3, <1>5
<1> QED  BY <1>6 DEF t, u

(* prepareUpdate() is called, over functions that wait.                    *)
LEMMA PrepareKeeps ==
    ASSUME IInv, state = "NEED_UPDATE", remote.loaded, Place = "idle",
           NEW s \in Seq(FrameType), Only(s, IdleFn), stack' = <<Frame("prepareUpdate")>> \o s,
           entry' \in Entry,
           UNCHANGED <<state, transfers, local, manifests, downloads, unzip, disk, server, history>>
    PROVE  IInv'
<1> USE DEF manifests, downloads, disk, history
<1>1. Frame("prepareUpdate") \in FrameType /\ Frame("prepareUpdate").fn = "prepareUpdate"
  BY FrameTypes DEF Function
<1>2. /\ stack' \in Seq(FrameType) /\ stack' # <<>> /\ Tail(stack') = s
      /\ Head(stack') = Frame("prepareUpdate")
  BY <1>1, FrontFrame
<1>3. Place' = "prepareUpdate" /\ Erring' = {} /\ Failing' = {}
  BY <1>1, <1>2, PlaceWork DEF Place, Erring, Failing, WorkFn
<1>4. TypeOK'
  BY <1>2 DEF IInv, TypeOK, FrameType
<1>5. StackStands'
  BY <1>2, <1>3 DEF IInv, StackStands, AtWork
<1>6. Fetches' /\ Outstanding' = Outstanding
  BY DEF IInv, Fetches, Outstanding
<1> QED  BY <1>3, <1>4, <1>5, <1>6, ControlsKeep DEF Controls, Moves

LEMMA UpdateStartsKeeps ==
    ASSUME IInv, UpdateStarts
    PROVE  IInv'
<1> USE DEF manifests, downloads, disk, history
<1>0. /\ TypeOK /\ StackStands
      /\ stack \in Seq(FrameType)
      /\ entry = "NONE" /\ entry' = "DO_UPDATE"
      /\ state \in {"FAIL_TO_UPDATE", "NEED_UPDATE"} /\ remote.loaded
      /\ MayCall /\ stack' = StartUpdate \o stack
      /\ UNCHANGED <<state, transfers, local, manifests, downloads, unzip, disk, server, history>>
  BY HeadTells DEF IInv, UpdateStarts, Call
<1>1. CASE state = "FAIL_TO_UPDATE"
  <2>1. StartUpdate = <<>>
    BY <1>1 DEF StartUpdate
  <2>2. stack' = stack
    <3>1. <<>> \o stack = stack
      BY <1>0
    <3> QED  BY <1>0, <2>1, <3>1
  <2> QED  BY <1>0, <2>2, RequestKeeps DEF Entry
<1>2. CASE state = "NEED_UPDATE"
  <2>1. Place = "idle" /\ Only(stack, IdleFn)
    BY <1>0, <1>2, MayCallFacts
  <2>2. StartUpdate = <<Frame("prepareUpdate"), Frame("readyToUpdate")>>
    BY <1>2 DEF StartUpdate
  <2>3. /\ Frame("prepareUpdate") \in FrameType /\ Frame("readyToUpdate") \in FrameType
        /\ Frame("readyToUpdate").fn \in IdleFn
    BY FrameTypes DEF Function, IdleFn
  <2>4. PICK s : s = <<Frame("readyToUpdate")>> \o stack
    OBVIOUS
  <2>5. s \in Seq(FrameType) /\ Only(s, IdleFn)
    BY <1>0, <2>1, <2>3, <2>4, FrontFrame, OnlyFront
  <2>6. stack' = <<Frame("prepareUpdate")>> \o s
    BY <1>0, <2>2, <2>3, <2>4, FrontTwo
  <2> QED  BY <1>0, <1>2, <2>1, <2>5, <2>6, PrepareKeeps DEF Entry
<1> QED  BY <1>0, <1>1, <1>2

LEMMA CallPrepareUpdateKeeps ==
    ASSUME IInv, CallPrepareUpdate
    PROVE  IInv'
<1>1. Place = "idle" /\ Only(stack, IdleFn)
  BY MayCallFacts DEF IInv, CallPrepareUpdate, Call
<1>2. entry' \in Entry /\ stack \in Seq(FrameType)
  BY HeadTells DEF IInv, TypeOK, CallPrepareUpdate
<1> QED  BY <1>1, <1>2, PrepareKeeps DEF CallPrepareUpdate, Call

LEMMA UpdateRequestedKeeps ==
    ASSUME IInv, UpdateRequested
    PROVE  IInv'
<1>1. stack' = stack
  BY CallNothing DEF IInv, UpdateRequested
<1> QED  BY <1>1, RequestKeeps DEF UpdateRequested, Entry

(* The functions that wait below others stand on what the state says.      *)
LEMMA RunsIdle ==
    ASSUME TypeOK, StackStands, NEW fn \in {"manifestFound", "readyToUpdate"}, Runs(fn)
    PROVE  /\ state \in {"NEED_UPDATE", "READY_TO_UPDATE", "UP_TO_DATE", "UPDATING"}
           /\ state = "NEED_UPDATE" => remote.loaded
           /\ Place = "idle" /\ Only(stack, IdleFn) /\ Erring = {} /\ Failing = {}
           /\ stack \in Seq(FrameType) /\ stack # <<>>
           /\ Tail(stack) \in Seq(FrameType) /\ Only(Tail(stack), IdleFn)
<1>1. /\ stack \in Seq(FrameType) /\ stack # <<>> /\ Head(stack).fn = fn
      /\ Tail(stack) \in Seq(FrameType)
  BY HeadTells, TailType DEF Runs
<1>2. Place \notin WorkFn
  BY <1>1, PlaceTells DEF Place, WorkFn
<1>3. Place # "batchDownload"
  <2>1. Frame("listener").fn = "listener"
    BY FrameTypes DEF Function
  <2> QED  BY <1>1, <2>1, PlaceTells DEF Place, BatchAhead, AtBatch
<1>4. Place # "file"
  BY <1>1, PlaceHead, PlaceTells DEF Place
<1>5. \A g \in {"manifestFailed", "versionFound"} : stack \notin Over(Frame(g))
  <2>1. Frame("listener").fn = "listener"
    BY FrameTypes DEF Function
  <2> QED  BY <1>1, <2>1, OverParts, FrameTypes DEF Function
<1>6. ~ Only(stack, {"listener", "parseFailed"})
  BY <1>1, OnlyTail
<1>7. /\ state \in {"NEED_UPDATE", "READY_TO_UPDATE", "UP_TO_DATE", "UPDATING"}
      /\ state = "NEED_UPDATE" => remote.loaded
  BY <1>1, <1>5, <1>6 DEF StackStands, TypeOK, State
<1>8. Place = "idle"
  BY <1>2, <1>3, <1>4, <1>7 DEF StackStands, AtWork, WorkFn
<1>9. Only(stack, IdleFn)
  BY <1>1, <1>8, PlaceTells DEF Place
<1> QED  BY <1>1, <1>7, <1>8, <1>9, PlaceIdle, OnlyTail DEF Erring, Failing
LEMMA ManifestFoundKeeps ==
    ASSUME IInv, ManifestFound
    PROVE  IInv'
<1> USE DEF manifests, downloads, disk, history
<1>0. /\ TypeOK /\ StackStands /\ Fetches /\ entry \in Entry
      /\ stack' = (IF entry = "DO_UPDATE" THEN StartUpdate ELSE <<>>) \o Tail(stack)
      /\ UNCHANGED <<state, entry, transfers, local, manifests, downloads, unzip, disk, server,
                     history>>
  BY DEF IInv, TypeOK, ManifestFound, Leave
<1>1. /\ state \in {"NEED_UPDATE", "READY_TO_UPDATE", "UP_TO_DATE", "UPDATING"}
      /\ state = "NEED_UPDATE" => remote.loaded
      /\ Place = "idle" /\ Erring = {} /\ Failing = {}
      /\ Tail(stack) \in Seq(FrameType) /\ Only(Tail(stack), IdleFn)
  BY <1>0, RunsIdle DEF ManifestFound
<1>2. /\ Frame("prepareUpdate") \in FrameType /\ Frame("readyToUpdate") \in FrameType
      /\ Frame("readyToUpdate").fn \in IdleFn
  BY FrameTypes DEF Function, IdleFn
<1>3. PICK s : s = <<Frame("readyToUpdate")>> \o Tail(stack)
  OBVIOUS
<1>4. s \in Seq(FrameType) /\ Only(s, IdleFn)
  BY <1>1, <1>2, <1>3, FrontFrame, OnlyFront
<1>5. CASE entry = "DO_UPDATE" /\ state = "NEED_UPDATE"
  <2>1. StartUpdate = <<Frame("prepareUpdate"), Frame("readyToUpdate")>>
    BY <1>5 DEF StartUpdate
  <2>2. stack' = <<Frame("prepareUpdate")>> \o s
    BY <1>0, <1>1, <1>2, <1>3, <1>5, <2>1, FrontTwo
  <2> QED  BY <1>0, <1>1, <1>4, <1>5, <2>2, PrepareKeeps
<1>6. CASE ~ (entry = "DO_UPDATE" /\ state = "NEED_UPDATE")
  <2>1. stack' = s \/ stack' = Tail(stack)
    <3>1. <<>> \o Tail(stack) = Tail(stack)
      BY <1>1
    <3> QED  BY <1>0, <1>3, <1>6, <3>1 DEF StartUpdate
  <2>2. stack' \in Seq(FrameType) /\ Only(stack', IdleFn)
    BY <1>1, <1>4, <2>1
  <2>3. Place' = "idle" /\ Erring' = {} /\ Failing' = {}
    BY <2>2, StackIdle
  <2>4. TypeOK'
    BY <1>0, <2>2 DEF TypeOK, FrameType
  <2>5. StackStands'
    BY <1>0, <1>1, <2>3 DEF StackStands
  <2>6. Fetches' /\ Outstanding' = Outstanding
    BY <1>0, <1>1 DEF Fetches, Outstanding
  <2> QED  BY <1>0, <1>1, <2>3, <2>4, <2>5, <2>6, ControlsKeep DEF Controls, Moves
<1> QED  BY <1>5, <1>6

LEMMA ReadyToUpdateKeeps ==
    ASSUME IInv, ReadyToUpdate
    PROVE  IInv'
<1> USE DEF manifests, downloads, disk, history
<1>0. /\ TypeOK /\ StackStands /\ Fetches
      /\ UNCHANGED <<entry, transfers, local, manifests, downloads, unzip, disk, server, history>>
  BY DEF IInv, ReadyToUpdate
<1>1. /\ state \in {"NEED_UPDATE", "READY_TO_UPDATE", "UP_TO_DATE", "UPDATING"}
      /\ state = "NEED_UPDATE" => remote.loaded
      /\ Place = "idle" /\ Erring = {} /\ Failing = {}
      /\ stack \in Seq(FrameType) /\ stack # <<>>
      /\ Tail(stack) \in Seq(FrameType) /\ Only(Tail(stack), IdleFn)
  BY <1>0, RunsIdle DEF ReadyToUpdate
<1>2. CASE state = "READY_TO_UPDATE"
  <2> DEFINE f == Frame("batchDownload")
             l == Frame("listener")
             s == Tail(stack)
  <2>1. f \in FrameType /\ l \in FrameType
    BY FrameTypes DEF Function
  <2>2. <<f>> # <<>>
    OBVIOUS
  <2>3. stack' = (<<l>> \o <<f>>) \o s /\ state' = "UPDATING"
    BY <1>2, <2>2 DEF ReadyToUpdate, Leave, Notify
  <2>4. stack' = <<l>> \o (<<f>> \o s)
    <3> HIDE DEF f, l, s
    <3>1. s \in Seq(FrameType)
      BY <1>1 DEF s
    <3>2. <<l>> \o <<f>> = <<l, f>>
      BY <2>1, FrontOfOne
    <3> QED  BY <2>1, <2>3, <3>1, <3>2, FrontTwo
  <2>5. stack' \in Seq(FrameType)
    <3> HIDE DEF f, l, s
    <3>1. <<f>> \o s \in Seq(FrameType)
      BY <1>1, <2>1, FrontFrame DEF s
    <3> QED  BY <2>1, <2>4, <3>1, FrontFrame
  <2>6. Place' = "batchDownload" /\ Erring' = {} /\ Failing' = {}
    BY <1>1, <2>4, PlaceBatch DEF Place, Erring, Failing
  <2>7. failed = {}
    BY <1>2 DEF IInv, Wanting
  <2>8. TypeOK'
    BY <1>0, <2>3, <2>5 DEF TypeOK, State, FrameType
  <2>9. StackStands'
    BY <1>0, <2>3, <2>6, <2>7 DEF StackStands
  <2>10. Fetches' /\ Outstanding' = Outstanding
    BY <1>0, <1>2 DEF Fetches, Outstanding
  <2> QED  BY <1>0, <1>1, <1>2, <2>3, <2>6, <2>8, <2>9, <2>10, ControlsKeep DEF Controls, Moves
<1>3. CASE state # "READY_TO_UPDATE"
  <2>1. state' = state /\ Leave(<<>>)
    BY <1>3 DEF ReadyToUpdate
  <2>2. stack' \in Seq(FrameType) /\ Place' = "idle" /\ Erring' = {} /\ Failing' = {}
    BY <1>1, <2>1, LeaveIdle
  <2>3. TypeOK'
    BY <1>0, <2>1, <2>2 DEF TypeOK, FrameType
  <2>4. StackStands'
    BY <1>0, <1>1, <2>1, <2>2 DEF StackStands
  <2>5. Fetches' /\ Outstanding' = Outstanding
    BY <1>0, <1>1, <2>1 DEF Fetches, Outstanding
  <2> QED  BY <1>0, <1>1, <2>1, <2>2, <2>3, <2>4, <2>5, ControlsKeep DEF Controls, Moves
<1> QED  BY <1>2, <1>3

(* The functions that the callbacks of the two manifests leave.            *)
LEMMA RunsOdd ==
    ASSUME stack \in Seq(FrameType),
           NEW fn \in {"versionFound", "manifestFailed", "parseFailed"}, Runs(fn)
    PROVE  /\ Place = "other" /\ ~ Only(stack, IdleFn)
           /\ stack # <<>> /\ Tail(stack) \in Seq(FrameType)
           /\ \A gn \in Function :
                 stack \in Over(Frame(gn)) => gn = fn /\ Tail(stack) = <<>>
<1>1. stack # <<>> /\ Head(stack).fn = fn /\ Tail(stack) \in Seq(FrameType)
  BY TailType DEF Runs
<1>2. Frame("listener").fn = "listener"
  BY FrameTypes DEF Function
<1>3. ~ BatchAhead(stack)
  BY <1>1, <1>2 DEF BatchAhead, AtBatch
<1>4. ~ FileAhead(stack) /\ Place \notin WorkFn
  BY <1>1, PlaceHead, PlaceTells DEF Place, WorkFn
<1>5. ~ Only(stack, IdleFn)
  BY <1>1, OnlyTail DEF IdleFn
<1>6. Place = "other"
  BY <1>3, <1>4, <1>5 DEF Place, PlaceOf
<1>7. ASSUME NEW gn \in Function, stack \in Over(Frame(gn)) PROVE gn = fn /\ Tail(stack) = <<>>
  BY <1>1, <1>2, <1>7, OverParts, FrameTypes
<1> QED  BY <1>1, <1>5, <1>6, <1>7

LEMMA VersionFoundKeeps ==
    ASSUME IInv, VersionFound
    PROVE  IInv'
<1> USE DEF manifests, downloads, disk, history
<1>0. /\ TypeOK /\ StackStands /\ Fetches /\ stack \in Seq(FrameType)
      /\ Runs("versionFound") /\ Leave(<<>>)
      /\ state' = "DOWNLOADING_MANIFEST" /\ transfers' = transfers \cup {ManifestId}
      /\ UNCHANGED <<entry, local, manifests, downloads, unzip, disk, server, history>>
  BY HeadTells DEF IInv, VersionFound, DownloadManifest, Fetch
<1>1. /\ Place = "other" /\ ~ Only(stack, IdleFn)
      /\ stack # <<>> /\ Tail(stack) \in Seq(FrameType)
      /\ \A gn \in Function :
            stack \in Over(Frame(gn)) => gn = "versionFound" /\ Tail(stack) = <<>>
  BY <1>0, RunsOdd
<1>2. ~ Only(stack, {"listener", "parseFailed"})
  BY <1>0, OnlyTail DEF Runs
<1>3. /\ state = "NEED_UPDATE" /\ ~ remote.loaded /\ entry = "DO_UPDATE"
      /\ Tail(stack) = <<>>
  BY <1>0, <1>1, <1>2 DEF StackStands, TypeOK, State, AtWork, Function
<1>4. stack' = <<>> /\ Place' = "idle" /\ Erring' = {} /\ Failing' = {} /\ stack' \in Seq(FrameType)
  BY <1>0, <1>1, <1>3, LeaveNone, StackEmpty
<1>5. TypeOK'
  BY <1>0, <1>4 DEF TypeOK, State, FrameType
<1>6. StackStands'
  BY <1>0, <1>4 DEF StackStands
<1>7. Fetches' /\ Outstanding' = Outstanding
  <2>1. VersionId # ManifestId
    BY DEF VersionId, ManifestId
  <2> QED  BY <1>0, <1>3, <1>4, <2>1, IdAssumption DEF Fetches, Outstanding
<1> QED  BY <1>0, <1>1, <1>3, <1>4, <1>5, <1>6, <1>7, ControlsKeep DEF Controls, Moves, Early

LEMMA ManifestFailedKeeps ==
    ASSUME IInv, ManifestFailed
    PROVE  IInv'
<1> USE DEF manifests, downloads, disk, history
<1>0. /\ TypeOK /\ StackStands /\ Fetches /\ stack \in Seq(FrameType)
      /\ Leave(<<>>)
      /\ UNCHANGED <<entry, transfers, local, manifests, downloads, unzip, disk, server, history>>
  BY HeadTells DEF IInv, ManifestFailed
<1>1. CASE Runs("manifestFailed") /\ state' = "FAIL_TO_UPDATE"
  <2>1. /\ Place = "other" /\ ~ Only(stack, IdleFn)
        /\ stack # <<>> /\ Tail(stack) \in Seq(FrameType)
        /\ \A gn \in Function :
              stack \in Over(Frame(gn)) => gn = "manifestFailed" /\ Tail(stack) = <<>>
    BY <1>0, <1>1, RunsOdd
  <2>2. ~ Only(stack, {"listener", "parseFailed"})
    BY <1>0, <1>1, OnlyTail DEF Runs
  <2>3. state = "DOWNLOADING_MANIFEST" /\ Tail(stack) = <<>>
    BY <1>0, <2>1, <2>2 DEF StackStands, TypeOK, State, AtWork, Function
  <2>4. /\ stack' = <<>> /\ stack' \in Seq(FrameType)
        /\ Place' = "idle" /\ Erring' = {} /\ Failing' = {}
    BY <1>0, <2>1, <2>3, LeaveNone, StackEmpty
  <2>5. TypeOK'
    BY <1>0, <1>1, <2>4 DEF TypeOK, State, FrameType
  <2>6. StackStands'
    BY <1>0, <1>1, <2>4 DEF StackStands
  <2>7. Fetches' /\ Outstanding' = Outstanding
    BY <1>0, <2>1, <2>3 DEF Fetches, Outstanding
  <2> QED  BY <1>0, <1>1, <2>1, <2>3, <2>4, <2>5, <2>6, <2>7, ControlsKeep
           DEF Controls, Moves, Early
<1>2. CASE Runs("parseFailed") /\ state' = "UNCHECKED"
  <2>1. /\ Place = "other" /\ ~ Only(stack, IdleFn)
        /\ stack # <<>> /\ Tail(stack) \in Seq(FrameType)
        /\ \A gn \in Function :
              stack \in Over(Frame(gn)) => gn = "parseFailed" /\ Tail(stack) = <<>>
    BY <1>0, <1>2, RunsOdd
  <2>2. /\ state \in {"UNCHECKED", "MANIFEST_LOADED", "DOWNLOADING_VERSION"} /\ ~ remote.loaded
        /\ Only(stack, {"listener", "parseFailed"})
    BY <1>0, <2>1 DEF StackStands, TypeOK, State, AtWork, Function, IInv, ManifestsStand
  <2>3. /\ stack' = Tail(stack) /\ stack' \in Seq(FrameType)
        /\ Only(stack', {"listener", "parseFailed"})
    BY <1>0, <2>1, <2>2, LeaveNone, OnlyTail
  <2>4. Place' \in {"idle", "other"}
    BY <2>3, PlaceQuiet DEF Place
  <2>5. TypeOK'
    BY <1>0, <1>2, <2>3 DEF TypeOK, State, FrameType
  <2>6. StackStands'
    BY <1>0, <1>2, <2>2, <2>3, <2>4 DEF StackStands
  <2>7. Fetches' /\ Outstanding' = Outstanding
    BY <1>0, <1>2, <2>2 DEF Fetches, Outstanding
  <2> QED  BY <1>0, <1>2, <2>1, <2>2, <2>4, <2>5, <2>6, <2>7, ControlsKeep
           DEF Controls, Moves, Early
<1> QED  BY <1>1, <1>2 DEF ManifestFailed
(* The state in which an update stands where it does.                      *)
LEMMA PlaceState ==
    ASSUME TypeOK, StackStands
    PROVE  /\ Place \in {"batchDownload", "file", "queueDownload", "finished"}
                 => state = "UPDATING"
           /\ Place \in {"updateSucceed", "merge"}
                 => state = "UPDATING" \/ (state = "NEED_UPDATE" /\ remote.loaded)
           /\ Place = "prepareUpdate" => state = "NEED_UPDATE" /\ remote.loaded
           /\ Place \in WorkFn => Only(Tail(stack), IdleFn) /\ stack # <<>>
<1>1. stack \in Seq(FrameType)
  BY HeadTells
<1>2. Place \notin {"idle", "other"} =>
         /\ ~ Only(stack, {"listener", "parseFailed"}) /\ stack # <<>>
         /\ \A g \in {"manifestFailed", "versionFound"} : stack \notin Over(Frame(g))
  BY <1>1, PlaceQuiet, PlaceOther, PlaceEmpty DEF Place
<1> QED  BY <1>2 DEF StackStands, TypeOK, State, AtWork, WorkFn

(* What runs when nothing is awaited any more.                             *)
LEMMA UnitsFinishedFacts ==
    ASSUME IInv, UnitsFinished
    PROVE  /\ state = "UPDATING" /\ wait = 0 /\ Quiet /\ Pending = {}
           /\ Place \in {"queueDownload", "finished"}
           /\ Erring = {} /\ Failing = {}
           /\ stack \in Seq(FrameType) /\ stack # <<>>
           /\ Tail(stack) \in Seq(FrameType) /\ Only(Tail(stack), IdleFn)
<1>1. Place \in {"queueDownload", "finished"} /\ stack \in Seq(FrameType) /\ stack # <<>>
  BY HeadTells DEF IInv, UnitsFinished, WorkFn, Runs
<1>2. state = "UPDATING" /\ Only(Tail(stack), IdleFn)
  BY <1>1, PlaceState DEF IInv, WorkFn
<1>3. wait = 0
  <2>1. ASSUME Place = "finished" PROVE wait = 0
    <3>1. Quiet /\ Erring = {}
      BY <1>1, <2>1, NoFileAhead DEF IInv, Counting, Place, Erring
    <3>2. Cardinality({}) = 0
      BY FS_EmptySet
    <3> QED  BY <1>2, <2>1, <3>1, <3>2 DEF IInv, Counting, Quiet
  <2>2. Place = "queueDownload" => ~ Runs("finished")
    BY HeadTells DEF IInv, WorkFn
  <2> QED  BY <1>1, <2>1, <2>2 DEF UnitsFinished
<1>4. Erring = {} /\ Failing = {}
  BY <1>1, PlaceWork, PlaceTells DEF Place, Erring, Failing, WorkFn
<1> QED  BY <1>1, <1>2, <1>3, <1>4, NothingAwaited, TailType

LEMMA FinishedKeeps ==
    ASSUME IInv, Finished
    PROVE  IInv'
<1> USE DEF manifests, downloads, disk, history
<1>0. /\ TypeOK /\ StackStands /\ Fetches /\ failed = {}
      /\ UNCHANGED <<state, entry, transfers, local, manifests, downloads, unzip, disk, server,
                     history>>
  BY DEF IInv, Finished
<1>1. /\ state = "UPDATING" /\ wait = 0
      /\ Place \in {"queueDownload", "finished"}
      /\ stack \in Seq(FrameType) /\ stack # <<>> /\ Only(Tail(stack), IdleFn)
  BY UnitsFinishedFacts DEF Finished
<1>2. Leave(<<Frame("updateSucceed")>>)
  BY <1>1 DEF Finished
<1>3. /\ stack' \in Seq(FrameType) /\ stack' # <<>> /\ Tail(stack') = Tail(stack)
      /\ Place' = "updateSucceed" /\ Erring' = {} /\ Failing' = {}
  BY <1>1, <1>2, LeaveWork DEF WorkFn
<1>4. TypeOK'
  BY <1>0, <1>3 DEF TypeOK, FrameType
<1>5. StackStands'
  BY <1>0, <1>1, <1>3 DEF StackStands, AtWork
<1>6. Fetches' /\ Outstanding' = Outstanding
  BY <1>0, <1>1 DEF Fetches, Outstanding
<1> QED  BY <1>0, <1>1, <1>3, <1>4, <1>5, <1>6, ControlsKeep DEF Controls, Moves

(* The listener returns to what was under it.                              *)
LEMMA OverTail ==
    ASSUME NEW f \in FrameType, NEW s, s \in Over(f), Head(s).fn = "listener", f.fn # "listener"
    PROVE  Tail(s) = <<f>> /\ Tail(s) \in Over(f)
<1>1. Tail(s) = <<f>>
  BY OverParts
<1> QED  BY <1>1 DEF Over

LEMMA ReturnKeeps ==
    ASSUME IInv, Return
    PROVE  IInv'
<1> USE DEF manifests, downloads, disk, history
<1>0. /\ TypeOK /\ StackStands /\ Fetches
      /\ stack \in Seq(FrameType) /\ stack # <<>> /\ Head(stack).fn = "listener" /\ Leave(<<>>)
      /\ UNCHANGED <<state, entry, transfers, local, manifests, downloads, unzip, disk, server,
                     history>>
  BY HeadTells DEF IInv, Return, Runs
<1>1. stack' = Tail(stack) /\ stack' \in Seq(FrameType)
  BY <1>0, LeaveNone
<1>2. TypeOK'
  BY <1>0, <1>1 DEF TypeOK, FrameType
<1>3. Fetches' /\ Outstanding' = Outstanding
  BY <1>0 DEF Fetches, Outstanding
<1>4. Place \notin WorkFn
  BY <1>0, PlaceTells DEF Place, WorkFn
<1>5. ASSUME Place = "idle"
      PROVE  /\ Place' = "idle" /\ Erring' = {} /\ Failing' = {} /\ Erring = {} /\ Failing = {}
             /\ StackStands'
  <2>1. Only(stack, IdleFn)
    BY <1>0, <1>5, PlaceTells DEF Place
  <2>2. Place' = "idle" /\ Erring' = {} /\ Failing' = {}
    BY <1>0, <1>1, <2>1, OnlyTail, StackIdle
  <2>3. \A F : Only(stack, F) => Only(stack', F)
    BY <1>0, <1>1, OnlyTail
  <2>4. \A g \in {"manifestFailed", "versionFound"} : stack \notin Over(Frame(g))
    BY <1>0, <1>5, PlaceOther DEF Place
  <2>5. Erring = {} /\ Failing = {}
    BY <1>0, <2>1, PlaceIdle DEF Erring, Failing
  <2>6. StackStands'
    BY <1>0, <1>1, <1>4, <1>5, <2>2, <2>3, <2>4 DEF StackStands, AtWork, WorkFn
  <2> QED  BY <2>2, <2>5, <2>6
<1>6. ASSUME Place = "batchDownload"
      PROVE  /\ Place' = "batchDownload" /\ Erring' = {} /\ Failing' = {} /\ Erring = {}
             /\ Failing = {} /\ StackStands'
  <2>1. BatchAhead(stack)
    BY <1>0, <1>6, PlaceTells DEF Place
  <2>2. AtBatch(Tail(stack))
    BY <1>0, <2>1 DEF BatchAhead, AtBatch
  <2>3. Place' = "batchDownload" /\ Erring' = {} /\ Failing' = {}
    <3>1. Tail(stack) \in Seq(FrameType) /\ Tail(stack) # <<>>
      BY <1>1, <2>2 DEF AtBatch
    <3>2. ~ FileAhead(Tail(stack)) /\ ErringIn(Tail(stack)) = {} /\ FailingIn(Tail(stack)) = {}
      BY <2>2, <3>1, PlaceHead DEF AtBatch
    <3> QED  BY <1>1, <2>2, <3>1, <3>2
             DEF Place, Erring, Failing, PlaceOf, BatchAhead, AtBatch, WorkFn
  <2>4. Erring = {} /\ Failing = {}
    BY <1>0, <1>6, NoFileAhead DEF Place, Erring, Failing
  <2>5. failed = {}
    <3>1. Frame("batchDownload").fn = "batchDownload" /\ Frame("batchDownload") \in FrameType
      BY FrameTypes DEF Function
    <3>2. Head(<<Frame("batchDownload")>>) = Frame("batchDownload")
      OBVIOUS
    <3> QED  BY <1>0, <1>6, <3>1, <3>2 DEF StackStands
  <2>6. state = "UPDATING"
    BY <1>0, <1>6, PlaceState
  <2>7. StackStands'
    BY <1>0, <2>3, <2>5, <2>6 DEF StackStands
  <2> QED  BY <2>3, <2>4, <2>7
<1>7. ASSUME Place = "file"
      PROVE  Place' = "file" /\ Erring' = Erring /\ Failing' = Failing /\ StackStands'
  <2>1. state = "UPDATING"
    BY <1>0, <1>7, PlaceState
  <2>2. Place' = "file" /\ Erring' = Erring /\ Failing' = Failing
    <3>1. FileAhead(stack)
      BY <1>0, <1>7, PlaceTells DEF Place
    <3>2. CASE stack \in Over(Frame("fileDone"))
      <4>1. Tail(stack) \in Over(Frame("fileDone"))
        BY <1>0, <3>2, OverTail, FrameTypes DEF Function
      <4> QED  BY <1>1, <3>2, <4>1, PlaceFileDone DEF Place, Erring, Failing
    <3>3. ASSUME NEW a \in Asset, NEW fn \in {"fileError", "fileFailed"},
                 stack \in Over(OnAsset(fn, a))
          PROVE  Place' = "file" /\ Erring' = Erring /\ Failing' = Failing
      <4>1. Tail(stack) \in Over(OnAsset(fn, a))
        BY <1>0, <3>3, OverTail, AssetFrames DEF Function
      <4> QED  BY <1>1, <3>3, <4>1, PlaceFile DEF Place, Erring, Failing
    <3> QED  BY <3>1, <3>2, <3>3 DEF FileAhead, ErringIn, FailingIn
  <2> QED  BY <1>0, <2>1, <2>2 DEF StackStands
<1>8. ASSUME Place = "other"
      PROVE  /\ Place' \in {"idle", "other"} /\ StackStands'
             /\ state \in Early
             /\ remote.loaded => state \notin {"NEED_UPDATE", "UNCHECKED", "MANIFEST_LOADED"}
  <2>1. /\ state \in {"UNCHECKED", "MANIFEST_LOADED", "DOWNLOADING_VERSION",
                      "DOWNLOADING_MANIFEST", "NEED_UPDATE"}
        /\ state = "NEED_UPDATE" => ~ remote.loaded
    BY <1>0, <1>8 DEF StackStands, TypeOK, State, AtWork, WorkFn
  <2>2. ASSUME NEW g \in {"manifestFailed", "versionFound"}, stack \in Over(Frame(g))
        PROVE  stack' \in Over(Frame(g)) /\ Place' = "other"
    <3>1. Tail(stack) \in Over(Frame(g))
      BY <1>0, <2>2, OverTail, FrameTypes DEF Function
    <3> QED  BY <1>1, <3>1, PlaceOther DEF Place
  <2>3. Only(stack, {"listener", "parseFailed"}) => Only(stack', {"listener", "parseFailed"})
    BY <1>0, <1>1, OnlyTail
  <2>4. Only(stack', {"listener", "parseFailed"}) => Place' \in {"idle", "other"}
    BY <1>1, PlaceQuiet DEF Place
  <2>5. Place' \in {"idle", "other"}
    BY <1>0, <2>1, <2>2, <2>3, <2>4 DEF StackStands
  <2>6. StackStands'
    BY <1>0, <2>1, <2>2, <2>3, <2>5 DEF StackStands
  <2>7. state \in {"UNCHECKED", "MANIFEST_LOADED"} => ~ remote.loaded
    BY DEF IInv, ManifestsStand
  <2> QED  BY <2>1, <2>5, <2>6, <2>7 DEF Early
<1>9. Place \in {"idle", "batchDownload", "file", "other"}
  BY <1>4 DEF Place, PlaceOf
<1>10. StackStands' /\ Moves
  BY <1>0, <1>5, <1>6, <1>7, <1>8, <1>9 DEF Moves
<1> QED  BY <1>0, <1>2, <1>3, <1>10, ControlsKeep DEF Controls
-----------------------------------------------------------------------------
(* What the operations of Manifest make of an object.                      *)
LEMMA UnparsedFacts ==
    /\ Unparsed \in ManifestObject /\ ObjectStands(Unparsed) /\ ~ Unparsed.loaded
    /\ ~ Unparsed.updating /\ Unparsed.states = NoStates
    /\ Unparsed.flag = "absent" /\ Unparsed.version = 0
<1>1. NoStates \in [Asset -> DownloadState]
  BY DEF NoStates, DownloadState
<1> QED  BY <1>1, ContentAssumption DEF Unparsed, ManifestObject, ObjectStands, Flag

(* clear(), parseVersion and parseFile.                                    *)
LEMMA ClearedFacts ==
    ASSUME NEW m \in ManifestObject
    PROVE  /\ Cleared(m) \in ManifestObject /\ ObjectStands(Cleared(m))
           /\ ~ Cleared(m).loaded /\ Cleared(m).updating = m.updating
           /\ Cleared(m).states = NoStates /\ Cleared(m).version = 0
           /\ Cleared(m).flag = "absent"
<1>1. m.updating \in BOOLEAN
  BY DEF ManifestObject
<1>2. PICK r \in ManifestObject : r = Unparsed
  BY UnparsedFacts
<1>3. Cleared(m) = [r EXCEPT !.updating = m.updating]
  BY <1>2 DEF Cleared
<1>4. Cleared(m) \in ManifestObject
  BY <1>1, <1>3 DEF ManifestObject
<1>5. /\ Cleared(m).updating = m.updating /\ Cleared(m).loaded = r.loaded
      /\ Cleared(m).flag = r.flag /\ Cleared(m).states = r.states
      /\ Cleared(m).version = r.version
  BY <1>3 DEF ManifestObject
<1> QED  BY <1>2, <1>4, <1>5, UnparsedFacts DEF ObjectStands

LEMMA ParseVersionFacts ==
    ASSUME NEW m \in ManifestObject, NEW v \in Version
    PROVE  /\ ParseVersion(m, v) \in ManifestObject /\ ObjectStands(ParseVersion(m, v))
           /\ ~ ParseVersion(m, v).loaded /\ ParseVersion(m, v).updating = m.updating
           /\ ParseVersion(m, v).states = NoStates /\ ParseVersion(m, v).version = v
<1>1. Cleared(m) \in ManifestObject /\ ObjectStands(Cleared(m))
  BY ClearedFacts
<1>2. ParseVersion(m, v) = [Cleared(m) EXCEPT !.version = v]
  BY DEF ParseVersion
<1>3. v \in 0..MaxVersion
  BY ContentAssumption DEF Version
<1> QED  BY <1>1, <1>2, <1>3, ClearedFacts DEF ManifestObject, ObjectStands

LEMMA ParseFileFacts ==
    ASSUME NEW m \in ManifestObject, NEW f \in ManifestFile, ListsHeld(f)
    PROVE  /\ ParseFile(m, f) \in ManifestObject /\ ObjectStands(ParseFile(m, f))
           /\ ParseFile(m, f).loaded
           /\ ParseFile(m, f).updating = Flagged(f.updating, m.updating)
           /\ ParseFile(m, f).flag = f.updating
           /\ ParseFile(m, f).states = f.states /\ ParseFile(m, f).version = f.version
<1>1. f.updating \in Flag /\ m.updating \in BOOLEAN
  BY DEF ManifestObject, ManifestFile
<1>2. /\ Flagged(f.updating, m.updating) \in BOOLEAN
      /\ f.updating # "absent" => (Flagged(f.updating, m.updating) <=> f.updating = "true")
  BY <1>1 DEF Flagged
<1> QED  BY <1>1, <1>2, ContentAssumption
         DEF ParseFile, ManifestObject, ManifestFile, Version, ObjectStands, ListsHeld, Listed

(* The same on a file of no bytes: the JSON stays.                         *)
LEMMA ReloadFacts ==
    ASSUME NEW m \in ManifestObject, NEW l \in BOOLEAN
    PROVE  LET n == Reload(m, l)
           IN  /\ n \in ManifestObject
               /\ n.version = m.version /\ n.states = m.states
               /\ n.loaded = l /\ (ObjectStands(m) => n.updating = m.updating)
               /\ (l => ListsHeld(m)) => ObjectStands(n)
<1>1. m.flag \in Flag /\ m.updating \in BOOLEAN
  BY DEF ManifestObject
<1>2. /\ Flagged(m.flag, m.updating) \in BOOLEAN
      /\ m.flag # "absent" => (Flagged(m.flag, m.updating) <=> m.flag = "true")
      /\ ObjectStands(m) => Flagged(m.flag, m.updating) = m.updating
  BY <1>1 DEF Flagged, ObjectStands
<1> DEFINE n == Reload(m, l)
<1>3. /\ n \in ManifestObject
      /\ n.version = m.version /\ n.states = m.states /\ n.flag = m.flag
      /\ n.loaded = l /\ n.updating = Flagged(m.flag, m.updating)
  BY <1>1, <1>2 DEF Reload, ManifestObject
<1> HIDE DEF n
<1>4. (l => ListsHeld(m)) => ObjectStands(n)
  BY <1>2, <1>3 DEF ObjectStands, ListsHeld, Listed
<1> QED  BY <1>2, <1>3, <1>4 DEF n

(* The manifest that the server has of a version.                          *)
LEMMA PublishedFacts ==
    ASSUME NEW v \in Version
    PROVE  /\ Published(v) \in ManifestFile /\ ListsHeld(Published(v))
           /\ Published(v).version = v /\ Published(v).updating = "absent"
           /\ \A a \in Asset : Published(v).states[a] \in {"absent", "unmarked"}
<1> DEFINE f == [a \in Asset |-> IF a \in Holds(v) THEN "unmarked" ELSE "absent"]
<1>1. f \in [Asset -> DownloadState] /\ \A a \in Asset : f[a] \in {"absent", "unmarked"}
  BY DEF DownloadState
<1>2. {a \in Asset : f[a] # "absent"} = Holds(v)
  BY DEF Holds
<1>3. Published(v) = [version |-> v, updating |-> "absent", states |-> f]
  BY DEF Published
<1> HIDE DEF f
<1> QED  BY <1>1, <1>2, <1>3 DEF ManifestFile, ListsHeld, Listed, Flag

(* setAssetDownloadState changes the states of assets that are listed and  *)
(* nothing else.                                                           *)
LEMMA SetStateFacts ==
    ASSUME NEW m \in ManifestObject, NEW A, NEW s \in {"unstarted", "downloading", "successed"}
    PROVE  LET n == SetAssetDownloadState(m, A, s)
           IN  /\ n \in ManifestObject
               /\ n.version = m.version /\ n.loaded = m.loaded
               /\ n.updating = m.updating /\ n.flag = m.flag
               /\ Listed(n) = Listed(m)
               /\ ObjectStands(m) => ObjectStands(n)
                /\ \A a \in Asset :
                      n.states[a] = IF a \in A /\ a \in Listed(m) THEN s ELSE m.states[a]
<1> DEFINE n == SetAssetDownloadState(m, A, s)
<1>1. n = [m EXCEPT !.states = [a \in Asset |->
              IF a \in A \cap Listed(m) THEN s ELSE m.states[a]]]
  BY DEF SetAssetDownloadState
<1>2. /\ m.states \in [Asset -> DownloadState]
      /\ n.version = m.version /\ n.loaded = m.loaded /\ n.updating = m.updating
      /\ n.flag = m.flag
      /\ n.states = [a \in Asset |-> IF a \in A \cap Listed(m) THEN s ELSE m.states[a]]
  BY <1>1 DEF ManifestObject
<1>3. n \in ManifestObject
  BY <1>1 DEF ManifestObject, DownloadState
<1> HIDE DEF n
<1>4. \A a \in Asset : n.states[a] = IF a \in A /\ a \in Listed(m) THEN s ELSE m.states[a]
  BY <1>2
<1>5. Listed(n) = Listed(m)
  BY <1>4 DEF Listed
<1>6. ObjectStands(m) => ObjectStands(n)
  BY <1>2, <1>5 DEF ObjectStands, ListsHeld
<1> QED  BY <1>2, <1>3, <1>4, <1>5, <1>6 DEF n

(* setUpdating changes the two flags and nothing else.                     *)
LEMMA SetUpdatingFacts ==
    ASSUME NEW m \in ManifestObject, NEW u \in BOOLEAN
    PROVE  LET n == SetUpdating(m, u)
           IN  /\ n \in ManifestObject
               /\ n.version = m.version /\ n.loaded = m.loaded /\ n.states = m.states
               /\ Listed(n) = Listed(m)
               /\ m.loaded => n.updating = u /\ n.flag = IF u THEN "true" ELSE "false"
               /\ ObjectStands(m) => ObjectStands(n)
BY DEF SetUpdating, ManifestObject, Listed, ObjectStands, ListsHeld, Flag

(* What saveToFile writes of an object that stands is a file that lists    *)
(* what its version holds.                                                 *)
LEMMA SavedFileFacts ==
    ASSUME NEW m \in ManifestObject, m.loaded, ObjectStands(m)
    PROVE  /\ SavedFile(m) \in ManifestFile /\ ListsHeld(SavedFile(m))
           /\ SavedFile(m).version = m.version /\ SavedFile(m).states = m.states
           /\ SavedFile(m).updating = m.flag
BY DEF SavedFile, ManifestObject, ManifestFile, ObjectStands, ListsHeld, Listed

(* The values for no manifest and no file are not manifests or files.      *)
LEMMA Sentinels ==
    /\ Null \notin ManifestObject
    /\ NoFile \notin ManifestFile /\ Garbage \notin ManifestFile /\ NoFile # Garbage
BY AssetsManagerAssumption
-----------------------------------------------------------------------------
(* The steps on manifests.                                                 *)
LEMMA RemoteStands ==
    ASSUME IInv, state # "UP_TO_DATE"
    PROVE  remote \in ManifestObject /\ ObjectStands(remote) /\ remote # Null
BY Sentinels DEF IInv, TypeOK, ManifestsStand

(* parseManifest() of a file that cannot be parsed, by whom it is called.  *)
LEMMA UnreadableKeeps ==
    ASSUME IInv, state \in {"MANIFEST_LOADED", "DOWNLOADING_MANIFEST"},
           Place \in {"idle", "other"},
           NEW below \in Seq(FrameType), Only(below, {"listener", "parseFailed"}),
           ManifestUnreadable(below),
           transfers' = transfers \ {ManifestId}
    PROVE  IInv'
<1> USE DEF manifests, downloads, disk, history
<1>0. /\ TypeOK /\ StackStands /\ Fetches /\ ManifestsStand
      /\ state' = "MANIFEST_LOADED" /\ entry' = "NONE" /\ remote' = Cleared(remote)
      /\ tempFile' = Garbage
      /\ UNCHANGED <<local, temp, alias, units, unitsVersion, failed, queue, wait, curr, unzip,
                     storage, cached, tempFiles, tempRenamed, server, incidents, touched, freed>>
  BY DEF IInv, ManifestUnreadable
<1>1. remote \in ManifestObject /\ ObjectStands(remote) /\ remote # Null
  BY RemoteStands
<1>2. /\ remote' \in ManifestObject /\ ObjectStands(remote') /\ remote' # Null
      /\ ~ remote'.loaded /\ remote'.updating = remote.updating
      /\ remote'.states = NoStates /\ remote'.version = 0
  BY <1>0, <1>1, ClearedFacts, Sentinels
<1>3. stack' \in Seq(FrameType) /\ Only(stack', {"listener", "parseFailed"})
  <2>1. Frame("parseFailed") \in FrameType /\ Frame("parseFailed").fn = "parseFailed"
    BY FrameTypes DEF Function
  <2> DEFINE s == <<Frame("parseFailed")>> \o below
  <2>2. s \in Seq(FrameType) /\ Only(s, {"listener", "parseFailed"})
    BY <2>1, FrontFrame, OnlyFront
  <2>3. stack' = Notify(s)
    BY DEF ManifestUnreadable
  <2> HIDE DEF s
  <2> QED  BY <2>2, <2>3, NotifyOnly
<1>4. Place' \in {"idle", "other"}
  BY <1>3, PlaceQuiet DEF Place
<1>5. Outstanding' = Outstanding /\ VersionId \notin transfers' /\ ManifestId \notin transfers'
  BY <1>0, IdAssumption DEF Outstanding, Fetches
<1>6. TypeOK'
  BY <1>0, <1>2, <1>3 DEF TypeOK, State, Entry, FrameType
<1>7. StackStands'
  BY <1>0, <1>3, <1>4 DEF StackStands
<1>8. Fetches'
  BY <1>5 DEF Fetches
<1>9. ManifestsStand'
  <2>1. Garbage \notin ManifestFile
    BY Sentinels
  <2>2. \A a \in Asset : NoStates[a] = "absent"
    BY DEF NoStates
  <2> QED  BY <1>0, <1>1, <1>2, <1>4, <2>1, <2>2, StandsStay
           DEF ManifestsStand, Underway, Merging, Succeeding
<1>10. Counting'
  BY <1>0, <1>4, <1>5 DEF IInv, Counting, Quiet
<1>11. Wanting'
  BY <1>0 DEF Wanting, Underway
<1>12. Saved'
  BY <1>0, <1>2, <1>4 DEF IInv, Saved, Underway, UpdateFound, Merging
<1>13. Downloaded'
  <2>1. Garbage \notin ManifestFile
    BY Sentinels
  <2>2. \A a \in Asset : NoStates[a] = "absent"
    BY DEF NoStates
  <2> QED  BY <1>0, <1>1, <1>2, <1>4, <2>1, <2>2 DEF IInv, Downloaded, Marked, Temp, Merging
<1>14. Stored'
  <2>1. Garbage \notin ManifestFile
    BY Sentinels
  <2> QED  BY <1>0, <1>2, <1>4, <2>1
           DEF IInv, Stored, Sound, Underway, Merging, Succeeding, PartOf, Keeps, Found, Holds
<1>15. ManifestAlive'
  BY <1>0 DEF IInv, ManifestAlive
<1> QED  BY <1>6, <1>7, <1>8, <1>9, <1>10, <1>11, <1>12, <1>13, <1>14, <1>15 DEF IInv

LEMMA UpdateParsesKeeps ==
    ASSUME IInv, UpdateParses
    PROVE  IInv'
<1>1. /\ TypeOK /\ StackStands /\ Fetches /\ stack \in Seq(FrameType)
      /\ state = "MANIFEST_LOADED"
      /\ ManifestUnreadable(stack) /\ transfers' = transfers
  BY HeadTells DEF IInv, UpdateParses
<1>2. Only(stack, {"listener", "parseFailed"})
  BY <1>1 DEF StackStands
<1>3. Place \in {"idle", "other"}
  BY <1>1, <1>2, PlaceQuiet DEF Place
<1>4. transfers' = transfers \ {ManifestId}
  BY <1>1 DEF Fetches
<1> QED  BY <1>1, <1>2, <1>3, <1>4, UnreadableKeeps

LEMMA ManifestInvalidKeeps ==
    ASSUME IInv, ManifestInvalid
    PROVE  IInv'
<1>1. /\ ManifestUnreadable(<<>>) /\ transfers' = transfers \ {ManifestId}
      /\ state = "DOWNLOADING_MANIFEST" /\ stack = <<>>
  BY DEF IInv, Fetches, ManifestInvalid
<1>2. <<>> \in Seq(FrameType) /\ Only(<<>>, {"listener", "parseFailed"})
  BY DEF Only
<1>3. Place = "idle"
  BY <1>1, PlaceEmpty DEF Place
<1> QED  BY <1>1, <1>2, <1>3, UnreadableKeeps
(* A callback that enters, or the process at a start, finds no function.   *)
LEMMA AtRestFacts ==
    ASSUME stack = <<>>
    PROVE  /\ stack \in Seq(FrameType) /\ Place = "idle" /\ Erring = {} /\ Failing = {}
           /\ ~ Merging /\ ~ Succeeding
BY PlaceEmpty DEF Place, Erring, Failing, Merging, Succeeding

LEMMA VersionUnknownKeeps ==
    ASSUME IInv, VersionUnknown
    PROVE  IInv'
<1> USE DEF manifests, downloads, disk, history
<1>0. /\ TypeOK /\ StackStands /\ Fetches /\ ManifestsStand
      /\ stack = <<>> /\ stack' = stack
      /\ state \in {"UNCHECKED", "DOWNLOADING_VERSION"} /\ state' = "DOWNLOADING_MANIFEST"
      /\ entry # "NONE"
      /\ transfers' = (transfers \ {VersionId}) \cup {ManifestId}
      /\ remote' \in {Cleared(remote), remote}
      /\ UNCHANGED <<entry, local, temp, alias, units, unitsVersion, failed, queue, wait, curr,
                     unzip, storage, cached, tempFiles, tempFile, tempRenamed, server,
                     incidents, touched, freed>>
  BY DEF IInv, VersionUnknown, Fetches
<1>1. remote \in ManifestObject /\ ObjectStands(remote) /\ remote # Null
  BY <1>0, RemoteStands
<1>2. /\ remote' \in ManifestObject /\ ObjectStands(remote') /\ remote' # Null
      /\ remote'.updating = remote.updating
      /\ remote'.loaded => remote' = remote
      /\ \/ remote' = remote
         \/ remote'.states = NoStates /\ ~ remote'.loaded /\ remote'.version = 0
  BY <1>0, <1>1, ClearedFacts, Sentinels
<1>3. /\ Place = "idle" /\ Erring = {} /\ Failing = {}
      /\ Place' = Place /\ Erring' = Erring /\ Failing' = Failing
  BY <1>0, StackSame, AtRestFacts
<1>4. Outstanding' = Outstanding /\ VersionId \notin transfers'
  <2>1. VersionId # ManifestId
    BY DEF VersionId, ManifestId
  <2> QED  BY <1>0, <2>1, IdAssumption DEF Outstanding
<1>5. TypeOK'
  BY <1>0, <1>2 DEF TypeOK, State
<1>6. StackStands'
  BY <1>0, <1>3 DEF StackStands
<1>7. Fetches'
  BY <1>0, <1>4 DEF Fetches
<1>8. \A a \in Asset : NoStates[a] = "absent"
  BY DEF NoStates
<1>9. state = "UNCHECKED" => ~ remote'.loaded
  BY <1>0, <1>2 DEF ManifestsStand
<1>10. remote'.loaded => Temp' = Temp /\ Wanted' = Wanted /\ remote' = remote
  BY <1>0, <1>2 DEF Temp, Wanted, GenResumeAssetsList, Listed
<1>11. ManifestsStand'
  BY <1>0, <1>1, <1>2, <1>3, <1>8, <1>9, <1>10, StandsStay
     DEF ManifestsStand, Underway, Merging, Succeeding
<1>12. Counting'
  BY <1>0, <1>3, <1>4 DEF IInv, Counting, Quiet
<1>13. Wanting'
  BY <1>0, <1>2, <1>9, <1>10 DEF IInv, Wanting, Underway
<1>14. Saved'
  BY <1>0, <1>2, <1>3, <1>9, <1>10 DEF IInv, Saved, Underway, UpdateFound, Merging
<1>15. Downloaded'
  BY <1>0, <1>1, <1>2, <1>3, <1>8 DEF IInv, Downloaded, Marked, Temp, Merging
<1>16. Stored'
  BY <1>0, <1>2, <1>3, <1>9, <1>10
     DEF IInv, Stored, Sound, Underway, Merging, Succeeding, PartOf, Keeps, Found, Holds
<1>17. ManifestAlive'
  BY <1>0 DEF IInv, ManifestAlive
<1> QED  BY <1>5, <1>6, <1>7, <1>11, <1>12, <1>13, <1>14, <1>15, <1>16, <1>17 DEF IInv

(* What the server answers is not older than what it answered before.  The *)
(* storage keeps the cached version, all of it if there is no newer one.   *)
LEMMA AnswersKeep ==
    ASSUME IInv, Answers, ~ Merging, Sound, state # "UP_TO_DATE",
           UNCHANGED <<storage, cached, local, touched>>
    PROVE  /\ Keeps(cached.version)'
           /\ touched' # {} => cached'.version < server'
           /\ local.version >= server' => Complete(local.version)'
<1>1. cached = local /\ local.version \in Version /\ server \in Version
  BY DEF IInv, Saved, ManifestsStand, ViewStands, TypeOK
<1>2. Keeps(cached.version) /\ (touched # {} => cached.version < server)
  BY DEF IInv, Stored
<1>3. server' \in Version /\ server' >= server
  BY <1>1, ContentAssumption DEF Answers, Version
<1>4. Keeps(cached.version)'
  BY <1>2 DEF Keeps, Found, Holds
<1>5. touched' # {} => cached'.version < server'
  BY <1>1, <1>2, <1>3 DEF Version
<1>6. ASSUME local.version >= server' PROVE Complete(local.version)'
  <2>1. touched' = {}
    BY <1>1, <1>3, <1>5, <1>6 DEF Version
  <2> QED  BY <1>1, <1>4, <2>1 DEF Keeps, Complete, Found, Holds
<1> QED  BY <1>4, <1>5, <1>6

LEMMA VersionSuccessKeeps ==
    ASSUME IInv, VersionSuccess
    PROVE  IInv'
<1> USE DEF manifests, downloads, disk, history
<1>0. /\ TypeOK /\ StackStands /\ Fetches /\ ManifestsStand
      /\ stack = <<>>
      /\ VersionId \in transfers /\ ManifestId \notin transfers
      /\ state \in {"UNCHECKED", "DOWNLOADING_VERSION"}
      /\ entry # "NONE"
      /\ transfers' = transfers \ {VersionId}
      /\ UNCHANGED <<local, temp, alias, units, unitsVersion, failed, queue, wait, curr, unzip,
                     storage, cached, incidents, touched, freed>>
  BY DEF IInv, VersionSuccess, Fetches, Enter
<1>1. remote \in ManifestObject /\ ObjectStands(remote) /\ remote # Null
  BY <1>0, RemoteStands
<1>2. server \in Version /\ server' \in Version /\ Answers /\ server <= server'
  <2>1. Answers \/ server' = server
    BY DEF VersionSuccess
  <2> QED  BY <1>0, <2>1, ContentAssumption DEF Answers, TypeOK, Version
<1>3. /\ remote' \in ManifestObject /\ ObjectStands(remote') /\ remote' # Null
      /\ remote'.updating = remote.updating
      /\ ~ remote'.loaded /\ remote'.version \in Version /\ remote'.version <= server'
      /\ \/ remote'.states = NoStates /\ remote'.version = server'
         \/ /\ remote'.states = remote.states /\ remote'.version = remote.version
            /\ ~ VersionGreaterOrEquals(local, remote')
  <2>1. CASE remote' = ParseVersion(remote, server')
    <3>1. server' <= server'
      BY <1>2 DEF Version
    <3> QED  BY <1>1, <1>2, <2>1, <3>1, ParseVersionFacts, Sentinels
  <2>2. CASE server' = server /\ remote.version # 0 /\ remote' = Reload(remote, FALSE)
    <3>1. /\ remote' \in ManifestObject /\ ObjectStands(remote') /\ remote' # Null
          /\ remote'.updating = remote.updating /\ ~ remote'.loaded
          /\ remote'.states = remote.states /\ remote'.version = remote.version
      BY <1>1, <2>2, ReloadFacts, Sentinels
    <3>2. remote.version \in Version
      BY <1>1, <2>2 DEF ManifestObject, Version
    <3>3. remote.version <= server /\ local.version < remote.version
      BY <1>0, <1>1, <2>2 DEF ManifestsStand
    <3>4. local.version \in Version
      BY <1>0 DEF ManifestsStand, ViewStands
    <3>5. ~ VersionGreaterOrEquals(local, remote')
      BY <3>1, <3>2, <3>3, <3>4 DEF VersionGreaterOrEquals, Version
    <3> QED  BY <2>2, <3>1, <3>2, <3>3, <3>5
  <2> QED  BY <2>1, <2>2 DEF VersionSuccess
<1>4. Place = "idle" /\ Erring = {} /\ Failing = {} /\ ~ Merging /\ ~ Succeeding
  BY <1>0, AtRestFacts
<1>5. \/ /\ state' = "UP_TO_DATE" /\ entry' = "NONE" /\ stack' = <<>>
         /\ local.version >= server'
         /\ remote'.version = server'
         /\ tempFiles' = NoFiles /\ tempFile' = NoFile /\ tempRenamed' = NoFile
      \/ /\ state' = "NEED_UPDATE" /\ entry' \in Entry /\ local.version < remote'.version
         /\ \/ stack' = <<>>
            \/ stack' \in Over(Frame("versionFound")) /\ entry' = "DO_UPDATE"
         /\ UNCHANGED <<tempFiles, tempFile, tempRenamed>>
  <2>1. CASE state' = "UP_TO_DATE"
    BY <1>3, <2>1 DEF VersionSuccess, VersionGreaterOrEquals, RemoveTempStorage, Enter
  <2>2. CASE state' = "NEED_UPDATE"
    <3>1. Notify(<<Frame("versionFound")>>) \in Over(Frame("versionFound"))
      BY NotifyOne, FrameTypes DEF Function
    <3>2. local.version \in Version
      BY <1>0 DEF ManifestsStand, ViewStands
    <3>3. local.version < remote'.version
      BY <1>3, <2>2, <3>2 DEF VersionSuccess, VersionGreaterOrEquals, Version
    <3> QED  BY <1>0, <2>2, <3>1, <3>3 DEF VersionSuccess, Enter, TypeOK, Entry
  <2> QED  BY <2>1, <2>2 DEF VersionSuccess
<1>6. /\ stack' \in Seq(FrameType) /\ Place' \in {"idle", "other"}
      /\ state' = "UP_TO_DATE" => Place' = "idle"
  BY <1>5, StackEmpty, PlaceOther DEF Place
<1>7. Outstanding' = Outstanding /\ VersionId \notin transfers' /\ ManifestId \notin transfers'
  BY <1>0, IdAssumption DEF Outstanding
<1>8. TypeOK'
  <2>1. tempFiles' \in [Asset -> Nat \cup {Bad}]
    BY <1>0, <1>5 DEF TypeOK, NoFiles
  <2> QED  BY <1>0, <1>2, <1>3, <1>5, <1>6, <2>1 DEF TypeOK, State, Entry, FrameType
<1>9. StackStands'
  BY <1>3, <1>5, <1>6 DEF StackStands
<1>10. Fetches'
  BY <1>7 DEF Fetches
<1>11. \A a \in Asset : NoStates[a] = "absent"
  BY DEF NoStates
<1>12. NoFile \notin ManifestFile
  BY Sentinels
<1>13. ManifestsStand'
  BY <1>0, <1>1, <1>3, <1>4, <1>5, <1>6, <1>11, <1>12, StandsStay
     DEF ManifestsStand, Underway, Merging, Succeeding
<1>14. Counting'
  BY <1>0, <1>4, <1>5, <1>6, <1>7 DEF IInv, Counting, Quiet
<1>15. Wanting'
  BY <1>3, <1>5 DEF Wanting, Underway
<1>16. Saved'
  BY <1>0, <1>3, <1>4, <1>5, <1>6 DEF IInv, Saved, Underway, UpdateFound, Merging
<1>17. Downloaded'
  BY <1>0, <1>1, <1>3, <1>4, <1>5, <1>6, <1>11, <1>12 DEF IInv, Downloaded, Marked, Temp, Merging
<1>18. Stored'
  <2>1. ASSUME Sound
        PROVE  /\ Keeps(cached.version)' /\ (touched' # {} => cached'.version < server')
               /\ state' = "UP_TO_DATE" => Complete(local.version)'
    BY <1>0, <1>2, <1>4, <1>5, <2>1, AnswersKeep
  <2>2. \A a \in Asset : NoFiles[a] = 0
    BY DEF NoFiles
  <2> QED  BY <1>0, <1>3, <1>4, <1>5, <1>6, <1>12, <2>1, <2>2
           DEF IInv, Stored, Sound, Underway, Merging, Succeeding, PartOf, Found
<1>19. ManifestAlive'
  BY <1>0 DEF IInv, ManifestAlive
<1> QED  BY <1>8, <1>9, <1>10, <1>13, <1>14, <1>15, <1>16, <1>17, <1>18, <1>19 DEF IInv
(* The manifest has arrived and a version is known: that of the file, or,  *)
(* of an empty one, that of what was read before.                          *)
LEMMA ManifestLoadedKeeps ==
    ASSUME IInv, ManifestId \in transfers, Answers,
           NEW file \in ManifestFile \cup {Garbage}, ManifestLoaded(file),
           incidents \subseteq incidents', incidents' \subseteq Incident,
           remote' \in ManifestObject, ObjectStands(remote)',
           remote'.updating = remote.updating, remote'.loaded,
           \/ /\ file # Garbage /\ ListsHeld(file)' /\ file.updating = "absent"
              /\ \A a \in Asset : file.states[a] \in {"absent", "unmarked"}
              /\ file.version = server'
              /\ remote'.states = file.states /\ remote'.version = server'
              /\ incidents' = incidents
           \/ /\ file = Garbage /\ "spoiled" \in incidents' /\ ~ Sound'
              /\ server' = server /\ remote'.version \in Version
              /\ remote'.states = remote.states /\ remote'.version = remote.version
    PROVE  IInv'
<1> USE DEF manifests, downloads, disk, history
<1>0. /\ TypeOK /\ StackStands /\ Fetches /\ ManifestsStand
      /\ stack = <<>>
      /\ ManifestId \in transfers /\ VersionId \notin transfers
      /\ state = "DOWNLOADING_MANIFEST"
      /\ transfers' = transfers \ {ManifestId}
      /\ UNCHANGED <<local, temp, alias, units, unitsVersion, failed, queue, wait, curr, unzip,
                     storage, cached, touched, freed>>
  BY DEF IInv, ManifestLoaded, Fetches, Enter
<1>1. remote \in ManifestObject /\ remote # Null /\ remote' # Null
  BY <1>0, RemoteStands, Sentinels
<1>2. server \in Version /\ server' \in Version /\ server <= server'
  BY <1>0, ContentAssumption DEF Answers, TypeOK, Version
<1>3. /\ local.version \in Version /\ remote'.version \in Version
      /\ remote'.version <= server'
      /\ file = Garbage => local.version < remote'.version
  <2>1. local.version \in Version
    BY <1>0 DEF ManifestsStand, ViewStands
  <2>2. CASE file # Garbage
    BY <1>2, <2>1, <2>2 DEF Version
  <2>3. CASE file = Garbage
    <3>1. remote.version # 0
      BY <2>3 DEF Version
    <3>2. remote.version <= server /\ local.version < remote.version
      BY <1>0, <1>1, <3>1 DEF ManifestsStand
    <3> QED  BY <2>1, <2>3, <3>2
  <2> QED  BY <2>1, <2>2, <2>3
<1>4. /\ \A a \in Asset : remote.states[a] \in {"absent", "unmarked"}
            => remote'.states[a] \in {"absent", "unmarked"}
      /\ Marked(remote) \/ file # Garbage => Marked(remote')
  BY DEF Marked
<1>5. Place = "idle" /\ Erring = {} /\ Failing = {} /\ ~ Merging /\ ~ Succeeding
  BY <1>0, AtRestFacts
<1>6. \/ /\ state' = "UP_TO_DATE" /\ entry' = "NONE" /\ stack' = <<>>
         /\ local.version >= server' /\ incidents' = incidents
         /\ tempFiles' = NoFiles /\ tempFile' = NoFile /\ tempRenamed' = NoFile
      \/ /\ state' = "NEED_UPDATE" /\ entry' \in Entry
         /\ local.version < remote'.version
         /\ stack' = Notify(<<Frame("manifestFound")>>)
         /\ tempFile' = file
         /\ UNCHANGED <<tempFiles, tempRenamed>>
  <2>1. CASE state' = "UP_TO_DATE"
    <3>1. /\ entry' = "NONE" /\ stack' = <<>> /\ local.version >= remote'.version
          /\ tempFiles' = NoFiles /\ tempFile' = NoFile /\ tempRenamed' = NoFile
      BY <2>1 DEF ManifestLoaded, VersionGreaterOrEquals, RemoveTempStorage, Enter
    <3>2. file # Garbage
      BY <1>3, <3>1 DEF Version
    <3> QED  BY <2>1, <3>1, <3>2
  <2>2. CASE state' = "NEED_UPDATE"
    <3>1. local.version < remote'.version
      BY <1>3, <2>2 DEF ManifestLoaded, VersionGreaterOrEquals, Version
    <3> QED  BY <1>0, <2>2, <3>1 DEF ManifestLoaded, Enter, TypeOK, Entry
  <2> QED  BY <2>1, <2>2 DEF ManifestLoaded
<1>7. stack' \in Seq(FrameType) /\ Place' = "idle" /\ Erring' = {} /\ Failing' = {}
  <2>1. CASE stack' = <<>>
    BY <2>1, StackEmpty
  <2>2. CASE stack' = Notify(<<Frame("manifestFound")>>)
    <3>1. <<Frame("manifestFound")>> \in Seq(FrameType) /\ Only(<<Frame("manifestFound")>>, IdleFn)
      <4>1. Frame("manifestFound") \in FrameType /\ Frame("manifestFound").fn \in IdleFn
        BY FrameTypes DEF Function, IdleFn
      <4>2. <<>> \in Seq(FrameType) /\ Only(<<>>, IdleFn)
        BY DEF Only
      <4> QED  BY <4>1, <4>2, FrontFrame, OnlyFront, FrontOfNone
    <3>2. stack' \in Seq(FrameType) /\ Only(stack', IdleFn)
      BY <2>2, <3>1, NotifyOnly DEF IdleFn
    <3> QED  BY <3>2, StackIdle
  <2> QED  BY <1>6, <2>1, <2>2
<1>8. Outstanding' = Outstanding /\ VersionId \notin transfers' /\ ManifestId \notin transfers'
  BY <1>0, IdAssumption DEF Outstanding
<1>9. TypeOK'
  <2>1. tempFiles' \in [Asset -> Nat \cup {Bad}]
    BY <1>0, <1>6 DEF TypeOK, NoFiles
  <2>2. tempFile' \in ManifestFile \cup {NoFile, Garbage}
    BY <1>6
  <2> QED  BY <1>0, <1>2, <1>6, <1>7, <2>1, <2>2 DEF TypeOK, State, Entry, FrameType
<1>10. StackStands'
  BY <1>4, <1>6, <1>7 DEF StackStands
<1>11. Fetches'
  BY <1>8 DEF Fetches
<1>12. NoFile \notin ManifestFile
  BY Sentinels
<1>13. ManifestsStand'
  <2>1. Garbage \notin ManifestFile
    BY Sentinels
  <2>2. /\ ViewStands(local)' /\ ViewStands(cached)'
        /\ tempFile' \in ManifestFile => ListsHeld(tempFile)'
        /\ tempRenamed' \in ManifestFile => ListsHeld(tempRenamed)'
        /\ temp' # Null => ObjectStands(temp)'
    BY <1>0, <1>6, <1>12, <2>1, StandsStay DEF ManifestsStand
  <2>3. /\ remote' # Null => ObjectStands(remote)'
        /\ remote' = Null => FALSE
        /\ alias' => temp' = Null /\ remote'.updating
        /\ ~ Underway' /\ ~ Merging' /\ ~ Succeeding'
    BY <1>0, <1>1, <1>5, <1>6, <1>7 DEF ManifestsStand, Underway, Merging, Succeeding
  <2>4. ~ alias' => \A a \in Asset : remote'.states[a] \in {"absent", "unmarked"}
    BY <1>0, <1>1, <1>4 DEF ManifestsStand
  <2> QED  BY <1>0, <1>1, <1>3, <1>6, <2>2, <2>3, <2>4 DEF ManifestsStand
<1>14. Counting'
  BY <1>0, <1>5, <1>6, <1>7, <1>8 DEF IInv, Counting, Quiet
<1>15. Wanting'
  BY <1>6 DEF Wanting, Underway
<1>16. Saved'
  <2>1. Garbage \notin ManifestFile /\ NoFile # Garbage
    BY Sentinels
  <2> QED  BY <1>0, <1>5, <1>6, <1>7, <1>12, <2>1
           DEF IInv, Saved, Underway, UpdateFound, Merging
<1>17. Downloaded'
  <2>1. Garbage \notin ManifestFile
    BY Sentinels
  <2>2. CASE state' = "UP_TO_DATE"
    BY <1>0, <1>6, <1>12, <2>2 DEF IInv, Downloaded
  <2>3. CASE state' = "NEED_UPDATE"
    <3>1. /\ UNCHANGED <<tempFiles, temp, alias>> /\ state # "UP_TO_DATE" /\ ~ Merging
          /\ tempFile' = file
      BY <1>0, <1>5, <1>6, <2>3
    <3>2. \A m : Marked(m)' = Marked(m)
      BY <3>1 DEF Marked
    <3>3. Marked(Temp)' \/ Temp' = Null
      BY <1>1, <1>4, <3>1, <3>2 DEF IInv, Downloaded, Temp
    <3>4. tempFile' \in ManifestFile => Marked(tempFile)'
      BY <2>1, <3>1, <3>2 DEF Marked
    <3> QED  BY <3>1, <3>3, <3>4 DEF IInv, Downloaded
  <2> QED  BY <1>6, <2>2, <2>3
<1>18. Stored'
  <2>1. ASSUME Sound'
        PROVE  /\ Sound /\ file # Garbage /\ Keeps(cached.version)'
               /\ touched' # {} => cached'.version < server'
               /\ state' = "UP_TO_DATE" => Complete(local.version)'
    <3>1. Sound /\ file # Garbage
      BY <2>1 DEF Sound
    <3> QED  BY <1>0, <1>5, <1>6, <3>1, AnswersKeep
  <2>2. \A a \in Asset : NoFiles[a] = 0
    BY DEF NoFiles
  <2>3. ~ Underway' /\ ~ Merging' /\ ~ Succeeding'
    BY <1>6, <1>7 DEF Underway, Merging, Succeeding
  <2> QED  BY <1>0, <1>5, <1>6, <1>7, <1>12, <2>1, <2>2, <2>3
           DEF IInv, Stored, Merging, PartOf, Found
<1>19. ManifestAlive'
  BY <1>0 DEF IInv, ManifestAlive
<1> QED  BY <1>9, <1>10, <1>11, <1>13, <1>14, <1>15, <1>16, <1>17, <1>18, <1>19 DEF IInv

LEMMA ManifestSuccessKeeps ==
    ASSUME IInv, ManifestSuccess
    PROVE  IInv'
<1>0. /\ TypeOK /\ Fetches
      /\ ManifestId \in transfers /\ Answers /\ UNCHANGED incidents
      /\ remote' = ParseFile(remote, Published(server'))
      /\ ManifestLoaded(Published(server'))
  BY DEF IInv, ManifestSuccess
<1>1. state # "UP_TO_DATE"
  BY <1>0 DEF Fetches
<1>2. remote \in ManifestObject
  BY <1>1, RemoteStands
<1>3. server' \in Version
  BY <1>0, ContentAssumption DEF Answers, TypeOK, Version
<1>4. PICK f \in ManifestFile : f = Published(server')
  BY <1>3, PublishedFacts
<1>5. /\ ListsHeld(f) /\ f.version = server' /\ f.updating = "absent" /\ f # Garbage
      /\ \A a \in Asset : f.states[a] \in {"absent", "unmarked"}
  BY <1>3, <1>4, PublishedFacts, Sentinels
<1>6. ListsHeld(f)'
  BY <1>0, <1>5, StandsStay
<1>7. /\ remote' \in ManifestObject /\ ObjectStands(remote')
      /\ remote'.loaded /\ remote'.updating = Flagged(f.updating, remote.updating)
      /\ remote'.states = f.states /\ remote'.version = f.version
  BY <1>0, <1>2, <1>4, <1>5, ParseFileFacts
<1>8. remote'.updating = remote.updating
  BY <1>5, <1>7 DEF Flagged
<1>9. ObjectStands(remote)'
  BY <1>0, <1>7, StandsStay
<1>10. ManifestLoaded(f) /\ incidents \subseteq incidents' /\ incidents' \subseteq Incident
  BY <1>0, <1>4 DEF TypeOK
<1> QED  BY <1>0, <1>5, <1>6, <1>7, <1>8, <1>9, <1>10, ManifestLoadedKeeps

LEMMA ManifestEmptyKeeps ==
    ASSUME IInv, ManifestEmpty
    PROVE  IInv'
<1>0. /\ TypeOK /\ Fetches /\ server \in Version
      /\ ManifestId \in transfers /\ server' = server
      /\ remote.version # 0 /\ remote' = Reload(remote, TRUE)
      /\ incidents' = incidents \cup {"emptied", "spoiled"}
      /\ ManifestLoaded(Garbage)
  BY DEF IInv, ManifestEmpty, TypeOK
<1>1. state # "UP_TO_DATE"
  BY <1>0 DEF Fetches
<1>2. remote \in ManifestObject /\ ObjectStands(remote)
  BY <1>1, RemoteStands
<1>3. Answers
  BY <1>0, ContentAssumption DEF Answers, Version
<1>4. /\ incidents \subseteq incidents' /\ incidents' \subseteq Incident
      /\ "spoiled" \in incidents' /\ ~ Sound' /\ ~ Full'
  BY <1>0 DEF TypeOK, Incident, Sound, Full
<1>5. /\ remote' \in ManifestObject /\ remote'.updating = remote.updating
      /\ remote'.loaded /\ remote'.states = remote.states
      /\ remote'.version = remote.version
      /\ ListsHeld(remote) => ObjectStands(remote')
  BY <1>0, <1>2, ReloadFacts
<1>6. remote'.version \in Version
  <2>1. remote.version \in 0..MaxVersion
    BY <1>2 DEF ManifestObject
  <2>2. remote.version # 0 /\ remote'.version = remote.version
    BY <1>0, <1>5
  <2> QED  BY <2>1, <2>2, ContentAssumption DEF Version
<1>7. ObjectStands(remote)'
  <2>1. remote'.flag # "absent" => (remote'.updating <=> remote'.flag = "true")
    <3>1. remote' = [remote EXCEPT !.loaded = TRUE,
                                   !.updating = Flagged(remote.flag, remote.updating)]
      BY <1>0 DEF Reload
    <3>2. remote'.flag = remote.flag
      BY <1>2, <3>1 DEF ManifestObject
    <3> QED  BY <1>2, <1>5, <3>2 DEF ObjectStands
  <2> QED  BY <1>4, <1>6, <2>1 DEF ObjectStands, ListsHeld
<1> QED  BY <1>0, <1>3, <1>4, <1>5, <1>6, <1>7, ManifestLoadedKeeps

LEMMA ManifestErrorKeeps ==
    ASSUME IInv, ManifestError
    PROVE  IInv'
<1> USE DEF manifests, downloads, disk, history
<1>0. /\ TypeOK /\ StackStands /\ Fetches /\ ManifestsStand
      /\ stack = <<>>
      /\ ManifestId \in transfers /\ VersionId \notin transfers
      /\ state = "DOWNLOADING_MANIFEST" /\ entry' = "NONE"
      /\ transfers' = transfers \ {ManifestId}
      /\ tempFile' \in {tempFile, Garbage}
      /\ incidents' = IF tempFile' = Garbage THEN incidents \cup {"spoiled"} ELSE incidents
      /\ stack' = Notify(<<Frame("manifestFailed")>>)
      /\ UNCHANGED <<state, local, remote, temp, alias, units, unitsVersion, failed, queue, wait,
                     curr, unzip, storage, cached, tempFiles, tempRenamed, server, touched, freed>>
  BY DEF IInv, ManifestError, Fetches, Enter
<1>1. remote \in ManifestObject /\ ObjectStands(remote) /\ remote # Null
  BY <1>0, RemoteStands
<1>2. Place = "idle" /\ Erring = {} /\ Failing = {} /\ ~ Merging /\ ~ Succeeding
  BY <1>0, AtRestFacts
<1>3. stack' \in Over(Frame("manifestFailed")) /\ stack' \in Seq(FrameType) /\ Place' = "other"
  BY <1>0, NotifyOne, PlaceOther, FrameTypes DEF Place, Function
<1>4. Outstanding' = Outstanding /\ VersionId \notin transfers' /\ ManifestId \notin transfers'
  BY <1>0, IdAssumption DEF Outstanding
<1>5. /\ Temp' = Temp /\ Wanted' = Wanted /\ Sound' = Sound /\ (Full' => Full)
      /\ incidents \subseteq incidents'
      /\ \A m : Marked(m)' = Marked(m)
  BY <1>0 DEF Temp, Wanted, GenResumeAssetsList, Listed, Sound, Full, Marked
<1>6. Garbage \notin ManifestFile /\ NoFile # Garbage
  BY Sentinels
<1>7. TypeOK'
  BY <1>0, <1>3 DEF TypeOK, Entry, Incident, FrameType
<1>8. StackStands'
  BY <1>0, <1>3 DEF StackStands
<1>9. Fetches'
  BY <1>4 DEF Fetches
<1>10. ManifestsStand'
  BY <1>0, <1>1, <1>2, <1>3, <1>5, <1>6, StandsStay
     DEF ManifestsStand, Underway, Merging, Succeeding
<1>11. Counting'
  BY <1>0, <1>2, <1>3, <1>4 DEF IInv, Counting, Quiet
<1>12. Wanting'
  BY <1>0, <1>5 DEF IInv, Wanting, Underway
<1>13. Saved'
  BY <1>0, <1>1, <1>2, <1>3, <1>5, <1>6 DEF IInv, Saved, Underway, UpdateFound, Merging
<1>14. Downloaded'
  BY <1>0, <1>1, <1>2, <1>3, <1>5, <1>6 DEF IInv, Downloaded, Merging
<1>15. Stored'
  BY <1>0, <1>2, <1>3, <1>5, <1>6
     DEF IInv, Stored, Underway, Merging, Succeeding, PartOf, Keeps, Found, Holds
<1>16. ManifestAlive'
  BY <1>0 DEF IInv, ManifestAlive
<1> QED  BY <1>7, <1>8, <1>9, <1>10, <1>11, <1>12, <1>13, <1>14, <1>15, <1>16 DEF IInv

(* downloadFailedAssets() takes up what a failed update remembers.         *)
LEMMA DownloadFailedAssetsKeeps ==
    ASSUME IInv, DownloadFailedAssets
    PROVE  IInv'
<1> USE DEF manifests, downloads, disk, history
<1>0. /\ TypeOK /\ StackStands /\ Fetches /\ ManifestsStand
      /\ stack = <<>>
      /\ state = "FAIL_TO_UPDATE" /\ remote.loaded /\ state' = "UPDATING"
      /\ stack' = <<Frame(IF failed # {} THEN "batchDownload" ELSE "finished")>> \o stack
      /\ units' = failed /\ wait' = Cardinality(failed)
      /\ UNCHANGED <<entry, local, remote, temp, alias, unitsVersion, failed, queue, curr,
                     transfers, unzip, storage, cached, tempFiles, tempFile, tempRenamed, server,
                     incidents, touched, freed>>
  BY DEF IInv, DownloadFailedAssets, Call, StackStands
<1>1. remote \in ManifestObject /\ ObjectStands(remote) /\ remote # Null
  BY <1>0, RemoteStands
<1>2. Place = "idle" /\ Erring = {} /\ Failing = {} /\ ~ Merging /\ ~ Succeeding
  BY <1>0, AtRestFacts
<1>3. /\ stack' \in Seq(FrameType) /\ Erring' = {} /\ Failing' = {}
      /\ failed # {} => Place' = "batchDownload" /\ stack' = <<Frame("batchDownload")>>
      /\ failed = {} => Place' = "finished" /\ Only(Tail(stack'), IdleFn)
  <2>1. <<>> \in Seq(FrameType) /\ Only(<<>>, IdleFn)
    BY DEF Only
  <2>2. CASE failed # {}
    <3> DEFINE f == Frame("batchDownload")
    <3>1. f \in FrameType
      BY FrameTypes DEF Function
    <3>2. stack' = <<f>> \o <<>>
      BY <1>0, <2>2
    <3>3. stack' = <<f>> /\ stack' \in Seq(FrameType)
      BY <3>1, <3>2, <2>1, FrontOfNone, FrontFrame
    <3>4. Place' = "batchDownload" /\ Erring' = {} /\ Failing' = {}
      BY <2>1, <3>2, PlaceBatch DEF Place, Erring, Failing
    <3> QED  BY <2>2, <3>3, <3>4
  <2>3. CASE failed = {}
    <3> DEFINE f == Frame("finished")
    <3>1. f \in FrameType /\ f.fn = "finished"
      BY FrameTypes DEF Function
    <3>2. stack' = <<f>> \o <<>>
      BY <1>0, <2>3
    <3>3. stack' \in Seq(FrameType) /\ stack' # <<>> /\ Head(stack') = f /\ Tail(stack') = <<>>
      BY <3>1, <3>2, <2>1, FrontFrame
    <3>4. Place' = "finished" /\ Erring' = {} /\ Failing' = {}
      BY <3>1, <3>3, PlaceWork DEF Place, Erring, Failing, WorkFn
    <3> QED  BY <2>1, <2>3, <3>3, <3>4
  <2> QED  BY <2>2, <2>3
<1>4. Temp' = Temp /\ Wanted' = Wanted /\ Sound' = Sound /\ Outstanding' = Outstanding
  BY <1>0 DEF Temp, Wanted, GenResumeAssetsList, Listed, Sound, Outstanding
<1>5. Underway /\ Underway' /\ Wanted = failed /\ Quiet /\ Quiet'
  BY <1>0, <1>4 DEF IInv, Underway, Wanting, Counting, Quiet
<1>6. /\ failed \subseteq Asset /\ IsFiniteSet(failed)
      /\ Cardinality(failed) \in Nat /\ Cardinality({}) = 0
  BY <1>0, AssetsFinite, FS_EmptySet DEF TypeOK
<1>7. TypeOK'
  BY <1>0, <1>3, <1>6 DEF TypeOK, State, FrameType
<1>8. StackStands'
  BY <1>0, <1>3 DEF StackStands, AtWork
<1>9. Fetches'
  BY <1>0 DEF Fetches
<1>10. ManifestsStand'
  BY <1>0, <1>1, <1>2, <1>3, <1>4, <1>5, StandsStay DEF ManifestsStand, Merging, Succeeding
<1>11. Counting'
  <2>1. Apart' /\ Pending' = {}
    BY <1>3, <1>5 DEF Quiet, Apart, Pending
  <2>2. CASE failed # {}
    BY <1>0, <1>3, <1>5, <2>2 DEF IInv, Counting
  <2>3. CASE failed = {}
    <3>1. wait' = 0 /\ Place' = "finished"
      BY <1>0, <1>3, <1>6, <2>3
    <3>2. /\ Cardinality(queue') = 0 /\ Cardinality(Outstanding') = 0 /\ Cardinality(unzip') = 0
          /\ Cardinality(Erring') = 0 /\ curr' = 0 /\ curr' <= MaxConcurrent
      BY <1>0, <1>3, <1>5, <1>6 DEF IInv, Counting, Quiet
    <3> QED  BY <1>0, <1>5, <2>1, <3>1, <3>2 DEF Counting
  <2> QED  BY <2>2, <2>3
<1>12. Wanting'
  BY <1>0, <1>3, <1>4, <1>5 DEF Wanting, Quiet, Pending
<1>13. Saved'
  BY <1>0, <1>2, <1>3, <1>4, <1>5 DEF IInv, Saved, UpdateFound, Merging
<1>14. Downloaded'
  BY <1>0, <1>2, <1>3, <1>4 DEF IInv, Downloaded, Merging, Marked
<1>15. Stored'
  BY <1>0, <1>2, <1>3, <1>4, <1>5
     DEF IInv, Stored, Merging, Succeeding, PartOf, Keeps, Found, Holds
<1>16. ManifestAlive'
  BY <1>0 DEF IInv, ManifestAlive
<1> QED  BY <1>7, <1>8, <1>9, <1>10, <1>11, <1>12, <1>13, <1>14, <1>15, <1>16 DEF IInv
-----------------------------------------------------------------------------
(* prepareUpdate() runs: what stands then.                                 *)
LEMMA PrepareFacts ==
    ASSUME IInv, Runs("prepareUpdate")
    PROVE  /\ state = "NEED_UPDATE" /\ Place = "prepareUpdate" /\ ~ Merging /\ ~ Succeeding
           /\ Erring = {} /\ Failing = {} /\ Quiet
           /\ remote \in ManifestObject /\ ObjectStands(remote) /\ remote # Null /\ remote.loaded
           /\ ListsHeld(remote) /\ remote.version <= server /\ local.version < remote.version
           /\ cached = local /\ ViewStands(local)
           /\ stack \in Seq(FrameType) /\ stack # <<>>
           /\ Tail(stack) \in Seq(FrameType) /\ Only(Tail(stack), IdleFn)
<1>1. /\ TypeOK /\ StackStands /\ stack \in Seq(FrameType) /\ stack # <<>>
      /\ Place = "prepareUpdate"
  BY HeadTells DEF IInv, WorkFn, Runs
<1>2. state = "NEED_UPDATE" /\ remote.loaded /\ Only(Tail(stack), IdleFn)
  BY <1>1, PlaceState DEF WorkFn
<1>3. remote \in ManifestObject /\ ObjectStands(remote) /\ remote # Null
  BY <1>2, RemoteStands
<1>4. Erring = {} /\ Failing = {}
  BY <1>1, NoFileAhead DEF Place, Erring, Failing
<1>5. Quiet
  BY <1>2 DEF IInv, Counting
<1>6. cached = local
  BY <1>1, <1>2 DEF IInv, Saved, Merging
<1>7. ListsHeld(remote) /\ ViewStands(local)
  BY <1>2, <1>3 DEF IInv, ManifestsStand, ObjectStands
<1>8. remote.version <= server /\ local.version < remote.version
  <2>1. remote.version # 0
    BY <1>7 DEF ListsHeld, Version
  <2> QED  BY <1>2, <1>3, <2>1 DEF IInv, ManifestsStand
<1> QED  BY <1>1, <1>2, <1>3, <1>4, <1>5, <1>6, <1>7, <1>8, TailType DEF Merging, Succeeding

(* An update is resumed: what the saved manifest still wants is downloaded *)
LEMMA PrepareResumeKeeps ==
    ASSUME IInv, PrepareResume
    PROVE  IInv'
<1> USE DEF manifests, downloads, disk, history
<1>0. /\ TypeOK /\ Fetches /\ ManifestsStand
      /\ Temp # Null /\ Temp.loaded /\ Temp.updating /\ Temp.version = remote.version
      /\ tempFile' = SavedFile(Temp)
      /\ failed' = {} /\ units' = Wanted /\ wait' = Cardinality(units')
      /\ unitsVersion' = Temp.version /\ state' = "READY_TO_UPDATE"
      /\ incidents' = IF alias THEN incidents \cup {"selfResumed"} ELSE incidents
      /\ UNCHANGED <<entry, local, remote, temp, alias, queue, curr, transfers, unzip, storage,
                     cached, tempFiles, tempRenamed, server, touched, freed>>
  BY DEF IInv, PrepareResume, Resumable, VersionEquals, Wanted
<1>1. /\ state = "NEED_UPDATE" /\ Place = "prepareUpdate" /\ ~ Merging /\ ~ Succeeding
      /\ Quiet /\ cached = local
      /\ remote \in ManifestObject /\ ObjectStands(remote) /\ remote # Null /\ remote.loaded
      /\ stack \in Seq(FrameType) /\ stack # <<>> /\ Only(Tail(stack), IdleFn)
  BY PrepareFacts DEF PrepareResume
<1>2. /\ stack' \in Seq(FrameType) /\ Place' = "idle" /\ Erring' = {} /\ Failing' = {}
      /\ Only(stack', IdleFn)
  BY <1>1, LeaveIdle DEF PrepareResume
<1>3. Temp \in ManifestObject /\ ObjectStands(Temp)
  BY <1>0, <1>1 DEF TypeOK, ManifestsStand, Temp
<1>4. /\ tempFile' \in ManifestFile /\ ListsHeld(tempFile')
      /\ tempFile'.version = Temp.version /\ tempFile'.states = Temp.states
      /\ tempFile'.updating = Temp.flag
  BY <1>0, <1>3, SavedFileFacts
<1>5. /\ Temp' = Temp /\ Wanted' = Wanted /\ Quiet' = Quiet /\ Outstanding' = Outstanding
      /\ \A m : Marked(m)' = Marked(m) /\ PartOf(m)' = PartOf(m)
      /\ \A v : Keeps(v)' = Keeps(v)
  BY <1>0
     DEF Temp, Wanted, GenResumeAssetsList, Listed, Quiet, Outstanding, Marked, PartOf, Keeps,
         Found, Holds
<1>6. Wanted \subseteq Asset /\ Cardinality(Wanted) \in Nat
  <2>1. Wanted \subseteq Asset
    BY DEF Wanted, GenResumeAssetsList, Listed
  <2> QED  BY <2>1, AssetsFinite
<1>7. TypeOK'
  BY <1>0, <1>2, <1>3, <1>4, <1>6 DEF TypeOK, State, Incident, FrameType, ManifestObject
<1>8. StackStands'
  BY <1>0, <1>2 DEF StackStands
<1>9. Fetches'
  BY <1>0, <1>1 DEF Fetches
<1>10. ManifestsStand'
  BY <1>0, <1>1, <1>2, <1>4, <1>5, StandsStay DEF ManifestsStand, Underway, Merging, Succeeding
<1>11. Counting'
  BY <1>0, <1>1, <1>2, <1>5 DEF IInv, Counting
<1>12. Wanting'
  BY <1>0, <1>5 DEF Wanting, Underway
<1>13. Saved'
  BY <1>0, <1>1, <1>2, <1>4, <1>5, Sentinels DEF Saved, SavedAs, UpdateFound, Merging
<1>14. Downloaded'
  <2>1. Marked(Temp)
    BY <1>0, <1>1 DEF IInv, Downloaded
  <2>2. Marked(tempFile)'
    BY <1>0, <1>4, <2>1 DEF Marked
  <2> QED  BY <1>0, <1>2, <1>5, <2>1, <2>2 DEF IInv, Downloaded, Merging
<1>15. Stored'
  <2> SUFFICES ASSUME Sound' PROVE Stored'
    BY DEF Stored
  <2>1. ~ alias /\ Sound
    <3>1. "selfResumed" \notin incidents'
      BY DEF Sound
    <3> QED  BY <1>0, <3>1 DEF Sound
  <2>2. PartOf(temp) /\ Keeps(cached.version) /\ (touched # {} => cached.version < server)
    BY <1>0, <1>1, <2>1 DEF IInv, Stored, Temp
  <2>3. PartOf(tempFile)'
    BY <1>0, <1>4, <2>1, <2>2 DEF PartOf, Found, Temp
  <2> QED  BY <1>0, <1>2, <1>5, <2>1, <2>2, <2>3 DEF Stored, Merging, Succeeding
<1>16. ManifestAlive'
  BY <1>0 DEF IInv, ManifestAlive
<1> QED  BY <1>7, <1>8, <1>9, <1>10, <1>11, <1>12, <1>13, <1>14, <1>15, <1>16 DEF IInv

(* The difference to the new version.  What the two versions have in       *)
(* common is found, unless it was touched.                                 *)
LEMMA DifferenceFacts ==
    ASSUME IInv, Runs("prepareUpdate"),
           NEW deleted, deleted = Deleted(local, ViewOf(remote)),
           NEW changed, changed = Changed(local, ViewOf(remote))
    PROVE  /\ deleted \subseteq Asset /\ changed \subseteq Listed(remote)
           /\ deleted \cap Listed(remote) = {}
           /\ \A a \in Listed(remote) \ changed :
                 Sound /\ a \notin touched => Found(a) = Content[remote.version][a]
<1>1. /\ state = "NEED_UPDATE" /\ ~ Merging
      /\ remote \in ManifestObject /\ ListsHeld(remote)
      /\ cached = local /\ ViewStands(local)
  BY PrepareFacts
<1>2. local.listed \subseteq Asset /\ Listed(remote) \subseteq Asset
  BY DEF IInv, TypeOK, View, Listed
<1>3. /\ ViewOf(remote).version = remote.version /\ ViewOf(remote).listed = Listed(remote)
  BY DEF ViewOf
<1>4. /\ deleted = local.listed \ Listed(remote)
      /\ changed = {a \in Listed(remote) :
            a \in local.listed => Content[local.version][a] # Content[remote.version][a]}
  BY <1>3 DEF Deleted, Changed
<1>5. ASSUME NEW a \in Listed(remote) \ changed, Sound, a \notin touched
      PROVE  Found(a) = Content[remote.version][a]
  <2>1. a \in local.listed /\ Content[local.version][a] = Content[remote.version][a]
    BY <1>4, <1>5
  <2>2. local.listed = Holds(local.version)
    BY <1>1, <1>5, SoundFull
  <2>3. Keeps(local.version)
    BY <1>1, <1>5 DEF IInv, Stored
  <2> QED  BY <1>5, <2>1, <2>2, <2>3 DEF Keeps
<1>6. /\ deleted \subseteq Asset /\ changed \subseteq Listed(remote)
      /\ deleted \cap Listed(remote) = {}
  BY <1>2, <1>4
<1> QED  BY <1>5, <1>6

(* A new update is prepared, or there is nothing to do but the manifest.   *)
LEMMA PrepareFreshKeeps ==
    ASSUME IInv, PrepareFresh
    PROVE  IInv'
<1> USE DEF manifests, downloads, disk, history
<1> DEFINE deleted == Deleted(local, ViewOf(remote))
           changed == Changed(local, ViewOf(remote))
           unstarted == SetAssetDownloadState(remote, changed, "unstarted")
           marked == SetUpdating(unstarted, TRUE)
<1>0. /\ TypeOK /\ Fetches /\ ManifestsStand /\ ~ Resumable
      /\ \/ Temp = Null /\ UNCHANGED <<tempFiles, tempRenamed>>
         \/ Temp # Null /\ tempFiles' = NoFiles /\ tempRenamed' = NoFile
      /\ freed' = (freed \/ alias) /\ alias' = TRUE /\ temp' = Null
      /\ failed' = {} /\ units' = changed /\ wait' = Cardinality(changed)
      /\ unitsVersion' = remote.version
      /\ storage' = [a \in Asset |-> IF a \in deleted THEN 0 ELSE storage[a]]
      /\ \/ /\ deleted \cup changed = {}
            /\ tempFile' = IF Temp = Null THEN tempFile ELSE SavedFile(remote)
            /\ Leave(<<Frame("updateSucceed")>>)
            /\ state' = state /\ remote' = remote
         \/ /\ deleted \cup changed # {}
            /\ remote' = marked /\ tempFile' = SavedFile(marked)
            /\ state' = "READY_TO_UPDATE"
            /\ Leave(<<>>)
      /\ touched' = touched \cup {a \in deleted : storage[a] # 0}
      /\ incidents' = IF touched \cap (Listed(remote) \ changed) # {}
                      THEN incidents \cup {"reverted"} ELSE incidents
      /\ UNCHANGED <<entry, local, queue, curr, transfers, unzip, cached, server>>
  BY DEF IInv, PrepareFresh
<1>1. /\ Runs("prepareUpdate")
      /\ state = "NEED_UPDATE" /\ Place = "prepareUpdate" /\ ~ Merging /\ ~ Succeeding
      /\ Quiet /\ cached = local /\ ViewStands(local)
      /\ remote \in ManifestObject /\ ObjectStands(remote) /\ remote # Null /\ remote.loaded
      /\ ListsHeld(remote) /\ remote.version <= server /\ local.version < remote.version
      /\ stack \in Seq(FrameType) /\ stack # <<>> /\ Only(Tail(stack), IdleFn)
  BY PrepareFacts DEF PrepareFresh
<1>2. ~ alias /\ \A a \in Asset : remote.states[a] \in {"absent", "unmarked"}
  <2>1. ASSUME alias PROVE Resumable
    BY <1>0, <1>1, <2>1 DEF ManifestsStand, Resumable, Temp, VersionEquals
  <2> QED  BY <1>0, <1>1, <2>1 DEF ManifestsStand
<1>3. /\ deleted \subseteq Asset /\ changed \subseteq Listed(remote)
      /\ deleted \cap Listed(remote) = {}
      /\ \A a \in Listed(remote) \ changed :
            Sound /\ a \notin touched => Found(a) = Content[remote.version][a]
  BY <1>1, DifferenceFacts
<1>4. changed \subseteq Asset /\ Cardinality(changed) \in Nat
  <2>1. changed \subseteq Asset
    BY <1>3 DEF Listed
  <2> QED  BY <2>1, AssetsFinite
<1>5. /\ marked \in ManifestObject /\ ObjectStands(marked) /\ marked.version = remote.version
      /\ marked.loaded /\ marked.updating /\ marked.flag = "true"
      /\ Listed(marked) = Listed(remote)
      /\ \A a \in Asset : marked.states[a] =
            IF a \in changed /\ a \in Listed(remote) THEN "unstarted" ELSE remote.states[a]
  <2>1. /\ unstarted \in ManifestObject /\ ObjectStands(unstarted)
        /\ unstarted.version = remote.version /\ unstarted.loaded
        /\ Listed(unstarted) = Listed(remote)
        /\ \A a \in Asset : unstarted.states[a] =
              IF a \in changed /\ a \in Listed(remote) THEN "unstarted" ELSE remote.states[a]
    <3> HIDE DEF changed
    <3> QED  BY <1>1, SetStateFacts
  <2> HIDE DEF unstarted, changed
  <2> QED  BY <2>1, SetUpdatingFacts
<1> HIDE DEF deleted, changed, unstarted, marked
<1>6. SavedFile(remote) \in ManifestFile /\ ListsHeld(SavedFile(remote))
      /\ SavedFile(remote).version = remote.version /\ SavedFile(remote).states = remote.states
  BY <1>1, SavedFileFacts
<1>7. SavedFile(marked) \in ManifestFile /\ ListsHeld(SavedFile(marked))
      /\ SavedFile(marked).version = marked.version /\ SavedFile(marked).states = marked.states
  BY <1>5, SavedFileFacts
<1>8. tempFiles' = NoFiles /\ \A a \in Asset : tempFiles'[a] = 0
  <2>1. Temp = Null => tempFiles = NoFiles
    BY <1>2 DEF IInv, Downloaded, Temp
  <2> QED  BY <1>0, <2>1 DEF NoFiles
<1>9. /\ tempFile # NoFile
      /\ tempFile = Garbage => "spoiled" \in incidents
      /\ tempFile \in ManifestFile => tempFile.version = remote.version
  BY <1>1 DEF IInv, Saved, UpdateFound
<1>10. /\ remote' \in ManifestObject /\ ObjectStands(remote') /\ remote' # Null /\ remote'.loaded
       /\ remote'.version = remote.version /\ ListsHeld(remote')
       /\ Listed(remote') = Listed(remote)
       /\ Temp' = remote'
  BY <1>0, <1>1, <1>5, Sentinels DEF Temp, ObjectStands
<1>11. /\ tempFile' \in ManifestFile \cup {Garbage} /\ tempFile' # NoFile
       /\ tempFile' = Garbage => "spoiled" \in incidents'
       /\ tempFile' \in ManifestFile =>
             /\ ListsHeld(tempFile') /\ tempFile'.version = remote.version
             /\ \A a \in Asset : tempFile'.states[a] = "successed" =>
                   tempFile' = tempFile /\ tempFiles' = tempFiles
  <2>1. CASE tempFile' = SavedFile(remote)
    BY <1>2, <1>6, <2>1, Sentinels
  <2>2. CASE tempFile' = SavedFile(marked)
    BY <1>2, <1>5, <1>7, <2>2, Sentinels
  <2>3. CASE tempFile' = tempFile /\ Temp = Null
    <3>1. tempFile \in ManifestFile \cup {NoFile, Garbage}
      BY <1>0 DEF TypeOK
    <3> QED  BY <1>0, <1>9, <2>3, <3>1 DEF ManifestsStand
  <2> QED  BY <1>0, <2>1, <2>2, <2>3
<1>12. storage' \in [Asset -> Nat \cup {Bad}] /\ tempFiles' \in [Asset -> Nat \cup {Bad}]
  BY <1>0, <1>8 DEF TypeOK, NoFiles
<1>13. \A a \in Asset : a \notin deleted \/ a \notin touched' => Found(a)' = Found(a)
  <2>1. \A a \in Asset : a \notin deleted \/ storage[a] = 0 => storage'[a] = storage[a]
    BY <1>0
  <2>2. \A a \in Asset : a \in deleted /\ storage[a] # 0 => a \in touched'
    BY <1>0
  <2> QED  BY <2>1, <2>2 DEF Found
<1>14. /\ touched \subseteq touched' /\ touched' \subseteq Asset
       /\ incidents \subseteq incidents' /\ incidents' \subseteq Incident
       /\ Sound' => Sound /\ touched \cap (Listed(remote) \ changed) = {}
       /\ cached'.version < server'
  <2>1. /\ touched \subseteq touched' /\ touched' \subseteq Asset
        /\ incidents \subseteq incidents' /\ incidents' \subseteq Incident
    BY <1>0, <1>3 DEF TypeOK, Incident
  <2>2. Sound' => Sound /\ touched \cap (Listed(remote) \ changed) = {}
    BY <1>0 DEF Sound
  <2>3. /\ local.version \in Int /\ remote.version \in Int /\ server \in Int
        /\ cached'.version = local.version /\ server' = server
    BY <1>0, <1>1, ContentAssumption DEF TypeOK, Version, ViewStands, ListsHeld
  <2> QED  BY <1>1, <2>1, <2>2, <2>3
<1>15. Sound' => Keeps(cached.version)'
  <2>1. ASSUME Sound' PROVE Keeps(cached.version)
    BY <1>1, <1>14, <2>1 DEF IInv, Stored
  <2> QED  BY <1>0, <1>13, <1>14, <2>1 DEF Keeps, Holds
<1>16. CASE deleted \cup changed = {}
  <2>1. /\ stack' \in Seq(FrameType) /\ stack' # <<>> /\ Tail(stack') = Tail(stack)
        /\ Place' = "updateSucceed" /\ Erring' = {} /\ Failing' = {}
    BY <1>0, <1>1, <1>16, LeaveWork DEF WorkFn
  <2>2. state' = "NEED_UPDATE" /\ remote' = remote /\ deleted = {} /\ changed = {}
    BY <1>0, <1>1, <1>16
  <2>3. TypeOK'
    BY <1>0, <1>4, <1>10, <1>11, <1>12, <1>14, <2>1, <2>2 DEF TypeOK, FrameType, ManifestObject
  <2>4. StackStands'
    BY <1>1, <2>1, <2>2 DEF StackStands, AtWork
  <2>5. Fetches' /\ Outstanding' = Outstanding
    BY <1>0, <1>1, <2>2 DEF Fetches, Outstanding
  <2>6. ManifestsStand'
    BY <1>0, <1>1, <1>2, <1>10, <1>11, <1>14, <2>1, <2>2, StandsStay, Sentinels
       DEF ManifestsStand, Underway, Merging, Succeeding
  <2>7. Counting'
    BY <1>0, <1>1, <2>1, <2>2, <2>5 DEF IInv, Counting, Quiet
  <2>8. Wanting'
    BY <2>2 DEF Wanting, Underway
  <2>9. Saved'
    BY <1>0, <1>1, <1>11, <2>1, <2>2 DEF Saved, Underway, UpdateFound, Merging
  <2>10. Downloaded'
    <3>1. Marked(Temp)'
      BY <1>2, <1>10, <2>2 DEF Marked
    <3>2. ASSUME tempFile' \in ManifestFile PROVE Marked(tempFile)'
      BY <1>9, <1>11, <3>2 DEF IInv, Downloaded, Marked
    <3> QED  BY <1>0, <3>1, <3>2 DEF Downloaded
  <2>11. Stored'
    <3> SUFFICES ASSUME Sound' PROVE Stored'
      BY DEF Stored
    <3>1. Sound /\ touched \cap Listed(remote) = {} /\ Listed(remote) = Holds(remote.version)
      BY <1>1, <1>14, <2>2, SoundFull
    <3>2. \A a \in Asset : Found(a)' = Found(a)
      BY <1>13, <2>2
    <3>3. \A a \in Listed(remote) : Found(a)' = Content[remote.version][a]
      BY <1>3, <2>2, <3>1, <3>2 DEF Listed
    <3>4. ToMerge(remote.version)'
      BY <1>8, <2>2, <3>1, <3>3 DEF ToMerge, Holds
    <3>5. ASSUME tempFile' \in ManifestFile PROVE PartOf(tempFile)'
      <4>1. Listed(tempFile') = Listed(remote)
        BY <1>11, <3>1, <3>5, SoundFull
      <4>2. \A a \in Asset : tempFile'.states[a] = "unmarked" => a \in Listed(remote)
        BY <4>1 DEF Listed
      <4> QED  BY <1>8, <1>11, <3>3, <3>5, <4>2 DEF PartOf
    <3> QED  BY <1>0, <1>14, <1>15, <2>1, <2>2, <3>4, <3>5 DEF Stored, Merging, Succeeding, Underway
  <2>12. ManifestAlive'
    BY <1>0, <1>2 DEF IInv, ManifestAlive
  <2> QED  BY <2>3, <2>4, <2>5, <2>6, <2>7, <2>8, <2>9, <2>10, <2>11, <2>12 DEF IInv
<1>17. CASE deleted \cup changed # {}
  <2>1. /\ stack' \in Seq(FrameType) /\ Place' = "idle" /\ Erring' = {} /\ Failing' = {}
        /\ Only(stack', IdleFn)
    BY <1>0, <1>1, <1>17, LeaveIdle
  <2>2. state' = "READY_TO_UPDATE" /\ remote' = marked /\ tempFile' = SavedFile(marked)
    BY <1>0, <1>17
  <2>3. TypeOK'
    BY <1>0, <1>4, <1>10, <1>11, <1>12, <1>14, <2>1, <2>2
       DEF TypeOK, State, FrameType, ManifestObject
  <2>4. StackStands'
    BY <2>1, <2>2 DEF StackStands
  <2>5. Fetches' /\ Outstanding' = Outstanding
    BY <1>0, <1>1 DEF Fetches, Outstanding
  <2>6. ManifestsStand'
    BY <1>0, <1>1, <1>5, <1>10, <1>11, <1>14, <2>1, <2>2, StandsStay, Sentinels
       DEF ManifestsStand, Underway, Merging, Succeeding
  <2>7. Counting'
    BY <1>0, <1>1, <2>1, <2>2, <2>5 DEF IInv, Counting, Quiet
  <2>8. Wanted' = changed
    <3>1. Wanted' = {a \in Listed(marked) : marked.states[a] \notin {"successed", "unmarked"}}
      BY <1>10, <2>2 DEF Wanted, GenResumeAssetsList
    <3>2. \A a \in Listed(remote) : a \in Asset /\ remote.states[a] = "unmarked"
      BY <1>2 DEF Listed
    <3> QED  BY <1>3, <1>5, <3>1, <3>2
  <2>9. Wanting'
    BY <1>0, <2>2, <2>8 DEF Wanting, Underway
  <2>10. Saved'
    BY <1>0, <1>1, <1>7, <1>10, <1>11, <2>1, <2>2, Sentinels
       DEF Saved, SavedAs, UpdateFound, Merging
  <2>11. Downloaded'
    <3>1. Marked(Temp)'
      BY <1>2, <1>5, <1>10, <2>2 DEF Marked
    <3>2. ASSUME tempFile' \in ManifestFile PROVE Marked(tempFile)'
      BY <1>9, <1>11, <3>2 DEF IInv, Downloaded, Marked
    <3> QED  BY <1>0, <3>1, <3>2 DEF Downloaded
  <2>12. Stored'
    <3> SUFFICES ASSUME Sound' PROVE Stored'
      BY DEF Stored
    <3>1. Sound /\ touched \cap (Listed(remote) \ changed) = {}
      BY <1>14
    <3>2. \A a \in Listed(remote) \ changed : Found(a)' = Content[remote.version][a]
      <4>1. \A a \in Listed(remote) \ changed : a \in Asset /\ a \notin deleted /\ a \notin touched
        BY <1>3, <3>1 DEF Listed
      <4> QED  BY <1>3, <1>13, <3>1, <4>1
    <3>3. \A a \in Asset : marked.states[a] = "unmarked" => a \in Listed(remote) \ changed
      BY <1>3, <1>5 DEF Listed
    <3>4. PartOf(remote)' /\ PartOf(tempFile)'
      BY <1>5, <1>7, <1>8, <2>2, <3>2, <3>3 DEF PartOf
    <3> QED  BY <1>0, <1>14, <1>15, <2>1, <2>2, <3>4 DEF Stored, Merging, Succeeding
  <2>13. ManifestAlive'
    BY <1>0, <1>2 DEF IInv, ManifestAlive
  <2> QED  BY <2>3, <2>4, <2>5, <2>6, <2>7, <2>9, <2>10, <2>11, <2>12, <2>13 DEF IInv
<1> QED  BY <1>16, <1>17
-----------------------------------------------------------------------------
(* The steps on downloads.                                                 *)
LEMMA MaxFacts ==
    ASSUME NEW m \in Int, NEW n \in Int
    PROVE  Max({m, n}) \in {m, n} /\ Max({m, n}) >= m /\ Max({m, n}) >= n
<1>1. \E x \in {m, n} : \A y \in {m, n} : x >= y
  OBVIOUS
<1> QED  BY <1>1 DEF Max

LEMMA MinFacts ==
    ASSUME NEW m \in Int, NEW n \in Int
    PROVE  Min({m, n}) \in {m, n} /\ Min({m, n}) <= m /\ Min({m, n}) <= n
<1>1. \E x \in {m, n} : \A y \in {m, n} : x =< y
  OBVIOUS
<1> QED  BY <1>1 DEF Min

(* Every asset is in one place.                                            *)
LEMMA SetsTyped ==
    ASSUME TypeOK
    PROVE  /\ queue \subseteq Asset /\ Outstanding \subseteq Asset /\ unzip \subseteq Asset
           /\ Erring \subseteq Asset
           /\ Cardinality(queue) \in Nat /\ Cardinality(Outstanding) \in Nat
           /\ Cardinality(unzip) \in Nat /\ Cardinality(Erring) \in Nat
           /\ Cardinality({}) = 0
           /\ curr \in Nat /\ wait \in Nat /\ MaxConcurrent \in Nat /\ MaxConcurrent > 0
<1>1. /\ queue \subseteq Asset /\ Outstanding \subseteq Asset /\ unzip \subseteq Asset
      /\ Erring \subseteq Asset
  BY DEF TypeOK, Outstanding, Erring, ErringIn
<1> QED  BY <1>1, AssetsFinite, FS_EmptySet, AssetsManagerAssumption DEF TypeOK

(* The states of assets change in the manifest that is downloaded.         *)
LEMMA TempStands ==
    ASSUME IInv, state = "UPDATING", ~ Merging
    PROVE  /\ Underway
           /\ Temp \in ManifestObject /\ ObjectStands(Temp) /\ Temp # Null
           /\ Temp.loaded /\ Temp.updating /\ Temp.version = remote.version
           /\ remote \in ManifestObject /\ ObjectStands(remote) /\ remote # Null /\ remote.loaded
           /\ unitsVersion = remote.version /\ remote.version \in Version
<1>1. /\ Underway /\ remote.loaded /\ Temp # Null /\ Temp.loaded /\ Temp.updating
      /\ Temp.version = remote.version /\ unitsVersion = remote.version
  BY DEF IInv, Underway, ManifestsStand
<1>2. remote \in ManifestObject /\ ObjectStands(remote) /\ remote # Null
  BY RemoteStands
<1>3. Temp \in ManifestObject /\ ObjectStands(Temp)
  BY <1>1, <1>2 DEF IInv, TypeOK, ManifestsStand, Temp
<1> QED  BY <1>1, <1>2, <1>3 DEF ObjectStands, ListsHeld

Retagged(A, s) ==
    /\ alias' = alias
    /\ Temp' \in ManifestObject /\ ObjectStands(Temp)' /\ Temp' # Null
    /\ Temp'.loaded /\ Temp'.updating /\ Temp'.version = remote'.version
    /\ Listed(Temp') = Listed(Temp)
    /\ \A a \in Asset :
          Temp'.states[a] = IF a \in A /\ a \in Listed(Temp) THEN s ELSE Temp.states[a]
    /\ remote' \in ManifestObject /\ ObjectStands(remote)' /\ remote' # Null
    /\ remote'.loaded /\ remote'.version = remote.version
    /\ remote'.updating = remote.updating
    /\ alias => Temp' = remote' /\ temp' = temp
    /\ ~ alias => Temp' = temp' /\ remote' = remote

(* A change of states in the temporary manifest is a Retagged one; without *)
(* assets it changes nothing.                                              *)
LEMMA SetTempFacts ==
    ASSUME IInv, state = "UPDATING", ~ Merging, UNCHANGED incidents,
           NEW A, NEW s \in {"unstarted", "downloading", "successed"}, SetTempState(A, s)
    PROVE  Retagged(A, s)
<1> DEFINE n == SetAssetDownloadState(Temp, A, s)
<1>1. /\ Temp \in ManifestObject /\ ObjectStands(Temp) /\ Temp # Null
      /\ Temp.loaded /\ Temp.updating /\ Temp.version = remote.version
      /\ remote \in ManifestObject /\ ObjectStands(remote) /\ remote # Null /\ remote.loaded
  BY TempStands
<1>2. /\ n \in ManifestObject /\ ObjectStands(n)
      /\ n.version = Temp.version /\ n.loaded = Temp.loaded /\ n.updating = Temp.updating
      /\ Listed(n) = Listed(Temp)
      /\ \A a \in Asset : n.states[a] = IF a \in A /\ a \in Listed(Temp) THEN s ELSE Temp.states[a]
  <2>1. PICK m : m = Temp
    OBVIOUS
  <2>2. /\ n = SetAssetDownloadState(m, A, s) /\ m \in ManifestObject /\ ObjectStands(m)
    BY <1>1, <2>1
  <2> HIDE DEF n
  <2> QED  BY <2>1, <2>2, SetStateFacts
<1>3. \/ alias /\ remote' = n /\ temp' = temp /\ alias' = alias
      \/ ~ alias /\ temp' = n /\ remote' = remote /\ alias' = alias
  BY DEF SetTempState, TempBecomes
<1> HIDE DEF n
<1>4. Temp' = n
  BY <1>3 DEF Temp
<1>5. ObjectStands(Temp)' /\ ObjectStands(remote)'
  <2>1. \A m, k : m = k => (ObjectStands(m) <=> ObjectStands(k))
    OBVIOUS
  <2>2. remote' = n \/ remote' = remote
    BY <1>3
  <2> QED  BY <1>1, <1>2, <1>4, <2>1, <2>2, StandsStay
<1> QED  BY <1>1, <1>2, <1>3, <1>4, <1>5, Sentinels DEF Temp, Retagged

LEMMA SameTempFacts ==
    ASSUME IInv, state = "UPDATING", ~ Merging, UNCHANGED incidents, UNCHANGED manifests, NEW s
    PROVE  Retagged({}, s)
<1>1. UNCHANGED <<remote, temp, alias>>
  BY DEF manifests
<1>2. Temp' = Temp
  BY <1>1 DEF Temp
<1>3. ObjectStands(Temp)' /\ ObjectStands(remote)'
  BY <1>1, <1>2, TempStands, StandsStay
<1> QED  BY <1>1, <1>2, <1>3, TempStands DEF Temp, Retagged

(* What the temporary manifest still wants may change its state, and its   *)
(* file; what it has not marked, or has as downloaded, stays as it is.     *)
LEMMA RetaggedKeeps ==
    ASSUME IInv, state = "UPDATING", state' = state,
           Place \notin {"merge", "updateSucceed"}, Place' \notin {"merge", "updateSucceed"},
           NEW A \in SUBSET Wanted, NEW s \in {"unstarted", "downloading", "successed"},
           Retagged(A, s),
           tempFile' \in {tempFile, SavedFile(Temp)'},
           \A a \in Asset \ Wanted : tempFiles'[a] = tempFiles[a],
           s = "successed" => \A a \in A : tempFiles'[a] = Content[unitsVersion][a],
           UNCHANGED <<local, unitsVersion, storage, cached, tempRenamed, server,
                       incidents, touched>>
    PROVE  /\ ManifestsStand' /\ Saved' /\ Downloaded' /\ Stored'
           /\ Wanted' = IF s = "successed" THEN Wanted \ A ELSE Wanted
           /\ tempFile' \in ManifestFile \cup {NoFile, Garbage}
<1>1. /\ Underway /\ ~ Merging /\ ~ Merging' /\ ~ Succeeding /\ ~ Succeeding'
      /\ Temp \in ManifestObject /\ ObjectStands(Temp) /\ Temp # Null
      /\ Temp.loaded /\ Temp.updating /\ Temp.version = remote.version
      /\ remote.loaded /\ unitsVersion = remote.version
      /\ remote # Null
  BY TempStands DEF Merging, Succeeding
<1>2. /\ \A a \in Wanted : a \in Asset /\ a \in Listed(Temp)
                            /\ Temp.states[a] \notin {"absent", "unmarked", "successed"}
      /\ \A a \in Asset : Temp.states[a] \notin {"absent", "unmarked", "successed"} => a \in Wanted
  BY DEF Wanted, GenResumeAssetsList, Listed
<1>3. /\ \A a \in Asset : Temp'.states[a] = IF a \in A THEN s ELSE Temp.states[a]
      /\ Temp' \in ManifestObject /\ Temp'.loaded /\ Temp'.updating
      /\ Temp'.version = remote.version /\ ObjectStands(Temp)' /\ Temp' # Null
      /\ Listed(Temp') = Listed(Temp)
  BY <1>2 DEF Retagged
<1>4. Wanted' = IF s = "successed" THEN Wanted \ A ELSE Wanted
  <2>1. Wanted' = {a \in Listed(Temp) : Temp'.states[a] \notin {"successed", "unmarked"}}
    BY <1>3 DEF Wanted, GenResumeAssetsList
  <2>2. Wanted = {a \in Listed(Temp) : Temp.states[a] \notin {"successed", "unmarked"}}
    BY DEF Wanted, GenResumeAssetsList
  <2>3. \A a \in Listed(Temp) : a \in Asset
    BY DEF Listed
  <2> QED  BY <1>2, <1>3, <2>1, <2>2, <2>3
<1>5. /\ SavedFile(Temp)' \in ManifestFile /\ ListsHeld(SavedFile(Temp))'
      /\ SavedFile(Temp)'.version = remote.version /\ SavedFile(Temp)'.states = Temp'.states
      /\ SavedFile(Temp)'.updating = Temp'.flag
  <2>1. PICK m : m = Temp'
    OBVIOUS
  <2>2. m \in ManifestObject /\ m.loaded /\ ObjectStands(m)
    BY <1>3, <2>1 DEF ObjectStands, ListsHeld, Listed, Holds, Full
  <2>3. SavedFile(Temp)' = SavedFile(m)
    BY <2>1 DEF SavedFile
  <2>4. SavedFile(m) \in ManifestFile /\ ListsHeld(SavedFile(m))
        /\ SavedFile(m).version = m.version /\ SavedFile(m).states = m.states
        /\ SavedFile(m).updating = m.flag
    BY <2>2, SavedFileFacts
  <2>5. ListsHeld(SavedFile(Temp))'
    BY <2>3, <2>4, StandsStay
  <2> QED  BY <1>3, <2>1, <2>3, <2>4, <2>5
<1>6. ManifestsStand /\ Saved /\ Downloaded /\ Stored /\ TypeOK
  BY DEF IInv
<1>7. tempFile' \in ManifestFile =>
         /\ ListsHeld(tempFile)' /\ SavedAs(tempFile, Temp)' /\ Marked(tempFile)'
         /\ Full => Listed(tempFile') = Listed(Temp)
  <2>1. CASE tempFile' = SavedFile(Temp)'
    <3>1. Listed(tempFile') = Listed(Temp')
      BY <1>5, <2>1 DEF Listed
    <3>2. Marked(tempFile)'
      BY <1>1, <1>2, <1>3, <1>5, <1>6, <2>1 DEF Marked, Downloaded
    <3> QED  BY <1>3, <1>5, <2>1, <3>1, <3>2 DEF SavedAs
  <2>2. CASE tempFile' = tempFile
    <3> SUFFICES ASSUME tempFile \in ManifestFile
                 PROVE  /\ ListsHeld(tempFile)' /\ SavedAs(tempFile, Temp)' /\ Marked(tempFile)'
                        /\ Full => Listed(tempFile') = Listed(Temp)
      BY <2>2
    <3>1. SavedAs(tempFile, Temp) /\ Marked(tempFile) /\ ListsHeld(tempFile)
      BY <1>1, <1>6 DEF Saved, Downloaded, ManifestsStand
    <3>2. Full => Listed(tempFile) = Listed(Temp)
      BY <1>1, <3>1 DEF ObjectStands, ListsHeld, SavedAs
    <3>3. SavedAs(tempFile, Temp)'
      BY <1>1, <1>2, <1>3, <2>2, <3>1 DEF SavedAs
    <3>4. Marked(tempFile)'
      BY <1>2, <2>2, <3>1 DEF Marked, SavedAs
    <3>5. ListsHeld(tempFile)'
      BY <2>2, <3>1, StandsStay
    <3> QED  BY <2>2, <3>2, <3>3, <3>4, <3>5
  <2> QED  BY <2>1, <2>2
<1>8. ManifestsStand'
  <2>1. /\ ViewStands(local)' /\ ViewStands(cached)'
        /\ tempRenamed' \in ManifestFile => ListsHeld(tempRenamed)'
    BY <1>6, StandsStay DEF ManifestsStand
  <2>2. /\ temp' # Null => ObjectStands(temp)'
        /\ alias' => temp' = Null /\ remote'.updating
        /\ ~ alias' => \A a \in Asset : remote'.states[a] \in {"absent", "unmarked"}
    BY <1>1, <1>3, <1>6, StandsStay DEF ManifestsStand, Retagged
  <2>3. remote'.version <= server' /\ local'.version < remote'.version
    <3>1. remote.version # 0
      BY TempStands, <1>1 DEF Version
    <3> QED  BY <1>1, <1>6, <3>1 DEF ManifestsStand, Retagged
  <2>4. /\ ObjectStands(remote)' /\ remote' # Null /\ remote'.loaded
        /\ remote'.version = remote.version
    BY DEF Retagged
  <2> QED  BY <1>1, <1>3, <1>7, <2>1, <2>2, <2>3, <2>4 DEF ManifestsStand, Underway
<1>9. Saved'
  <2>1. tempFile' # NoFile /\ (tempFile' = Garbage => "spoiled" \in incidents')
    BY <1>1, <1>5, <1>6, Sentinels DEF Saved
  <2>2. cached' = local'
    BY <1>1, <1>6 DEF Saved
  <2> QED  BY <1>1, <1>7, <2>1, <2>2 DEF Saved, UpdateFound
<1>10. Downloaded'
  <2>1. Marked(Temp)'
    BY <1>1, <1>2, <1>3, <1>6 DEF Marked, Downloaded
  <2>2. ~ (~ alias' /\ temp' = Null)
    BY <1>3 DEF Temp
  <2> QED  BY <1>1, <1>7, <2>1, <2>2 DEF Downloaded
<1>11. Stored'
  <2> SUFFICES ASSUME Sound' PROVE Stored'
    BY DEF Stored
  <2>1. Sound /\ Full
    BY DEF Sound, Full
  <2>2. PartOf(Temp)
    BY <1>1, <1>6, <2>1 DEF Stored, Temp
  <2>3. PartOf(Temp)'
    BY <1>1, <1>2, <1>3, <2>2 DEF PartOf, Found
  <2>4. tempFile' \in ManifestFile => PartOf(tempFile)'
    <3> SUFFICES ASSUME tempFile' \in ManifestFile PROVE PartOf(tempFile)'
      OBVIOUS
    <3>1. /\ tempFile'.version = Temp'.version
          /\ \A a \in Asset : tempFile'.states[a] = "unmarked" => Temp'.states[a] = "unmarked"
          /\ \A a \in Asset : tempFile'.states[a] = "absent" => Temp'.states[a] = "absent"
      BY <1>3, <1>7, <2>1 DEF SavedAs, Listed
    <3> QED  BY <2>3, <3>1 DEF PartOf
  <2>5. Keeps(cached.version)' /\ (touched' # {} => cached'.version < server')
    BY <1>1, <1>6, <2>1 DEF Stored, Keeps, Found, Holds
  <2> QED  BY <1>1, <2>3, <2>4, <2>5 DEF Stored, Temp
<1>12. tempFile' \in ManifestFile \cup {NoFile, Garbage}
  BY <1>5, <1>6 DEF TypeOK
<1> QED  BY <1>4, <1>8, <1>9, <1>10, <1>11, <1>12

LEMMA BatchDownloadKeeps ==
    ASSUME IInv, BatchDownload
    PROVE  IInv'
<1> USE DEF manifests, downloads, disk, history
<1>0. /\ TypeOK /\ StackStands /\ Fetches /\ stack \in Seq(FrameType)
      /\ Runs("batchDownload") /\ Leave(<<Frame("queueDownload")>>)
      /\ stack # <<>> /\ Head(stack).fn = "batchDownload"
      /\ queue' = units
      /\ UNCHANGED <<state, entry, local, remote, temp, alias, units, unitsVersion, failed, wait,
                     curr, transfers, unzip, storage, cached, tempFiles, tempFile, tempRenamed,
                     server, incidents, touched, freed>>
  BY HeadTells DEF IInv, BatchDownload, Runs
<1>1. Place = "batchDownload" /\ state = "UPDATING" /\ Only(Tail(stack), IdleFn)
  <2>1. Frame("listener").fn = "listener"
    BY FrameTypes DEF Function
  <2>2. \A g \in {"manifestFailed", "versionFound"} : stack \notin Over(Frame(g))
    BY <1>0, <2>1, OverParts, FrameTypes DEF Function
  <2>3. ~ Only(stack, {"listener", "parseFailed"}) /\ Place \in {"batchDownload", "other"}
    BY <1>0, OnlyTail, RunsBatch
  <2>4. state = "UPDATING" /\ Place = "batchDownload"
    BY <1>0, <2>2, <2>3 DEF StackStands, TypeOK, State, AtWork
  <2>5. BatchAhead(stack)
    BY <1>0, <2>4, PlaceTells DEF Place
  <2>6. AtBatch(stack)
    BY <1>0, <2>1, <2>5 DEF BatchAhead
  <2> QED  BY <2>4, <2>6 DEF AtBatch
<1>2. /\ stack' \in Seq(FrameType) /\ stack' # <<>> /\ Tail(stack') = Tail(stack)
      /\ Place' = "queueDownload" /\ Erring' = {} /\ Failing' = {}
  BY <1>0, LeaveWork DEF WorkFn
<1>3. failed # {} => Tail(stack) = <<>>
  <2>1. failed # {} => stack = <<Frame("batchDownload")>>
    BY <1>0, <1>1 DEF StackStands
  <2>2. Tail(<<Frame("batchDownload")>>) = <<>>
    OBVIOUS
  <2> QED  BY <2>1, <2>2
<1>4. /\ Temp' = Temp /\ Wanted' = Wanted /\ Sound' = Sound /\ Outstanding' = Outstanding
      /\ Underway' = Underway
  BY <1>0 DEF Temp, Wanted, GenResumeAssetsList, Listed, Sound, Outstanding, Underway, Merging
<1>5. Quiet /\ Underway /\ ~ Merging /\ ~ Succeeding /\ ~ Merging' /\ ~ Succeeding'
  BY <1>0, <1>1, <1>2 DEF IInv, Counting, Underway, Merging, Succeeding
<1>6. units \subseteq Asset /\ Cardinality(units) \in Nat /\ Cardinality({}) = 0
  BY <1>0, AssetsFinite, FS_EmptySet DEF TypeOK
<1>7. TypeOK'
  BY <1>0, <1>2, <1>6 DEF TypeOK, FrameType
<1>8. StackStands'
  BY <1>0, <1>1, <1>2, <1>3 DEF StackStands, AtWork
<1>9. Fetches'
  BY <1>0, <1>1 DEF Fetches
<1>10. ManifestsStand'
  BY <1>0, <1>4, <1>5, StandsStay DEF IInv, ManifestsStand, Underway
<1>11. Pending' = units /\ Apart'
  BY <1>0, <1>2, <1>4, <1>5 DEF Quiet, Pending, Apart
<1>12. Counting'
  <2>1. /\ Cardinality(queue') = Cardinality(units) /\ Cardinality(Outstanding') = 0
        /\ Cardinality(unzip') = 0 /\ Cardinality(Erring') = 0
        /\ curr' = 0 /\ wait' = Cardinality(units) /\ curr' <= MaxConcurrent
    BY <1>0, <1>1, <1>2, <1>4, <1>5, <1>6 DEF IInv, Counting, Quiet
  <2> QED  BY <1>0, <1>1, <1>2, <1>6, <1>11, <2>1 DEF Counting
<1>13. Wanting'
  BY <1>0, <1>1, <1>2, <1>4, <1>11 DEF IInv, Wanting
<1>14. Saved'
  BY <1>0, <1>1, <1>4, <1>5 DEF IInv, Saved, UpdateFound
<1>15. Downloaded'
  BY <1>0, <1>4, <1>5 DEF IInv, Downloaded, Marked
<1>16. Stored'
  BY <1>0, <1>1, <1>4, <1>5 DEF IInv, Stored, PartOf, Keeps, Found, Holds
<1>17. ManifestAlive'
  BY <1>0 DEF IInv, ManifestAlive
<1> QED  BY <1>7, <1>8, <1>9, <1>10, <1>12, <1>13, <1>14, <1>15, <1>16, <1>17 DEF IInv

(* queueDowload() starts as many of the queued as there is room for: the   *)
(* limit is kept, and something runs if anything is awaited.               *)
LEMMA RoomFacts ==
    ASSUME TypeOK, curr <= MaxConcurrent, NEW started \in SUBSET queue,
           Cardinality(started) = Min({Cardinality(queue), Max({0, MaxConcurrent - curr})})
    PROVE  /\ Cardinality(started) \in Nat /\ curr + Cardinality(started) <= MaxConcurrent
           /\ Cardinality(queue) > 0 => curr + Cardinality(started) > 0
           /\ Cardinality(queue \ started) = Cardinality(queue) - Cardinality(started)
<1>1. /\ curr \in Nat /\ MaxConcurrent \in Nat /\ MaxConcurrent > 0
      /\ queue \subseteq Asset /\ Cardinality(queue) \in Nat
  BY SetsTyped
<1>2. Cardinality(started) \in Nat /\ IsFiniteSet(queue)
  BY <1>1, AssetsFinite
<1>3. /\ Max({0, MaxConcurrent - curr}) \in {0, MaxConcurrent - curr}
      /\ Max({0, MaxConcurrent - curr}) >= MaxConcurrent - curr
      /\ Max({0, MaxConcurrent - curr}) >= 0
  <2>1. PICK n \in Int : n = MaxConcurrent - curr
    BY <1>1
  <2>2. Max({0, n}) \in {0, n} /\ Max({0, n}) >= 0 /\ Max({0, n}) >= n
    BY MaxFacts
  <2> QED  BY <2>1, <2>2
<1>4. PICK room \in Int : room = Max({0, MaxConcurrent - curr})
  BY <1>1, <1>3
<1>5. /\ Cardinality(started) \in {Cardinality(queue), room}
      /\ Cardinality(started) <= Cardinality(queue) /\ Cardinality(started) <= room
  BY <1>1, <1>4, MinFacts
<1>6. room = MaxConcurrent - curr
  BY <1>1, <1>3, <1>4
<1>7. Cardinality(queue \ started) = Cardinality(queue) - Cardinality(started)
  <2>1. queue \cap started = started
    OBVIOUS
  <2>2. Cardinality(queue \ started) = Cardinality(queue) - Cardinality(queue \cap started)
    BY <1>2, FS_Difference
  <2> QED  BY <2>1, <2>2
<1> QED  BY <1>1, <1>2, <1>5, <1>6, <1>7

LEMMA QueueDownloadKeeps ==
    ASSUME IInv, QueueDownload
    PROVE  IInv'
<1> USE DEF manifests, downloads, disk, history
<1>0. /\ TypeOK /\ StackStands /\ Fetches /\ stack \in Seq(FrameType)
      /\ Runs("queueDownload") /\ Leave(<<>>) /\ wait # 0
      /\ stack # <<>> /\ Head(stack).fn = "queueDownload"
      /\ tempFile' \in {tempFile, SavedFile(Temp)'}
      /\ UNCHANGED <<state, entry, local, units, unitsVersion, failed, wait, unzip, storage,
                     cached, tempFiles, tempRenamed, server, incidents, touched, freed>>
  <2>1. SavedFile(Temp)' = SavedFile(IF alias' THEN remote' ELSE temp')
    BY DEF Temp
  <2>2. alias' = alias
    BY DEF QueueDownload, SetTempState, TempBecomes
  <2> QED  BY <2>1, <2>2, HeadTells DEF IInv, QueueDownload, Runs
<1>1. PICK started \in SUBSET queue :
          /\ Cardinality(started) = Min({Cardinality(queue), Max({0, MaxConcurrent - curr})})
          /\ queue' = queue \ started /\ curr' = curr + Cardinality(started)
          /\ transfers' = transfers \cup started
          /\ SetTempState(started, "downloading")
  BY DEF QueueDownload
<1>2. Place = "queueDownload" /\ state = "UPDATING" /\ Only(Tail(stack), IdleFn)
  BY <1>0, HeadTells, PlaceState DEF WorkFn
<1>3. Place' = "idle" /\ Erring' = {} /\ Failing' = {} /\ stack' \in Seq(FrameType)
  BY <1>0, <1>2, LeaveIdle
<1>4. Erring = {} /\ Failing = {} /\ ~ Merging
  BY <1>0, <1>2, NoFileAhead DEF Place, Erring, Failing, Merging
<1>5. /\ Apart /\ Pending \subseteq units /\ Wanted = Pending \cup failed /\ failed \subseteq units
      /\ wait = Cardinality(queue) + Cardinality(Outstanding) + Cardinality(unzip)
                  + Cardinality(Erring)
      /\ curr = Cardinality(Outstanding) + Cardinality(unzip) /\ curr <= MaxConcurrent
  <2>1. Cardinality(Outstanding) \in Nat /\ Cardinality(unzip) \in Nat
    BY <1>0, SetsTyped
  <2> QED  BY <1>2, <2>1 DEF IInv, Counting, Wanting
<1>6. started \subseteq Wanted /\ started \subseteq Asset
  BY <1>0, <1>5 DEF Pending, TypeOK
<1>7. Retagged(started, "downloading")
  BY <1>0, <1>1, <1>2, <1>4, SetTempFacts
<1>8. /\ ManifestsStand' /\ Saved' /\ Downloaded' /\ Stored' /\ Wanted' = Wanted
      /\ tempFile' \in ManifestFile \cup {NoFile, Garbage}
  <2>1. UNCHANGED <<local, unitsVersion, storage, cached, tempRenamed, server, incidents,
                     touched>>
    BY <1>0
  <2>2. \A a \in Asset \ Wanted : tempFiles'[a] = tempFiles[a]
    BY <1>0
  <2>3. state' = state /\ tempFile' \in {tempFile, SavedFile(Temp)'}
    BY <1>0
  <2> QED  BY <1>2, <1>3, <1>6, <1>7, <2>1, <2>2, <2>3, RetaggedKeeps
<1>9. /\ Outstanding' = Outstanding \cup started /\ Outstanding \cap started = {}
      /\ VersionId \notin transfers' /\ ManifestId \notin transfers'
  BY <1>0, <1>1, <1>2, <1>5, <1>6, IdAssumption DEF Outstanding, Apart, Fetches
<1>10. /\ Cardinality(started) \in Nat /\ curr' <= MaxConcurrent
       /\ Cardinality(queue) > 0 => curr' > 0
       /\ Cardinality(queue') = Cardinality(queue) - Cardinality(started)
  BY <1>0, <1>1, <1>5, RoomFacts
<1>11. Cardinality(Outstanding') = Cardinality(Outstanding) + Cardinality(started)
  <2>1. IsFiniteSet(Outstanding) /\ IsFiniteSet(started)
    BY <1>0, <1>6, SetsTyped, AssetsFinite
  <2>2. Cardinality(Outstanding \cup started)
           = Cardinality(Outstanding) + Cardinality(started) - Cardinality(Outstanding \cap started)
    BY <2>1, FS_Union
  <2>3. Cardinality(Outstanding \cap started) = 0 /\ Cardinality(Outstanding) \in Nat
    BY <1>0, <1>9, SetsTyped
  <2> QED  BY <1>9, <1>10, <2>2, <2>3
<1>12. Pending' = Pending /\ Apart'
  BY <1>0, <1>1, <1>3, <1>4, <1>5, <1>9 DEF Pending, Apart
<1>13. TypeOK'
  BY <1>0, <1>1, <1>3, <1>6, <1>7, <1>8, <1>10 DEF TypeOK, FrameType, Retagged, Temp
<1>14. StackStands'
  BY <1>0, <1>2, <1>3 DEF StackStands
<1>15. Fetches'
  BY <1>9 DEF Fetches
<1>16. Counting'
  <2>1. /\ Cardinality(queue) \in Nat /\ Cardinality(Outstanding) \in Nat
        /\ Cardinality(unzip) \in Nat /\ Cardinality(Erring) \in Nat /\ Cardinality({}) = 0
        /\ curr \in Nat /\ wait \in Nat
    BY <1>0, SetsTyped
  <2>2. /\ Cardinality(unzip') = Cardinality(unzip)
        /\ Cardinality(Erring') = 0 /\ Cardinality(Erring) = 0
    BY <1>0, <1>3, <1>4, <2>1
  <2>3. wait' = Cardinality(queue') + Cardinality(Outstanding') + Cardinality(unzip')
                  + Cardinality(Erring')
    BY <1>0, <1>5, <1>10, <1>11, <2>1, <2>2
  <2>4. curr' = Cardinality(Outstanding') + Cardinality(unzip') + 0
    BY <1>0, <1>1, <1>5, <1>10, <1>11, <2>1, <2>2
  <2>5. curr' > 0
    BY <1>0, <1>1, <1>5, <1>10, <2>1, <2>2
  <2> QED  BY <1>0, <1>2, <1>3, <1>5, <1>10, <1>12, <2>3, <2>4, <2>5 DEF Counting
<1>17. Wanting'
  BY <1>0, <1>2, <1>3, <1>5, <1>8, <1>12 DEF Wanting
<1>18. ManifestAlive'
  BY <1>0 DEF IInv, ManifestAlive
<1> QED  BY <1>8, <1>13, <1>14, <1>15, <1>16, <1>17, <1>18 DEF IInv

LEMMA FinishedWithErrorsKeeps ==
    ASSUME IInv, FinishedWithErrors
    PROVE  IInv'
<1> USE DEF manifests, downloads, disk, history
<1>0. /\ TypeOK /\ StackStands /\ Fetches
      /\ UnitsFinished /\ failed # {} /\ stack' = Notify(Tail(stack))
      /\ tempFile' = SavedFile(Temp) /\ state' = "FAIL_TO_UPDATE" /\ entry' = "NONE"
      /\ UNCHANGED <<local, remote, temp, alias, units, unitsVersion, failed, queue, wait, curr,
                     transfers, unzip, storage, cached, tempFiles, tempRenamed, server,
                     incidents, touched, freed>>
  BY DEF IInv, FinishedWithErrors
<1>1. /\ state = "UPDATING" /\ Quiet /\ Pending = {} /\ Place \in {"queueDownload", "finished"}
      /\ stack \in Seq(FrameType)
  BY <1>0, UnitsFinishedFacts
<1>2. Tail(stack) = <<>>
  BY <1>0, <1>1 DEF StackStands, IInv, Wanting
<1>3. stack' = <<>> /\ stack' \in Seq(FrameType) /\ Place' = "idle" /\ Erring' = {} /\ Failing' = {}
  BY <1>0, <1>2, StackEmpty DEF Notify
<1>4. /\ ~ Merging /\ ~ Merging' /\ ~ Succeeding /\ ~ Succeeding' /\ Underway /\ Underway'
      /\ Temp \in ManifestObject /\ ObjectStands(Temp) /\ Temp # Null /\ remote # Null
      /\ Temp.loaded /\ Temp.updating /\ Temp.version = remote.version /\ remote.loaded
  BY <1>0, <1>1, <1>3, TempStands DEF Merging, Succeeding, Underway
<1>5. /\ tempFile' \in ManifestFile /\ ListsHeld(tempFile')
      /\ tempFile'.version = Temp.version /\ tempFile'.states = Temp.states
  BY <1>0, <1>4, SavedFileFacts
<1>6. /\ Temp' = Temp /\ Wanted' = Wanted /\ Sound' = Sound /\ Outstanding' = Outstanding
      /\ Quiet' = Quiet
  BY <1>0 DEF Temp, Wanted, GenResumeAssetsList, Listed, Sound, Outstanding, Quiet
<1>7. TypeOK'
  BY <1>0, <1>3, <1>5 DEF TypeOK, State, Entry, FrameType
<1>8. StackStands'
  BY <1>0, <1>3 DEF StackStands
<1>9. Fetches'
  BY <1>0, <1>1 DEF Fetches
<1>10. ManifestsStand'
  BY <1>0, <1>1, <1>4, <1>5, <1>6, StandsStay DEF IInv, ManifestsStand
<1>11. Counting'
  BY <1>0, <1>1, <1>3, <1>6 DEF IInv, Counting
<1>12. Wanting'
  BY <1>0, <1>1, <1>6 DEF IInv, Wanting
<1>13. Saved'
  BY <1>0, <1>1, <1>4, <1>5, <1>6, Sentinels DEF IInv, Saved, SavedAs, UpdateFound
<1>14. Downloaded'
  BY <1>0, <1>1, <1>4, <1>5, <1>6 DEF IInv, Downloaded, Marked
<1>15. Stored'
  <2> SUFFICES ASSUME Sound' PROVE Stored'
    BY DEF Stored
  <2>1. Stored /\ Sound
    BY <1>6 DEF IInv
  <2>2. PartOf(Temp)
    BY <1>4, <2>1 DEF Stored, Temp
  <2>3. PartOf(tempFile)'
    BY <1>0, <1>5, <2>2 DEF PartOf, Found
  <2> QED  BY <1>0, <1>4, <2>1, <2>3 DEF Stored, PartOf, Keeps, Found, Holds
<1>16. ManifestAlive'
  BY <1>0 DEF IInv, ManifestAlive
<1> QED  BY <1>7, <1>8, <1>9, <1>10, <1>11, <1>12, <1>13, <1>14, <1>15, <1>16 DEF IInv
-----------------------------------------------------------------------------
(* The steps of the merge.                                                 *)
LEMMA SucceedFacts ==
    ASSUME IInv, NEW fn \in {"updateSucceed", "merge"}, Runs(fn)
    PROVE  /\ Place = fn /\ Erring = {} /\ Failing = {} /\ Quiet
           /\ state = "UPDATING" \/ (state = "NEED_UPDATE" /\ alias)
           /\ state \in {"NEED_UPDATE", "UPDATING"}
           /\ remote \in ManifestObject /\ ObjectStands(remote) /\ remote # Null /\ remote.loaded
           /\ Full => Listed(remote) = Holds(remote.version)
           /\ remote.version \in Version /\ local.version \in Version
           /\ local.version < remote.version /\ remote.version <= server
           /\ Temp \in ManifestObject /\ ObjectStands(Temp) /\ Temp # Null /\ Temp.loaded
           /\ Temp.version = remote.version
           /\ stack \in Seq(FrameType) /\ stack # <<>> /\ Only(Tail(stack), IdleFn)
           /\ VersionId \notin transfers /\ ManifestId \notin transfers
<1>1. /\ TypeOK /\ StackStands /\ ManifestsStand /\ stack \in Seq(FrameType) /\ stack # <<>>
      /\ Place = fn
  BY HeadTells DEF IInv, WorkFn, Runs
<1>2. /\ state = "UPDATING" \/ (state = "NEED_UPDATE" /\ remote.loaded)
      /\ Only(Tail(stack), IdleFn)
  BY <1>1, PlaceState DEF WorkFn
<1>3. Erring = {} /\ Failing = {}
  BY <1>1, NoFileAhead DEF Place, Erring, Failing
<1>4. Quiet
  BY <1>1, <1>2 DEF IInv, Counting
<1>5. remote \in ManifestObject /\ ObjectStands(remote) /\ remote # Null
  BY <1>2, RemoteStands
<1>6. state = "NEED_UPDATE" => alias
  BY <1>1, <1>2 DEF ManifestsStand, Succeeding, Merging
<1>7. remote.loaded /\ Temp # Null /\ Temp.loaded /\ Temp.version = remote.version
  BY <1>1, <1>2, <1>5, <1>6 DEF ManifestsStand, Underway, Temp
<1>8. Temp \in ManifestObject /\ ObjectStands(Temp)
  BY <1>1, <1>5, <1>7 DEF TypeOK, ManifestsStand, Temp
<1>9. /\ Full => Listed(remote) = Holds(remote.version)
      /\ remote.version \in Version /\ local.version \in Version
      /\ local.version < remote.version /\ remote.version <= server
  <2>1. /\ Full => Listed(remote) = Holds(remote.version)
        /\ remote.version \in Version /\ local.version \in Version
    BY <1>1, <1>5, <1>7 DEF ManifestsStand, ObjectStands, ListsHeld, ViewStands
  <2>2. remote.version # 0
    BY <2>1 DEF Version
  <2> QED  BY <1>1, <1>2, <1>5, <2>1, <2>2 DEF ManifestsStand
<1>10. VersionId \notin transfers /\ ManifestId \notin transfers
  BY <1>2 DEF IInv, Fetches
<1> QED  BY <1>1, <1>2, <1>3, <1>4, <1>5, <1>6, <1>7, <1>8, <1>9, <1>10

LEMMA UpdateSucceedKeeps ==
    ASSUME IInv, UpdateSucceed
    PROVE  IInv'
<1> USE DEF manifests, downloads, disk, history
<1> DEFINE n == SetUpdating(Temp, FALSE)
<1>0. /\ TypeOK /\ Fetches /\ ManifestsStand /\ Runs("updateSucceed")
      /\ Leave(<<Frame("merge")>>) /\ TempBecomes(n)
      /\ tempRenamed' = IF tempFile = NoFile THEN tempRenamed ELSE tempFile
      /\ tempFile' = NoFile
      /\ UNCHANGED <<state, entry, local, units, unitsVersion, failed, queue, wait, curr,
                     transfers, unzip, storage, cached, tempFiles, server, incidents, touched,
                     freed>>
  BY DEF IInv, UpdateSucceed
<1>1. /\ Place = "updateSucceed" /\ Erring = {} /\ Failing = {} /\ Quiet
      /\ state \in {"NEED_UPDATE", "UPDATING"} /\ (state = "NEED_UPDATE" => alias)
      /\ remote \in ManifestObject /\ ObjectStands(remote) /\ remote # Null /\ remote.loaded
      /\ Temp \in ManifestObject /\ ObjectStands(Temp) /\ Temp # Null /\ Temp.loaded
      /\ Temp.version = remote.version /\ remote.version \in Version
      /\ stack \in Seq(FrameType) /\ stack # <<>> /\ Only(Tail(stack), IdleFn)
      /\ VersionId \notin transfers /\ ManifestId \notin transfers
  BY <1>0, SucceedFacts
<1>2. /\ stack' \in Seq(FrameType) /\ stack' # <<>> /\ Tail(stack') = Tail(stack)
      /\ Place' = "merge" /\ Erring' = {} /\ Failing' = {}
      /\ ~ Merging /\ Succeeding /\ Merging'
  BY <1>0, <1>1, LeaveWork DEF WorkFn, Merging, Succeeding
<1>3. /\ n \in ManifestObject /\ ObjectStands(n) /\ n # Null
      /\ n.version = Temp.version /\ n.loaded /\ n.states = Temp.states
      /\ Listed(n) = Listed(Temp)
  <2>1. PICK m : m = Temp
    OBVIOUS
  <2>2. n = SetUpdating(m, FALSE) /\ m \in ManifestObject /\ ObjectStands(m) /\ m.loaded
    BY <1>1, <2>1
  <2> HIDE DEF n
  <2> QED  BY <2>1, <2>2, SetUpdatingFacts, Sentinels
<1>4. \/ alias /\ remote' = n /\ temp' = temp /\ alias' = alias
      \/ ~ alias /\ temp' = n /\ remote' = remote /\ alias' = alias
  BY <1>0 DEF TempBecomes
<1> HIDE DEF n
<1>5. Temp' = n
  BY <1>4 DEF Temp
<1>6. /\ remote' \in ManifestObject /\ ObjectStands(remote)' /\ remote' # Null /\ remote'.loaded
      /\ remote'.version = remote.version /\ ObjectStands(Temp)'
      /\ temp' # Null => ObjectStands(temp)'
  <2> QED  BY <1>0, <1>1, <1>3, <1>4, <1>5, StandsStay DEF ManifestsStand
<1>7. Wanted' = Wanted /\ Outstanding' = Outstanding /\ Quiet' /\ Sound' = Sound
  BY <1>0, <1>1, <1>3, <1>5 DEF Wanted, GenResumeAssetsList, Outstanding, Quiet, Sound
<1>8. tempFile # NoFile /\ tempRenamed' = tempFile
  BY <1>0, <1>1, <1>2, Sentinels DEF IInv, Saved, Underway, UpdateFound
<1>9. TypeOK'
  BY <1>0, <1>2, <1>3, <1>4, <1>6, <1>8 DEF TypeOK, FrameType
<1>10. StackStands'
  BY <1>0, <1>1, <1>2, <1>6 DEF StackStands, AtWork
<1>11. Fetches'
  BY <1>0, <1>1 DEF Fetches
<1>12. ManifestsStand'
  <2>1. ViewStands(local)' /\ ViewStands(cached)'
    BY <1>0, StandsStay DEF ManifestsStand
  <2>2. tempRenamed' \in ManifestFile => ListsHeld(tempRenamed)'
    BY <1>0, <1>8, StandsStay DEF ManifestsStand
  <2>3. remote'.version <= server' /\ local'.version < remote'.version
    BY <1>0, <1>6, SucceedFacts
  <2>4. ~ alias' => \A a \in Asset : remote'.states[a] \in {"absent", "unmarked"}
    BY <1>0, <1>1, <1>4 DEF ManifestsStand
  <2>5. alias' => temp' = Null
    BY <1>0, <1>4 DEF ManifestsStand
  <2>6. state = "UPDATING" => unitsVersion = remote.version
    BY <1>0 DEF ManifestsStand, Underway
  <2> QED  BY <1>0, <1>1, <1>2, <1>3, <1>4, <1>5, <1>6, <2>1, <2>2, <2>3, <2>4, <2>5, <2>6,
              Sentinels
           DEF ManifestsStand, Underway
<1>13. Counting'
  BY <1>0, <1>1, <1>2, <1>7 DEF IInv, Counting, Apart, Pending
<1>14. Wanting'
  BY <1>0, <1>1, <1>2, <1>7 DEF IInv, Wanting, Underway, Pending
<1>15. Saved'
  <2>1. tempFile = Garbage => "spoiled" \in incidents
    BY <1>0, <1>1, <1>2, Sentinels DEF IInv, Saved, Underway, UpdateFound
  <2>2. tempFile \in ManifestFile => tempFile.version = remote.version
    BY <1>0, <1>1, <1>2 DEF IInv, Saved, SavedAs, Underway, UpdateFound
  <2>3. cached = local
    BY <1>1, <1>2 DEF IInv, Saved
  <2> QED  BY <1>0, <1>2, <1>6, <1>8, <2>1, <2>2, <2>3 DEF Saved
<1>16. Downloaded'
  BY <1>0, <1>2, <1>3, <1>4, <1>5, Sentinels DEF IInv, Downloaded, Temp
<1>17. Stored'
  <2> SUFFICES ASSUME Sound' PROVE Stored'
    BY DEF Stored
  <2>1. Stored /\ Sound
    BY <1>7 DEF IInv
  <2>2. /\ ToMerge(remote.version) /\ Keeps(cached.version)
        /\ touched # {} => cached.version < server
    BY <1>2, <2>1 DEF Stored
  <2>3. /\ ToMerge(remote.version)' /\ Keeps(cached.version)'
        /\ touched' # {} => cached'.version < server'
    BY <1>0, <1>6, <2>2 DEF ToMerge, Keeps, Found, Holds
  <2> QED  BY <1>0, <1>1, <1>2, <2>3, Sentinels DEF Stored
<1>18. ManifestAlive'
  BY <1>0 DEF IInv, ManifestAlive
<1> QED  BY <1>9, <1>10, <1>11, <1>12, <1>13, <1>14, <1>15, <1>16, <1>17, <1>18 DEF IInv

(* The step changes what is on the disk and nothing else.                  *)
LEMMA MergeStepFacts ==
    ASSUME IInv, Runs("merge"), UNCHANGED <<memory, tempFile, server, incidents, freed>>,
           touched' \subseteq Asset, cached' \in View, ViewStands(cached)',
           tempFiles' \in [Asset -> Nat \cup {Bad}], storage' \in [Asset -> Nat \cup {Bad}],
           tempRenamed' \in {tempRenamed, NoFile}
    PROVE  /\ TypeOK' /\ StackStands' /\ Fetches' /\ ManifestsStand' /\ Counting' /\ Wanting'
           /\ ManifestAlive'
           /\ Merging /\ Merging' /\ tempFile = NoFile /\ tempFile' = NoFile
           /\ remote' = remote /\ state' = state /\ local' = local /\ Sound' = Sound
           /\ incidents' = incidents /\ server' = server
<1> USE DEF memory
<1>0. /\ TypeOK /\ StackStands /\ Fetches /\ ManifestsStand /\ Counting /\ Wanting /\ ManifestAlive
      /\ UNCHANGED <<state, entry, local, remote, temp, alias, units, unitsVersion, failed,
            queue, wait, curr, transfers, unzip, stack, tempFile, server, incidents, freed>>
  BY DEF IInv
<1>1. Place = "merge" /\ Place' = Place /\ Erring' = Erring /\ Failing' = Failing
  BY <1>0, SucceedFacts, StackSame
<1>2. Merging /\ Merging' /\ Succeeding' = Succeeding /\ tempFile = NoFile
  BY <1>1 DEF IInv, Saved, Merging, Succeeding
<1>3. /\ Temp' = Temp /\ Wanted' = Wanted /\ Outstanding' = Outstanding /\ Quiet' = Quiet
      /\ Apart' = Apart /\ Pending' = Pending /\ Underway' = Underway /\ Sound' = Sound
  BY <1>0, <1>1 DEF Temp, Wanted, GenResumeAssetsList, Listed, Outstanding, Quiet, Apart, Pending,
                    Underway, Sound
<1>4. TypeOK'
  BY <1>0, Sentinels DEF TypeOK
<1>5. StackStands'
  BY <1>0, <1>1 DEF StackStands, AtWork
<1>6. Fetches'
  BY <1>0 DEF Fetches
<1>7. ManifestsStand'
  BY <1>0, <1>1, <1>2, <1>3, StandsStay, Sentinels DEF ManifestsStand
<1>8. Counting'
  BY <1>0, <1>1, <1>3 DEF Counting
<1>9. Wanting'
  BY <1>0, <1>1, <1>3 DEF Wanting
<1>10. ManifestAlive'
  BY <1>0 DEF ManifestAlive
<1> QED  BY <1>0, <1>2, <1>3, <1>4, <1>5, <1>6, <1>7, <1>8, <1>9, <1>10

LEMMA MergeManifestKeeps ==
    ASSUME IInv, MergeManifest
    PROVE  IInv'
<1>0. /\ TypeOK /\ ManifestsStand /\ Runs("merge") /\ tempRenamed # NoFile
      /\ \/ /\ tempRenamed # Garbage
            /\ cached' = ViewOf(tempRenamed) /\ touched' = {}
         \/ /\ tempRenamed = Garbage
            /\ cached' = Package /\ touched' = touched \cup {a \in Asset : storage[a] # 0}
      /\ tempRenamed' = NoFile
      /\ UNCHANGED <<memory, storage, tempFiles, tempFile, server, incidents, freed>>
  BY DEF IInv, MergeManifest
<1>1. /\ state \in {"NEED_UPDATE", "UPDATING"} /\ Place = "merge" /\ Merging
      /\ remote \in ManifestObject /\ remote # Null /\ remote.loaded
      /\ Full => Listed(remote) = Holds(remote.version)
      /\ remote.version \in Version /\ local.version \in Version
      /\ local.version < remote.version /\ remote.version <= server
  BY <1>0, SucceedFacts DEF Merging
<1>2. Package \in View /\ ViewStands(Package) /\ Package.version = 1 /\ 1 < server
  <2>1. 1 \in Version /\ 1 < server
    BY <1>0, <1>1, ContentAssumption DEF Version, TypeOK
  <2> QED  BY <2>1, ContentAssumption DEF Package, View, ViewStands, Version, Holds
<1>3. tempRenamed \in ManifestFile => /\ ViewOf(tempRenamed) \in View
                                      /\ ViewOf(tempRenamed).version = remote.version
                                      /\ ViewStands(ViewOf(tempRenamed))
                                      /\ Full => ViewOf(tempRenamed) = ViewOf(remote)
  <2> SUFFICES ASSUME tempRenamed \in ManifestFile
               PROVE  /\ ViewOf(tempRenamed) \in View
                      /\ ViewOf(tempRenamed).version = remote.version
                      /\ ViewStands(ViewOf(tempRenamed))
                      /\ Full => ViewOf(tempRenamed) = ViewOf(remote)
    OBVIOUS
  <2>1. ListsHeld(tempRenamed) /\ tempRenamed.version = remote.version
    BY <1>0, <1>1 DEF IInv, ManifestsStand, Saved
  <2>2. ViewOf(tempRenamed) = [version |-> remote.version, listed |-> Listed(tempRenamed)]
    BY <2>1 DEF ViewOf
  <2>3. Listed(tempRenamed) \subseteq Asset /\ remote.version \in 0..MaxVersion
    BY <1>1, ContentAssumption DEF Listed, Version
  <2> QED  BY <1>1, <2>1, <2>2, <2>3 DEF ViewOf, View, ViewStands, ListsHeld
<1>4. \/ /\ tempRenamed \in ManifestFile /\ cached' = ViewOf(tempRenamed) /\ touched' = {}
         /\ cached' = ViewOf(remote) \/ ~ Full
      \/ /\ cached' = Package /\ touched' = touched \cup {a \in Asset : storage[a] # 0}
         /\ "spoiled" \in incidents
  BY <1>0, <1>1, <1>3 DEF IInv, TypeOK, Saved
<1>5. /\ cached' \in View /\ ViewStands(cached)' /\ touched' \subseteq Asset
      /\ touched' # {} => cached'.version < server
  <2>1. cached' \in View /\ ViewStands(cached')
    BY <1>2, <1>3, <1>4
  <2>2. incidents' = incidents
    BY <1>0
  <2> QED  BY <1>0, <1>2, <1>4, <2>1, <2>2, StandsStay DEF TypeOK
<1>6. /\ TypeOK' /\ StackStands' /\ Fetches' /\ ManifestsStand' /\ Counting' /\ Wanting'
      /\ ManifestAlive'
      /\ Merging' /\ tempFile = NoFile /\ tempFile' = NoFile
      /\ remote' = remote /\ state' = state /\ local' = local /\ Sound' = Sound
      /\ incidents' = incidents /\ server' = server
  <2>1. tempFiles' \in [Asset -> Nat \cup {Bad}] /\ storage' \in [Asset -> Nat \cup {Bad}]
    BY <1>0 DEF TypeOK
  <2> QED  BY <1>0, <1>5, <2>1, MergeStepFacts
<1>7. Saved'
  <2>1. Listed(remote)' = Listed(remote)
    BY <1>6 DEF Listed
  <2>2. ViewOf(remote)' = ViewOf(remote)
    BY <1>6, <2>1 DEF ViewOf
  <2> QED  BY <1>0, <1>1, <1>4, <1>6, <2>2, Sentinels DEF Saved, Full
<1>8. Downloaded'
  <2>1. alias' = alias /\ temp' = temp /\ tempFiles' = tempFiles
    BY <1>0 DEF memory
  <2> QED  BY <1>6, <2>1, Sentinels DEF IInv, Downloaded
<1>9. Stored'
  <2> SUFFICES ASSUME Sound' PROVE Stored'
    BY DEF Stored
  <2>1. ToMerge(remote.version)
    BY <1>1, <1>6 DEF IInv, Stored
  <2>2. ToMerge(remote.version)'
    BY <1>0, <1>6, <2>1 DEF ToMerge, Found, Holds
  <2>3. \A a : Found(a)' = Found(a)
    BY <1>0 DEF Found
  <2>4. ASSUME cached' = Package, touched' = touched \cup {a \in Asset : storage[a] # 0}
        PROVE  Keeps(cached.version)'
    <3>1. \A a \in Asset : a \notin touched' => Found(a)' = Content[1][a]
      BY <2>3, <2>4 DEF Found
    <3> QED  BY <1>2, <2>4, <3>1 DEF Keeps, Holds
  <2>5. ASSUME tempFiles = NoFiles, cached' = ViewOf(remote) PROVE Keeps(cached.version)'
    <3>1. \A a \in Holds(remote.version) : Found(a)' = Content[remote.version][a]
      BY <2>1, <2>3, <2>5 DEF ToMerge, NoFiles, Holds
    <3>2. cached'.version = remote.version
      BY <2>5 DEF ViewOf
    <3> QED  BY <3>1, <3>2 DEF Keeps, Holds
  <2>6. ViewOf(remote)' = ViewOf(remote) /\ Full
    BY <1>6 DEF ViewOf, Listed, Sound, Full
  <2> QED  BY <1>0, <1>1, <1>4, <1>5, <1>6, <2>2, <2>4, <2>5, <2>6, Sentinels DEF Stored, NoFiles
<1> QED  BY <1>6, <1>7, <1>8, <1>9 DEF IInv

LEMMA MergeFileKeeps ==
    ASSUME IInv, NEW a \in Asset, MergeFile(a)
    PROVE  IInv'
<1>0. /\ TypeOK /\ ManifestsStand /\ Runs("merge") /\ tempFiles[a] # 0
      /\ storage' = [storage EXCEPT ![a] = tempFiles[a]]
      /\ tempFiles' = [tempFiles EXCEPT ![a] = 0]
      /\ touched' = IF cached = ViewOf(remote) THEN touched ELSE touched \cup {a}
      /\ UNCHANGED <<memory, cached, tempFile, tempRenamed, server, incidents, freed>>
  BY DEF IInv, MergeFile
<1>1. /\ state \in {"NEED_UPDATE", "UPDATING"} /\ Place = "merge" /\ Merging
      /\ remote \in ManifestObject /\ remote # Null /\ remote.loaded
      /\ remote.version \in Version /\ local.version \in Version
      /\ local.version < remote.version /\ remote.version <= server
  BY <1>0, SucceedFacts DEF Merging
<1>2. /\ tempFiles' \in [Asset -> Nat \cup {Bad}] /\ storage' \in [Asset -> Nat \cup {Bad}]
      /\ tempFiles'[a] = 0 /\ storage'[a] = tempFiles[a]
      /\ \A b \in Asset \ {a} : tempFiles'[b] = tempFiles[b] /\ storage'[b] = storage[b]
  BY <1>0 DEF TypeOK
<1>3. /\ TypeOK' /\ StackStands' /\ Fetches' /\ ManifestsStand' /\ Counting' /\ Wanting'
      /\ ManifestAlive'
      /\ Merging' /\ tempFile = NoFile /\ tempFile' = NoFile
      /\ remote' = remote /\ state' = state /\ local' = local /\ Sound' = Sound
      /\ incidents' = incidents /\ server' = server
  <2>1. cached' \in View /\ ViewStands(cached)' /\ touched' \subseteq Asset
    BY <1>0, StandsStay DEF TypeOK, ManifestsStand
  <2> QED  BY <1>0, <1>2, <2>1, MergeStepFacts
<1>4. Saved'
  <2>1. Listed(remote)' = Listed(remote)
    BY <1>3 DEF Listed
  <2>2. ViewOf(remote)' = ViewOf(remote) /\ Full' = Full
    BY <1>3, <2>1 DEF ViewOf, Full
  <2> QED  BY <1>0, <1>1, <1>3, <2>2, Sentinels DEF IInv, Saved
<1>5. Downloaded'
  <2>1. alias' = alias /\ temp' = temp
    BY <1>0 DEF memory
  <2>2. tempFiles # NoFiles
    BY <1>0 DEF NoFiles
  <2> QED  BY <1>3, <2>1, <2>2, Sentinels DEF IInv, Downloaded
<1>6. Stored'
  <2> SUFFICES ASSUME Sound' PROVE Stored'
    BY DEF Stored
  <2>1. ToMerge(remote.version) /\ Sound
    BY <1>1, <1>3 DEF IInv, Stored
  <2>2. tempFiles[a] = Content[remote.version][a] /\ Found(a)' = Content[remote.version][a]
    BY <1>0, <1>2, <2>1 DEF ToMerge, Found
  <2>3. \A b \in Asset \ {a} : Found(b)' = Found(b)
    BY <1>2 DEF Found
  <2>4. ToMerge(remote.version)'
    BY <1>2, <1>3, <2>1, <2>2, <2>3 DEF ToMerge, Holds
  <2>5. ViewOf(remote)' = ViewOf(remote) /\ Full
    BY <1>3, <2>1 DEF ViewOf, Listed, Sound, Full
  <2>6. CASE cached = ViewOf(remote)
    <3>1. cached'.version = remote.version /\ touched' = touched
      BY <1>0, <2>6 DEF ViewOf
    <3>2. tempRenamed = NoFile
      <4>1. cached # local
        BY <1>1, <3>1, <1>0 DEF Version
      <4> QED  BY <1>1, <4>1 DEF IInv, Saved
    <3>3. ASSUME tempFiles' = NoFiles PROVE Keeps(cached.version)'
      BY <2>4, <3>1, <3>3, <1>3 DEF ToMerge, Keeps, NoFiles, Holds
    <3>4. touched' # {} => cached'.version < server'
      BY <1>0, <1>3, <2>1, <3>1 DEF IInv, Stored
    <3> QED  BY <1>0, <1>1, <1>3, <2>4, <2>5, <2>6, <3>2, <3>3, <3>4, Sentinels DEF Stored
  <2>7. CASE cached # ViewOf(remote)
    <3>1. Keeps(cached.version) /\ touched' = touched \cup {a} /\ cached' = cached
      BY <1>0, <2>1, <2>7 DEF IInv, Stored
    <3>2. Keeps(cached.version)'
      BY <2>3, <3>1 DEF Keeps, Holds
    <3>3. cached.version < server
      <4>1. cached = local \/ cached = Package
        BY <1>0, <1>1, <2>5, <2>7 DEF IInv, Saved
      <4>2. cached.version = local.version \/ cached.version = 1
        BY <4>1 DEF Package
      <4> QED  BY <1>0, <1>1, <4>2, ContentAssumption DEF Version, TypeOK
    <3> QED  BY <1>0, <1>1, <1>3, <2>4, <3>1, <3>2, <3>3, Sentinels DEF Stored
  <2> QED  BY <2>6, <2>7
<1> QED  BY <1>3, <1>4, <1>5, <1>6 DEF IInv

LEMMA SwapManifestsKeeps ==
    ASSUME IInv, SwapManifests
    PROVE  IInv'
<1> USE DEF manifests, downloads, disk, history
<1>0. /\ TypeOK /\ StackStands /\ Fetches /\ ManifestsStand
      /\ Runs("merge") /\ tempRenamed = NoFile /\ tempFiles = NoFiles
      /\ stack' = Notify(Tail(stack)) /\ local' = ViewOf(remote)
      /\ remote' = Null /\ temp' = Null /\ alias' = FALSE
      /\ state' = "UP_TO_DATE" /\ entry' = "NONE"
      /\ UNCHANGED <<units, unitsVersion, failed, queue, wait, curr, transfers, unzip, storage,
                     cached, tempFiles, tempFile, tempRenamed, server, incidents, touched, freed>>
  BY DEF IInv, SwapManifests
<1>1. /\ state \in {"NEED_UPDATE", "UPDATING"} /\ Place = "merge" /\ Merging /\ Quiet
      /\ remote \in ManifestObject /\ remote # Null /\ remote.loaded
      /\ Full => Listed(remote) = Holds(remote.version)
      /\ remote.version \in Version
      /\ stack \in Seq(FrameType) /\ stack # <<>> /\ Only(Tail(stack), IdleFn)
      /\ VersionId \notin transfers /\ ManifestId \notin transfers
  BY <1>0, SucceedFacts DEF Merging
<1>2. /\ stack' \in Seq(FrameType) /\ Place' = "idle" /\ Erring' = {} /\ Failing' = {}
      /\ ~ Merging' /\ ~ Succeeding'
  <2>1. stack' \in Seq(FrameType) /\ Only(stack', IdleFn)
    <3>1. Tail(stack) \in Seq(FrameType) /\ "listener" \in IdleFn
      BY <1>1, TailType DEF IdleFn
    <3>2. Notify(Tail(stack)) \in Seq(FrameType) /\ Only(Notify(Tail(stack)), IdleFn)
      BY <1>1, <3>1, NotifyOnly
    <3> QED  BY <1>0, <3>2
  <2> QED  BY <2>1, StackIdle DEF Merging, Succeeding
<1>3. local' \in View /\ local'.version = remote.version /\ ViewStands(local)'
  <2>1. local' \in View /\ local'.version = remote.version /\ local'.listed = Listed(remote)
    BY <1>0, <1>1 DEF ViewOf, View, ManifestObject, Listed
  <2> QED  BY <1>0, <1>1, <2>1 DEF ViewStands, Holds, Full
<1>4. Outstanding' = Outstanding /\ Quiet' /\ Sound' = Sound /\ tempFile = NoFile
  BY <1>0, <1>1 DEF IInv, Saved, Outstanding, Quiet, Sound
<1>5. TypeOK'
  BY <1>0, <1>2, <1>3 DEF TypeOK, State, Entry, FrameType
<1>6. StackStands'
  BY <1>0, <1>2 DEF StackStands
<1>7. Fetches'
  BY <1>0, <1>1 DEF Fetches
<1>8. ManifestsStand'
  <2>1. ViewStands(cached)'
    BY <1>0, StandsStay DEF ManifestsStand
  <2> QED  BY <1>0, <1>2, <1>3, <1>4, <2>1, Sentinels DEF ManifestsStand, Underway
<1>9. Counting'
  BY <1>0, <1>2, <1>4 DEF IInv, Counting
<1>10. Wanting'
  BY <1>0 DEF Wanting, Underway
<1>11. Saved'
  BY <1>0, <1>1, <1>2 DEF IInv, Saved, Underway, UpdateFound
<1>12. Downloaded'
  BY <1>0, <1>4, Sentinels DEF IInv, Downloaded
<1>13. Stored'
  <2> SUFFICES ASSUME Sound' PROVE Stored'
    BY DEF Stored
  <2>1. /\ ToMerge(remote.version) /\ Keeps(cached.version)
        /\ touched # {} => cached.version < server
    BY <1>0, <1>1, <1>4 DEF IInv, Stored
  <2>2. Complete(local.version)'
    BY <1>0, <1>3, <2>1 DEF Complete, ToMerge, NoFiles, Holds, Found
  <2>3. Keeps(cached.version)'
    BY <1>0, <2>1 DEF Keeps, Found, Holds
  <2> QED  BY <1>0, <1>2, <1>4, <2>1, <2>2, <2>3, Sentinels DEF Stored
<1>14. ManifestAlive'
  BY <1>0 DEF IInv, ManifestAlive
<1> QED  BY <1>5, <1>6, <1>7, <1>8, <1>9, <1>10, <1>11, <1>12, <1>13, <1>14 DEF IInv
-----------------------------------------------------------------------------
(* The steps of a file.                                                    *)
LEMMA OneLess ==
    ASSUME NEW S \in SUBSET Asset, NEW a \in S
    PROVE  /\ Cardinality(S) \in Nat /\ Cardinality(S) >= 1
           /\ Cardinality(S \ {a}) = Cardinality(S) - 1
<1>1. IsFiniteSet(S) /\ Cardinality(S) \in Nat /\ Cardinality(S \ {a}) \in Nat
  <2>1. S \ {a} \in SUBSET Asset
    OBVIOUS
  <2> QED  BY <2>1, AssetsFinite
<1>2. Cardinality(S \ {a}) = Cardinality(S) - 1
  BY <1>1, FS_RemoveElement
<1> QED  BY <1>1, <1>2

(* A set with one more element.                                            *)
LEMMA OneMore ==
    ASSUME NEW S \in SUBSET Asset, NEW a \in Asset, a \notin S
    PROVE  Cardinality(S) \in Nat /\ Cardinality(S \cup {a}) = Cardinality(S) + 1
<1>1. IsFiniteSet(S) /\ Cardinality(S) \in Nat
  BY AssetsFinite
<1> QED  BY <1>1, FS_AddElement

(* What runs after the listener of a file's event.                         *)
LEMMA RunsFile ==
    ASSUME IInv, NEW fn \in {"fileError", "fileFailed", "fileDone"}, Runs(fn)
    PROVE  /\ state = "UPDATING" /\ Place = "file" /\ ~ Merging
           /\ stack \in Seq(FrameType) /\ stack # <<>> /\ Tail(stack) = <<>>
           /\ Only(Tail(stack), IdleFn)
           /\ fn = "fileDone" => Erring = {} /\ Failing = {}
           /\ fn = "fileError" =>
                 Head(stack).asset \in Asset /\ Erring = {Head(stack).asset} /\ Failing = {}
           /\ fn = "fileFailed" =>
                 Head(stack).asset \in Asset /\ Erring = {} /\ Failing = {Head(stack).asset}
<1>1. /\ TypeOK /\ StackStands /\ stack \in Seq(FrameType) /\ stack # <<>> /\ Head(stack).fn = fn
  BY HeadTells DEF IInv, Runs
<1>2. Frame("listener").fn = "listener"
  BY FrameTypes DEF Function
<1>3. ~ Only(stack, {"listener", "parseFailed"}) /\ ~ Only(stack, IdleFn)
  BY <1>1, OnlyTail DEF IdleFn
<1>4. \A g \in {"manifestFailed", "versionFound"} : stack \notin Over(Frame(g))
  BY <1>1, <1>2, OverParts, FrameTypes DEF Function
<1>5. Place # "batchDownload"
  BY <1>1, <1>2, PlaceTells DEF Place, BatchAhead, AtBatch
<1>6. Place \notin WorkFn /\ Place # "idle"
  BY <1>1, <1>3, PlaceTells DEF Place, WorkFn
<1>7. state = "UPDATING" /\ Place = "file"
  BY <1>1, <1>3, <1>4, <1>5, <1>6 DEF StackStands, TypeOK, State, AtWork, WorkFn
<1>8. FileAhead(stack)
  BY <1>1, <1>7, PlaceTells DEF Place
<1>9. ASSUME NEW f \in FrameType, stack \in Over(f), f.fn # "listener"
      PROVE  Head(stack) = f /\ Tail(stack) = <<>>
  BY <1>1, <1>2, <1>9, OverParts
<1>10. CASE stack \in Over(Frame("fileDone"))
  <2>1. Head(stack) = Frame("fileDone") /\ Tail(stack) = <<>> /\ fn = "fileDone"
    BY <1>1, <1>9, <1>10, FrameTypes DEF Function
  <2>2. Erring = {} /\ Failing = {}
    BY <1>10, PlaceFileDone DEF Erring, Failing
  <2> QED  BY <1>1, <1>7, <2>1, <2>2 DEF Only, Merging
<1>11. ASSUME NEW a \in Asset, NEW gn \in {"fileError", "fileFailed"},
              stack \in Over(OnAsset(gn, a))
       PROVE  /\ gn = fn /\ Head(stack).asset = a /\ Tail(stack) = <<>>
              /\ Erring = IF fn = "fileError" THEN {a} ELSE {}
              /\ Failing = IF fn = "fileFailed" THEN {a} ELSE {}
  <2>1. Head(stack) = OnAsset(gn, a) /\ Tail(stack) = <<>> /\ fn = gn /\ Head(stack).asset = a
    BY <1>1, <1>9, <1>11, AssetFrames DEF Function
  <2>2. /\ Erring = IF fn = "fileError" THEN {a} ELSE {}
        /\ Failing = IF fn = "fileFailed" THEN {a} ELSE {}
    BY <1>11, <2>1, PlaceFile DEF Erring, Failing
  <2> QED  BY <2>1, <2>2
<1>12. CASE stack \notin Over(Frame("fileDone"))
  <2>1. \E a \in Asset : \E gn \in {"fileError", "fileFailed"} : stack \in Over(OnAsset(gn, a))
    BY <1>8, <1>12 DEF FileAhead, ErringIn, FailingIn
  <2>2. PICK a \in Asset, gn \in {"fileError", "fileFailed"} : stack \in Over(OnAsset(gn, a))
    BY <2>1
  <2>3. /\ gn = fn /\ Head(stack).asset = a /\ Tail(stack) = <<>>
        /\ Erring = IF fn = "fileError" THEN {a} ELSE {}
        /\ Failing = IF fn = "fileFailed" THEN {a} ELSE {}
    BY <1>11, <2>2
  <2> QED  BY <1>1, <1>7, <2>2, <2>3 DEF Only, Merging
<1> QED  BY <1>10, <1>12

(* What is counted while an update runs.                                   *)
LEMMA UpdatingFacts ==
    ASSUME IInv, state = "UPDATING", Place \in {"idle", "file"}
    PROVE  /\ Apart /\ Pending \subseteq units /\ Wanted = Pending \cup failed
           /\ failed \subseteq units /\ units \subseteq Asset /\ Failing \subseteq failed
           /\ queue \subseteq Asset /\ Outstanding \subseteq Asset /\ unzip \subseteq Asset
           /\ Cardinality(queue) \in Nat /\ Cardinality(Outstanding) \in Nat
           /\ Cardinality(unzip) \in Nat /\ Cardinality(Erring) \in Nat
           /\ Cardinality({}) = 0
           /\ curr \in Nat /\ wait \in Nat /\ MaxConcurrent \in Nat
           /\ wait = Cardinality(queue) + Cardinality(Outstanding) + Cardinality(unzip)
                       + Cardinality(Erring)
           /\ Place = "idle" => curr = Cardinality(Outstanding) + Cardinality(unzip)
           /\ Place = "file" => curr = Cardinality(Outstanding) + Cardinality(unzip) + 1
           /\ curr <= MaxConcurrent
           /\ VersionId \notin transfers /\ ManifestId \notin transfers
<1>1. TypeOK /\ Counting /\ Wanting /\ Fetches
  BY DEF IInv
<1>2. /\ queue \subseteq Asset /\ Outstanding \subseteq Asset /\ unzip \subseteq Asset
      /\ units \subseteq Asset
      /\ Cardinality(queue) \in Nat /\ Cardinality(Outstanding) \in Nat
      /\ Cardinality(unzip) \in Nat /\ Cardinality(Erring) \in Nat
      /\ Cardinality({}) = 0
      /\ curr \in Nat /\ wait \in Nat /\ MaxConcurrent \in Nat
  BY <1>1, SetsTyped DEF TypeOK
<1>3. VersionId \notin transfers /\ ManifestId \notin transfers
  BY <1>1 DEF Fetches
<1>4. /\ Apart /\ Pending \subseteq units
      /\ wait = Cardinality(queue) + Cardinality(Outstanding) + Cardinality(unzip)
                  + Cardinality(Erring)
      /\ Place = "idle" => curr = Cardinality(Outstanding) + Cardinality(unzip)
      /\ Place = "file" => curr = Cardinality(Outstanding) + Cardinality(unzip) + 1
      /\ curr <= MaxConcurrent
  BY <1>1, <1>2 DEF Counting
<1>5. Wanted = Pending \cup failed /\ failed \subseteq units /\ Failing \subseteq failed
  BY <1>1 DEF Wanting
<1> QED  BY <1>2, <1>3, <1>4, <1>5

(* A task ends and makes room for the next.                                *)
LEMMA FileDoneKeeps ==
    ASSUME IInv, FileDone
    PROVE  IInv'
<1> USE DEF downloads, disk, history
<1>0. /\ TypeOK /\ StackStands /\ Fetches
      /\ Runs("fileDone") /\ Leave(<<Frame("queueDownload")>>)
      /\ curr' = Max({0, curr - 1})
      /\ UNCHANGED manifests
      /\ UNCHANGED <<state, entry, local, units, unitsVersion, failed, queue, wait, transfers,
                     unzip, storage, cached, tempFiles, tempFile, tempRenamed, server, incidents,
                     touched, freed>>
  BY DEF IInv, FileDone
<1>1. /\ state = "UPDATING" /\ Place = "file" /\ ~ Merging
      /\ stack \in Seq(FrameType) /\ stack # <<>> /\ Tail(stack) = <<>> /\ Only(Tail(stack), IdleFn)
      /\ Erring = {} /\ Failing = {}
  BY <1>0, RunsFile
<1>2. /\ stack' \in Seq(FrameType) /\ stack' # <<>> /\ Tail(stack') = Tail(stack)
      /\ Place' = "queueDownload" /\ Erring' = {} /\ Failing' = {}
  BY <1>0, <1>1, LeaveWork DEF WorkFn
<1>3. Retagged({}, "downloading")
  BY <1>0, <1>1, SameTempFacts
<1>4. /\ ManifestsStand' /\ Saved' /\ Downloaded' /\ Stored' /\ Wanted' = Wanted
      /\ tempFile' \in ManifestFile \cup {NoFile, Garbage}
  BY <1>0, <1>1, <1>2, <1>3, RetaggedKeeps
<1>5. /\ Apart /\ Pending \subseteq units /\ Wanted = Pending \cup failed /\ failed \subseteq units
      /\ Cardinality(Outstanding) \in Nat /\ Cardinality(unzip) \in Nat
      /\ curr \in Nat /\ curr <= MaxConcurrent /\ MaxConcurrent \in Nat
      /\ wait = Cardinality(queue) + Cardinality(Outstanding) + Cardinality(unzip)
                  + Cardinality(Erring)
      /\ curr = Cardinality(Outstanding) + Cardinality(unzip) + 1
  BY <1>1, UpdatingFacts
<1>6. curr' = curr - 1 /\ curr' = Cardinality(Outstanding) + Cardinality(unzip) + 0
  <2>1. PICK n \in Int : n = curr - 1
    BY <1>5
  <2>2. Max({0, n}) \in {0, n} /\ Max({0, n}) >= n
    BY MaxFacts
  <2> QED  BY <1>0, <1>5, <2>1, <2>2
<1>7. Outstanding' = Outstanding
  BY <1>0 DEF Outstanding
<1>8. Apart' /\ Pending' = Pending
  BY <1>0, <1>1, <1>2, <1>5, <1>7 DEF Apart, Pending
<1>9. TypeOK'
  <2>1. UNCHANGED <<remote, temp, alias>>
    BY <1>0 DEF manifests
  <2>2. curr' \in Nat
    BY <1>5, <1>6
  <2> QED  BY <1>0, <1>2, <2>1, <2>2 DEF TypeOK, FrameType
<1>10. StackStands'
  BY <1>0, <1>1, <1>2 DEF StackStands, AtWork
<1>11. Fetches'
  BY <1>0, <1>1 DEF Fetches
<1>12. Counting'
  BY <1>0, <1>1, <1>2, <1>5, <1>6, <1>7, <1>8 DEF Counting
<1>13. Wanting'
  BY <1>0, <1>1, <1>2, <1>4, <1>5, <1>8 DEF Wanting
<1>14. ManifestAlive'
  BY <1>0 DEF IInv, ManifestAlive
<1> QED  BY <1>4, <1>9, <1>10, <1>11, <1>12, <1>13, <1>14 DEF IInv

LEMMA FileFailedKeeps ==
    ASSUME IInv, FileFailed
    PROVE  IInv'
<1> USE DEF downloads, disk, history
<1> DEFINE a == Head(stack).asset
<1>0. /\ TypeOK /\ StackStands /\ Fetches
      /\ Runs("fileFailed") /\ Leave(<<Frame("queueDownload")>>)
      /\ SetTempState({a}, "unstarted")
      /\ curr' = Max({0, curr - 1})
      /\ UNCHANGED <<state, entry, local, units, unitsVersion, failed, queue, wait, transfers,
                     unzip, storage, cached, tempFiles, tempFile, tempRenamed, server, incidents,
                     touched, freed>>
  BY DEF IInv, FileFailed
<1>1. /\ state = "UPDATING" /\ Place = "file" /\ ~ Merging
      /\ stack \in Seq(FrameType) /\ stack # <<>> /\ Tail(stack) = <<>> /\ Only(Tail(stack), IdleFn)
      /\ Erring = {} /\ Failing = {a} /\ a \in Asset
  BY <1>0, RunsFile
<1> HIDE DEF a
<1>2. /\ stack' \in Seq(FrameType) /\ stack' # <<>> /\ Tail(stack') = Tail(stack)
      /\ Place' = "queueDownload" /\ Erring' = {} /\ Failing' = {}
  BY <1>0, <1>1, LeaveWork DEF WorkFn
<1>3. /\ Apart /\ Pending \subseteq units /\ Wanted = Pending \cup failed /\ failed \subseteq units
      /\ Cardinality(Outstanding) \in Nat /\ Cardinality(unzip) \in Nat
      /\ curr \in Nat /\ curr <= MaxConcurrent /\ MaxConcurrent \in Nat
      /\ wait = Cardinality(queue) + Cardinality(Outstanding) + Cardinality(unzip)
                  + Cardinality(Erring)
      /\ curr = Cardinality(Outstanding) + Cardinality(unzip) + 1
      /\ a \in failed
  BY <1>1, UpdatingFacts
<1>4. Retagged({a}, "unstarted")
  <2>1. PICK S : S = {a}
    OBVIOUS
  <2>2. SetTempState(S, "unstarted")
    BY <1>0, <2>1
  <2> QED  BY <1>0, <1>1, <2>1, <2>2, SetTempFacts
<1>5. /\ ManifestsStand' /\ Saved' /\ Downloaded' /\ Stored' /\ Wanted' = Wanted
      /\ tempFile' \in ManifestFile \cup {NoFile, Garbage}
  <2>1. {a} \in SUBSET Wanted
    BY <1>3
  <2> QED  BY <1>0, <1>1, <1>2, <1>4, <2>1, RetaggedKeeps
<1>6. curr' = curr - 1 /\ curr' = Cardinality(Outstanding) + Cardinality(unzip) + 0
  <2>1. PICK n \in Int : n = curr - 1
    BY <1>3
  <2>2. Max({0, n}) \in {0, n} /\ Max({0, n}) >= n
    BY MaxFacts
  <2> QED  BY <1>0, <1>3, <2>1, <2>2
<1>7. Outstanding' = Outstanding
  BY <1>0 DEF Outstanding
<1>8. Apart' /\ Pending' = Pending
  BY <1>0, <1>1, <1>2, <1>3, <1>7 DEF Apart, Pending
<1>9. TypeOK'
  BY <1>0, <1>2, <1>3, <1>4, <1>6 DEF TypeOK, FrameType, Retagged, Temp
<1>10. StackStands'
  BY <1>0, <1>1, <1>2 DEF StackStands, AtWork
<1>11. Fetches'
  BY <1>0, <1>1 DEF Fetches
<1>12. Counting'
  BY <1>0, <1>1, <1>2, <1>3, <1>6, <1>7, <1>8 DEF Counting
<1>13. Wanting'
  BY <1>0, <1>1, <1>2, <1>3, <1>5, <1>8 DEF Wanting
<1>14. ManifestAlive'
  BY <1>0 DEF IInv, ManifestAlive
<1> QED  BY <1>5, <1>9, <1>10, <1>11, <1>12, <1>13, <1>14 DEF IInv

(* The event of a file under way finds the update running.                 *)
LEMMA EventFacts ==
    ASSUME IInv, stack = <<>>, NEW a, a \in Outstanding \/ a \in unzip
    PROVE  /\ state = "UPDATING" /\ Place = "idle" /\ Erring = {} /\ Failing = {} /\ ~ Merging
           /\ a \in Asset /\ a \in units /\ a \in Wanted
<1>1. Place = "idle" /\ Erring = {} /\ Failing = {} /\ ~ Merging
  BY AtRestFacts
<1>2. state = "UPDATING"
  BY DEF IInv, Counting, Quiet
<1>3. Pending \subseteq units /\ Wanted = Pending \cup failed /\ units \subseteq Asset
  BY <1>1, <1>2, UpdatingFacts
<1>4. a \in Pending
  BY DEF Pending
<1> QED  BY <1>1, <1>2, <1>3, <1>4

(* A file event leaves its function, over nothing, to its listener.        *)
LEMMA EventStack ==
    ASSUME NEW fn \in {"fileError", "fileFailed"}, NEW a \in Asset,
           stack' = Notify(<<OnAsset(fn, a)>>)
    PROVE  /\ stack' \in Seq(FrameType) /\ Place' = "file"
           /\ Erring' = IF fn = "fileError" THEN {a} ELSE {}
           /\ Failing' = IF fn = "fileFailed" THEN {a} ELSE {}
<1>1. OnAsset(fn, a) \in FrameType
  BY AssetFrames DEF Function
<1>2. stack' \in Over(OnAsset(fn, a)) /\ stack' \in Seq(FrameType)
  BY <1>1, NotifyOne
<1> QED  BY <1>2, PlaceFile DEF Place, Erring, Failing

LEMMA UnzipErrorKeeps ==
    ASSUME IInv, NEW a \in Asset, UnzipError(a)
    PROVE  IInv'
<1> USE DEF downloads, disk, history
<1>0. /\ TypeOK /\ StackStands /\ Fetches
      /\ a \in unzip /\ unzip' = unzip \ {a} /\ entry' = "NONE"
      /\ stack = <<>> /\ stack' = Notify(<<OnAsset("fileError", a)>>)
      /\ UNCHANGED manifests
      /\ UNCHANGED <<state, local, remote, temp, alias, units, unitsVersion, failed, queue, wait,
                     curr, transfers, storage, cached, tempFiles, tempFile, tempRenamed, server,
                     incidents, touched, freed>>
  BY DEF IInv, UnzipError, Enter, manifests
<1>1. /\ state = "UPDATING" /\ Place = "idle" /\ Erring = {} /\ Failing = {} /\ ~ Merging
  BY <1>0, EventFacts
<1>2. /\ stack' \in Seq(FrameType) /\ Place' = "file" /\ Erring' = {a} /\ Failing' = {}
  BY <1>0, EventStack
<1>3. Retagged({}, "downloading")
  BY <1>0, <1>1, SameTempFacts
<1>4. /\ ManifestsStand' /\ Saved' /\ Downloaded' /\ Stored' /\ Wanted' = Wanted
  BY <1>0, <1>1, <1>2, <1>3, RetaggedKeeps
<1>5. /\ Apart /\ Pending \subseteq units /\ Wanted = Pending \cup failed /\ failed \subseteq units
      /\ unzip \subseteq Asset /\ Cardinality({}) = 0
      /\ Cardinality(queue) \in Nat /\ Cardinality(Outstanding) \in Nat
      /\ Cardinality(unzip) \in Nat
      /\ curr \in Nat /\ curr <= MaxConcurrent
      /\ wait = Cardinality(queue) + Cardinality(Outstanding) + Cardinality(unzip)
                  + Cardinality(Erring)
      /\ curr = Cardinality(Outstanding) + Cardinality(unzip)
      /\ VersionId \notin transfers /\ ManifestId \notin transfers
  BY <1>1, UpdatingFacts
<1>6. Outstanding' = Outstanding
  BY <1>0 DEF Outstanding
<1>7. Apart' /\ Pending' = Pending
  BY <1>0, <1>1, <1>2, <1>5, <1>6 DEF Apart, Pending
<1>8. Cardinality(unzip') = Cardinality(unzip) - 1 /\ Cardinality(Erring') = 1
  BY <1>0, <1>2, <1>5, OneLess, FS_Singleton
<1>9. TypeOK'
  BY <1>0, <1>2 DEF TypeOK, Entry, FrameType
<1>10. StackStands'
  BY <1>0, <1>1, <1>2 DEF StackStands
<1>11. Fetches'
  BY <1>0, <1>5 DEF Fetches
<1>12. Counting'
  <2>1. /\ wait' = Cardinality(queue') + Cardinality(Outstanding') + Cardinality(unzip')
                     + Cardinality(Erring')
        /\ curr' = Cardinality(Outstanding') + Cardinality(unzip') + 1
    BY <1>0, <1>1, <1>5, <1>6, <1>8
  <2> QED  BY <1>0, <1>1, <1>2, <1>5, <1>7, <2>1 DEF Counting
<1>13. Wanting'
  BY <1>0, <1>1, <1>2, <1>4, <1>5, <1>7 DEF Wanting
<1>14. ManifestAlive'
  BY <1>0 DEF IInv, ManifestAlive
<1> QED  BY <1>4, <1>9, <1>10, <1>11, <1>12, <1>13, <1>14 DEF IInv

LEMMA UnzipFailedKeeps ==
    ASSUME IInv, UnzipFailed
    PROVE  IInv'
<1> USE DEF downloads, disk, history
<1> DEFINE a == Head(stack).asset
<1>0. /\ TypeOK /\ StackStands /\ Fetches
      /\ Runs("fileError") /\ entry' = "NONE"
      /\ wait' = IF a \in units THEN wait - 1 ELSE wait
      /\ failed' = IF a \in units THEN failed \cup {a} ELSE failed
      /\ stack' = Notify(<<OnAsset("fileFailed", a)>> \o Tail(stack))
      /\ UNCHANGED manifests
      /\ UNCHANGED <<state, local, remote, temp, alias, units, unitsVersion, queue,
                     curr, transfers, unzip, storage, cached, tempFiles, tempFile, tempRenamed,
                     server, incidents, touched, freed>>
  BY DEF IInv, UnzipFailed, FileError, manifests
<1>1. /\ state = "UPDATING" /\ Place = "file" /\ ~ Merging
      /\ Tail(stack) = <<>> /\ Erring = {a} /\ Failing = {} /\ a \in Asset
  BY <1>0, RunsFile
<1> HIDE DEF a
<1>2. /\ stack' \in Seq(FrameType) /\ Place' = "file" /\ Erring' = {} /\ Failing' = {a}
  <2>1. <<OnAsset("fileFailed", a)>> \o <<>> = <<OnAsset("fileFailed", a)>>
    BY <1>1, FrontOfNone, AssetFrames DEF Function
  <2> QED  BY <1>0, <1>1, <2>1, EventStack
<1>3. Retagged({}, "downloading")
  BY <1>0, <1>1, SameTempFacts
<1>4. /\ ManifestsStand' /\ Saved' /\ Downloaded' /\ Stored' /\ Wanted' = Wanted
  BY <1>0, <1>1, <1>2, <1>3, RetaggedKeeps
<1>5. /\ Apart /\ Pending \subseteq units /\ Wanted = Pending \cup failed /\ failed \subseteq units
      /\ units \subseteq Asset /\ Cardinality({}) = 0
      /\ Cardinality(queue) \in Nat /\ Cardinality(Outstanding) \in Nat
      /\ Cardinality(unzip) \in Nat
      /\ curr \in Nat /\ curr <= MaxConcurrent /\ wait \in Nat
      /\ wait = Cardinality(queue) + Cardinality(Outstanding) + Cardinality(unzip)
                  + Cardinality(Erring)
      /\ curr = Cardinality(Outstanding) + Cardinality(unzip) + 1
      /\ VersionId \notin transfers /\ ManifestId \notin transfers
  BY <1>1, UpdatingFacts
<1>6. Outstanding' = Outstanding
  BY <1>0 DEF Outstanding
<1>7. a \in units /\ failed' = failed \cup {a} /\ wait' = wait - 1
  BY <1>0, <1>1, <1>5 DEF Pending
<1>8. Apart' /\ Pending' \cup {a} = Pending
  BY <1>0, <1>1, <1>2, <1>5, <1>6 DEF Apart, Pending
<1>9. Cardinality(Erring) = 1
  BY <1>1, FS_Singleton
<1>10. wait' \in Nat /\ wait' = Cardinality(queue') + Cardinality(Outstanding')
                                  + Cardinality(unzip') + Cardinality(Erring')
  BY <1>0, <1>2, <1>5, <1>6, <1>7, <1>9
<1>11. TypeOK'
  BY <1>0, <1>1, <1>2, <1>7, <1>10 DEF TypeOK, Entry, FrameType
<1>12. StackStands'
  BY <1>0, <1>1, <1>2 DEF StackStands
<1>13. Fetches'
  BY <1>0, <1>5 DEF Fetches
<1>14. Counting'
  BY <1>0, <1>1, <1>2, <1>5, <1>6, <1>8, <1>10 DEF Counting
<1>15. Wanting'
  BY <1>0, <1>1, <1>2, <1>4, <1>5, <1>7, <1>8 DEF Wanting
<1>16. ManifestAlive'
  BY <1>0 DEF IInv, ManifestAlive
<1> QED  BY <1>4, <1>11, <1>12, <1>13, <1>14, <1>15, <1>16 DEF IInv

LEMMA AssetErrorKeeps ==
    ASSUME IInv, NEW a \in Asset, AssetError(a)
    PROVE  IInv'
<1> USE DEF downloads, disk, history
<1>0. /\ TypeOK /\ StackStands /\ Fetches
      /\ stack = <<>> /\ a \in transfers /\ transfers' = transfers \ {a} /\ entry' = "NONE"
      /\ tempFiles' = [tempFiles EXCEPT ![a] = Bad]
      /\ wait' = IF a \in units THEN wait - 1 ELSE wait
      /\ failed' = IF a \in units THEN failed \cup {a} ELSE failed
      /\ stack' = Notify(<<OnAsset("fileFailed", a)>> \o <<>>)
      /\ UNCHANGED manifests
      /\ UNCHANGED <<state, local, remote, temp, alias, units, unitsVersion, queue,
                     curr, unzip, storage, cached, tempFile, tempRenamed,
                     server, incidents, touched, freed>>
  BY DEF IInv, AssetError, FileError, manifests
<1>1. /\ state = "UPDATING" /\ Place = "idle" /\ Erring = {} /\ Failing = {} /\ ~ Merging
      /\ a \in Outstanding /\ a \in units /\ a \in Wanted
  <2>1. a \in Outstanding
    BY <1>0 DEF Outstanding
  <2> QED  BY <1>0, <2>1, EventFacts
<1>2. /\ stack' \in Seq(FrameType) /\ Place' = "file" /\ Erring' = {} /\ Failing' = {a}
  <2>1. <<OnAsset("fileFailed", a)>> \o <<>> = <<OnAsset("fileFailed", a)>>
    BY FrontOfNone, AssetFrames DEF Function
  <2> QED  BY <1>0, <2>1, EventStack
<1>3. Retagged({}, "downloading")
  BY <1>0, <1>1, SameTempFacts
<1>4. /\ tempFiles' \in [Asset -> Nat \cup {Bad}]
      /\ \A b \in Asset \ {a} : tempFiles'[b] = tempFiles[b]
  BY <1>0 DEF TypeOK
<1>5. /\ ManifestsStand' /\ Saved' /\ Downloaded' /\ Stored' /\ Wanted' = Wanted
  BY <1>0, <1>1, <1>2, <1>3, <1>4, RetaggedKeeps
<1>6. /\ Apart /\ Pending \subseteq units /\ Wanted = Pending \cup failed /\ failed \subseteq units
      /\ units \subseteq Asset /\ Outstanding \subseteq Asset /\ Cardinality({}) = 0
      /\ Cardinality(queue) \in Nat /\ Cardinality(Outstanding) \in Nat
      /\ Cardinality(unzip) \in Nat
      /\ curr \in Nat /\ curr <= MaxConcurrent /\ wait \in Nat
      /\ wait = Cardinality(queue) + Cardinality(Outstanding) + Cardinality(unzip)
                  + Cardinality(Erring)
      /\ curr = Cardinality(Outstanding) + Cardinality(unzip)
      /\ VersionId \notin transfers /\ ManifestId \notin transfers
  BY <1>1, UpdatingFacts
<1>7. Outstanding' = Outstanding \ {a}
  BY <1>0 DEF Outstanding
<1>8. failed' = failed \cup {a} /\ wait' = wait - 1
  BY <1>0, <1>1
<1>9. Apart' /\ Pending' \cup {a} = Pending
  BY <1>0, <1>1, <1>2, <1>6, <1>7 DEF Apart, Pending
<1>10. Cardinality(Outstanding') = Cardinality(Outstanding) - 1 /\ Cardinality(Outstanding) >= 1
  BY <1>1, <1>6, <1>7, OneLess
<1>11. /\ wait' \in Nat
       /\ wait' = Cardinality(queue') + Cardinality(Outstanding') + Cardinality(unzip')
                    + Cardinality(Erring')
       /\ curr' = Cardinality(Outstanding') + Cardinality(unzip') + 1
  BY <1>0, <1>1, <1>2, <1>6, <1>8, <1>10
<1>12. TypeOK'
  BY <1>0, <1>2, <1>4, <1>8, <1>11 DEF TypeOK, Entry, FrameType
<1>13. StackStands'
  BY <1>0, <1>1, <1>2 DEF StackStands
<1>14. Fetches'
  BY <1>0, <1>6 DEF Fetches
<1>15. Counting'
  BY <1>0, <1>1, <1>2, <1>6, <1>9, <1>11 DEF Counting
<1>16. Wanting'
  BY <1>0, <1>1, <1>2, <1>5, <1>6, <1>8, <1>9 DEF Wanting
<1>17. ManifestAlive'
  BY <1>0 DEF IInv, ManifestAlive
<1> QED  BY <1>5, <1>12, <1>13, <1>14, <1>15, <1>16, <1>17 DEF IInv

(* A file is there: it is counted out and no longer wanted.                *)
LEMMA FileSuccessKeeps ==
    ASSUME IInv, NEW a \in Asset, a \in Outstanding \/ a \in unzip, FileSuccess(a),
           transfers' = transfers \ {a}, unzip' = unzip \ {a},
           tempFiles' = [tempFiles EXCEPT ![a] = Content[unitsVersion][a]]
    PROVE  IInv'
<1> USE DEF downloads, disk, history
<1>0. /\ TypeOK /\ StackStands /\ Fetches
      /\ stack = <<>> /\ stack' = Notify(<<Frame("fileDone")>>)
      /\ SetTempState({a}, "successed")
      /\ failed' = failed \ {a}
      /\ wait' = IF a \in units THEN wait - 1 ELSE wait
      /\ UNCHANGED <<state, entry, local, units, unitsVersion, queue, curr, storage, cached,
                     tempFile, tempRenamed, server, incidents, touched, freed>>
  BY DEF IInv, FileSuccess, Enter
<1>1. /\ state = "UPDATING" /\ Place = "idle" /\ Erring = {} /\ Failing = {} /\ ~ Merging
      /\ a \in units /\ a \in Wanted
  BY <1>0, EventFacts
<1>2. /\ stack' \in Seq(FrameType) /\ Place' = "file" /\ Erring' = {} /\ Failing' = {}
  <2>1. stack' \in Over(Frame("fileDone")) /\ stack' \in Seq(FrameType)
    BY <1>0, NotifyOne, FrameTypes DEF Function
  <2> QED  BY <2>1, PlaceFileDone DEF Place, Erring, Failing
<1>3. Retagged({a}, "successed")
  <2>1. PICK S : S = {a}
    OBVIOUS
  <2>2. SetTempState(S, "successed")
    BY <1>0, <2>1
  <2> QED  BY <1>0, <1>1, <2>1, <2>2, SetTempFacts
<1>4. /\ tempFiles' \in [Asset -> Nat \cup {Bad}] /\ tempFiles'[a] = Content[unitsVersion][a]
      /\ \A b \in Asset \ {a} : tempFiles'[b] = tempFiles[b]
  <2>1. unitsVersion \in Version
    BY <1>1, TempStands
  <2>2. Content[unitsVersion][a] \in Nat
    BY <2>1, ContentAssumption
  <2> QED  BY <1>0, <2>2 DEF TypeOK
<1>5. /\ ManifestsStand' /\ Saved' /\ Downloaded' /\ Stored' /\ Wanted' = Wanted \ {a}
  <2>1. {a} \in SUBSET Wanted
    BY <1>1
  <2>2. \A b \in {a} : tempFiles'[b] = Content[unitsVersion][b]
    BY <1>4
  <2>3. \A b \in Asset \ Wanted : tempFiles'[b] = tempFiles[b]
    BY <1>1, <1>4
  <2> QED  BY <1>0, <1>1, <1>2, <1>3, <2>1, <2>2, <2>3, RetaggedKeeps
<1>6. /\ Apart /\ Pending \subseteq units /\ Wanted = Pending \cup failed /\ failed \subseteq units
      /\ units \subseteq Asset /\ Outstanding \subseteq Asset /\ unzip \subseteq Asset
      /\ Cardinality({}) = 0
      /\ Cardinality(queue) \in Nat /\ Cardinality(Outstanding) \in Nat
      /\ Cardinality(unzip) \in Nat
      /\ curr \in Nat /\ curr <= MaxConcurrent /\ wait \in Nat
      /\ wait = Cardinality(queue) + Cardinality(Outstanding) + Cardinality(unzip)
                  + Cardinality(Erring)
      /\ curr = Cardinality(Outstanding) + Cardinality(unzip)
      /\ VersionId \notin transfers /\ ManifestId \notin transfers
  BY <1>1, UpdatingFacts
<1>7. Outstanding' = Outstanding \ {a} /\ wait' = wait - 1
  BY <1>0, <1>1 DEF Outstanding
<1>8. Apart' /\ Pending' = Pending \ {a}
  BY <1>0, <1>1, <1>2, <1>6, <1>7 DEF Apart, Pending
<1>9. /\ Cardinality(Outstanding') + Cardinality(unzip')
            = Cardinality(Outstanding) + Cardinality(unzip) - 1
      /\ Cardinality(Outstanding) + Cardinality(unzip) >= 1
      /\ Cardinality(Outstanding') \in Nat /\ Cardinality(unzip') \in Nat
  <2>1. CASE a \in Outstanding
    <3>1. unzip' = unzip
      BY <1>6, <2>1 DEF Apart
    <3>2. Cardinality(Outstanding') = Cardinality(Outstanding) - 1 /\ Cardinality(Outstanding) >= 1
      BY <1>6, <1>7, <2>1, OneLess
    <3>3. Cardinality(unzip') = Cardinality(unzip)
      BY <3>1
    <3> HIDE <2>1, <3>1
    <3> QED  BY <1>6, <3>2, <3>3
  <2>2. CASE a \in unzip
    <3>1. Outstanding' = Outstanding
      BY <1>6, <1>7, <2>2 DEF Apart
    <3>2. Cardinality(unzip') = Cardinality(unzip) - 1 /\ Cardinality(unzip) >= 1
      BY <1>6, <2>2, OneLess
    <3> QED  BY <1>6, <3>1, <3>2
  <2> QED  BY <2>1, <2>2
<1>10. /\ wait' \in Nat
       /\ wait' = Cardinality(queue') + Cardinality(Outstanding') + Cardinality(unzip')
                    + Cardinality(Erring')
       /\ curr' = Cardinality(Outstanding') + Cardinality(unzip') + 1
  <2>1. /\ Cardinality(queue') = Cardinality(queue)
        /\ Cardinality(Erring') = 0 /\ Cardinality(Erring) = 0
    BY <1>0, <1>1, <1>2, <1>6
  <2>2. wait = Cardinality(queue) + (Cardinality(Outstanding) + Cardinality(unzip))
    BY <1>6, <2>1
  <2>3. wait' = wait - 1 /\ curr' = curr
    BY <1>0, <1>7
  <2>4. wait' = Cardinality(queue) + (Cardinality(Outstanding') + Cardinality(unzip'))
    BY <1>6, <1>9, <2>2, <2>3
  <2>5. curr' = Cardinality(Outstanding') + Cardinality(unzip') + 1
    BY <1>6, <1>9, <2>3
  <2> QED  BY <1>6, <1>9, <2>1, <2>4, <2>5
<1>11. TypeOK'
  BY <1>0, <1>2, <1>3, <1>4, <1>10 DEF TypeOK, FrameType, Retagged, Temp
<1>12. StackStands'
  BY <1>0, <1>1, <1>2 DEF StackStands
<1>13. Fetches'
  BY <1>6 DEF Fetches
<1>14. Counting'
  BY <1>0, <1>1, <1>2, <1>6, <1>8, <1>10 DEF Counting
<1>15. Wanting'
  BY <1>0, <1>1, <1>2, <1>5, <1>6, <1>8 DEF Wanting
<1>16. ManifestAlive'
  BY <1>0 DEF IInv, ManifestAlive
<1> QED  BY <1>5, <1>11, <1>12, <1>13, <1>14, <1>15, <1>16 DEF IInv

LEMMA AssetSuccessKeeps ==
    ASSUME IInv, NEW a \in Asset, AssetSuccess(a)
    PROVE  IInv'
<1>0. /\ TypeOK /\ StackStands /\ Fetches
      /\ stack = <<>> /\ a \in Outstanding /\ transfers' = transfers \ {a}
  BY DEF IInv, AssetSuccess, Outstanding
<1>1. /\ state = "UPDATING" /\ Place = "idle" /\ Erring = {} /\ Failing = {} /\ ~ Merging
      /\ a \in units /\ a \in Wanted
  BY <1>0, EventFacts
<1>2. /\ Apart /\ Pending \subseteq units /\ Wanted = Pending \cup failed /\ failed \subseteq units
      /\ units \subseteq Asset /\ Outstanding \subseteq Asset /\ unzip \subseteq Asset
      /\ Cardinality({}) = 0
      /\ Cardinality(queue) \in Nat /\ Cardinality(Outstanding) \in Nat
      /\ Cardinality(unzip) \in Nat
      /\ curr \in Nat /\ curr <= MaxConcurrent /\ wait \in Nat
      /\ wait = Cardinality(queue) + Cardinality(Outstanding) + Cardinality(unzip)
                  + Cardinality(Erring)
      /\ curr = Cardinality(Outstanding) + Cardinality(unzip)
      /\ VersionId \notin transfers /\ ManifestId \notin transfers
  BY <1>1, UpdatingFacts
<1>3. CASE a \notin Compressed
  <2>1. /\ tempFiles' = [tempFiles EXCEPT ![a] = Content[unitsVersion][a]]
        /\ FileSuccess(a) /\ unzip' = unzip
    BY <1>3 DEF AssetSuccess
  <2>2. unzip' = unzip \ {a}
    BY <1>0, <1>2, <2>1 DEF Apart
  <2> QED  BY <1>0, <2>1, <2>2, FileSuccessKeeps
<1>4. CASE a \in Compressed
  <2> USE DEF downloads, history
  <2>0. /\ tempFiles' = [tempFiles EXCEPT ![a] = Bad] /\ unzip' = unzip \cup {a}
        /\ UNCHANGED manifests
        /\ UNCHANGED <<state, entry, local, units, unitsVersion, failed, queue, wait, curr,
                       stack, storage, cached, tempFile, tempRenamed, server, incidents,
                       touched, freed>>
    BY <1>4 DEF AssetSuccess
  <2>1. Place' = Place /\ Erring' = Erring /\ Failing' = Failing
    BY <2>0, StackSame
  <2>2. Retagged({}, "downloading")
    BY <1>1, <2>0, SameTempFacts
  <2>3. /\ tempFiles' \in [Asset -> Nat \cup {Bad}]
        /\ \A b \in Asset \ {a} : tempFiles'[b] = tempFiles[b]
    BY <1>0, <2>0 DEF TypeOK
  <2>4. /\ ManifestsStand' /\ Saved' /\ Downloaded' /\ Stored' /\ Wanted' = Wanted
    BY <1>1, <2>0, <2>1, <2>2, <2>3, RetaggedKeeps
  <2>5. Outstanding' = Outstanding \ {a}
    BY <1>0 DEF Outstanding
  <2>6. Apart' /\ Pending' = Pending
    BY <1>0, <1>1, <1>2, <2>0, <2>1, <2>5 DEF Apart, Pending
  <2>7. /\ Cardinality(Outstanding') = Cardinality(Outstanding) - 1
        /\ Cardinality(unzip') = Cardinality(unzip) + 1
    <3>1. a \notin unzip
      BY <1>0, <1>2 DEF Apart
    <3> QED  BY <1>0, <1>2, <2>0, <2>5, <3>1, OneLess, OneMore
  <2>8. /\ wait' = Cardinality(queue') + Cardinality(Outstanding') + Cardinality(unzip')
                     + Cardinality(Erring')
        /\ curr' = Cardinality(Outstanding') + Cardinality(unzip') + 0
        /\ curr' > 0
    <3>1. Cardinality(Outstanding) >= 1
      BY <1>0, <1>2, OneLess
    <3> QED  BY <1>1, <1>2, <2>0, <2>1, <2>7, <3>1
  <2>9. TypeOK'
    <3>1. UNCHANGED <<remote, temp, alias>>
      BY <2>0 DEF manifests
    <3> QED  BY <1>0, <2>0, <2>3, <3>1 DEF TypeOK
  <2>10. StackStands'
    BY <1>1, <2>0, <2>1 DEF StackStands
  <2>11. Fetches'
    BY <1>0, <1>2 DEF Fetches
  <2>12. Counting'
    BY <1>1, <1>2, <2>0, <2>1, <2>6, <2>8 DEF Counting
  <2>13. Wanting'
    BY <1>1, <1>2, <2>0, <2>1, <2>4, <2>6 DEF Wanting
  <2>14. ManifestAlive'
    BY <2>0 DEF IInv, ManifestAlive
  <2> QED  BY <2>4, <2>9, <2>10, <2>11, <2>12, <2>13, <2>14 DEF IInv
<1> QED  BY <1>3, <1>4

LEMMA UnzipSuccessKeeps ==
    ASSUME IInv, NEW a \in Asset, UnzipSuccess(a)
    PROVE  IInv'
<1>1. /\ stack = <<>> /\ a \in unzip /\ unzip' = unzip \ {a} /\ FileSuccess(a)
      /\ tempFiles' = [tempFiles EXCEPT ![a] = Content[unitsVersion][a]]
      /\ transfers' = transfers
  BY DEF UnzipSuccess, FileSuccess, Enter
<1>2. Apart
  BY <1>1, EventFacts, UpdatingFacts
<1>3. transfers' = transfers \ {a}
  BY <1>1, <1>2 DEF Apart, Outstanding
<1> QED  BY <1>1, <1>3, FileSuccessKeeps
-----------------------------------------------------------------------------
(* The process dies and starts again.                                      *)
LEMMA RestartFacts ==
    ASSUME IInv, Restart
    PROVE  \E file \in ManifestFile \cup {NoFile, Garbage} :
             /\ file = Garbage => /\ tempFiles' = NoFiles /\ tempFile' = NoFile
                                  /\ tempRenamed' = NoFile
             /\ file # Garbage => /\ file = tempFile
                                  /\ UNCHANGED <<tempFiles, tempFile, tempRenamed>>
             /\ file = Garbage => temp' = Null
             /\ file = NoFile => temp' = Unparsed
             /\ file \in ManifestFile => temp' = ParseFile(Unparsed, file)
             /\ UNCHANGED <<storage, cached, server, touched, freed>>
             /\ incidents \subseteq incidents' /\ incidents' \subseteq Incident
             /\ Sound' => ~ (Merging /\ tempRenamed = NoFile /\ tempFiles # NoFiles)
             /\ Started(file)
<1> USE Sentinels
<1>1. PICK file \in ManifestFile \cup {NoFile, Garbage} :
        /\ file # Garbage => file = tempFile
        /\ IF file = Garbage
           THEN RemoveTempStorage
           ELSE UNCHANGED <<tempFiles, tempFile, tempRenamed>>
        /\ UNCHANGED <<storage, cached, server, touched, freed>>
        /\ incidents' = IF Runs("merge") /\ tempRenamed = NoFile /\ tempFiles # NoFiles
                        THEN incidents \cup {"torn"} ELSE incidents
        /\ Started(file)
  BY DEF Restart, IInv, TypeOK
<1>2. incidents \subseteq incidents' /\ incidents' \subseteq Incident
  BY <1>1 DEF IInv, TypeOK, Incident
<1>3. Merging => Runs("merge")
  BY HeadTells DEF IInv, TypeOK, FrameType, Merging, Place, Runs, WorkFn
<1>4. Sound' => ~ (Merging /\ tempRenamed = NoFile /\ tempFiles # NoFiles)
  BY <1>1, <1>3 DEF Sound
<1>5. /\ file = Garbage => temp' = Null
      /\ file = NoFile => temp' = Unparsed
      /\ file \in ManifestFile => temp' = ParseFile(Unparsed, file)
  BY <1>1 DEF Started
<1> QED  BY <1>1, <1>2, <1>4, <1>5 DEF RemoveTempStorage

LEMMA RestartKeeps ==
    ASSUME IInv, Restart
    PROVE  IInv'
<1> USE Sentinels DEF manifests, downloads, disk, history
<1>0. PICK file \in ManifestFile \cup {NoFile, Garbage} :
             /\ file = Garbage => /\ tempFiles' = NoFiles /\ tempFile' = NoFile
                                  /\ tempRenamed' = NoFile
             /\ file # Garbage => /\ file = tempFile
                                  /\ UNCHANGED <<tempFiles, tempFile, tempRenamed>>
             /\ file = Garbage => temp' = Null
             /\ file = NoFile => temp' = Unparsed
             /\ file \in ManifestFile => temp' = ParseFile(Unparsed, file)
             /\ UNCHANGED <<storage, cached, server, touched, freed>>
             /\ incidents \subseteq incidents' /\ incidents' \subseteq Incident
             /\ Sound' => ~ (Merging /\ tempRenamed = NoFile /\ tempFiles # NoFiles)
             /\ Started(file)
  BY RestartFacts
<1>1. /\ state' = "UNCHECKED" /\ entry' = "NONE" /\ local' = cached' /\ remote' = Unparsed
      /\ alias' = FALSE /\ units' = {} /\ unitsVersion' = 0 /\ failed' = {} /\ queue' = {}
      /\ wait' = 0 /\ curr' = 0 /\ transfers' = {} /\ unzip' = {} /\ stack' = <<>>
  BY <1>0 DEF Started
<1>2. /\ Place' = "idle" /\ Erring' = {} /\ Failing' = {}
      /\ stack' \in Seq(FrameType) /\ Only(stack', {"listener", "parseFailed"})
  BY <1>1, StackEmpty
<1>3. /\ remote' \in ManifestObject /\ ObjectStands(remote') /\ remote' # Null
      /\ ~ remote'.loaded /\ remote'.states = NoStates /\ remote'.version = 0
  BY <1>1, UnparsedFacts
<1>4. \/ temp' = Null /\ tempFiles' = NoFiles /\ tempFile' = NoFile /\ tempRenamed' = NoFile
      \/ /\ temp' \in ManifestObject /\ ObjectStands(temp') /\ temp' # Null
         /\ UNCHANGED <<tempFiles, tempFile, tempRenamed>>
         /\ \/ temp'.states = NoStates /\ ~ temp'.loaded
            \/ /\ tempFile \in ManifestFile /\ temp'.states = tempFile.states
               /\ temp'.version = tempFile.version
               /\ temp'.updating <=> tempFile.updating = "true"
  <2>1. CASE file = Garbage
    BY <1>0, <2>1
  <2>2. CASE file = NoFile
    BY <1>0, <2>2, UnparsedFacts
  <2>3. CASE file \in ManifestFile
    <3>1. file = tempFile /\ ListsHeld(file) /\ file.updating \in Flag
      BY <1>0, <2>3 DEF IInv, ManifestsStand, ManifestFile
    <3>2. Flagged(file.updating, Unparsed.updating) <=> file.updating = "true"
      BY <3>1, UnparsedFacts DEF Flagged, Flag
    <3>3. /\ temp' \in ManifestObject /\ ObjectStands(temp') /\ temp' # Null
          /\ temp'.states = file.states /\ temp'.version = file.version
          /\ temp'.updating <=> file.updating = "true"
      BY <1>0, <2>3, <3>1, <3>2, UnparsedFacts, ParseFileFacts
    <3> QED  BY <1>0, <2>3, <3>1, <3>3
  <2> QED  BY <2>1, <2>2, <2>3
<1>5. Outstanding' = {}
  BY <1>1 DEF Outstanding
<1>6. TypeOK'
  <2>1. tempFiles' \in [Asset -> Nat \cup {Bad}]
    BY <1>4 DEF IInv, TypeOK, NoFiles
  <2>2. temp' \in ManifestObject \cup {Null}
    BY <1>4
  <2>3. /\ tempFile' \in ManifestFile \cup {NoFile, Garbage}
        /\ tempRenamed' \in ManifestFile \cup {NoFile, Garbage}
    BY <1>4 DEF IInv, TypeOK
  <2>4. /\ storage' \in [Asset -> Nat \cup {Bad}] /\ cached' \in View /\ server' \in Version
        /\ touched' \subseteq Asset /\ freed' \in BOOLEAN /\ incidents' \subseteq Incident
    BY <1>0 DEF IInv, TypeOK
  <2>5. 0 \in 0..MaxVersion
    BY ContentAssumption
  <2> QED  BY <1>1, <1>2, <1>3, <2>1, <2>2, <2>3, <2>4, <2>5
           DEF TypeOK, State, Entry, FrameType
<1>7. StackStands'
  BY <1>1, <1>2 DEF StackStands
<1>8. Fetches'
  BY <1>1 DEF Fetches
<1>9. \A a \in Asset : NoStates[a] = "absent"
  BY DEF NoStates
<1>10. ManifestsStand'
  BY <1>0, <1>1, <1>2, <1>3, <1>4, <1>9, StandsStay
     DEF IInv, ManifestsStand, Underway, Merging, Succeeding
<1>11. Counting'
  BY <1>1, <1>2, <1>5, AssetsManagerAssumption DEF Counting, Quiet
<1>12. Wanting'
  BY <1>1, <1>3 DEF Wanting, Underway
<1>13. Saved'
  BY <1>1, <1>2 DEF Saved, Underway, UpdateFound, Merging
<1>14. Downloaded'
  <2>1. tempFile \in ManifestFile => Marked(tempFile)
    BY DEF IInv, Downloaded
  <2> QED  BY <1>1, <1>2, <1>4, <1>9, <2>1 DEF Downloaded, Marked, Temp
<1>15. Stored'
  <2>1. SUFFICES ASSUME Sound' PROVE Stored'
    BY DEF Stored
  <2>2. Sound /\ ~ (Merging /\ tempRenamed = NoFile /\ tempFiles # NoFiles)
    BY <1>0, <2>1 DEF Sound
  <2>3. /\ Keeps(cached.version)
        /\ touched # {} => cached.version < server
        /\ tempFile \in ManifestFile /\ tempFile.updating = "true" => PartOf(tempFile)
    BY <2>2 DEF IInv, Stored
  <2>4. Keeps(cached.version)'
    BY <1>0, <2>3 DEF Keeps, Found, Holds
  <2>5. temp' # Null /\ temp'.loaded /\ temp'.updating => PartOf(temp)'
    BY <1>0, <1>4, <2>3 DEF PartOf, Found
  <2>6. tempFile' \in ManifestFile /\ tempFile'.updating = "true" => PartOf(tempFile)'
    BY <1>0, <1>4, <2>3 DEF PartOf, Found
  <2> QED  BY <1>0, <1>1, <1>2, <2>3, <2>4, <2>5, <2>6 DEF Stored, Merging, Succeeding
<1>16. ManifestAlive'
  BY <1>0 DEF IInv, ManifestAlive
<1> QED  BY <1>6, <1>7, <1>8, <1>10, <1>11, <1>12, <1>13, <1>14, <1>15, <1>16 DEF IInv
-----------------------------------------------------------------------------
(* The invariant holds when the manager has been initialised.              *)
LEMMA InitHolds ==
    ASSUME Init
    PROVE  IInv
<1> USE Sentinels DEF manifests, downloads, disk, history
<1>1. /\ Place = "idle" /\ Erring = {} /\ Failing = {} /\ stack \in Seq(FrameType)
      /\ \A F : Only(stack, F)
  BY PlaceEmpty DEF Init, Place, Erring, Failing, Only
<1>2. /\ remote = Unparsed /\ temp = Unparsed /\ local = Package /\ cached = Package
      /\ state = "UNCHECKED" /\ stack = <<>> /\ ~ alias
  BY DEF Init
<1>3. /\ Unparsed \in ManifestObject /\ ObjectStands(Unparsed) /\ Unparsed # Null
      /\ ~ Unparsed.loaded /\ ~ Unparsed.updating
      /\ Unparsed.states = NoStates /\ Unparsed.version = 0
  BY UnparsedFacts
<1>4. 1 \in Version /\ 0 \in 0..MaxVersion /\ \A v \in Version : v \in 0..MaxVersion
  BY ContentAssumption DEF Version
<1>5. Package \in View /\ ViewStands(Package) /\ Package.version = 1
  BY <1>4 DEF Package, View, ViewStands, Holds
<1>6. \A a \in Asset : NoStates[a] = "absent" /\ NoFiles[a] = 0
  BY DEF NoStates, NoFiles
<1>7. Outstanding = {} /\ Cardinality({}) = 0
  BY FS_EmptySet DEF Init, Outstanding
<1>8. TypeOK
  <2>1. NoFiles \in [Asset -> Nat \cup {Bad}]
    BY DEF NoFiles
  <2> QED  BY <1>1, <1>3, <1>4, <1>5, <2>1 DEF Init, TypeOK, State, Entry, FrameType
<1>9. StackStands
  BY <1>1, <1>2, <1>3 DEF StackStands
<1>10. Fetches
  BY DEF Init, Fetches
<1>11. ManifestsStand
  BY <1>1, <1>2, <1>3, <1>5, <1>6 DEF Init, ManifestsStand, Underway, Merging, Succeeding
<1>12. Counting
  BY <1>1, <1>2, <1>7, AssetsManagerAssumption DEF Init, Counting, Quiet
<1>13. Wanting
  BY <1>2, <1>3 DEF Wanting, Underway
<1>14. Saved
  BY <1>1, <1>2, <1>3 DEF Saved, Underway, UpdateFound, Merging
<1>15. Downloaded
  BY <1>1, <1>2, <1>3, <1>6 DEF Init, Downloaded, Marked, Temp
<1>16. Stored
  <2>1. Keeps(1)
    BY <1>6 DEF Init, Keeps, Found, Holds
  <2> QED  BY <1>1, <1>2, <1>3, <1>5, <2>1 DEF Init, Stored, Merging, Succeeding
<1>17. ManifestAlive
  BY DEF Init, ManifestAlive
<1> QED  BY <1>8, <1>9, <1>10, <1>11, <1>12, <1>13, <1>14, <1>15, <1>16, <1>17 DEF IInv

(* A step that changes nothing keeps it.                                   *)
LEMMA StutterKeeps ==
    ASSUME IInv, UNCHANGED vars
    PROVE  IInv'
<1> USE DEF vars, memory, manifests, downloads, disk, history
<1>0. /\ \A m : Marked(m)' = Marked(m) /\ PartOf(m)' = PartOf(m)
      /\ \A v : Keeps(v)' = Keeps(v) /\ ToMerge(v)' = ToMerge(v) /\ Complete(v)' = Complete(v)
      /\ Full' = Full
  BY DEF Marked, PartOf, Keeps, ToMerge, Complete, Found, Holds, Full
<1>1. /\ Place' = Place /\ Erring' = Erring /\ Failing' = Failing /\ Temp' = Temp
      /\ Wanted' = Wanted /\ Outstanding' = Outstanding /\ Sound' = Sound
  BY StackSame DEF Temp, Wanted, GenResumeAssetsList, Listed, Outstanding, Sound
<1>2. TypeOK' /\ Fetches' /\ ManifestAlive'
  BY DEF IInv, TypeOK, Fetches, ManifestAlive
<1>3. StackStands'
  BY <1>1 DEF IInv, StackStands, AtWork
<1>4. ManifestsStand'
  BY <1>1, StandsStay DEF IInv, ManifestsStand, Underway, Merging, Succeeding
<1>5. Counting'
  BY <1>1 DEF IInv, Counting, Quiet, Apart, Pending
<1>6. Wanting'
  BY <1>1 DEF IInv, Wanting, Underway, Pending
<1>7. Saved'
  BY <1>0, <1>1 DEF IInv, Saved, Underway, UpdateFound, Merging, ViewOf, Listed
<1>8. Downloaded'
  BY <1>0, <1>1 DEF IInv, Downloaded, Merging
<1>9. Stored'
  BY <1>0, <1>1 DEF IInv, Stored, Underway, Merging, Succeeding, ViewOf, Listed
<1> QED  BY <1>2, <1>3, <1>4, <1>5, <1>6, <1>7, <1>8, <1>9 DEF IInv

(* The calls of the application keep it.                                   *)
LEMMA APIKeeps ==
    ASSUME IInv, API
    PROVE  IInv'
BY CheckUpdateKeeps, UpdateFetchesKeeps, UpdateParsesKeeps, UpdateStartsKeeps,
   UpdateRequestedKeeps, CallPrepareUpdateKeeps, DownloadFailedAssetsKeeps DEF API, Update

(* The functions on the stack keep it.                                     *)
LEMMA FunctionsKeep ==
    ASSUME IInv, Functions
    PROVE  IInv'
<1>1. CASE Return \/ VersionFound \/ ManifestFound \/ ManifestFailed
  BY <1>1, ReturnKeeps, VersionFoundKeeps, ManifestFoundKeeps, ManifestFailedKeeps
<1>2. CASE PrepareResume \/ PrepareFresh \/ ReadyToUpdate
  BY <1>2, PrepareResumeKeeps, PrepareFreshKeeps, ReadyToUpdateKeeps
<1>3. CASE BatchDownload \/ QueueDownload \/ FinishedWithErrors \/ Finished
  BY <1>3, BatchDownloadKeeps, QueueDownloadKeeps, FinishedWithErrorsKeeps, FinishedKeeps
<1>4. CASE UpdateSucceed \/ MergeManifest \/ (\E a \in Asset : MergeFile(a)) \/ SwapManifests
  BY <1>4, UpdateSucceedKeeps, MergeManifestKeeps, MergeFileKeeps, SwapManifestsKeeps
<1>5. CASE FileDone \/ FileFailed \/ UnzipFailed
  BY <1>5, FileDoneKeeps, FileFailedKeeps, UnzipFailedKeeps
<1> QED  BY <1>1, <1>2, <1>3, <1>4, <1>5 DEF Functions

(* The callbacks of what is under way keep it.                             *)
LEMMA CallbacksKeep ==
    ASSUME IInv, Callbacks
    PROVE  IInv'
BY VersionUnknownKeeps, VersionSuccessKeeps, ManifestSuccessKeeps, ManifestEmptyKeeps,
   ManifestInvalidKeeps, ManifestErrorKeeps, AssetSuccessKeeps, AssetErrorKeeps,
   UnzipSuccessKeeps, UnzipErrorKeeps
   DEF Callbacks

(* What IInv says holds at all times.                                      *)
THEOREM Invariance == Spec => []IInv
<1>1. Init => IInv
  BY InitHolds
<1>2. IInv /\ [Next]_vars => IInv'
  BY StutterKeeps, APIKeeps, FunctionsKeep, CallbacksKeep, RestartKeeps DEF Next
<1> QED  BY <1>1, <1>2, PTL DEF Spec
-----------------------------------------------------------------------------
(* What the invariant says of the properties.                              *)

(* The variables have their types.                                         *)
THEOREM TypeCorrect == Spec => []TypeOK
<1>1. IInv => TypeOK
  BY DEF IInv
<1> QED  BY <1>1, Invariance, PTL

(* A manifest is not used after its release, although two names share it.  *)
THEOREM AlwaysAlive == Spec => []ManifestAlive
<1>1. IInv => ManifestAlive
  BY DEF IInv
<1> QED  BY <1>1, Invariance, PTL

(* The number of completions under way is what Place tells.                *)
LEMMA EndingOne ==
    ASSUME NEW fn \in Function, NEW a \in Asset \cup {NoAsset},
           stack \in Over(OnAsset(fn, a)), fn \in {"fileError", "fileFailed", "fileDone"}
    PROVE  Ending = 1
<1> DEFINE f == OnAsset(fn, a)
           l == Frame("listener")
           E == {i \in DOMAIN stack : stack[i].fn \in {"fileError", "fileFailed", "fileDone"}}
<1>1. f.fn = fn /\ l.fn = "listener"
  BY DEF OnAsset, Frame
<1>2. stack = <<f>> \/ stack = <<l, f>>
  BY DEF Over
<1> HIDE DEF f, l
<1>3. CASE stack = <<f>>
  <2>1. DOMAIN stack = {1} /\ stack[1] = f
    BY <1>3
  <2>2. E = {1}
    BY <1>1, <2>1
  <2> QED  BY <2>2, FS_Singleton DEF Ending
<1>4. CASE stack = <<l, f>>
  <2>1. DOMAIN stack = {1, 2} /\ stack[1] = l /\ stack[2] = f
    BY <1>4
  <2>2. E = {2}
    BY <1>1, <2>1
  <2> QED  BY <2>2, FS_Singleton DEF Ending
<1> QED  BY <1>2, <1>3, <1>4

(* And 0 when none is on the stack.                                        *)
LEMMA EndingNone ==
    ASSUME \A i \in DOMAIN stack : stack[i].fn \notin {"fileError", "fileFailed", "fileDone"}
    PROVE  Ending = 0
<1>1. {i \in DOMAIN stack : stack[i].fn \in {"fileError", "fileFailed", "fileDone"}} = {}
  OBVIOUS
<1> QED  BY <1>1, FS_EmptySet DEF Ending

(* The functions that end a completion, and all others.                    *)
FileFn == {"fileError", "fileFailed", "fileDone"}
OtherFn == Function \ FileFn

(* At all places but a file event the stack is without the functions of    *)
(* one.                                                                    *)
LEMMA OnlyOthers ==
    ASSUME NEW s \in Seq(FrameType)
    PROVE  /\ s = <<>> => Only(s, OtherFn)
           /\ Only(s, IdleFn) => Only(s, OtherFn)
           /\ Only(s, {"listener", "parseFailed"}) => Only(s, OtherFn)
           /\ s # <<>> /\ Head(s).fn \in WorkFn \cup {"batchDownload"} /\ Only(Tail(s), IdleFn)
                 => Only(s, OtherFn)
           /\ BatchAhead(s) => Only(s, OtherFn)
           /\ \A fn \in OtherFn : s \in Over(Frame(fn)) => Only(s, OtherFn)
<1>1. /\ IdleFn \subseteq OtherFn /\ {"listener", "parseFailed"} \subseteq OtherFn
      /\ WorkFn \cup {"batchDownload"} \subseteq OtherFn /\ "listener" \in OtherFn
  BY DEF IdleFn, WorkFn, OtherFn, FileFn, Function
<1>2. \A t, F : Only(t, F) /\ F \subseteq OtherFn => Only(t, OtherFn)
  BY DEF Only
<1>3. ASSUME NEW t \in Seq(FrameType), t # <<>>, Head(t).fn \in OtherFn, Only(Tail(t), OtherFn)
      PROVE  Only(t, OtherFn)
  <2>1. Tail(t) \in Seq(FrameType) /\ Head(t) \in FrameType /\ t = <<Head(t)>> \o Tail(t)
    BY <1>3, TailType
  <2>2. Only(<<Head(t)>> \o Tail(t), OtherFn)
    BY <1>3, <2>1, OnlyFront
  <2> QED  BY <2>1, <2>2
<1>4. ASSUME NEW t \in Seq(FrameType), AtBatch(t)
      PROVE  Only(t, OtherFn)
  BY <1>1, <1>2, <1>3, <1>4 DEF AtBatch
<1>5. ASSUME BatchAhead(s) PROVE Only(s, OtherFn)
  <2>1. CASE AtBatch(s)
    BY <1>4, <2>1
  <2>2. CASE s # <<>> /\ Head(s) = Frame("listener") /\ AtBatch(Tail(s))
    <3>1. Tail(s) \in Seq(FrameType) /\ Frame("listener").fn = "listener"
      BY <2>2, TailType, FrameTypes DEF Function
    <3>2. Only(Tail(s), OtherFn)
      BY <1>4, <2>2, <3>1
    <3> QED  BY <1>1, <1>3, <2>2, <3>1, <3>2
  <2> QED  BY <1>5, <2>1, <2>2 DEF BatchAhead
<1>6. ASSUME NEW fn \in OtherFn, s \in Over(Frame(fn)) PROVE Only(s, OtherFn)
  <2>1. Frame(fn) \in FrameType /\ Frame(fn).fn = fn /\ Frame("listener").fn = "listener"
    BY FrameTypes DEF OtherFn, Function
  <2>2. Only(<<>>, OtherFn)
    BY DEF Only
  <2>3. CASE Head(s) = Frame(fn) /\ Tail(s) = <<>>
    BY <1>3, <1>6, <2>1, <2>2, <2>3, OverParts
  <2>4. CASE Head(s) = Frame("listener") /\ Tail(s) = <<Frame(fn)>>
    <3>1. Only(<<Frame(fn)>>, OtherFn)
      BY <2>1 DEF Only
    <3> QED  BY <1>1, <1>3, <1>6, <2>1, <2>4, <3>1, OverParts
  <2> QED  BY <1>6, <2>1, <2>3, <2>4, OverParts
<1>7. s = <<>> => Only(s, OtherFn)
  BY DEF Only
<1> QED  BY <1>1, <1>2, <1>3, <1>5, <1>6, <1>7

(* So a completion is on the stack exactly when Place is "file", in an     *)
(* update.                                                                 *)
LEMMA EndingPlace ==
    ASSUME IInv
    PROVE  /\ Ending = IF Place = "file" THEN 1 ELSE 0
           /\ Place = "file" => state = "UPDATING"
<1>1. stack \in Seq(FrameType) /\ StackStands /\ state \in State
  BY HeadTells DEF IInv, TypeOK
<1>2. ASSUME Only(stack, OtherFn) PROVE Ending = 0 /\ Place # "file"
  <2>1. \A i \in DOMAIN stack : stack[i].fn \notin {"fileError", "fileFailed", "fileDone"}
    BY <1>2 DEF Only, OtherFn, FileFn
  <2>2. ~ FileAhead(stack)
    <3>1. ASSUME NEW f \in FrameType, stack \in Over(f) PROVE f.fn \in OtherFn
      <4>1. Head(<<f>>) = f /\ <<f>> # <<>> /\ <<f>> \in Seq(FrameType)
        OBVIOUS
      <4>2. stack # <<>> /\ Head(stack).fn \in OtherFn /\ Only(Tail(stack), OtherFn)
        BY <1>1, <1>2, <3>1, OverParts, OnlyTail
      <4> QED  BY <3>1, <4>1, <4>2, OverParts, OnlyTail
    <3>2. ErringIn(stack) = {} /\ FailingIn(stack) = {}
      BY <3>1, AssetFrames DEF ErringIn, FailingIn, OtherFn, FileFn, Function
    <3>3. stack \notin Over(Frame("fileDone"))
      BY <3>1, FrameTypes DEF OtherFn, FileFn, Function
    <3> QED  BY <3>2, <3>3 DEF FileAhead
  <2> QED  BY <1>1, <2>1, <2>2, EndingNone, PlaceTells DEF Place
<1>3. ASSUME Place = "file" PROVE Ending = 1
  <2>1. CASE stack \in Over(Frame("fileDone"))
    BY <2>1, EndingOne DEF Frame, Function
  <2>2. CASE ErringIn(stack) # {}
    BY <2>2, EndingOne DEF ErringIn, Function
  <2>3. CASE FailingIn(stack) # {}
    BY <2>3, EndingOne DEF FailingIn, Function
  <2> QED  BY <1>1, <1>3, <2>1, <2>2, <2>3, PlaceTells DEF Place, FileAhead
<1>4. ASSUME AtWork(WorkFn) PROVE Only(stack, OtherFn)
  BY <1>1, <1>4, HeadTells, OnlyOthers DEF IInv, AtWork, Runs
<1>5. Place = "idle" \/ Place = "batchDownload" => Only(stack, OtherFn)
  BY <1>1, PlaceTells, OnlyOthers DEF Place
<1>6. CASE state \in {"UNCHECKED", "MANIFEST_LOADED", "DOWNLOADING_VERSION"}
  BY <1>1, <1>2, <1>6, OnlyOthers DEF StackStands
<1>7. CASE state \in {"FAIL_TO_UPDATE", "DOWNLOADING_MANIFEST"}
  BY <1>1, <1>2, <1>7, OnlyOthers DEF StackStands, OtherFn, FileFn, Function
<1>8. CASE state = "NEED_UPDATE" /\ ~ remote.loaded
  BY <1>1, <1>2, <1>8, OnlyOthers DEF StackStands, OtherFn, FileFn, Function
<1>9. CASE state \in {"READY_TO_UPDATE", "UP_TO_DATE"} \/ (state = "NEED_UPDATE" /\ remote.loaded)
  BY <1>1, <1>2, <1>4, <1>5, <1>9 DEF StackStands, AtWork, WorkFn
<1>10. CASE state = "UPDATING"
  BY <1>1, <1>2, <1>3, <1>4, <1>5, <1>10 DEF StackStands, AtWork, WorkFn
<1> QED  BY <1>1, <1>6, <1>7, <1>8, <1>9, <1>10 DEF State

(* The counters of the update are exactly what is under way, whatever the  *)
(* order of events, errors, retries and resumptions.                       *)
THEOREM CountersAlwaysExact == Spec => []CountersExact
<1>1. ASSUME IInv PROVE CountersExact
  <2>1. /\ curr \in Nat /\ wait \in Nat /\ Cardinality({}) = 0 /\ Counting
    BY <1>1, FS_EmptySet DEF IInv, TypeOK
  <2>2. Ending = IF Place = "file" THEN 1 ELSE 0
    BY <1>1, EndingPlace
  <2>3. Place = "file" => state = "UPDATING"
    BY <1>1, EndingPlace
  <2>4. CASE Quiet
    <3>1. ~ (state = "UPDATING" /\ Place = "idle")
      BY <2>1, <2>4 DEF Counting, Quiet
    <3>2. ~ (AtRest /\ state = "UPDATING")
      BY <3>1, AtRestFacts DEF AtRest
    <3>3. Place # "file"
      BY <2>1, <2>3, <2>4 DEF Counting, Quiet
    <3> QED  BY <2>1, <2>2, <2>4, <3>2, <3>3 DEF Quiet, Counting, CountersExact
  <2>5. CASE ~ Quiet
    <3>1. state = "UPDATING" /\ Place # "batchDownload"
      BY <2>1, <2>5 DEF Counting
    <3>2. AtRest => Place = "idle" /\ Erring = {}
      BY AtRestFacts DEF AtRest
    <3>3. /\ Cardinality(queue) \in Nat /\ Cardinality(Outstanding) \in Nat
          /\ Cardinality(unzip) \in Nat
      BY <1>1, SetsTyped DEF IInv
    <3>4. curr = Cardinality(Outstanding) + Cardinality(unzip) + Ending /\ curr <= MaxConcurrent
      BY <2>1, <2>2, <3>1 DEF Counting
    <3>5. ASSUME AtRest
          PROVE  /\ curr > 0
                 /\ wait = Cardinality(queue) + Cardinality(Outstanding) + Cardinality(unzip)
      BY <2>1, <3>1, <3>2, <3>3, <3>5 DEF Counting
    <3> QED  BY <3>4, <3>5 DEF CountersExact
  <2> QED  BY <2>4, <2>5
<1> QED  BY <1>1, Invariance, PTL

(* Every asset that is still wanted is queued, under way or remembered as  *)
(* failed; after a failed update exactly the failed ones are.              *)
THEOREM NothingEverForgotten == Spec => []NothingForgotten
<1>1. ASSUME IInv PROVE NothingForgotten
  <2>1. AtRest => Place = "idle" /\ Erring = {}
    BY AtRestFacts DEF AtRest
  <2> QED  BY <1>1, <2>1 DEF IInv, Wanting, Underway, Wanted, Pending, NothingForgotten
<1> QED  BY <1>1, Invariance, PTL

(* A file that the saved manifest marks as downloaded is in the temporary  *)
(* directory at every moment at which the process may die.                 *)
THEOREM ResumeAlwaysSound == Spec => []ResumeSound
<1>1. IInv => ResumeSound
  BY DEF IInv, Downloaded, Marked, ResumeSound
<1> QED  BY <1>1, Invariance, PTL

(* After an update, the next start chooses the manifest of the version     *)
(* that was installed.                                                     *)
THEOREM AlwaysCached == Spec => []Cached
<1>1. IInv => Cached
  BY Sentinels DEF IInv, TypeOK, Saved, Cached, Merging, StackStands, AtWork
<1> QED  BY <1>1, Invariance, PTL

(* What the manager calls up to date is complete on the disk, unless one   *)
(* of four things has happened: an update was resumed from the states of a *)
(* manifest just parsed, the process died between the files of a merge, a  *)
(* version was found that has a file as before such a merge, or a manifest *)
(* arrived without a byte over a saved one that was spoiled.               *)
THEOREM UpdateAlwaysComplete == Spec => []UpdateComplete
<1>1. IInv => UpdateComplete
  BY DEF IInv, Stored, Sound, UpdateComplete
<1> QED  BY <1>1, Invariance, PTL

(* When the merge begins, each file of the new version is in the temporary *)
(* directory or where it was, with the content of that version, unless one *)
(* of these four things has happened.                                      *)
THEOREM SoundlyDownloaded ==
    Spec => []("selfResumed" \notin incidents => CorrectlyDownloaded)
<1>1. ASSUME IInv, "selfResumed" \notin incidents PROVE CorrectlyDownloaded
  <2>1. Runs("updateSucceed") => Succeeding
    BY <1>1, HeadTells DEF IInv, Succeeding, WorkFn
  <2>2. Sound /\ Succeeding => ToMerge(remote.version)
    BY <1>1 DEF IInv, Stored
  <2>3. incidents \subseteq {"selfResumed", "spoiled"} => Sound
    BY <1>1 DEF Sound
  <2> QED  BY <2>1, <2>2, <2>3 DEF ToMerge, CorrectlyDownloaded, Holds
<1> QED  BY <1>1, Invariance, PTL
=============================================================================
