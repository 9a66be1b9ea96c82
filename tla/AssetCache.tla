----------------------------- MODULE AssetCache -----------------------------
(***************************************************************************)
(* Materials and lights that are opened, and downloaded if they are not in *)
(* the cache: Resolver.cpp's _OpenAsset, Asset.cpp, MaterialLibraryApi.cpp, *)
(* LocalStorageApi.cpp and RestClient.cpp.  The readers are threads that   *)
(* USD opens layers on, and other processes of the same user: they share   *)
(* the cache directory and nothing else.  An asset has a root file and a   *)
(* texture.                                                                *)
(***************************************************************************)
EXTENDS AssetPaths

CONSTANTS
    Materials, Lights,
    Plain,          \* the lights without a texture
    Readers,
    MaxOpens,       \* bound: how often a reader opens an asset
    MaxCrashes      \* bound: how often the process of a reader ends at an arbitrary step

Assets == Materials \cup Lights

ASSUME AssetsAssumption ==
    Materials \cap Lights = {} /\ MaxOpens \in Nat /\ MaxCrashes \in Nat

VARIABLES
    dirs,       \* the assets that have a directory in the cache
    files,      \* [place on the disk]: what the cache has there
    reader,     \* [reader]: where it is in opening which asset
    temp,       \* [reader]: [name]: the files in its temporary directory
    crashes,
    failed,     \* not in the code: assets of which a download or a process has failed
    opened      \* not in the code: assets that have been opened, at any time

vars == <<dirs, files, reader, temp, crashes, failed, opened>>

Root == "root"
Texture == "texture"
Identifier(a) == Path(IF a \in Materials THEN "gpuopen" ELSE "storage", <<a>>)
SaveLocation(a) == OnDisk(Identifier(a))
InDir(dir, name) == Path("file", dir.names \o <<name>>)
PlacesOf(a) == {InDir(SaveLocation(a), name) : name \in {Root, Texture}}
Places == UNION {PlacesOf(a) : a \in Assets}

\* An error page, or the "[Error]" that Get returns instead, is a file like any other.
Content == {"nothing", Root, Texture, "archive", "error"}
Steps == {"idle", "exists", "package", "exists again", "create", "archive", "extract", "move",
          "root file", "save root", "texture file", "save texture", "search", "opened",
          "raised"}

TypeOK ==
    /\ dirs \subseteq Assets
    /\ files \in [Places -> {"nothing", Root, Texture, "error"}]
    /\ reader \in [Readers -> [at : Steps, asset : Assets, opens : 0..MaxOpens,
                               sure : BOOLEAN, fetched : BOOLEAN]]
    /\ temp \in [Readers -> [{"archive", Root, Texture} -> Content]]
    /\ crashes \in 0..MaxCrashes
    /\ failed \subseteq Assets /\ opened \subseteq Assets

NoFiles == [name \in {"archive", Root, Texture} |-> "nothing"]

Init ==
    /\ dirs = {}
    /\ files = [place \in Places |-> "nothing"]
    /\ reader \in [Readers -> {[at |-> "idle", asset |-> a, opens |-> 0, sure |-> FALSE,
                                fetched |-> FALSE] : a \in Assets}]
    /\ temp = [r \in Readers |-> NoFiles]
    /\ crashes = 0
    /\ failed = {} /\ opened = {}

Asset(r) == reader[r].asset
Place(r, name) == InDir(SaveLocation(Asset(r)), name)
At(r, step) == reader[r].at = step
Go(r, step) == reader' = [reader EXCEPT ![r].at = step]

\* An exception: the temporary directory is removed on the way.
Raise(r) == Go(r, "raised") /\ temp' = [temp EXCEPT ![r] = NoFiles]
Failed(r) == failed' = failed \cup {Asset(r)}

-----------------------------------------------------------------------------
\* _OpenAsset.  A material is asked for first, a light looked for.
Open(r, a) ==
    /\ reader[r].at \in {"idle", "opened", "raised"}
    /\ reader[r].opens < MaxOpens
    /\ reader' = [reader EXCEPT ![r] =
                    [at |-> IF a \in Materials THEN "package" ELSE "exists", asset |-> a,
                     opens |-> @.opens + 1, sure |-> a \in opened, fetched |-> FALSE]]
    /\ UNCHANGED <<dirs, files, temp, crashes, failed, opened>>

\* Mutant: a light is asked for first, like a material.
LightExistsLater(r) ==
    /\ At(r, "exists")
    /\ Go(r, "package")
    /\ UNCHANGED <<dirs, files, temp, crashes, failed, opened>>

\* LocalStorageAsset's constructor.
LightExists(r) ==
    /\ At(r, "exists")
    /\ Go(r, IF Asset(r) \in dirs THEN "search" ELSE "package")
    /\ UNCHANGED <<dirs, files, temp, crashes, failed, opened>>

\* GetMaterialPackage and GetLightPackage: what Get returns is parsed, "[Error]" cannot be.
GetPackage(r) ==
    /\ At(r, "package")
    /\ \/ Go(r, "exists again") /\ UNCHANGED <<temp, failed>>
       \/ Raise(r) /\ Failed(r)
    /\ UNCHANGED <<dirs, files, crashes, opened>>

\* Both functions called Download look whether the directory is there.
SkipDownload(r) ==
    /\ At(r, "exists again")
    /\ Go(r, IF Asset(r) \in dirs THEN "search" ELSE "create")
    /\ UNCHANGED <<dirs, files, temp, crashes, failed, opened>>

\* Mutant: the directory of the root file is created, not that of the asset.
CreateDirectoriesOfRoot(r) ==
    /\ At(r, "create")
    /\ dirs' = dirs \cup {Place(r, Root)}
    /\ reader' = [reader EXCEPT ![r].at = IF Asset(r) \in Materials THEN "archive"
                                          ELSE "root file",
                                ![r].fetched = TRUE]
    /\ UNCHANGED <<files, temp, crashes, failed, opened>>

CreateDirectories(r) ==
    /\ At(r, "create")
    /\ dirs' = dirs \cup {Asset(r)}
    /\ reader' = [reader EXCEPT ![r].at = IF Asset(r) \in Materials THEN "archive"
                                          ELSE "root file",
                                ![r].fetched = TRUE]
    /\ UNCHANGED <<files, temp, crashes, failed, opened>>

\* RestClient::Download into the temporary directory: what Get returns, and nothing if the
\* file cannot be renamed.
Download(r, name, content) ==
    \/ temp' = [temp EXCEPT ![r][name] = content] /\ UNCHANGED failed
    \/ /\ \E bad \in {"error", "nothing"} : temp' = [temp EXCEPT ![r][name] = bad]
       /\ Failed(r)

DownloadArchive(r) ==
    /\ At(r, "archive")
    /\ Go(r, "extract")
    /\ Download(r, "archive", "archive")
    /\ UNCHANGED <<dirs, files, crashes, opened>>

\* Utils::Extract: an error is logged; what has been extracted until then stays.
Extract(r) ==
    /\ At(r, "extract")
    /\ Go(r, "move")
    /\ \/ /\ temp[r]["archive"] = "archive"
          /\ temp' = [temp EXCEPT ![r] = [NoFiles EXCEPT ![Root] = Root, ![Texture] = Texture]]
          /\ UNCHANGED failed
       \/ \E some \in {NoFiles, [NoFiles EXCEPT ![Root] = Root],
                       [NoFiles EXCEPT ![Texture] = Texture]} :
             /\ temp[r]["archive"] = "archive" \/ some = NoFiles
             /\ temp' = [temp EXCEPT ![r] = some]
             /\ Failed(r)
    /\ UNCHANGED <<dirs, files, crashes, opened>>

\* Utils::Move: one file after the other, in the order of the directory.  An archive has
\* files only: a directory in it would be renamed too, which raises when the cache has one
\* of that name that is not empty.
MoveOne(r) ==
    /\ At(r, "move")
    /\ \E name \in {Root, Texture} :
          /\ temp[r][name] # "nothing"
          /\ files' = [files EXCEPT ![Place(r, name)] = temp[r][name]]
          /\ temp' = [temp EXCEPT ![r][name] = "nothing"]
    /\ UNCHANGED <<dirs, reader, crashes, failed, opened>>

Moved(r) ==
    /\ At(r, "move")
    /\ temp[r] = NoFiles
    /\ Go(r, "search")
    /\ UNCHANGED <<dirs, files, temp, crashes, failed, opened>>

\* A light's root file and texture are downloaded under the name of the root file, one after
\* the other.
DownloadFile(r, from, to, content) ==
    /\ At(r, from)
    /\ Go(r, to)
    /\ Download(r, Root, content)
    /\ UNCHANGED <<dirs, files, crashes, opened>>

\* Mutant: the texture is put where the root file is.
SaveFileAsRoot(r, from, to, name) ==
    /\ At(r, from)
    /\ temp[r][Root] # "nothing"
    /\ files' = [files EXCEPT ![Place(r, Root)] = temp[r][Root]]
    /\ temp' = [temp EXCEPT ![r] = NoFiles]
    /\ Go(r, to)
    /\ UNCHANGED <<dirs, crashes, failed, opened>>

SaveFile(r, from, to, name) ==
    /\ At(r, from)
    /\ temp[r][Root] # "nothing"
    /\ files' = [files EXCEPT ![Place(r, name)] = temp[r][Root]]
    /\ temp' = [temp EXCEPT ![r] = NoFiles]
    /\ Go(r, to)
    /\ UNCHANGED <<dirs, crashes, failed, opened>>

SaveFails(r) ==
    /\ At(r, "save root") \/ At(r, "save texture")
    /\ temp[r][Root] = "nothing"
    /\ Raise(r)
    /\ UNCHANGED <<dirs, files, crashes, failed, opened>>

DownloadLight(r) ==
    \/ DownloadFile(r, "root file", "save root", Root)
    \/ SaveFile(r, "save root", IF Asset(r) \in Plain THEN "search" ELSE "texture file", Root)
    \/ DownloadFile(r, "texture file", "save texture", Texture)
    \/ SaveFile(r, "save texture", "search", Texture)

\* getMtlxRoot, getUsdRoot and LocalStorageAsset's search for the root file.
Search(r) ==
    /\ At(r, "search")
    /\ temp' = [temp EXCEPT ![r] = NoFiles]
    /\ IF files[Place(r, Root)] = "nothing"
       THEN Go(r, "raised") /\ UNCHANGED opened
       ELSE Go(r, "opened") /\ opened' = opened \cup {Asset(r)}
    /\ UNCHANGED <<dirs, files, crashes, failed>>

\* Its process ends: the temporary directory stays, and is never used again.
Crash(r) ==
    /\ crashes < MaxCrashes
    /\ ~At(r, "idle") /\ ~At(r, "opened") /\ ~At(r, "raised")
    /\ crashes' = crashes + 1
    /\ Go(r, "idle") /\ temp' = [temp EXCEPT ![r] = NoFiles]
    /\ Failed(r)
    /\ UNCHANGED <<dirs, files, opened>>

Step(r) ==
    \/ LightExists(r) \/ GetPackage(r) \/ SkipDownload(r) \/ CreateDirectories(r)
    \/ DownloadArchive(r) \/ Extract(r) \/ MoveOne(r) \/ Moved(r)
    \/ DownloadLight(r) \/ SaveFails(r) \/ Search(r)

Next == \E r \in Readers : Step(r) \/ Crash(r) \/ \E a \in Assets : Open(r, a)

Spec == Init /\ [][Next]_vars

-----------------------------------------------------------------------------
\* As long as no download has failed, whatever is in the cache is the right file in the
\* right place and whole, whoever else is writing: a reader may find too little, never
\* something else (RestClient.cpp:293, LocalStorageApi.cpp:135-143, FileUtils.cpp:184).
RightContent ==
    \A a \in Assets \ failed, name \in {Root, Texture} :
        files[InDir(SaveLocation(a), name)] \in {"nothing", name}

\* Where a texture that the root file of the asset mentions is looked for.
TexturePlace(a) ==
    Resolve(CreateIdentifier(Path("relative", <<Texture>>), Identifier(a)), FALSE)

\* A reader that has downloaded the asset itself finds its texture where the resolver looks
\* for it, even if another one downloaded it at the same time (Resolver.cpp:188, :308,
\* Move and rename of the two downloads).
TexturesFound ==
    \A r \in Readers :
        At(r, "opened") /\ reader[r].fetched /\ Asset(r) \notin failed \cup Plain =>
            TexturePlace(Asset(r)) \in Places /\ files[TexturePlace(Asset(r))] = Texture

\* A light that has once been opened can be opened again for ever, without the storage and
\* whatever failed in between (Asset.cpp:121).
LightsStayOpen ==
    \A r \in Readers :
        At(r, "raised") /\ reader[r].sure => Asset(r) \notin Lights
=============================================================================
