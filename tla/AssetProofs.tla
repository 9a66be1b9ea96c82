----------------------------- MODULE AssetProofs -----------------------------
(***************************************************************************)
(* What AssetCache promises to every reader, for any number of assets,     *)
(* readers, opens and crashes.                                             *)
(*                                                                         *)
(* The argument: the cache only grows (a directory stays, and a file that  *)
(* is there may be overwritten but does not go), so that what one reader   *)
(* knows of it cannot be undone by another; what a reader is about to move *)
(* to a place of the cache is what belongs there, unless it has failed.    *)
(***************************************************************************)
EXTENDS AssetCache, SequenceTheorems, TLAPS

FileOf(a, name) == InDir(SaveLocation(a), name)
Names == {Root, Texture}

(***************************************************************************)
(* Places.                                                                 *)
(***************************************************************************)
LEMMA Joined ==
    ASSUME NEW x, NEW y, NEW z
    PROVE  LET s == (<<x>> \o <<y>>) \o <<z>> IN s[2] = y /\ s[3] = z
<1> DEFINE S == {x, y, z}
           t == <<x>> \o <<y>>
           u == <<z>>
<1>1. <<x>> \in Seq(S) /\ <<y>> \in Seq(S) /\ u \in Seq(S) /\ Len(u) = 1 /\ u[1] = z
  OBVIOUS
<1>2. t \in Seq(S) /\ Len(t) = 2 /\ t[2] = y
  BY <1>1
<1> HIDE DEF t, u, S
<1>3. \A i \in 1..(Len(t) + Len(u)) : (t \o u)[i] = IF i <= Len(t) THEN t[i] ELSE u[i - Len(t)]
  BY <1>1, <1>2, ConcatProperties
<1>4. (t \o u)[2] = y /\ (t \o u)[3] = z
  <2>1. 2 \in 1..(Len(t) + Len(u)) /\ 3 \in 1..(Len(t) + Len(u))
    BY <1>1, <1>2
  <2>2. 2 <= Len(t) /\ ~(3 <= Len(t)) /\ 3 - Len(t) = 1
    BY <1>2
  <2>3. (t \o u)[2] = t[2]
    BY Zenon, <1>3, <2>1, <2>2
  <2>4. (t \o u)[3] = u[3 - Len(t)]
    BY Zenon, <1>3, <2>1, <2>2
  <2> QED
    BY Zenon, <1>1, <1>2, <2>2, <2>3, <2>4
<1> QED
  BY <1>4 DEF t, u

\* A place in the cache tells its asset and its file.
LEMMA FileNames ==
    ASSUME NEW a \in Assets, NEW name \in Names
    PROVE  /\ FileOf(a, name).names[2] = a /\ FileOf(a, name).names[3] = name
           /\ FileOf(a, name) \in Places
<1>1. FileOf(a, name).names
        = (<<RootOf[IF a \in Materials THEN "gpuopen" ELSE "storage"]>> \o <<a>>) \o <<name>>
  BY DEF FileOf, InDir, SaveLocation, OnDisk, Identifier, Path
<1>2. FileOf(a, name).names[2] = a /\ FileOf(a, name).names[3] = name
  <2> DEFINE x == RootOf[IF a \in Materials THEN "gpuopen" ELSE "storage"]
  <2>1. FileOf(a, name).names = (<<x>> \o <<a>>) \o <<name>>
    BY <1>1
  <2> HIDE DEF x
  <2>2. ((<<x>> \o <<a>>) \o <<name>>)[2] = a /\ ((<<x>> \o <<a>>) \o <<name>>)[3] = name
    BY Joined
  <2> QED
    BY Zenon, <2>1, <2>2
<1>3. FileOf(a, name) \in Places
  BY DEF Places, PlacesOf, FileOf, Names
<1> QED
  BY <1>2, <1>3

\* Different assets, and different files, have different places.
LEMMA FilesApart ==
    ASSUME NEW a \in Assets, NEW b \in Assets, NEW m \in Names, NEW n \in Names,
           FileOf(a, m) = FileOf(b, n)
    PROVE  a = b /\ m = n
BY FileNames

(***************************************************************************)
(* Types, and the steps seen from one reader.                              *)
(***************************************************************************)
Reader == [at : Steps, asset : Assets, opens : Nat, sure : BOOLEAN, fetched : BOOLEAN]

Types ==
    /\ files \in [Places -> Content]
    /\ reader \in [Readers -> Reader]
    /\ temp \in [Readers -> [{"archive", Root, Texture} -> Content]]
    /\ opened \subseteq Assets

\* A reader that goes on changes nothing but where it is.
LEMMA GoEffect ==
    ASSUME Types, NEW r \in Readers, NEW step \in Steps, Go(r, step)
    PROVE  /\ reader' \in [Readers -> Reader]
           /\ reader'[r].at = step /\ reader'[r].asset = reader[r].asset
           /\ reader'[r].sure = reader[r].sure /\ reader'[r].fetched = reader[r].fetched
           /\ \A u \in Readers \ {r} : reader'[u] = reader[u]
BY DEF Types, Go, Reader

\* A temporary directory without files.
LEMMA NoFilesType == NoFiles \in [{"archive", Root, Texture} -> Content]
BY DEF NoFiles, Content

\* Of the other readers nothing changes, and the cache grows.
Grows(r) ==
    /\ dirs \subseteq dirs' /\ failed \subseteq failed' /\ opened \subseteq opened'
    /\ \A q \in Places : files[q] # "nothing" => files'[q] # "nothing"
    /\ \A u \in Readers \ {r} : reader'[u] = reader[u] /\ temp'[u] = temp[u]

AfterCreate == {"archive", "extract", "move", "root file", "save root", "texture file",
                "save texture", "search"}

\* What holds of a reader: where it has been, and what it has in its hands.
Mine(u) ==
    /\ reader[u].at \in AfterCreate => Asset(u) \in dirs
    /\ reader[u].sure /\ Asset(u) \in Lights =>
          Asset(u) \in opened /\ reader[u].at \in {"idle", "exists", "search", "opened"}
    /\ reader[u].at \in {"exists", "package", "exists again", "create"} => ~reader[u].fetched
    /\ Asset(u) \notin failed =>
          /\ At(u, "move") =>
                /\ \A name \in Names : temp[u][name] \in {"nothing", name}
                /\ temp[u][Texture] # "nothing" \/ files[FileOf(Asset(u), Texture)] # "nothing"
          /\ At(u, "save root") => temp[u][Root] = Root
          /\ At(u, "save texture") => temp[u][Root] = Texture
          /\ reader[u].fetched /\ Asset(u) \notin Plain /\ (At(u, "search") \/ At(u, "opened"))
                => files[FileOf(Asset(u), Texture)] # "nothing"

\* What holds of the cache.
Cache ==
    /\ \A a \in opened : a \in dirs /\ files[FileOf(a, Root)] # "nothing"
    /\ RightContent

Inv == Types /\ Cache /\ \A u \in Readers : Mine(u)

Effect(r) == Types' /\ Cache' /\ Grows(r) /\ Mine(r)'

\* A step of one reader leaves another's knowledge true, since the cache only grows.
LEMMA MineKept ==
    ASSUME Types, NEW r \in Readers, Grows(r), NEW u \in Readers \ {r}, Mine(u)
    PROVE  Mine(u)'
<1>1. reader'[u] = reader[u] /\ temp'[u] = temp[u] /\ Asset(u)' = Asset(u)
  BY DEF Grows, Asset
<1>2. Asset(u) \in Assets
  BY DEF Types, Asset, Reader
<1>3. files[FileOf(Asset(u), Texture)] # "nothing" => files'[FileOf(Asset(u), Texture)] # "nothing"
  <2>1. FileOf(Asset(u), Texture) \in Places
    BY <1>2, FileNames DEF Names
  <2> QED
    BY <2>1 DEF Grows
<1>4. dirs \subseteq dirs' /\ failed \subseteq failed' /\ opened \subseteq opened'
  BY DEF Grows
<1> QED
  BY <1>1, <1>2, <1>3, <1>4 DEF Mine, At

\* No file changes, and nothing is opened.
LEMMA CacheKept ==
    ASSUME Cache, UNCHANGED <<files, opened>>, dirs \subseteq dirs', failed \subseteq failed'
    PROVE  Cache'
BY DEF Cache, RightContent

\* The file an asset that has not failed is given is the right one.
LEMMA CacheWritten ==
    ASSUME Types, Cache, NEW r \in Readers, NEW name \in Names, NEW c \in Content \ {"nothing"},
           Asset(r) \notin failed => c = name,
           files' = [files EXCEPT ![Place(r, name)] = c], UNCHANGED <<dirs, failed, opened>>
    PROVE  /\ Cache' /\ files' \in [Places -> Content]
           /\ files'[FileOf(Asset(r), name)] = c
           /\ \A q \in Places : files[q] # "nothing" => files'[q] # "nothing"
<1>1. Asset(r) \in Assets /\ Place(r, name) = FileOf(Asset(r), name)
  BY DEF Types, Asset, Reader, Place, FileOf
<1>2. FileOf(Asset(r), name) \in Places
  BY <1>1, FileNames
<1>3. /\ files' \in [Places -> Content]
      /\ files'[FileOf(Asset(r), name)] = c
      /\ \A q \in Places : q # FileOf(Asset(r), name) => files'[q] = files[q]
  BY <1>1, <1>2 DEF Types
<1>4. \A q \in Places : files[q] # "nothing" => files'[q] # "nothing"
  BY <1>3
<1>5. ASSUME NEW a \in opened PROVE a \in dirs /\ files'[FileOf(a, Root)] # "nothing"
  <2>1. FileOf(a, Root) \in Places
    BY <1>5, FileNames DEF Types, Names
  <2> QED
    BY <1>4, <2>1 DEF Cache
<1>6. ASSUME NEW a \in Assets \ failed, NEW n \in Names
      PROVE  files'[FileOf(a, n)] \in {"nothing", n}
  <2>1. FileOf(a, n) \in Places
    BY FileNames
  <2>2. CASE FileOf(a, n) = FileOf(Asset(r), name)
    <3>1. a = Asset(r) /\ n = name
      BY <1>1, <2>2, FilesApart
    <3> QED
      BY <1>3, <3>1
  <2>3. CASE FileOf(a, n) # FileOf(Asset(r), name)
    <3>1. files[FileOf(a, n)] \in {"nothing", n}
      BY DEF Cache, RightContent, FileOf, Names
    <3> QED
      BY <1>3, <2>1, <2>3, <3>1
  <2> QED
    BY <2>2, <2>3
<1>7. RightContent'
  BY <1>6 DEF RightContent, FileOf, Names
<1> QED
  BY <1>3, <1>4, <1>5, <1>7 DEF Cache

\* A download changes the temporary directory of its reader (RestClient.cpp:286).
LEMMA DownloadEffect ==
    ASSUME Types, NEW r \in Readers, NEW name \in {"archive", Root}, NEW content \in Content,
           Download(r, name, content)
    PROVE  /\ temp' \in [Readers -> [{"archive", Root, Texture} -> Content]]
           /\ \A u \in Readers \ {r} : temp'[u] = temp[u]
           /\ failed \subseteq failed'
           /\ Asset(r) \notin failed' => temp'[r][name] = content
<1>1. PICK c \in Content : /\ temp' = [temp EXCEPT ![r][name] = c]
                           /\ \/ c = content /\ failed' = failed
                              \/ failed' = failed \cup {Asset(r)}
  BY DEF Download, Failed, Content
<1> QED
  BY <1>1 DEF Types

\* An exception drops the temporary directory, and nothing else.
LEMMA RaiseEffect ==
    ASSUME Types, NEW r \in Readers, Raise(r)
    PROVE  /\ reader' \in [Readers -> Reader]
           /\ reader'[r].at = "raised" /\ reader'[r].asset = reader[r].asset
           /\ reader'[r].sure = reader[r].sure /\ reader'[r].fetched = reader[r].fetched
           /\ \A u \in Readers \ {r} : reader'[u] = reader[u] /\ temp'[u] = temp[u]
           /\ temp' \in [Readers -> [{"archive", Root, Texture} -> Content]]
<1>1. "raised" \in Steps
  BY DEF Steps
<1> QED
  BY <1>1, GoEffect, NoFilesType DEF Raise, Types

(***************************************************************************)
(* Every step, by what it touches.                                         *)
(***************************************************************************)
\* The steps that only look.
LEMMA LookEffect ==
    ASSUME Inv, NEW r \in Readers, LightExists(r) \/ SkipDownload(r) \/ Moved(r)
    PROVE  Effect(r)
<1> Types /\ Cache /\ Mine(r)
  BY DEF Inv
<1>1. PICK step \in Steps : Go(r, step)
  BY DEF LightExists, SkipDownload, Moved, Steps
<1>2. /\ reader' \in [Readers -> Reader]
      /\ reader'[r].at = step /\ reader'[r].asset = reader[r].asset
      /\ reader'[r].sure = reader[r].sure /\ reader'[r].fetched = reader[r].fetched
      /\ \A u \in Readers \ {r} : reader'[u] = reader[u]
  BY <1>1, GoEffect
<1>3. UNCHANGED <<dirs, files, temp, failed, opened>>
  BY DEF LightExists, SkipDownload, Moved
<1>4. Types' /\ Grows(r)
  BY <1>2, <1>3 DEF Types, Grows
<1>5. Cache'
  BY <1>3, CacheKept
<1>6. Asset(r)' = Asset(r)
  BY <1>2 DEF Asset
<1>7. Mine(r)'
  <2>1. CASE LightExists(r)
    <3>1. reader[r].at = "exists" /\ reader'[r].at = IF Asset(r) \in dirs THEN "search" ELSE "package"
      BY <2>1 DEF LightExists, At, Go, Types, Reader
    <3>2. Asset(r) \in opened => Asset(r) \in dirs
      BY DEF Cache
    <3> QED
      BY <1>2, <1>3, <1>6, <3>1, <3>2 DEF Mine, At, AfterCreate
  <2>2. CASE SkipDownload(r)
    <3>1. /\ reader[r].at = "exists again"
          /\ reader'[r].at = IF Asset(r) \in dirs THEN "search" ELSE "create"
      BY <2>2 DEF SkipDownload, At, Go, Types, Reader
    <3> QED
      BY <1>2, <1>3, <1>6, <3>1 DEF Mine, At, AfterCreate
  <2>3. CASE Moved(r)
    <3>1. /\ reader[r].at = "move" /\ reader'[r].at = "search" /\ temp[r][Texture] = "nothing"
      BY <2>3 DEF Moved, At, Go, Types, Reader, NoFiles, Texture
    <3> QED
      BY <1>2, <1>3, <1>6, <3>1 DEF Mine, At, AfterCreate
  <2> QED
    BY <2>1, <2>2, <2>3
<1> QED
  BY <1>4, <1>5, <1>7 DEF Effect

\* The package of a material is asked for (MaterialLibraryApi.cpp:64).
LEMMA GetPackageEffect ==
    ASSUME Inv, NEW r \in Readers, GetPackage(r)
    PROVE  Effect(r)
<1> Types /\ Cache /\ Mine(r)
  BY DEF Inv
<1>1. /\ reader' \in [Readers -> Reader]
      /\ reader'[r].at \in {"exists again", "raised"} /\ reader'[r].asset = reader[r].asset
      /\ reader'[r].sure = reader[r].sure /\ reader'[r].fetched = reader[r].fetched
      /\ \A u \in Readers \ {r} : reader'[u] = reader[u] /\ temp'[u] = temp[u]
      /\ temp' \in [Readers -> [{"archive", Root, Texture} -> Content]]
  <2>1. CASE Go(r, "exists again") /\ UNCHANGED <<temp, failed>>
    <3>1. "exists again" \in Steps
      BY DEF Steps
    <3> QED
      BY <2>1, <3>1, GoEffect DEF Types
  <2>2. CASE Raise(r)
    BY <2>2, RaiseEffect
  <2> QED
    BY <2>1, <2>2 DEF GetPackage
<1>2. UNCHANGED <<dirs, files, opened>> /\ failed \subseteq failed' /\ reader[r].at = "package"
  BY DEF GetPackage, Failed, At
<1>3. Types' /\ Grows(r)
  BY <1>1, <1>2 DEF Types, Grows
<1>4. Cache'
  BY <1>2, CacheKept
<1>5. Mine(r)'
  <2>1. Asset(r)' = Asset(r)
    BY <1>1 DEF Asset
  <2> QED
    BY <1>1, <1>2, <2>1 DEF Mine, At, AfterCreate
<1> QED
  BY <1>3, <1>4, <1>5 DEF Effect

\* The directory is created before its files are (LocalStorageApi.cpp:122).
LEMMA CreateEffect ==
    ASSUME Inv, NEW r \in Readers, CreateDirectories(r)
    PROVE  Effect(r)
<1> Types /\ Cache /\ Mine(r)
  BY DEF Inv
<1>1. /\ reader' \in [Readers -> Reader]
      /\ reader'[r].at \in {"archive", "root file"} /\ reader'[r].asset = reader[r].asset
      /\ reader'[r].sure = reader[r].sure
      /\ \A u \in Readers \ {r} : reader'[u] = reader[u]
  <2>1. PICK step \in {"archive", "root file"} :
            reader' = [reader EXCEPT ![r].at = step, ![r].fetched = TRUE]
    BY DEF CreateDirectories
  <2>2. step \in Steps /\ TRUE \in BOOLEAN
    BY DEF Steps
  <2>3. reader \in [Readers -> Reader]
    BY DEF Types
  <2>4. QED
    BY <2>1, <2>2, <2>3 DEF Reader
<1>2. /\ dirs' = dirs \cup {Asset(r)} /\ UNCHANGED <<files, temp, failed, opened>>
      /\ reader[r].at = "create"
  BY DEF CreateDirectories, At
<1>3. Types' /\ Grows(r)
  BY <1>1, <1>2 DEF Types, Grows
<1>4. Cache'
  BY <1>2, CacheKept
<1>5. Mine(r)'
  <2>1. Asset(r)' = Asset(r)
    BY <1>1 DEF Asset
  <2> QED
    BY <1>1, <1>2, <2>1 DEF Mine, At, AfterCreate
<1> QED
  BY <1>3, <1>4, <1>5 DEF Effect

\* The downloads into the temporary directory.
LEMMA FetchEffect ==
    ASSUME Inv, NEW r \in Readers,
           \/ DownloadArchive(r)
           \/ DownloadFile(r, "root file", "save root", Root)
           \/ DownloadFile(r, "texture file", "save texture", Texture)
    PROVE  Effect(r)
<1> Types /\ Cache /\ Mine(r)
  BY DEF Inv
<1>1. PICK step \in {"extract", "save root", "save texture"}, name \in {"archive", Root},
           content \in Content :
         /\ Go(r, step) /\ Download(r, name, content)
         /\ step = "save root" => name = Root /\ content = Root
         /\ step = "save texture" => name = Root /\ content = Texture
         /\ reader[r].at \in {"archive", "root file", "texture file"}
         /\ UNCHANGED <<dirs, files, opened>>
  BY DEF DownloadArchive, DownloadFile, At, Content
<1>2. step \in Steps
  BY DEF Steps
<1>3. /\ reader' \in [Readers -> Reader]
      /\ reader'[r].at = step /\ reader'[r].asset = reader[r].asset
      /\ reader'[r].sure = reader[r].sure /\ reader'[r].fetched = reader[r].fetched
      /\ \A u \in Readers \ {r} : reader'[u] = reader[u]
  BY <1>1, <1>2, GoEffect
<1>4. /\ temp' \in [Readers -> [{"archive", Root, Texture} -> Content]]
      /\ \A u \in Readers \ {r} : temp'[u] = temp[u]
      /\ failed \subseteq failed'
      /\ Asset(r) \notin failed' => temp'[r][name] = content
  BY <1>1, DownloadEffect
<1>5. Types' /\ Grows(r)
  BY <1>1, <1>3, <1>4 DEF Types, Grows
<1>6. Cache'
  BY <1>1, <1>4, CacheKept
<1>7. Mine(r)'
  <2>1. Asset(r)' = Asset(r)
    BY <1>3 DEF Asset
  <2>2. reader[r].at \in AfterCreate
    BY <1>1 DEF AfterCreate
  <2>3. Asset(r) \in dirs' /\ ~(reader[r].sure /\ Asset(r) \in Lights)
    BY <1>1, <2>2 DEF Mine
  <2> QED
    BY <1>1, <1>3, <1>4, <2>1, <2>3 DEF Mine, At
<1> QED
  BY <1>5, <1>6, <1>7 DEF Effect

\* The archive is extracted into the temporary directory.
LEMMA ExtractEffect ==
    ASSUME Inv, NEW r \in Readers, Extract(r)
    PROVE  Effect(r)
<1> Types /\ Cache /\ Mine(r)
  BY DEF Inv
<1>1. "move" \in Steps
  BY DEF Steps
<1>2. /\ reader' \in [Readers -> Reader]
      /\ reader'[r].at = "move" /\ reader'[r].asset = reader[r].asset
      /\ reader'[r].sure = reader[r].sure /\ reader'[r].fetched = reader[r].fetched
      /\ \A u \in Readers \ {r} : reader'[u] = reader[u]
  BY <1>1, GoEffect DEF Extract
<1>3. PICK some \in [{"archive", Root, Texture} -> Content] :
         /\ temp' = [temp EXCEPT ![r] = some]
         /\ \/ some[Root] = Root /\ some[Texture] = Texture /\ failed' = failed
            \/ failed' = failed \cup {Asset(r)}
  <2>1. CASE /\ temp' = [temp EXCEPT ![r] = [NoFiles EXCEPT ![Root] = Root, ![Texture] = Texture]]
             /\ UNCHANGED failed
    <3> DEFINE some == [NoFiles EXCEPT ![Root] = Root, ![Texture] = Texture]
    <3>1. some \in [{"archive", Root, Texture} -> Content] /\ some[Root] = Root
          /\ some[Texture] = Texture
      BY DEF NoFiles, Content, Root, Texture
    <3> QED
      BY <2>1, <3>1
  <2>2. ASSUME NEW some \in {NoFiles, [NoFiles EXCEPT ![Root] = Root],
                             [NoFiles EXCEPT ![Texture] = Texture]},
               temp' = [temp EXCEPT ![r] = some], Failed(r)
        PROVE  /\ some \in [{"archive", Root, Texture} -> Content]
               /\ failed' = failed \cup {Asset(r)}
    BY <2>2 DEF NoFiles, Content, Failed
  <2> QED
    BY <2>1, <2>2 DEF Extract
<1>4. UNCHANGED <<dirs, files, opened>> /\ failed \subseteq failed' /\ reader[r].at = "extract"
  BY <1>3 DEF Extract, At
<1>5. /\ temp' \in [Readers -> [{"archive", Root, Texture} -> Content]]
      /\ \A u \in Readers \ {r} : temp'[u] = temp[u]
      /\ temp'[r] = some
  BY <1>3 DEF Types
<1>6. Types' /\ Grows(r)
  BY <1>2, <1>4, <1>5 DEF Types, Grows
<1>7. Cache'
  BY <1>4, CacheKept
<1>8. Mine(r)'
  <2>1. Asset(r)' = Asset(r)
    BY <1>2 DEF Asset
  <2>2. Asset(r) \in dirs' /\ ~(reader[r].sure /\ Asset(r) \in Lights)
    BY <1>4 DEF Mine, AfterCreate
  <2>3. Asset(r) \notin failed' => temp'[r][Root] = Root /\ temp'[r][Texture] = Texture
    BY <1>3, <1>5
  <2> QED
    BY <1>2, <2>1, <2>2, <2>3 DEF Mine, At, Names, Texture, Root
<1> QED
  BY <1>6, <1>7, <1>8 DEF Effect

\* A file is moved into the cache, over another reader's (FileUtils.cpp:184).
LEMMA MoveEffect ==
    ASSUME Inv, NEW r \in Readers, MoveOne(r)
    PROVE  Effect(r)
<1> Types /\ Cache /\ Mine(r)
  BY DEF Inv
<1>1. PICK name \in Names : /\ temp[r][name] # "nothing"
                            /\ files' = [files EXCEPT ![Place(r, name)] = temp[r][name]]
                            /\ temp' = [temp EXCEPT ![r][name] = "nothing"]
  BY DEF MoveOne, Names
<1>2. UNCHANGED <<dirs, reader, failed, opened>> /\ reader[r].at = "move"
  BY DEF MoveOne, At
<1>3. temp[r][name] \in Content \ {"nothing"} /\ (Asset(r) \notin failed => temp[r][name] = name)
  BY <1>1, <1>2 DEF Types, Names, Mine, At
<1>4. /\ Cache' /\ files' \in [Places -> Content]
      /\ files'[FileOf(Asset(r), name)] = temp[r][name]
      /\ \A q \in Places : files[q] # "nothing" => files'[q] # "nothing"
  BY <1>1, <1>2, <1>3, CacheWritten
<1>5. /\ temp' \in [Readers -> [{"archive", Root, Texture} -> Content]]
      /\ \A u \in Readers \ {r} : temp'[u] = temp[u]
      /\ \A n \in Names : temp'[r][n] = IF n = name THEN "nothing" ELSE temp[r][n]
  BY <1>1 DEF Types, Names, Content
<1>6. Types' /\ Grows(r)
  BY <1>2, <1>4, <1>5 DEF Types, Grows
<1>7. Mine(r)'
  <2>1. Asset(r)' = Asset(r) /\ Asset(r) \in Assets
    BY <1>2 DEF Asset, Types, Reader
  <2>2. FileOf(Asset(r), Texture) \in Places
    BY <2>1, FileNames DEF Names
  <2>3. temp'[r][Texture] # "nothing" \/ files'[FileOf(Asset(r), Texture)] # "nothing"
        \/ Asset(r) \in failed
    <3>1. CASE name = Texture
      BY <1>3, <1>4, <3>1
    <3>2. CASE name # Texture
      BY <1>2, <1>4, <1>5, <2>2, <3>2 DEF Mine, At, Names
    <3> QED
      BY <3>1, <3>2
  <2>4. Asset(r) \notin failed => \A n \in Names : temp'[r][n] \in {"nothing", n}
    BY <1>2, <1>5 DEF Mine, At
  <2>5. Asset(r) \in dirs /\ ~(reader[r].sure /\ Asset(r) \in Lights)
    BY <1>2 DEF Mine, AfterCreate
  <2> QED
    BY <1>2, <2>1, <2>3, <2>4, <2>5 DEF Mine, At
<1> QED
  BY <1>4, <1>6, <1>7 DEF Effect

\* The two renames of a light.
LEMMA SaveEffect ==
    ASSUME Inv, NEW r \in Readers,
           \/ SaveFile(r, "save root", IF Asset(r) \in Plain THEN "search" ELSE "texture file", Root)
           \/ SaveFile(r, "save texture", "search", Texture)
    PROVE  Effect(r)
<1> Types /\ Cache /\ Mine(r)
  BY DEF Inv
<1>1. PICK step \in {"search", "texture file"}, name \in Names :
         /\ Go(r, step)
         /\ temp[r][Root] # "nothing"
         /\ files' = [files EXCEPT ![Place(r, name)] = temp[r][Root]]
         /\ temp' = [temp EXCEPT ![r] = NoFiles]
         /\ UNCHANGED <<dirs, failed, opened>>
         /\ \/ reader[r].at = "save root" /\ name = Root /\ (step = "search" => Asset(r) \in Plain)
            \/ reader[r].at = "save texture" /\ name = Texture
  BY DEF SaveFile, At, Names
<1>2. step \in Steps
  BY DEF Steps
<1>3. /\ reader' \in [Readers -> Reader]
      /\ reader'[r].at = step /\ reader'[r].asset = reader[r].asset
      /\ reader'[r].sure = reader[r].sure /\ reader'[r].fetched = reader[r].fetched
      /\ \A u \in Readers \ {r} : reader'[u] = reader[u]
  BY <1>1, <1>2, GoEffect
<1>4. temp[r][Root] \in Content \ {"nothing"} /\ (Asset(r) \notin failed => temp[r][Root] = name)
  BY <1>1 DEF Types, Mine, At
<1>5. /\ Cache' /\ files' \in [Places -> Content]
      /\ files'[FileOf(Asset(r), name)] = temp[r][Root]
      /\ \A q \in Places : files[q] # "nothing" => files'[q] # "nothing"
  BY <1>1, <1>4, CacheWritten
<1>6. /\ temp' \in [Readers -> [{"archive", Root, Texture} -> Content]]
      /\ \A u \in Readers \ {r} : temp'[u] = temp[u]
  BY <1>1, NoFilesType DEF Types
<1>7. Types' /\ Grows(r)
  BY <1>1, <1>3, <1>5, <1>6 DEF Types, Grows
<1>8. Mine(r)'
  <2>1. Asset(r)' = Asset(r)
    BY <1>3 DEF Asset
  <2>2. Asset(r) \in dirs' /\ ~(reader[r].sure /\ Asset(r) \in Lights)
    BY <1>1 DEF Mine, AfterCreate
  <2>3. step = "search" => Asset(r) \in Plain \/ files'[FileOf(Asset(r), Texture)] # "nothing"
    BY <1>1, <1>4, <1>5
  <2> QED
    BY <1>1, <1>3, <2>1, <2>2, <2>3 DEF Mine, At
<1> QED
  BY <1>5, <1>7, <1>8 DEF Effect

\* An attempt ends without the asset, by an exception or with its process.
LEMMA EndEffect ==
    ASSUME Inv, NEW r \in Readers, SaveFails(r) \/ Crash(r)
    PROVE  Effect(r)
<1> Types /\ Cache /\ Mine(r)
  BY DEF Inv
<1>1. /\ reader' \in [Readers -> Reader]
      /\ reader'[r].at \in {"raised", "idle"} /\ reader'[r].asset = reader[r].asset
      /\ reader'[r].sure = reader[r].sure /\ reader'[r].fetched = reader[r].fetched
      /\ reader'[r].at = "raised" => reader[r].at \in {"save root", "save texture"}
      /\ \A u \in Readers \ {r} : reader'[u] = reader[u] /\ temp'[u] = temp[u]
      /\ temp' \in [Readers -> [{"archive", Root, Texture} -> Content]]
  <2>1. CASE SaveFails(r)
    BY <2>1, RaiseEffect DEF SaveFails, At
  <2>2. CASE Crash(r)
    <3>1. "idle" \in Steps
      BY DEF Steps
    <3> QED
      BY <2>2, <3>1, GoEffect, NoFilesType DEF Crash, Types
  <2> QED
    BY <2>1, <2>2
<1>2. UNCHANGED <<dirs, files, opened>> /\ failed \subseteq failed'
  BY DEF SaveFails, Crash, Failed
<1>3. Types' /\ Grows(r)
  BY <1>1, <1>2 DEF Types, Grows
<1>4. Cache'
  BY <1>2, CacheKept
<1>5. Mine(r)'
  <2>1. Asset(r)' = Asset(r)
    BY <1>1 DEF Asset
  <2> QED
    BY <1>1, <1>2, <2>1 DEF Mine, At, AfterCreate
<1> QED
  BY <1>3, <1>4, <1>5 DEF Effect

\* The root file is found in the cache, or not.
LEMMA SearchEffect ==
    ASSUME Inv, NEW r \in Readers, Search(r)
    PROVE  Effect(r)
<1> Types /\ Cache /\ Mine(r)
  BY DEF Inv
<1>1. Asset(r) \in Assets /\ reader[r].at = "search" /\ Place(r, Root) = FileOf(Asset(r), Root)
      /\ UNCHANGED <<dirs, files, failed>> /\ temp' = [temp EXCEPT ![r] = NoFiles]
  BY DEF Search, At, Asset, Types, Reader, Place, FileOf
<1>2. PICK step \in {"raised", "opened"} :
         /\ Go(r, step)
         /\ step = "raised" => files[FileOf(Asset(r), Root)] = "nothing" /\ opened' = opened
         /\ step = "opened" => /\ files[FileOf(Asset(r), Root)] # "nothing"
                               /\ opened' = opened \cup {Asset(r)}
  BY <1>1 DEF Search
<1>3. step \in Steps
  BY DEF Steps
<1>4. /\ reader' \in [Readers -> Reader]
      /\ reader'[r].at = step /\ reader'[r].asset = reader[r].asset
      /\ reader'[r].sure = reader[r].sure /\ reader'[r].fetched = reader[r].fetched
      /\ \A u \in Readers \ {r} : reader'[u] = reader[u]
  BY <1>2, <1>3, GoEffect
<1>5. /\ temp' \in [Readers -> [{"archive", Root, Texture} -> Content]]
      /\ \A u \in Readers \ {r} : temp'[u] = temp[u]
  BY <1>1, NoFilesType DEF Types
<1>6. opened \subseteq opened' /\ opened' \subseteq Assets
  BY <1>1, <1>2 DEF Types
<1>7. Types' /\ Grows(r)
  BY <1>1, <1>4, <1>5, <1>6 DEF Types, Grows
<1>8. Cache'
  <2>1. Asset(r) \in dirs
    BY <1>1 DEF Mine, AfterCreate
  <2>2. RightContent'
    BY <1>1 DEF Cache, RightContent
  <2>3. \A a \in opened' : a \in dirs' /\ files'[FileOf(a, Root)] # "nothing"
    BY <1>1, <1>2, <2>1 DEF Cache
  <2> QED
    BY <2>2, <2>3 DEF Cache
<1>9. Mine(r)'
  <2>1. Asset(r)' = Asset(r)
    BY <1>4 DEF Asset
  <2>2. reader[r].sure /\ Asset(r) \in Lights => Asset(r) \in opened /\ step = "opened"
    BY <1>1, <1>2 DEF Mine, Cache
  <2> QED
    BY <1>1, <1>4, <1>6, <2>1, <2>2 DEF Mine, At, AfterCreate
<1> QED
  BY <1>7, <1>8, <1>9 DEF Effect

\* A reader begins to open an asset.
LEMMA OpenEffect ==
    ASSUME Inv, NEW r \in Readers, NEW a \in Assets, Open(r, a)
    PROVE  Effect(r)
<1> Types /\ Cache /\ Mine(r)
  BY DEF Inv
<1>1. /\ reader' \in [Readers -> Reader]
      /\ reader'[r].at = (IF a \in Materials THEN "package" ELSE "exists")
      /\ reader'[r].asset = a /\ reader'[r].sure = (a \in opened) /\ reader'[r].fetched = FALSE
      /\ \A u \in Readers \ {r} : reader'[u] = reader[u]
  <2>1. (IF a \in Materials THEN "package" ELSE "exists") \in Steps
    BY DEF Steps
  <2>2. reader[r].opens + 1 \in Nat
    BY DEF Types, Reader
  <2> QED
    BY <2>1, <2>2 DEF Open, Types, Reader
<1>2. UNCHANGED <<dirs, files, temp, failed, opened>>
  BY DEF Open
<1>3. Types' /\ Grows(r)
  BY <1>1, <1>2 DEF Types, Grows
<1>4. Cache'
  BY <1>2, CacheKept
<1>5. Mine(r)'
  <2>1. Asset(r)' = a
    BY <1>1 DEF Asset
  <2>2. a \in Lights => reader'[r].at = "exists"
    BY <1>1, AssetsAssumption
  <2> QED
    BY <1>1, <1>2, <2>1, <2>2 DEF Mine, At, AfterCreate
<1> QED
  BY <1>3, <1>4, <1>5 DEF Effect

\* The cache is empty at the start, and nobody has been anywhere.
LEMMA InvInit == Init => Inv
<1> SUFFICES ASSUME Init PROVE Inv
  OBVIOUS
<1>1. Types
  <2>1. files \in [Places -> Content]
    BY DEF Init, Content
  <2>2. reader \in [Readers -> Reader]
    <3>1. \A a \in Assets : [at |-> "idle", asset |-> a, opens |-> 0, sure |-> FALSE,
                            fetched |-> FALSE] \in Reader
      BY DEF Reader, Steps
    <3> QED
      BY <3>1 DEF Init
  <2>3. temp \in [Readers -> [{"archive", Root, Texture} -> Content]] /\ opened \subseteq Assets
    BY NoFilesType DEF Init
  <2> QED
    BY <2>1, <2>2, <2>3 DEF Types
<1>2. \A r \in Readers : reader[r].at = "idle" /\ reader[r].sure = FALSE /\ reader[r].fetched = FALSE
  BY DEF Init
<1>3. \A r \in Readers : Mine(r)
  BY <1>2 DEF Mine, At, AfterCreate
<1>4. Cache
  <2>1. ASSUME NEW a \in Assets, NEW n \in Names PROVE files[FileOf(a, n)] = "nothing"
    BY FileNames DEF Init
  <2>2. RightContent
    BY <2>1 DEF RightContent, FileOf, Names
  <2>3. opened = {}
    BY DEF Init
  <2> QED
    BY <2>2, <2>3 DEF Cache
<1> QED
  BY <1>1, <1>3, <1>4 DEF Inv

\* Every step of every reader keeps the invariant.
LEMMA InvStep == Inv /\ [Next]_vars => Inv'
<1>1. ASSUME Inv, UNCHANGED vars PROVE Inv'
  BY <1>1 DEF Inv, Types, Cache, RightContent, Mine, At, Asset, vars
<1>2. ASSUME NEW r \in Readers, Inv, Effect(r) PROVE Inv'
  <2>1. \A u \in Readers \ {r} : Mine(u)'
    BY <1>2, MineKept DEF Inv, Effect
  <2> QED
    BY <1>2, <2>1 DEF Inv, Effect
<1>3. ASSUME NEW r \in Readers, Inv, Step(r) PROVE Effect(r)
  BY Zenon, <1>3, LookEffect, GetPackageEffect, CreateEffect, FetchEffect, ExtractEffect, MoveEffect,
     SaveEffect, EndEffect, SearchEffect DEF Step, DownloadLight
<1>4. ASSUME NEW r \in Readers, Inv, Crash(r) \/ \E a \in Assets : Open(r, a) PROVE Effect(r)
  BY Zenon, <1>4, EndEffect, OpenEffect
<1> QED
  BY Zenon, <1>1, <1>2, <1>3, <1>4 DEF Next

\* The cache holds what it should, and each reader knows something of it that the others
\* cannot undo (Asset.cpp:121, RestClient.cpp:286).
THEOREM Invariance == Spec => []Inv
BY InvInit, InvStep, PTL DEF Spec

\* A file of the cache is the right one in the right place, as long as no download of its
\* asset and no process at work on it has failed (RestClient.cpp:293, FileUtils.cpp:184).
THEOREM CacheIsRight == Spec => []RightContent
<1>1. Inv => RightContent
  BY DEF Inv, Cache
<1> QED
  BY <1>1, Invariance, PTL

\* A light that was opened once can be opened for ever (Asset.cpp:121).
THEOREM OpenedLightsStayOpen == Spec => []LightsStayOpen
<1>1. ASSUME Inv PROVE LightsStayOpen
  <2> SUFFICES ASSUME NEW r \in Readers, At(r, "raised"), reader[r].sure PROVE Asset(r) \notin Lights
    BY DEF LightsStayOpen
  <2> QED
    BY <1>1 DEF Inv, Mine, At
<1> QED
  BY <1>1, Invariance, PTL

\* Where the resolver looks for a texture is where the downloads put it.
LEMMA TextureIsFile ==
    ASSUME NEW a \in Assets
    PROVE  TexturePlace(a) = FileOf(a, Texture)
<1> DEFINE scheme == IF a \in Materials THEN "gpuopen" ELSE "storage"
           S == {a, Texture, RootOf[scheme]}
<1>1. <<a>> \in Seq(S) /\ <<Texture>> \in Seq(S) /\ <<RootOf[scheme]>> \in Seq(S)
      /\ Len(<<a>>) = 1 /\ Len(<<Texture>>) = 1
  OBVIOUS
<1>2. Identifier(a) = Path(scheme, <<a>>)
  BY DEF Identifier
<1>3. scheme \in {"gpuopen", "storage"}
  OBVIOUS
<1> HIDE DEF scheme, S
<1>4. CreateIdentifier(Path("relative", <<Texture>>), Identifier(a))
        = Path(scheme, <<a>> \o <<Texture>>)
  BY <1>2, <1>3 DEF CreateIdentifier, IsRenderStudioPath, AnchorRelativePath, Path
<1>5. Len(<<a>> \o <<Texture>>) = 2
  BY <1>1, ConcatProperties
<1>6. TexturePlace(a) = Path("file", <<RootOf[scheme]>> \o (<<a>> \o <<Texture>>))
  <2> DEFINE path == Path(scheme, <<a>> \o <<Texture>>)
  <2>1. path.scheme = scheme /\ path.names = <<a>> \o <<Texture>>
    BY DEF Path
  <2>2. TexturePlace(a) = Resolve(path, FALSE)
    BY Zenon, <1>4 DEF TexturePlace
  <2>3. path.scheme # "studio" /\ Len(path.names) # 1
    BY <1>3, <1>5, <2>1
  <2> HIDE DEF path
  <2>4. Resolve(path, FALSE) = OnDisk(path)
    BY Zenon, <2>3 DEF Resolve
  <2> QED
    BY Zenon, <2>1, <2>2, <2>4 DEF OnDisk
<1>7. FileOf(a, Texture) = Path("file", (<<RootOf[scheme]>> \o <<a>>) \o <<Texture>>)
  BY <1>2 DEF FileOf, InDir, SaveLocation, OnDisk, Path
<1>8. (<<RootOf[scheme]>> \o <<a>>) \o <<Texture>> = <<RootOf[scheme]>> \o (<<a>> \o <<Texture>>)
  BY <1>1, ConcatAssociative
<1> QED
  BY <1>6, <1>7, <1>8

\* Who has downloaded an asset finds its texture where the resolver looks for it, whoever
\* downloads it too (Resolver.cpp:188, 308).
THEOREM TexturesAreFound == Spec => []TexturesFound
<1>1. ASSUME Inv PROVE TexturesFound
  <2> SUFFICES ASSUME NEW r \in Readers, At(r, "opened"), reader[r].fetched,
                      Asset(r) \notin failed \cup Plain
               PROVE  /\ TexturePlace(Asset(r)) \in Places
                      /\ files[TexturePlace(Asset(r))] = Texture
    BY DEF TexturesFound
  <2>1. Asset(r) \in Assets \ failed
    BY <1>1 DEF Inv, Types, Asset, Reader
  <2>2. FileOf(Asset(r), Texture) \in Places
    BY <2>1, FileNames DEF Names
  <2>3. files[FileOf(Asset(r), Texture)] # "nothing"
    BY <1>1 DEF Inv, Mine
  <2>4. files[FileOf(Asset(r), Texture)] \in {"nothing", Texture}
    BY <1>1, <2>1 DEF Inv, Cache, RightContent, FileOf
  <2> QED
    BY <2>1, <2>2, <2>3, <2>4, TextureIsFile
<1> QED
  BY <1>1, Invariance, PTL

(***************************************************************************)
(* Types, with the bounds.  That an archive is never moved into the cache  *)
(* is a matter of names: it is only ever kept under its own.               *)
(***************************************************************************)
TempNames == {"archive", Root, Texture}
ReaderType == [at : Steps, asset : Assets, opens : 0..MaxOpens, sure : BOOLEAN,
               fetched : BOOLEAN]

Typed ==
    /\ TypeOK
    /\ \A r \in Readers, name \in Names : temp[r][name] # "archive"

\* A reader that goes on keeps its type.
LEMMA TypedReader ==
    ASSUME TypeOK, NEW r \in Readers, NEW step \in Steps, Go(r, step)
    PROVE  reader' \in [Readers -> ReaderType]
BY DEF TypeOK, Go, ReaderType

\* What the temporary directory of one reader becomes.
LEMMA TypedTemp ==
    ASSUME Typed, NEW r \in Readers, NEW t \in [TempNames -> Content],
           \A name \in Names : t[name] # "archive", temp' = [temp EXCEPT ![r] = t]
    PROVE  /\ temp' \in [Readers -> [TempNames -> Content]]
           /\ \A u \in Readers, name \in Names : temp'[u][name] # "archive"
<1>1. temp \in [Readers -> [TempNames -> Content]]
  BY DEF Typed, TypeOK, TempNames
<1>2. \A u \in Readers : temp'[u] = IF u = r THEN t ELSE temp[u]
  BY <1>1
<1>3. temp' \in [Readers -> [TempNames -> Content]]
  BY <1>1
<1> QED
  BY <1>2, <1>3, Zenon DEF Typed

\* Without files it is as it should be.
LEMMA TypedNoFiles ==
    /\ NoFiles \in [TempNames -> Content]
    /\ \A name \in Names : NoFiles[name] # "archive"
BY DEF NoFiles, TempNames, Content, Names, Root, Texture

\* A download puts the content it is to have, an error or nothing under one name.
LEMMA TypedDownload ==
    ASSUME Typed, NEW r \in Readers, NEW name \in TempNames, NEW content \in Content,
           content = "archive" => name = "archive", Download(r, name, content)
    PROVE  /\ temp' \in [Readers -> [TempNames -> Content]]
           /\ \A u \in Readers, n \in Names : temp'[u][n] # "archive"
           /\ failed' \subseteq Assets
<1>1. temp[r] \in [TempNames -> Content] /\ temp \in [Readers -> [TempNames -> Content]]
  BY DEF Typed, TypeOK, TempNames
<1>2. Asset(r) \in Assets /\ failed \subseteq Assets
  BY DEF Typed, TypeOK, Asset
<1>3. failed' \subseteq Assets
  BY <1>2 DEF Download, Failed
<1>4. PICK c \in {content, "error", "nothing"} : temp' = [temp EXCEPT ![r][name] = c]
  BY DEF Download
<1> DEFINE t == [temp[r] EXCEPT ![name] = c]
<1>5. c \in Content /\ (c = "archive" => name = "archive")
  BY <1>4 DEF Content
<1>6. t \in [TempNames -> Content]
  BY <1>1, <1>5
<1>7. \A n \in Names : t[n] # "archive"
  BY <1>1, <1>5 DEF Typed, Names, TempNames, Root, Texture
<1>8. temp' = [temp EXCEPT ![r] = t]
  BY <1>1, <1>4
<1> HIDE DEF t
<1> QED
  BY <1>3, <1>6, <1>7, <1>8, TypedTemp

\* A file is moved to the cache from under its own name.
LEMMA TypedSave ==
    ASSUME Typed, NEW r \in Readers, NEW from \in Names, NEW name \in Names,
           files' = [files EXCEPT ![Place(r, name)] = temp[r][from]]
    PROVE  files' \in [Places -> {"nothing", Root, Texture, "error"}]
<1>1. temp[r][from] \in {"nothing", Root, Texture, "error"}
  BY DEF Typed, TypeOK, Content, Names
<1>2. Place(r, name) \in Places
  BY FileNames DEF Typed, TypeOK, Place, Asset, FileOf
<1> QED
  BY <1>1, <1>2 DEF Typed, TypeOK

\* Every step of a reader keeps the types.
LEMMA TypedStep ==
    ASSUME Typed, NEW r \in Readers,
           Step(r) \/ Crash(r) \/ \E a \in Assets : Open(r, a)
    PROVE  Typed'
<1>1. Asset(r) \in Assets /\ reader \in [Readers -> ReaderType]
  BY DEF Typed, TypeOK, Asset, ReaderType
<1>2. ASSUME NEW step \in Steps, Go(r, step) PROVE reader' \in [Readers -> ReaderType]
  BY <1>2, TypedReader DEF Typed
<1>3. ASSUME temp' = [temp EXCEPT ![r] = NoFiles]
      PROVE  /\ temp' \in [Readers -> [TempNames -> Content]]
             /\ \A u \in Readers, name \in Names : temp'[u][name] # "archive"
  BY <1>3, TypedTemp, TypedNoFiles
<1>4. ASSUME reader' \in [Readers -> ReaderType],
             /\ temp' \in [Readers -> [TempNames -> Content]]
             /\ \A u \in Readers, name \in Names : temp'[u][name] # "archive",
             files' \in [Places -> {"nothing", Root, Texture, "error"}],
             dirs' \subseteq Assets, failed' \subseteq Assets, opened' \subseteq Assets,
             crashes' \in 0..MaxCrashes
      PROVE  Typed'
  BY <1>4, Zenon DEF Typed, TypeOK, ReaderType, TempNames
<1>5. /\ temp \in [Readers -> [TempNames -> Content]]
      /\ \A u \in Readers, name \in Names : temp[u][name] # "archive"
      /\ files \in [Places -> {"nothing", Root, Texture, "error"}]
      /\ dirs \subseteq Assets /\ failed \subseteq Assets /\ opened \subseteq Assets
      /\ crashes \in 0..MaxCrashes
  BY DEF Typed, TypeOK, TempNames
<1>6. ASSUME NEW a \in Assets, Open(r, a) PROVE Typed'
  <2>1. reader[r] \in ReaderType
    BY <1>1
  <2>2. reader[r].opens + 1 \in 0..MaxOpens
    BY <1>6, <2>1, AssetsAssumption DEF Open, ReaderType
  <2>3. [at |-> IF a \in Materials THEN "package" ELSE "exists", asset |-> a,
         opens |-> reader[r].opens + 1, sure |-> a \in opened, fetched |-> FALSE] \in ReaderType
    BY <2>2 DEF ReaderType, Steps
  <2>4. reader' \in [Readers -> ReaderType]
    BY <1>1, <1>6, <2>3 DEF Open
  <2>5. UNCHANGED <<dirs, files, temp, crashes, failed, opened>>
    BY <1>6 DEF Open
  <2>6. QED
    BY <1>4, <1>5, <2>4, <2>5
<1>7. CASE LightExists(r) \/ SkipDownload(r) \/ Moved(r)
  <2>1. \E step \in Steps : Go(r, step)
    BY <1>7 DEF LightExists, SkipDownload, Moved, Steps
  <2>2. reader' \in [Readers -> ReaderType]
    BY <1>2, <2>1
  <2>3. UNCHANGED <<dirs, files, temp, crashes, failed, opened>>
    BY <1>7, Zenon DEF LightExists, SkipDownload, Moved
  <2>4. QED
    BY <1>4, <1>5, <2>2, <2>3
<1>8. CASE GetPackage(r)
  <2>1. "exists again" \in Steps /\ "raised" \in Steps
    BY DEF Steps
  <2>2. reader' \in [Readers -> ReaderType]
    BY <1>2, <1>8, <2>1 DEF GetPackage, Raise
  <2>3. /\ UNCHANGED <<dirs, files, crashes, opened>>
        /\ UNCHANGED temp \/ temp' = [temp EXCEPT ![r] = NoFiles]
        /\ UNCHANGED failed \/ Failed(r)
    BY <1>8, Zenon DEF GetPackage, Raise
  <2>4. failed' \subseteq Assets
    BY <1>1, <1>5, <2>3 DEF Failed
  <2>5. QED
    BY <1>3, <1>4, <1>5, <2>2, <2>3, <2>4
<1>9. CASE CreateDirectories(r)
  <2>1. reader' \in [Readers -> ReaderType]
    <3>1. PICK step \in Steps :
              reader' = [reader EXCEPT ![r].at = step, ![r].fetched = TRUE]
      BY <1>9 DEF CreateDirectories, Steps
    <3>2. [reader[r] EXCEPT !.at = step, !.fetched = TRUE] \in ReaderType
      BY <1>1 DEF ReaderType
    <3>3. reader' = [reader EXCEPT ![r] = [reader[r] EXCEPT !.at = step, !.fetched = TRUE]]
      BY <1>1, <3>1
    <3>4. QED
      BY <1>1, <3>2, <3>3
  <2>2. dirs' = dirs \cup {Asset(r)} /\ UNCHANGED <<files, temp, crashes, failed, opened>>
    BY <1>9 DEF CreateDirectories
  <2>3. QED
    BY <1>1, <1>4, <1>5, <2>1, <2>2
<1>10. CASE DownloadArchive(r)
  <2>1. reader' \in [Readers -> ReaderType]
    BY <1>2, <1>10 DEF DownloadArchive, Steps
  <2>2. UNCHANGED <<dirs, files, crashes, opened>> /\ Download(r, "archive", "archive")
    BY <1>10 DEF DownloadArchive
  <2>3. "archive" \in TempNames /\ "archive" \in Content
    BY DEF TempNames, Content
  <2>4. /\ temp' \in [Readers -> [TempNames -> Content]]
        /\ \A u \in Readers, n \in Names : temp'[u][n] # "archive"
        /\ failed' \subseteq Assets
    BY <2>2, <2>3, TypedDownload
  <2>5. QED
    BY <1>4, <1>5, <2>1, <2>2, <2>4
<1>11. CASE Extract(r)
  <2>1. reader' \in [Readers -> ReaderType]
    BY <1>2, <1>11 DEF Extract, Steps
  <2>2. UNCHANGED <<dirs, files, crashes, opened>> /\ (UNCHANGED failed \/ Failed(r))
    BY <1>11, Zenon DEF Extract
  <2>3. PICK t : /\ temp' = [temp EXCEPT ![r] = t]
                 /\ t \in {NoFiles, [NoFiles EXCEPT ![Root] = Root],
                           [NoFiles EXCEPT ![Texture] = Texture],
                           [NoFiles EXCEPT ![Root] = Root, ![Texture] = Texture]}
    BY <1>11, Zenon DEF Extract
  <2>4. t \in [TempNames -> Content] /\ \A name \in Names : t[name] # "archive"
    BY <2>3 DEF NoFiles, TempNames, Content, Names, Root, Texture
  <2>5. /\ temp' \in [Readers -> [TempNames -> Content]]
        /\ \A u \in Readers, n \in Names : temp'[u][n] # "archive"
    BY <2>3, <2>4, TypedTemp
  <2>6. failed' \subseteq Assets
    BY <1>1, <1>5, <2>2 DEF Failed
  <2>7. QED
    BY <1>4, <1>5, <2>1, <2>2, <2>5, <2>6
<1>12. CASE MoveOne(r)
  <2>1. PICK name \in Names : /\ files' = [files EXCEPT ![Place(r, name)] = temp[r][name]]
                              /\ temp' = [temp EXCEPT ![r][name] = "nothing"]
    BY <1>12 DEF MoveOne, Names
  <2>2. files' \in [Places -> {"nothing", Root, Texture, "error"}]
    BY <2>1, TypedSave
  <2> DEFINE t == [temp[r] EXCEPT ![name] = "nothing"]
  <2>3. temp' = [temp EXCEPT ![r] = t] /\ temp[r] \in [TempNames -> Content]
    BY <1>5, <2>1
  <2>4. t \in [TempNames -> Content] /\ \A n \in Names : t[n] # "archive"
    BY <1>5, <2>3 DEF Content, TempNames, Names
  <2> HIDE DEF t
  <2>5. /\ temp' \in [Readers -> [TempNames -> Content]]
        /\ \A u \in Readers, n \in Names : temp'[u][n] # "archive"
    BY <2>3, <2>4, TypedTemp
  <2>6. UNCHANGED <<dirs, reader, crashes, failed, opened>>
    BY <1>12 DEF MoveOne
  <2>7. QED
    BY <1>1, <1>4, <1>5, <2>2, <2>5, <2>6
<1>13. ASSUME NEW from, NEW to \in Steps, NEW content \in {Root, Texture},
              DownloadFile(r, from, to, content)
       PROVE  Typed'
  <2>1. reader' \in [Readers -> ReaderType]
    BY <1>2, <1>13 DEF DownloadFile
  <2>2. UNCHANGED <<dirs, files, crashes, opened>> /\ Download(r, Root, content)
    BY <1>13 DEF DownloadFile
  <2>3. Root \in TempNames /\ content \in Content /\ content # "archive"
    BY <1>13 DEF TempNames, Content, Root, Texture
  <2>4. /\ temp' \in [Readers -> [TempNames -> Content]]
        /\ \A u \in Readers, n \in Names : temp'[u][n] # "archive"
        /\ failed' \subseteq Assets
    BY <2>2, <2>3, TypedDownload
  <2>5. QED
    BY <1>4, <1>5, <2>1, <2>2, <2>4
<1>14. ASSUME NEW from, NEW to \in Steps, NEW name \in Names, SaveFile(r, from, to, name)
       PROVE  Typed'
  <2>1. reader' \in [Readers -> ReaderType]
    BY <1>2, <1>14 DEF SaveFile
  <2>2. /\ files' = [files EXCEPT ![Place(r, name)] = temp[r][Root]]
        /\ temp' = [temp EXCEPT ![r] = NoFiles]
        /\ UNCHANGED <<dirs, crashes, failed, opened>>
    BY <1>14 DEF SaveFile
  <2>3. files' \in [Places -> {"nothing", Root, Texture, "error"}]
    BY <2>2, TypedSave DEF Names
  <2>4. QED
    BY <1>3, <1>4, <1>5, <2>1, <2>2, <2>3
<1>15. CASE DownloadLight(r)
  <2>1. {"save root", "search", "texture file", "save texture"} \subseteq Steps
        /\ Root \in Names /\ Texture \in Names
    BY DEF Steps, Names
  <2>2. (IF Asset(r) \in Plain THEN "search" ELSE "texture file") \in Steps
    BY <2>1
  <2>3. QED
    BY <1>13, <1>14, <1>15, <2>1, <2>2 DEF DownloadLight
<1>16. CASE SaveFails(r) \/ Crash(r) \/ Search(r)
  <2>1. reader' \in [Readers -> ReaderType]
    BY <1>2, <1>16 DEF SaveFails, Raise, Crash, Search, Steps
  <2>2. /\ UNCHANGED <<dirs, files>> /\ temp' = [temp EXCEPT ![r] = NoFiles]
        /\ UNCHANGED failed \/ Failed(r)
        /\ opened' \in {opened, opened \cup {Asset(r)}}
    BY <1>16, Zenon DEF SaveFails, Raise, Crash, Search
  <2>3. crashes' \in 0..MaxCrashes
    <3>1. crashes' = crashes \/ (crashes < MaxCrashes /\ crashes' = crashes + 1)
      BY <1>16, Zenon DEF SaveFails, Crash, Search
    <3>2. QED
      BY <1>5, <3>1, AssetsAssumption
  <2>4. failed' \subseteq Assets /\ opened' \subseteq Assets
    BY <1>1, <1>5, <2>2 DEF Failed
  <2>5. QED
    BY <1>3, <1>4, <1>5, <2>1, <2>2, <2>3, <2>4
<1> QED
  BY Zenon, <1>6, <1>7, <1>8, <1>9, <1>10, <1>11, <1>12, <1>15, <1>16 DEF Step

\* Every variable of cache and readers keeps its type: in particular no archive that was
\* not extracted is put into the cache (MaterialLibraryApi.cpp:77, RestClient.cpp:293).
THEOREM TypeCorrect == Spec => []TypeOK
<1>1. Init => Typed
  <2> SUFFICES ASSUME Init PROVE Typed
    OBVIOUS
  <2>1. reader \in [Readers -> ReaderType]
    <3>1. \A a \in Assets : [at |-> "idle", asset |-> a, opens |-> 0, sure |-> FALSE,
                            fetched |-> FALSE] \in ReaderType
      BY AssetsAssumption DEF ReaderType, Steps
    <3>2. QED
      BY <3>1 DEF Init
  <2>2. /\ temp \in [Readers -> [TempNames -> Content]]
        /\ \A u \in Readers, name \in Names : temp[u][name] # "archive"
    BY TypedNoFiles DEF Init
  <2>3. /\ files \in [Places -> {"nothing", Root, Texture, "error"}]
        /\ dirs \subseteq Assets /\ failed \subseteq Assets /\ opened \subseteq Assets
        /\ crashes \in 0..MaxCrashes
    BY AssetsAssumption DEF Init
  <2>4. QED
    BY <2>1, <2>2, <2>3, Zenon DEF Typed, TypeOK, ReaderType, TempNames
<1>2. Typed /\ UNCHANGED vars => Typed'
  BY DEF Typed, TypeOK, vars
<1>3. Typed /\ [Next]_vars => Typed'
  BY <1>2, TypedStep, Zenon DEF Next
<1>4. Typed => TypeOK
  BY DEF Typed
<1> QED
  BY <1>1, <1>3, <1>4, PTL DEF Spec
=============================================================================
