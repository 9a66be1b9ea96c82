----------------------------- MODULE AssetPaths -----------------------------
(***************************************************************************)
(* The paths of assets in src/Sources/Resolver/Resolver.cpp: a scheme and  *)
(* the names between the slashes.  A path without a scheme is relative to  *)
(* the asset that mentions it, and "file" is the scheme of a place on the  *)
(* disk.                                                                   *)
(***************************************************************************)
EXTENDS Integers, Sequences

Path(scheme, names) == [scheme |-> scheme, names |-> names]

IsRenderStudioPath(path) == path.scheme \in {"studio", "gpuopen", "storage"}

\* Where a place on the disk begins: the workspace, or a directory of the cache.
RootOf == [studio |-> "Workspace", gpuopen |-> "Materials", storage |-> "Storage"]
OnDisk(path) == Path("file", <<RootOf[path.scheme]>> \o path.names)

\* Mutant: like in a scene, what comes after the last slash is replaced.
AnchorRelativePathAsInScene(anchor, path) ==
    Path(anchor.scheme, SubSeq(anchor.names, 1, Len(anchor.names) - 1) \o path.names)

\* _AnchorRelativePathForStudioProtocol: relative to the folder of a scene, but to all of
\* the name of a material or a light.  A material has one name: of a path with several the
\* code would drop the slashes.
AnchorRelativePath(anchor, path) ==
    LET folder == IF anchor.scheme = "studio"
                  THEN SubSeq(anchor.names, 1, Len(anchor.names) - 1)
                  ELSE anchor.names
    IN Path(anchor.scheme, folder \o path.names)

CreateIdentifier(path, anchor) ==
    IF IsRenderStudioPath(path) THEN path ELSE AnchorRelativePath(anchor, path)

\* _Resolve: a material or a light itself stays as it is, to be opened by _OpenAsset; its
\* textures are files of the cache, those of a scene files of the workspace.
Resolve(path, isUsd) ==
    IF (path.scheme = "studio" /\ isUsd) \/ (path.scheme # "studio" /\ Len(path.names) = 1)
    THEN path
    ELSE OnDisk(path)
=============================================================================
