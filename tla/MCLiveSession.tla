---------------------------- MODULE MCLiveSession ----------------------------
(***************************************************************************)
(* Small live sessions for TLC: the values of LiveSession's constants.     *)
(***************************************************************************)
EXTENDS LiveSession, TLC

CONSTANTS
    ann, bob, sAnn, sBob, sAnn2, layer,
    attr, xform, prim,      \* an ordinary attribute, an xformOp, a primitive
    value                   \* the field of an attribute

OneSessionEach == sAnn :> ann @@ sBob :> bob
AnnComesBack == OneSessionEach @@ sAnn2 :> ann

\* The two users are alike.
Alike == {ann :> ann @@ bob :> bob @@ sAnn :> sAnn @@ sBob :> sBob,
          ann :> bob @@ bob :> ann @@ sAnn :> sBob @@ sBob :> sAnn}

\* Every spec exists in the file, with a type name and nothing else.
OneFile == [l \in Layers |-> [p \in Paths |-> [k \in Keys |->
                IF k = TypeName THEN {0} ELSE {}]]]

FieldsByPath == [p \in Paths |-> IF p = prim THEN Keys \ {value} ELSE {value}]

\* Ordinary attributes are edited again once the edit is acknowledged; transforms and
\* primitives under a lock.
Careful == [p \in Paths |-> IF p = attr THEN "settled" ELSE "locked"]
AllFree == [p \in Paths |-> "free"]
=============================================================================
