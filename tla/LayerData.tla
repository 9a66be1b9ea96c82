------------------------------ MODULE LayerData ------------------------------
(***************************************************************************)
(* RenderStudioData (src/Sources/Resolver/Data.cpp): the data of one USD   *)
(* layer as one user's process holds it, with what live editing adds to    *)
(* it: the local edits not sent yet, the paths whose edits the server has  *)
(* not acknowledged, the number of the last update applied and the updates *)
(* that wait for their turn.  The operators below are the methods of the   *)
(* class: each takes the state of a layer and returns the state after the  *)
(* call.                                                                   *)
(*                                                                         *)
(* A field value is the set of tokens it holds: one token for a scalar,    *)
(* none for the empty token, any number for the list of child prims, whose *)
(* order is abstracted.                                                    *)
(***************************************************************************)
EXTENDS Integers, Sequences, FiniteSets

CONSTANTS
    Paths,          \* SdfPath: the specs an edit may touch
    Keys,           \* TfToken: the fields a spec may have
    XformOps,       \* the paths whose name holds "xformOp:"
    PrimChildren,   \* SdfChildrenKeys->PrimChildren
    TypeName,       \* SdfFieldKeys->TypeName
    None            \* no spec at a path, or no entry for a path in a table

ASSUME LayerDataAssumption ==
    /\ XformOps \subseteq Paths
    /\ None \notin [Keys -> SUBSET Nat]
    /\ None \notin Seq([key : Keys, value : SUBSET Nat])

Value == SUBSET Nat
EmptyToken == {}

SpecData == [Keys -> Value]
Contents == [Paths -> SpecData \cup {None}]

\* What edits and events carry: the fields set, in the order they were set first, for
\* each path that has any.
Field == [key : Keys, value : Value]
Table == [Paths -> Seq(Field) \cup {None}]

NoUpdates == [p \in Paths |-> None]
PathsOf(table) == {p \in Paths : table[p] # None}
PathsOnlyForgotten(table) == NoUpdates  \* mutant
PathsOnly(table) == [p \in Paths |-> IF table[p] = None THEN None ELSE <<>>]

\* An update that waits in mRemoteDeltasQueue, which maps numbers to updates.  The
\* epoch is not in the code: it counts the times the server restarted the numbering
\* of this layer, so that a property can tell two updates of the same number apart.
Update == [sequence : Nat \ {0}, updates : Table, epoch : Nat]

LayerState ==
    [mData : Contents,
     mLocalDeltas : Table,
     mUnacknowledgedFields : SUBSET Paths,
     mLatestAppliedSequence : Nat,
     mRemoteDeltasQueue : SUBSET Update,
     applied : Seq(Update)]       \* not in the code: what was applied since OnLoaded

-----------------------------------------------------------------------------
\* OnLoaded: Read has just put the contents of the file into a fresh object.
OnLoaded(file) ==
    [mData |-> file,
     mLocalDeltas |-> NoUpdates,
     mUnacknowledgedFields |-> {},
     mLatestAppliedSequence |-> 0,
     mRemoteDeltasQueue |-> {},
     applied |-> <<>>]

\* _GetOrCreateFieldValueDelta: a second edit of a field before the next tick
\* replaces the value of the first one in place; only a field that is new to the
\* local deltas marks its path.
IsNewField(table, p, k) ==
    table[p] # None => \A i \in DOMAIN table[p] : table[p][i].key # k

RecordedFields(table, p, k, v) ==
    LET fields == IF table[p] = None THEN <<>> ELSE table[p]
    IN  IF IsNewField(table, p, k)
        THEN Append(fields, [key |-> k, value |-> v])
        ELSE [i \in DOMAIN fields |->
                 IF fields[i].key = k THEN [key |-> k, value |-> v] ELSE fields[i]]

\* Set, called by the host application between two ticks on a loaded layer.
HasSpec(d, p) == d.mData[p] # None

Set(d, p, k, v) ==
    [d EXCEPT
        !.mData[p] = [@ EXCEPT ![k] = v],
        !.mLocalDeltas = [@ EXCEPT ![p] = RecordedFields(d.mLocalDeltas, p, k, v)],
        !.mUnacknowledgedFields =
            IF IsNewField(d.mLocalDeltas, p, k) THEN @ \cup {p} ELSE @]

FetchLocalDeltas(d) == [d EXCEPT !.mLocalDeltas = NoUpdates]

\* AccumulateRemoteUpdate, called for each of a sequence of numbered updates: the
\* last one stored under a number is the one that stays.
AccumulateRemoteUpdates(d, updates) ==
    LET stored == {i \in DOMAIN updates : \A j \in DOMAIN updates :
                       updates[j].sequence = updates[i].sequence => j <= i}
        numbers == {updates[i].sequence : i \in stored}
    IN  [d EXCEPT !.mRemoteDeltasQueue =
            {u \in @ : u.sequence \notin numbers}
                \cup {[sequence |-> updates[i].sequence, updates |-> updates[i].updates,
                       epoch |-> updates[i].epoch] : i \in stored}]

-----------------------------------------------------------------------------
\* ApplyDelta for all the fields an update has for one path.  While an own edit of
\* the path is unacknowledged a remote field is skipped, unless the path is a
\* transform (applied by force) or the field is the list of children (merged).  A
\* spec that does not exist is created first; an empty type name erases the spec,
\* and the fields that follow it create it again.
IsAppliedAlways(p, field, unacknowledgedYet) == TRUE    \* mutant
IsApplied(p, field, unacknowledgedYet) ==
    ~unacknowledgedYet \/ p \in XformOps \/ field.key = PrimChildren

RemoteValue(field, old, unacknowledgedYet) ==
    IF unacknowledgedYet /\ field.key = PrimChildren
    THEN field.value \cup old
    ELSE field.value

ApplyDelta(old, p, fields, unacknowledgedYet) ==
    LET effective == {i \in DOMAIN fields : IsApplied(p, fields[i], unacknowledgedYet)}
        erasing == {i \in effective :
                       fields[i].key = TypeName /\ fields[i].value = EmptyToken}
        created == IF old = None \/ erasing # {} THEN [k \in Keys |-> {}] ELSE old
        remaining == {i \in effective : \A e \in erasing : i > e}
    IN  IF Len(fields) \in erasing
        THEN None
        ELSE [k \in Keys |->
                 IF \E i \in remaining : fields[i].key = k
                 THEN LET i == CHOOSE i \in remaining : fields[i].key = k
                      IN  RemoteValue(fields[i], created[k], unacknowledgedYet)
                 ELSE created[k]]

\* One turn of the loop of ProcessRemoteUpdates: the update with the next number.
\* A path without fields is an acknowledgement of the own edits of that path.
IsAnyLaterUpdate(d, u) == u.sequence > d.mLatestAppliedSequence     \* mutant
IsNextUpdate(d, u) == u.sequence = d.mLatestAppliedSequence + 1

HasNextUpdate(d) == \E u \in d.mRemoteDeltasQueue : IsNextUpdate(d, u)

ApplyNextUpdate(d) ==
    LET update == CHOOSE u \in d.mRemoteDeltasQueue : IsNextUpdate(d, u)
        table == update.updates
        edited == {p \in PathsOf(table) : table[p] # <<>>}
    IN  [d EXCEPT
            !.mData = [p \in Paths |->
                IF p \in edited
                THEN ApplyDelta(@[p], p, table[p], p \in d.mUnacknowledgedFields)
                ELSE @[p]],
            !.mUnacknowledgedFields = @ \ (PathsOf(table) \ edited),
            !.mLatestAppliedSequence = update.sequence,
            !.mRemoteDeltasQueue = @ \ {update},
            !.applied = Append(@, update)]
=============================================================================
