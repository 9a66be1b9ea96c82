----------------------------- MODULE LayerValues -----------------------------
(***************************************************************************)
(* One user edits a layer with every operation USD has for it, another     *)
(* follows.  With each tick the author's recorded edits are written as one *)
(* event (FileFormat.cpp, Api.cpp), which the reader parses and applies in *)
(* its turn.  What the server adds is modelled in LiveServer, and what the *)
(* reader's own edits change in LiveSession.                               *)
(***************************************************************************)
EXTENDS SpecStore, ValueJson

CONSTANTS
    Key,        \* a field other than the time samples
    MaxEdits    \* bound: how often the author edits

ASSUME LayerValuesAssumption == Key # TimeSamples /\ MaxEdits \in Nat

VARIABLES
    author,     \* its RenderStudioData
    reader,     \* the other one's
    wire,       \* the events sent and not yet applied
    edits,
    untold      \* not in the code: <<path, field>> changed by what is not sent, or lost

vars == <<author, reader, wire, edits, untold>>

Fields == Paths \X {Key, TimeSamples}
FieldsOf(p) == {p} \X {Key, TimeSamples}

\* A token, a vector, a block; list operations that are explicit, empty and not, that
\* prepend, append and delete, that add, and that order; and a type that has no JSON.
Values ==
    {[type |-> "TfToken", data |-> <<1>>], [type |-> "GfVec3f", data |-> <<1, 2, 3>>],
     [type |-> "SdfValueBlock", data |-> <<0>>],
     [type |-> "SdfListOp<TfToken>", data |-> <<1, 0, 0, 0, 0, 0, 0>>],
     [type |-> "SdfListOp<TfToken>", data |-> <<1, 1, 0, 0, 0, 0, 0>>],
     [type |-> "SdfListOp<TfToken>", data |-> <<0, 0, 0, 1, 2, 3, 0>>],
     [type |-> "SdfListOp<TfToken>", data |-> <<0, 0, 1, 0, 0, 0, 0>>],
     [type |-> "SdfListOp<TfToken>", data |-> <<0, 0, 0, 1, 0, 0, 2>>],
     [type |-> "GfVec4f", data |-> <<1, 2, 3, 4>>]}

\* No field is in a spec twice, which Erase relies on.
SpecOK(spec) ==
    /\ spec.exists \in BOOLEAN
    /\ \A i, j \in DOMAIN spec.fields : spec.fields[i].key = spec.fields[j].key => i = j
    /\ ~spec.exists => spec.fields = <<>>

TypeOK ==
    /\ \A p \in Paths :
          SpecOK(author.mData[p]) /\ SpecOK(author.mLocalDeltas[p]) /\ SpecOK(reader.mData[p])
    /\ reader.mLocalDeltas = [p \in Paths |-> NoSpec]
    /\ edits \in 0..MaxEdits
    /\ untold \subseteq Fields

Init ==
    /\ \E present \in SUBSET Paths :
          author = Loaded([p \in Paths |-> IF p \in present THEN EmptySpec ELSE NoSpec])
    /\ reader = author
    /\ wire = <<>>
    /\ edits = 0
    /\ untold = {}

-----------------------------------------------------------------------------
Edit ==
    /\ edits < MaxEdits
    /\ edits' = edits + 1
    /\ UNCHANGED <<reader, wire>>

\* USD sets fields of specs that are there.
EditField(p) ==
    /\ Edit
    /\ HasSpec(author, p)
    /\ \E v \in Values :
          /\ author' = Set(author, p, Key, v)
          /\ untold' = IF Arrives(v) THEN untold \ {<<p, Key>>} ELSE untold \cup {<<p, Key>>}

\* Set calls Erase for an empty value.
ClearField(p) ==
    /\ Edit
    /\ \E k \in {Key, TimeSamples} :
          /\ author' = Erase(author, p, k)
          /\ untold' = untold \cup {<<p, k>>}

AddSpec(p) ==
    /\ Edit
    /\ author' = CreateSpec(author, p)
    /\ UNCHANGED untold

RemoveSpec(p) ==
    /\ Edit
    /\ HasSpec(author, p)
    /\ author' = EraseSpec(author, p)
    /\ untold' = untold \cup FieldsOf(p)

RenameSpec(p, newPath) ==
    /\ Edit
    /\ author' = MoveSpec(author, p, newPath)
    /\ untold' = untold \cup FieldsOf(p) \cup FieldsOf(newPath)

EditSample(p, time) ==
    /\ Edit
    /\ HasSpec(author, p)
    /\ \/ author' = SetTimeSample(author, p, time, 1)
       \/ author' = EraseTimeSample(author, p, time)
    /\ untold' = untold \cup {<<p, TimeSamples>>}

-----------------------------------------------------------------------------
\* The body of a Delta::Event, and its way back.
ToEvent(deltas) ==
    [p \in Paths |-> [exists |-> deltas[p].exists,
                      fields |-> [i \in DOMAIN deltas[p].fields |->
                                     [key |-> deltas[p].fields[i].key,
                                      value |-> ToJson(deltas[p].fields[i].value)]]]]

FromEvent(event) ==
    [p \in Paths |-> [exists |-> event[p].exists,
                      fields |-> [i \in DOMAIN event[p].fields |->
                                     [key |-> event[p].fields[i].key,
                                      value |-> FromJson(event[p].fields[i].value)]]]]

CanBeWritten(deltas) ==
    \A p \in Paths : \A i \in DOMAIN deltas[p].fields :
        deltas[p].fields[i].value.type \in Serializable

\* ProcessLiveUpdates: the edits are fetched first, and all of them lost if one of their
\* values has no JSON.
Tick ==
    LET local == author.mLocalDeltas IN
    /\ \E p \in Paths : local[p].exists
    /\ author' = FetchLocalDeltas(author)
    /\ IF CanBeWritten(local)
       THEN wire' = Append(wire, ToEvent(local)) /\ UNCHANGED untold
       ELSE /\ untold' = untold \cup {pk \in Fields : HasField(local[pk[1]], pk[2])}
            /\ UNCHANGED wire
    /\ UNCHANGED <<reader, edits>>

\* ApplyDelta for one field after the other, in a layer without own edits: a spec that is
\* missing is created.
WithUpdate(spec, update) ==
    LET applied[n \in 0..Len(update.fields)] ==
            IF n = 0 THEN spec
            ELSE WithField(applied[n - 1], update.fields[n].key, update.fields[n].value)
    IN  applied[Len(update.fields)]

Apply ==
    /\ wire # <<>>
    /\ wire' = Tail(wire)
    /\ LET event == FromEvent(Head(wire)) IN
       reader' = [reader EXCEPT !.mData = [p \in Paths |-> WithUpdate(@[p], event[p])]]
    /\ UNCHANGED <<author, edits, untold>>

Next ==
    \/ \E p \in Paths :
          \/ EditField(p) \/ ClearField(p) \/ AddSpec(p) \/ RemoveSpec(p)
          \/ \E newPath \in Paths \ {p} : RenameSpec(p, newPath)
          \/ \E time \in Times : EditSample(p, time)
    \/ Tick \/ Apply

Spec == Init /\ [][Next]_vars

-----------------------------------------------------------------------------
Same(p, k) ==
    IF HasField(author.mData[p], k)
    THEN HasField(reader.mData[p], k)
         /\ FieldValue(reader.mData[p], k) = FieldValue(author.mData[p], k)
    ELSE ~HasField(reader.mData[p], k)

\* When everything is sent and applied the two users see the same in every field but those
\* whose last change was an operation that is not recorded (Erase, EraseSpec, MoveSpec, a
\* time sample), was lost with its tick, or was a list operation that changes as JSON: an
\* explicit one without items, or one with added or ordered items; and a later edit makes
\* up for each of these (Data.cpp:273-298, :577, :773, FileFormat.cpp:207,
\* Serialization.h:185-195).
Followed ==
    wire = <<>> /\ (\A p \in Paths : ~author.mLocalDeltas[p].exists)
        => \A pk \in Fields \ untold : Same(pk[1], pk[2])

\* The samples found around a time enclose it, are samples that can be queried, and there is
\* none between them (Data.cpp:650).
BracketsAgree ==
    \A p \in Paths, time \in 0..4 :
        LET times == ListTimeSamplesForPath(author, p)
            found == Bracketing(times, time)
        IN times # {} =>
              /\ QueryTimeSample(author, p, found[1]) /\ QueryTimeSample(author, p, found[2])
              /\ found[1] = found[2] \/ (found[1] < time /\ time < found[2])
              /\ QueryTimeSample(author, p, time) => found = <<time, time>>
              /\ \A t \in times : t <= found[1] \/ t >= found[2]
=============================================================================
