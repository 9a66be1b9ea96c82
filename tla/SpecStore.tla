------------------------------ MODULE SpecStore ------------------------------
(***************************************************************************)
(* RenderStudioData (src/Sources/Resolver/Data.cpp) as USD's abstract data *)
(* of a layer: the specs, the vector of fields of each, and the time       *)
(* samples kept in one of the fields.  Each operator takes the data and    *)
(* returns it after the call.  LayerData has what live editing adds for    *)
(* updates that arrive.                                                    *)
(***************************************************************************)
EXTENDS Integers, Sequences, FiniteSets

CONSTANTS
    Paths,
    TimeSamples,    \* SdfDataTokens->TimeSamples, a field
    Times           \* at which there may be a sample

ASSUME SpecStoreAssumption == Times \subseteq Int /\ IsFiniteSet(Times)

NoSpec == [exists |-> FALSE, fields |-> <<>>]
EmptySpec == [exists |-> TRUE, fields |-> <<>>]

\* A loaded layer: its file's specs, and no local edit.
Loaded(file) == [mData |-> file, mLocalDeltas |-> [p \in Paths |-> NoSpec]]

HasSpec(d, p) == d.mData[p].exists
Positions(spec, k) == {i \in DOMAIN spec.fields : spec.fields[i].key = k}
HasField(spec, k) == Positions(spec, k) # {}

\* _GetFieldValue, where there is one.
FieldValue(spec, k) == spec.fields[CHOOSE i \in Positions(spec, k) : TRUE].value

EraseSpec(d, p) == [d EXCEPT !.mData[p] = NoSpec]

MoveSpec(d, oldPath, newPath) ==
    IF HasSpec(d, oldPath) /\ ~HasSpec(d, newPath)
    THEN [d EXCEPT !.mData[newPath] = d.mData[oldPath], !.mData[oldPath] = NoSpec]
    ELSE d

CreateSpec(d, p) == [d EXCEPT !.mData[p] = [@ EXCEPT !.exists = TRUE]]

\* Mutant: fields are never looked for.
WithFieldAdded(spec, k, v) == [exists |-> TRUE, fields |-> Append(spec.fields, [key |-> k, value |-> v])]

\* _GetOrCreateFieldValue and its assignment: in place, or at the end of the vector.
WithField(spec, k, v) ==
    [exists |-> TRUE,
     fields |-> IF HasField(spec, k)
                THEN [i \in DOMAIN spec.fields |->
                         IF spec.fields[i].key = k THEN [key |-> k, value |-> v]
                         ELSE spec.fields[i]]
                ELSE Append(spec.fields, [key |-> k, value |-> v])]

\* Erase takes the first of that name out, and tells nobody.
Erase(d, p, k) ==
    IF ~HasField(d.mData[p], k) THEN d
    ELSE LET first == CHOOSE i \in Positions(d.mData[p], k) :
                          \A j \in Positions(d.mData[p], k) : i <= j
         IN [d EXCEPT !.mData[p].fields =
                SubSeq(@, 1, first - 1) \o SubSeq(@, first + 1, Len(@))]

\* Mutant: the value meant for the others is set once.
SetDeltaOnce(d, p, k, v) ==
    [d EXCEPT !.mData[p] = WithField(@, k, v),
              !.mLocalDeltas[p] = IF HasField(@, k) THEN @ ELSE WithField(@, k, v)]

\* Set a value that is not empty, on a loaded layer.
Set(d, p, k, v) ==
    [d EXCEPT !.mData[p] = WithField(@, k, v), !.mLocalDeltas[p] = WithField(@, k, v)]

\* Set while remote updates are processed: nothing is recorded.
SetRemote(d, p, k, v) == [d EXCEPT !.mData[p] = WithField(@, k, v)]

FetchLocalDeltas(d) == [d EXCEPT !.mLocalDeltas = [p \in Paths |-> NoSpec]]

-----------------------------------------------------------------------------
\* A map of time samples, as the value of a field: 0 where there is no sample.
SampleMap(samples) == [type |-> "SdfTimeSampleMap", data |-> samples]
NoSamples == [t \in Times |-> 0]
Samples(d, p) ==
    IF HasField(d.mData[p], TimeSamples) THEN FieldValue(d.mData[p], TimeSamples).data
    ELSE NoSamples

\* SetTimeSample changes a map that is there in place, and only a new one is Set.
SetTimeSample(d, p, time, sample) ==
    LET newSamples == SampleMap([Samples(d, p) EXCEPT ![time] = sample])
    IN  IF HasField(d.mData[p], TimeSamples)
        THEN SetRemote(d, p, TimeSamples, newSamples)
        ELSE Set(d, p, TimeSamples, newSamples)

\* EraseTimeSample: the field goes with the last sample.
EraseTimeSample(d, p, time) ==
    LET newSamples == [Samples(d, p) EXCEPT ![time] = 0]
    IN  IF ~HasField(d.mData[p], TimeSamples) THEN d
        ELSE IF newSamples = NoSamples THEN Erase(d, p, TimeSamples)
        ELSE SetRemote(d, p, TimeSamples, SampleMap(newSamples))

ListTimeSamplesForPath(d, p) == {t \in Times : Samples(d, p)[t] # 0}
ListAllTimeSamples(d) == UNION {ListTimeSamplesForPath(d, p) : p \in Paths}
QueryTimeSample(d, p, time) == time \in ListTimeSamplesForPath(d, p)

First(times) == CHOOSE t \in times : \A u \in times : t <= u
Last(times) == CHOOSE t \in times : \A u \in times : t >= u

\* std::set's lower_bound, and the element before it.
LowerBound(times, time) == First({t \in times : t >= time})
Before(times, time) == Last({t \in times : t < time})

\* Mutant: the element found and the next one.
BracketingAfter(times, time) ==
    IF time <= First(times) THEN <<First(times), First(times)>>
    ELSE IF time >= Last(times) THEN <<Last(times), Last(times)>>
    ELSE <<LowerBound(times, time), First({t \in times : t > time})>>

\* _GetBracketingTimeSamplesImpl for at least one sample: <<*tLower, *tUpper>>.
Bracketing(times, time) ==
    IF time <= First(times) THEN <<First(times), First(times)>>
    ELSE IF time >= Last(times) THEN <<Last(times), Last(times)>>
    ELSE IF LowerBound(times, time) = time THEN <<time, time>>
    ELSE <<Before(times, LowerBound(times, time)), LowerBound(times, time)>>
=============================================================================
