------------------------- MODULE LayerValuesProofs -------------------------
(***************************************************************************)
(* The invariants of LayerValues proved with TLAPS, for any paths, times   *)
(* and number of edits.                                                    *)
(***************************************************************************)
EXTENDS LayerValues, SequenceTheorems, FiniteSetTheorems, WellFoundedInduction, TLAPS

(***************************************************************************)
(* What is in a spec: its fields are from a set, each of another name.     *)
(***************************************************************************)
Specs(F) == {spec \in [exists : BOOLEAN, fields : Seq(F)] : SpecOK(spec)}

\* Two specs say the same of a field.
Alike(spec, other, k) ==
    /\ HasField(spec, k) <=> HasField(other, k)
    /\ HasField(spec, k) => FieldValue(spec, k) = FieldValue(other, k)

Shown(spec, k, v) == HasField(spec, k) /\ FieldValue(spec, k) = v

LEMMA SpecsType ==
    ASSUME NEW F, NEW spec \in Specs(F)
    PROVE  /\ spec \in [exists : BOOLEAN, fields : Seq(F)] /\ SpecOK(spec)
           /\ spec.fields \in Seq(F) /\ spec.exists \in BOOLEAN
           /\ DOMAIN spec.fields = 1..Len(spec.fields) /\ Len(spec.fields) \in Nat
           /\ \A i \in DOMAIN spec.fields : spec.fields[i] \in F
BY DEF Specs

LEMMA FieldAt ==
    ASSUME NEW F, NEW spec \in Specs(F), NEW i \in DOMAIN spec.fields,
           NEW k, spec.fields[i].key = k
    PROVE  Shown(spec, k, spec.fields[i].value)
<1>1. Positions(spec, k) = {i}
  BY SpecsType DEF SpecOK, Positions
<1>2. (CHOOSE j \in Positions(spec, k) : TRUE) = i
  BY <1>1
<1>3. QED
  BY <1>1, <1>2 DEF Shown, HasField, FieldValue

LEMMA FieldIn ==
    ASSUME NEW F, NEW spec \in Specs(F), NEW k, HasField(spec, k)
    PROVE  \E i \in DOMAIN spec.fields :
              /\ spec.fields[i].key = k /\ FieldValue(spec, k) = spec.fields[i].value
              /\ spec.fields[i] \in F
<1>1. PICK i \in DOMAIN spec.fields : spec.fields[i].key = k
  BY DEF HasField, Positions
<1>2. QED
  BY <1>1, FieldAt, SpecsType DEF Shown

LEMMA NoField ==
    ASSUME NEW spec, NEW k, spec.fields = <<>>
    PROVE  ~HasField(spec, k)
BY DEF HasField, Positions

LEMMA EmptyIsGood ==
    ASSUME NEW F
    PROVE  /\ NoSpec \in Specs(F) /\ EmptySpec \in Specs(F)
           /\ \A k : ~HasField(NoSpec, k) /\ ~HasField(EmptySpec, k)
<1>1. ASSUME NEW b \in BOOLEAN, NEW spec, spec = [exists |-> b, fields |-> <<>>]
      PROVE  spec \in Specs(F)
  <2>1. <<>> \in Seq(F)
    OBVIOUS
  <2>2. spec.exists = b /\ spec.fields = <<>>
    BY <1>1
  <2>3. spec \in [exists : BOOLEAN, fields : Seq(F)]
    BY ONLY <1>1, <2>1, b \in BOOLEAN
  <2>4. SpecOK(spec)
    BY <2>2 DEF SpecOK
  <2>5. QED
    BY <2>3, <2>4 DEF Specs
<1>2. NoSpec \in Specs(F) /\ EmptySpec \in Specs(F)
  BY <1>1 DEF NoSpec, EmptySpec
<1>3. \A k : ~HasField(NoSpec, k)
  BY NoField DEF NoSpec
<1>4. \A k : ~HasField(EmptySpec, k)
  BY NoField DEF EmptySpec
<1>5. QED
  BY <1>2, <1>3, <1>4

LEMMA SpecIs ==
    ASSUME NEW F, NEW fields \in Seq(F), NEW spec,
           spec = [exists |-> TRUE, fields |-> fields],
           \A i, j \in DOMAIN fields : fields[i].key = fields[j].key => i = j
    PROVE  spec \in Specs(F)
<1>1. spec \in [exists : BOOLEAN, fields : Seq(F)]
  OBVIOUS
<1>2. spec.exists = TRUE /\ spec.fields = fields
  OBVIOUS
<1>3. spec.exists /\ spec.exists \in BOOLEAN
  BY <1>2, Zenon
<1>4. SpecOK(spec)
  BY <1>2, <1>3 DEF SpecOK
<1>5. QED
  BY <1>1, <1>4 DEF Specs

\* Specs with the same fields of a name, wherever they are, are alike in it.
LEMMA AlikeIf ==
    ASSUME NEW F, NEW spec \in Specs(F), NEW other \in Specs(F), NEW k,
           \A i \in DOMAIN spec.fields : spec.fields[i].key = k =>
               \E j \in DOMAIN other.fields : other.fields[j] = spec.fields[i],
           \A j \in DOMAIN other.fields : other.fields[j].key = k =>
               \E i \in DOMAIN spec.fields : spec.fields[i] = other.fields[j]
    PROVE  Alike(spec, other, k)
<1>1. ASSUME HasField(spec, k)
      PROVE  Shown(other, k, FieldValue(spec, k))
  <2>1. PICK i \in DOMAIN spec.fields :
            spec.fields[i].key = k /\ FieldValue(spec, k) = spec.fields[i].value
    BY <1>1, FieldIn
  <2>2. PICK j \in DOMAIN other.fields : other.fields[j] = spec.fields[i]
    BY <2>1
  <2>3. QED
    BY <2>1, <2>2, FieldAt
<1>2. ASSUME HasField(other, k)
      PROVE  HasField(spec, k)
  <2>1. PICK j \in DOMAIN other.fields : other.fields[j].key = k
    BY <1>2 DEF HasField, Positions
  <2>2. PICK i \in DOMAIN spec.fields : spec.fields[i] = other.fields[j]
    BY <2>1
  <2>3. QED
    BY <2>1, <2>2 DEF HasField, Positions
<1>3. QED
  BY <1>1, <1>2 DEF Shown, Alike

(***************************************************************************)
(* What the calls of RenderStudioData do to a spec.                        *)
(***************************************************************************)
LEMMA WithFieldGood ==
    ASSUME NEW F, NEW spec \in Specs(F), NEW k, NEW v, [key |-> k, value |-> v] \in F
    PROVE  /\ WithField(spec, k, v) \in Specs(F)
           /\ Shown(WithField(spec, k, v), k, v)
           /\ \A other : other # k => Alike(spec, WithField(spec, k, v), other)
<1> DEFINE new == [key |-> k, value |-> v]
           after == WithField(spec, k, v)
<1>1. /\ spec.fields \in Seq(F) /\ SpecOK(spec)
      /\ DOMAIN spec.fields = 1..Len(spec.fields) /\ Len(spec.fields) \in Nat
  BY SpecsType
<1>2. CASE HasField(spec, k)
  <2>1. after = [exists |-> TRUE,
                 fields |-> [i \in DOMAIN spec.fields |->
                                IF spec.fields[i].key = k THEN new ELSE spec.fields[i]]]
    BY <1>2 DEF WithField
  <2>2. /\ after.exists = TRUE /\ DOMAIN after.fields = DOMAIN spec.fields
        /\ \A i \in DOMAIN spec.fields :
              after.fields[i] = IF spec.fields[i].key = k THEN new ELSE spec.fields[i]
    BY <2>1
  <2>3. after.fields \in Seq(F) /\ after = [exists |-> TRUE, fields |-> after.fields]
    BY <1>1, <2>1
  <2> HIDE DEF after
  <2>4. after \in Specs(F)
    <3>1. \A i \in DOMAIN spec.fields : after.fields[i].key = spec.fields[i].key
      BY <2>2
    <3>2. \A i, j \in DOMAIN after.fields : after.fields[i].key = after.fields[j].key => i = j
      BY <1>1, <2>2, <3>1 DEF SpecOK
    <3>3. QED
      BY <2>3, <3>2, SpecIs
  <2>5. Shown(after, k, v)
    <3>1. PICK i \in DOMAIN spec.fields : spec.fields[i].key = k
      BY <1>2 DEF HasField, Positions
    <3>2. QED
      BY <2>2, <2>4, <3>1, FieldAt
  <2>6. \A other : other # k => Alike(spec, after, other)
    BY <2>2, <2>4, AlikeIf
  <2>7. QED
    BY <2>4, <2>5, <2>6 DEF after
<1>3. CASE ~HasField(spec, k)
  <2>1. after = [exists |-> TRUE, fields |-> Append(spec.fields, new)]
    BY <1>3 DEF WithField
  <2>2. \A i \in DOMAIN spec.fields : spec.fields[i].key # k
    BY <1>3 DEF HasField, Positions
  <2>3. /\ after.exists = TRUE /\ Len(after.fields) = Len(spec.fields) + 1
        /\ DOMAIN after.fields = 1..Len(spec.fields) + 1
        /\ \A i \in DOMAIN spec.fields : after.fields[i] = spec.fields[i]
        /\ after.fields[Len(spec.fields) + 1] = new
    BY <1>1, <2>1
  <2>4. after.fields \in Seq(F) /\ after = [exists |-> TRUE, fields |-> after.fields]
    BY <1>1, <2>1
  <2> HIDE DEF after
  <2>5. after \in Specs(F)
    <3>1. \A i \in DOMAIN after.fields :
              i \in DOMAIN spec.fields \/ i = Len(spec.fields) + 1
      BY <1>1, <2>3
    <3>2. \A i, j \in DOMAIN after.fields : after.fields[i].key = after.fields[j].key => i = j
      <4>1. ASSUME NEW i \in DOMAIN after.fields, NEW j \in DOMAIN after.fields,
                   after.fields[i].key = after.fields[j].key
            PROVE  i = j
        <5>1. new.key = k
          OBVIOUS
        <5>2. CASE i \in DOMAIN spec.fields /\ j \in DOMAIN spec.fields
          BY <1>1, <2>3, <4>1, <5>2 DEF SpecOK
        <5>3. CASE i \notin DOMAIN spec.fields /\ j \notin DOMAIN spec.fields
          BY <3>1, <5>3
        <5>4. CASE i \in DOMAIN spec.fields /\ j \notin DOMAIN spec.fields
          BY <2>2, <2>3, <3>1, <4>1, <5>1, <5>4
        <5>5. CASE i \notin DOMAIN spec.fields /\ j \in DOMAIN spec.fields
          BY <2>2, <2>3, <3>1, <4>1, <5>1, <5>5
        <5>6. QED
          BY <5>2, <5>3, <5>4, <5>5
      <4>2. QED
        BY <4>1
    <3>3. QED
      BY <2>4, <3>2, SpecIs
  <2>6. Shown(after, k, v)
    BY <1>1, <2>3, <2>5, FieldAt
  <2>7. ASSUME NEW other, other # k
        PROVE  Alike(spec, after, other)
    <3>1. \A i \in DOMAIN after.fields :
              i \in DOMAIN spec.fields \/ i = Len(spec.fields) + 1
      BY <1>1, <2>3
    <3>2. \A i \in DOMAIN spec.fields : i \in DOMAIN after.fields
      BY <1>1, <2>3
    <3>3. QED
      BY <2>3, <2>5, <2>7, <3>1, <3>2, AlikeIf
  <2>8. QED
    BY <2>5, <2>6, <2>7 DEF after
<1>4. QED
  BY <1>2, <1>3

\* A sequence without one of its elements.
Without(s, first) == SubSeq(s, 1, first - 1) \o SubSeq(s, first + 1, Len(s))

LEMMA SeqWithout ==
    ASSUME NEW F, NEW s \in Seq(F), NEW first \in 1..Len(s), NEW r, r = Without(s, first)
    PROVE  /\ r \in Seq(F) /\ Len(r) = Len(s) - 1
           /\ \A i \in 1..Len(r) : i < first => r[i] = s[i]
           /\ \A i \in 1..Len(r) : i >= first => r[i] = s[i + 1]
<1> USE DEF Without
<1>1. PICK a : a = SubSeq(s, 1, first - 1)
  OBVIOUS
<1>2. PICK b : b = SubSeq(s, first + 1, Len(s))
  OBVIOUS
<1>3. Len(s) \in Nat /\ first \in Nat /\ first >= 1 /\ first <= Len(s)
  OBVIOUS
<1>4. a \in Seq(F)
  BY <1>1, <1>3, SubSeqProperties
<1>5. Len(a) = first - 1
  BY <1>1, <1>3, SubSeqProperties
<1>6. \A i \in 1..first - 1 : a[i] = s[i]
  BY <1>1, <1>3
<1>7. b \in Seq(F)
  BY <1>2, <1>3, SubSeqProperties
<1>8. Len(b) = Len(s) - first
  BY <1>2, <1>3, SubSeqProperties
<1>9. \A i \in 1..Len(s) - first : b[i] = s[first + i]
  BY <1>2, <1>3
<1>10. r \in Seq(F)
  BY <1>1, <1>2, <1>4, <1>7
<1>11. Len(r) = Len(a) + Len(b)
  BY <1>1, <1>2, <1>4, <1>7
<1>12. \A i \in 1..Len(a) + Len(b) : r[i] = IF i <= Len(a) THEN a[i] ELSE b[i - Len(a)]
  BY ONLY <1>1, <1>2, <1>4, <1>7,
          r = Without(s, first), ConcatProperties
<1>13. Len(r) = Len(s) - 1
  BY ONLY <1>3, <1>5, <1>8, <1>11
<1>14. ASSUME NEW i \in 1..Len(r)
       PROVE  /\ i < first => r[i] = s[i]
              /\ i >= first => r[i] = s[i + 1]
  <2>1. i \in Nat /\ i >= 1 /\ i <= Len(s) - 1 /\ i \in 1..Len(a) + Len(b)
    BY ONLY <1>3, <1>11, <1>13, <1>14
  <2>2. CASE i < first
    <3>1. i <= Len(a) /\ i \in 1..first - 1
      BY ONLY <1>3, <1>5, <2>1, <2>2
    <3>2. QED
      BY ONLY <1>3, <1>6, <1>12, <2>1, <2>2, <3>1
  <2>3. CASE i >= first
    <3>1. ~(i <= Len(a)) /\ i - Len(a) \in 1..Len(s) - first /\ first + (i - Len(a)) = i + 1
      BY ONLY <1>3, <1>5, <2>1, <2>3
    <3>2. ~(i < first)
      BY ONLY <1>3, <2>1, <2>3
    <3>3. r[i] = s[first + (i - Len(a))]
      BY ONLY <1>9, <1>12, <2>1, <3>1
    <3>4. QED
      BY ONLY <3>1, <3>2, <3>3
  <2>4. QED
    BY <1>3, <2>1, <2>2, <2>3
<1>15. QED
  BY <1>10, <1>13, <1>14

Erased(spec, first) ==
    [spec EXCEPT !.fields = SubSeq(@, 1, first - 1) \o SubSeq(@, first + 1, Len(@))]

LEMMA ErasedGood ==
    ASSUME NEW F, NEW spec \in Specs(F), NEW k, NEW first \in Positions(spec, k), NEW after,
           after = Erased(spec, first)
    PROVE  after \in Specs(F) /\ \A other : other # k => Alike(spec, after, other)
<1> DEFINE s == spec.fields
           r == after.fields
           Old(i) == IF i < first THEN i ELSE i + 1
           New(i) == IF i < first THEN i ELSE i - 1
<1>1. /\ s \in Seq(F) /\ DOMAIN s = 1..Len(s) /\ Len(s) \in Nat /\ SpecOK(spec)
      /\ spec \in [exists : BOOLEAN, fields : Seq(F)]
  BY SpecsType
<1>2. first \in 1..Len(s) /\ s[first].key = k
  BY <1>1 DEF Positions
<1>3. r = Without(s, first)
  BY <1>1 DEF Erased, Without
<1>4. /\ r \in Seq(F) /\ Len(r) = Len(s) - 1
      /\ \A i \in 1..Len(r) : i < first => r[i] = s[i]
      /\ \A i \in 1..Len(r) : i >= first => r[i] = s[i + 1]
  <2> HIDE DEF s, r
  <2>1. s \in Seq(F) /\ first \in 1..Len(s) /\ r = Without(s, first)
    BY ONLY <1>1, <1>2, <1>3
  <2>2. QED
    BY ONLY <2>1, SeqWithout
<1>5. DOMAIN r = 1..Len(r) /\ Len(r) \in Nat
  BY <1>4
<1>6. spec.exists = TRUE
  <2>1. s # <<>>
    BY <1>1, <1>2
  <2>2. spec.exists \in BOOLEAN
    BY <1>1
  <2>3. QED
    BY <1>1, <2>1, <2>2, Zenon DEF SpecOK
<1>7. after = [exists |-> TRUE, fields |-> r]
  BY <1>1, <1>6 DEF Erased
<1> HIDE DEF s, r
<1>8. ASSUME NEW i \in DOMAIN r
      PROVE  Old(i) \in DOMAIN s /\ r[i] = s[Old(i)]
  <2>1. i \in 1..Len(r) /\ i \in Nat
    BY <1>5
  <2>2. CASE i < first
    BY <1>1, <1>2, <1>4, <2>1, <2>2
  <2>3. CASE ~(i < first)
    <3>1. i >= first /\ i + 1 \in DOMAIN s /\ Old(i) = i + 1
      BY <1>1, <1>2, <1>4, <2>1, <2>3
    <3>2. r[i] = s[i + 1]
      BY <1>4, <2>1, <3>1
    <3>3. QED
      BY <3>1, <3>2
  <2>4. QED
    BY <2>2, <2>3
<1>9. \A i \in DOMAIN s : i # first => New(i) \in DOMAIN r /\ Old(New(i)) = i
  BY <1>1, <1>2, <1>4, <1>5
<1>10. \A i, j \in DOMAIN r : Old(i) = Old(j) => i = j
  BY <1>2, <1>4, <1>5
<1> HIDE DEF Old, New
<1>11. \A i, j \in DOMAIN r : r[i].key = r[j].key => i = j
  BY <1>1, <1>8, <1>10 DEF SpecOK, s
<1>12. after \in Specs(F)
  BY <1>4, <1>7, <1>11, SpecIs
<1>13. ASSUME NEW other, other # k
       PROVE  Alike(spec, after, other)
  <2>1. \A i \in DOMAIN s : s[i].key = other => i # first
    BY <1>2, <1>13
  <2>2. \A i \in DOMAIN s : s[i].key = other => \E j \in DOMAIN r : r[j] = s[i]
    BY <1>8, <1>9, <2>1
  <2>3. \A j \in DOMAIN r : \E i \in DOMAIN s : s[i] = r[j]
    BY <1>8
  <2>4. QED
    BY <1>12, <2>2, <2>3, AlikeIf DEF s, r
<1>14. QED
  BY <1>12, <1>13

(***************************************************************************)
(* What the calls do to the data of a layer.                               *)
(***************************************************************************)
Datas(F) == [mData : [Paths -> Specs(F)], mLocalDeltas : [Paths -> Specs(F)]]

\* Nothing but the field of that name at the path is another afterwards, among what is
\* there and among what is to be sent.
OnlyFieldChanges(d, e, p, k) ==
    \A q \in Paths : \A other : <<q, other>> # <<p, k>> =>
        /\ Alike(d.mData[q], e.mData[q], other)
        /\ Alike(d.mLocalDeltas[q], e.mLocalDeltas[q], other)

LEMMA AlikeSelf == \A spec, k : Alike(spec, spec, k)
BY DEF Alike

LEMMA SetGood ==
    ASSUME NEW F, NEW d \in Datas(F), NEW p \in Paths, NEW k, NEW v,
           [key |-> k, value |-> v] \in F
    PROVE  /\ Set(d, p, k, v) \in Datas(F)
           /\ Shown(Set(d, p, k, v).mData[p], k, v)
           /\ Shown(Set(d, p, k, v).mLocalDeltas[p], k, v)
           /\ OnlyFieldChanges(d, Set(d, p, k, v), p, k)
<1> DEFINE e == Set(d, p, k, v)
           spec == WithField(d.mData[p], k, v)
           local == WithField(d.mLocalDeltas[p], k, v)
<1>1. d.mData \in [Paths -> Specs(F)] /\ d.mLocalDeltas \in [Paths -> Specs(F)]
  BY DEF Datas
<1>2. /\ spec \in Specs(F) /\ Shown(spec, k, v)
      /\ \A other : other # k => Alike(d.mData[p], spec, other)
  BY <1>1, WithFieldGood
<1>3. /\ local \in Specs(F) /\ Shown(local, k, v)
      /\ \A other : other # k => Alike(d.mLocalDeltas[p], local, other)
  BY <1>1, WithFieldGood
<1>4. e = [d EXCEPT !.mData[p] = spec, !.mLocalDeltas[p] = local]
  BY DEF Set
<1> HIDE DEF spec, local, e
<1>5. e \in Datas(F)
  BY <1>2, <1>3, <1>4 DEF Datas
<1>6. /\ e.mData[p] = spec /\ e.mLocalDeltas[p] = local
      /\ \A q \in Paths : q # p => /\ e.mData[q] = d.mData[q]
                                   /\ e.mLocalDeltas[q] = d.mLocalDeltas[q]
  BY <1>1, <1>4 DEF Datas
<1>7. OnlyFieldChanges(d, e, p, k)
  <2> SUFFICES ASSUME NEW q \in Paths, NEW other, <<q, other>> # <<p, k>>
               PROVE  /\ Alike(d.mData[q], e.mData[q], other)
                      /\ Alike(d.mLocalDeltas[q], e.mLocalDeltas[q], other)
    BY DEF OnlyFieldChanges
  <2>1. CASE q = p
    BY <1>2, <1>3, <1>6, <2>1
  <2>2. CASE q # p
    BY <1>6, <2>2, AlikeSelf
  <2>3. QED
    BY <2>1, <2>2
<1>8. QED
  BY <1>2, <1>3, <1>5, <1>6, <1>7 DEF e

LEMMA SetRemoteGood ==
    ASSUME NEW F, NEW d \in Datas(F), NEW p \in Paths, NEW k, NEW v,
           [key |-> k, value |-> v] \in F
    PROVE  /\ SetRemote(d, p, k, v) \in Datas(F)
           /\ OnlyFieldChanges(d, SetRemote(d, p, k, v), p, k)
<1> DEFINE e == SetRemote(d, p, k, v)
           spec == WithField(d.mData[p], k, v)
<1>1. d.mData \in [Paths -> Specs(F)] /\ d.mLocalDeltas \in [Paths -> Specs(F)]
  BY DEF Datas
<1>2. spec \in Specs(F) /\ \A other : other # k => Alike(d.mData[p], spec, other)
  BY <1>1, WithFieldGood
<1>3. e = [d EXCEPT !.mData[p] = spec]
  BY DEF SetRemote
<1> HIDE DEF spec, e
<1>4. e \in Datas(F)
  BY <1>2, <1>3 DEF Datas
<1>5. /\ e.mData[p] = spec /\ e.mLocalDeltas = d.mLocalDeltas
      /\ \A q \in Paths : q # p => e.mData[q] = d.mData[q]
  BY <1>1, <1>3 DEF Datas
<1>6. OnlyFieldChanges(d, e, p, k)
  <2> SUFFICES ASSUME NEW q \in Paths, NEW other, <<q, other>> # <<p, k>>
               PROVE  /\ Alike(d.mData[q], e.mData[q], other)
                      /\ Alike(d.mLocalDeltas[q], e.mLocalDeltas[q], other)
    BY DEF OnlyFieldChanges
  <2>1. CASE q = p
    BY <1>2, <1>5, <2>1, AlikeSelf
  <2>2. CASE q # p
    BY <1>5, <2>2, AlikeSelf
  <2>3. QED
    BY <2>1, <2>2
<1>7. QED
  BY <1>4, <1>6 DEF e

LEMMA EraseGood ==
    ASSUME NEW F, NEW d \in Datas(F), NEW p \in Paths, NEW k
    PROVE  Erase(d, p, k) \in Datas(F) /\ OnlyFieldChanges(d, Erase(d, p, k), p, k)
<1>1. d.mData \in [Paths -> Specs(F)] /\ d.mLocalDeltas \in [Paths -> Specs(F)]
  BY DEF Datas
<1>2. CASE ~HasField(d.mData[p], k)
  BY <1>2, AlikeSelf DEF Erase, OnlyFieldChanges
<1>3. CASE HasField(d.mData[p], k)
  <2> DEFINE positions == Positions(d.mData[p], k)
             first == CHOOSE i \in positions : \A j \in positions : i <= j
             e == Erase(d, p, k)
  <2>1. first \in positions
    <3>1. PICK only : positions = {only} /\ only \in Nat
      <4>1. PICK i \in DOMAIN d.mData[p].fields : d.mData[p].fields[i].key = k
        BY <1>3 DEF HasField, Positions
      <4>2. /\ SpecOK(d.mData[p]) /\ Len(d.mData[p].fields) \in Nat
            /\ DOMAIN d.mData[p].fields = 1..Len(d.mData[p].fields)
        BY <1>1, SpecsType
      <4>3. positions = {i} /\ i \in Nat
        BY <4>1, <4>2 DEF Positions, SpecOK
      <4>4. QED
        BY <4>3
    <3> HIDE DEF positions
    <3>2. \E i \in positions : \A j \in positions : i <= j
      BY <3>1
    <3>3. QED
      BY <3>2
  <2>2. PICK spec : spec = Erased(d.mData[p], first)
    OBVIOUS
  <2>3. e = [d EXCEPT !.mData[p] = spec]
    BY <1>1, <1>3, <2>2 DEF Erase, Erased, Datas
  <2>4. first \in Positions(d.mData[p], k) /\ d.mData[p] \in Specs(F)
    BY <1>1, <2>1
  <2> HIDE DEF first, positions
  <2>5. spec \in Specs(F) /\ \A other : other # k => Alike(d.mData[p], spec, other)
    BY ONLY <2>2, <2>4, ErasedGood
  <2> HIDE DEF e
  <2>6. e \in Datas(F)
    BY <2>3, <2>5 DEF Datas
  <2>7. /\ e.mData[p] = spec /\ e.mLocalDeltas = d.mLocalDeltas
        /\ \A q \in Paths : q # p => e.mData[q] = d.mData[q]
    BY <1>1, <2>3 DEF Datas
  <2>8. OnlyFieldChanges(d, e, p, k)
    <3> SUFFICES ASSUME NEW q \in Paths, NEW other, <<q, other>> # <<p, k>>
                 PROVE  /\ Alike(d.mData[q], e.mData[q], other)
                        /\ Alike(d.mLocalDeltas[q], e.mLocalDeltas[q], other)
      BY DEF OnlyFieldChanges
    <3>1. CASE q = p
      BY <2>5, <2>7, <3>1, AlikeSelf
    <3>2. CASE q # p
      BY <2>7, <3>2, AlikeSelf
    <3>3. QED
      BY <3>1, <3>2
  <2>9. QED
    BY <2>6, <2>8 DEF e
<1>4. QED
  BY <1>2, <1>3

(***************************************************************************)
(* The author's fields, what an event says of them, and the reader's.      *)
(***************************************************************************)
SampleMaps == {SampleMap(samples) : samples \in [Times -> {0, 1}]}
AuthorField == [key : {Key}, value : Values] \cup [key : {TimeSamples}, value : SampleMaps]
WrittenField == [key : {Key}, value : {ToJson(v) : v \in Values}]
ReadField == [key : {Key}, value : {FromJson(ToJson(v)) : v \in Values}]

LEMMA KeyOfField ==
    ASSUME NEW spec \in Specs(AuthorField), HasField(spec, Key)
    PROVE  FieldValue(spec, Key) \in Values
<1>1. PICK i \in DOMAIN spec.fields :
          /\ spec.fields[i].key = Key /\ FieldValue(spec, Key) = spec.fields[i].value
          /\ spec.fields[i] \in AuthorField
  BY FieldIn
<1>2. QED
  BY <1>1, LayerValuesAssumption DEF AuthorField

LEMMA SamplesType ==
    ASSUME NEW d \in Datas(AuthorField), NEW p \in Paths
    PROVE  Samples(d, p) \in [Times -> {0, 1}]
<1>1. d.mData[p] \in Specs(AuthorField)
  BY DEF Datas
<1>2. CASE HasField(d.mData[p], TimeSamples)
  <2>1. PICK i \in DOMAIN d.mData[p].fields :
            /\ d.mData[p].fields[i].key = TimeSamples
            /\ FieldValue(d.mData[p], TimeSamples) = d.mData[p].fields[i].value
            /\ d.mData[p].fields[i] \in AuthorField
    BY <1>1, <1>2, FieldIn
  <2>2. FieldValue(d.mData[p], TimeSamples) \in SampleMaps
    BY <2>1, LayerValuesAssumption DEF AuthorField
  <2>3. \A m \in SampleMaps : m.data \in [Times -> {0, 1}]
    BY DEF SampleMaps, SampleMap
  <2>4. QED
    BY <1>2, <2>2, <2>3 DEF Samples
<1>3. CASE ~HasField(d.mData[p], TimeSamples)
  BY <1>3 DEF Samples, NoSamples
<1>4. QED
  BY <1>2, <1>3

LEMMA SampleGood ==
    ASSUME NEW d \in Datas(AuthorField), NEW p \in Paths, NEW time \in Times, NEW e,
           e = SetTimeSample(d, p, time, 1) \/ e = EraseTimeSample(d, p, time)
    PROVE  e \in Datas(AuthorField) /\ OnlyFieldChanges(d, e, p, TimeSamples)
<1>1. \A samples \in [Times -> {0, 1}] :
          [key |-> TimeSamples, value |-> SampleMap(samples)] \in AuthorField
  BY DEF AuthorField, SampleMaps
<1>2. /\ [Samples(d, p) EXCEPT ![time] = 1] \in [Times -> {0, 1}]
      /\ [Samples(d, p) EXCEPT ![time] = 0] \in [Times -> {0, 1}]
  BY SamplesType
<1>3. CASE e = SetTimeSample(d, p, time, 1)
  <2> DEFINE m == SampleMap([Samples(d, p) EXCEPT ![time] = 1])
  <2>1. [key |-> TimeSamples, value |-> m] \in AuthorField
    BY <1>1, <1>2
  <2>2. e = SetRemote(d, p, TimeSamples, m) \/ e = Set(d, p, TimeSamples, m)
    BY <1>3 DEF SetTimeSample
  <2> HIDE DEF m
  <2>3. QED
    BY <2>1, <2>2, SetGood, SetRemoteGood
<1>4. CASE e = EraseTimeSample(d, p, time)
  <2> DEFINE m == SampleMap([Samples(d, p) EXCEPT ![time] = 0])
  <2>1. [key |-> TimeSamples, value |-> m] \in AuthorField
    BY <1>1, <1>2
  <2>2. \/ e = d \/ e = Erase(d, p, TimeSamples)
        \/ e = SetRemote(d, p, TimeSamples, m)
    BY <1>4 DEF EraseTimeSample
  <2> HIDE DEF m
  <2>3. CASE e = d
    BY <2>3, AlikeSelf DEF OnlyFieldChanges
  <2>4. CASE e = Erase(d, p, TimeSamples)
    BY <2>4, EraseGood
  <2>5. CASE e = SetRemote(d, p, TimeSamples, m)
    BY <2>1, <2>5, SetRemoteGood
  <2>6. QED
    BY <2>2, <2>3, <2>4, <2>5
<1>5. QED
  BY <1>3, <1>4

\* Specs that come and go.
LEMMA CreateSpecGood ==
    ASSUME NEW F, NEW d \in Datas(F), NEW p \in Paths
    PROVE  /\ CreateSpec(d, p) \in Datas(F)
           /\ CreateSpec(d, p).mLocalDeltas = d.mLocalDeltas
           /\ \A q \in Paths : \A k : Alike(d.mData[q], CreateSpec(d, p).mData[q], k)
<1> DEFINE spec == [d.mData[p] EXCEPT !.exists = TRUE]
           e == CreateSpec(d, p)
<1>1. d.mData \in [Paths -> Specs(F)] /\ d.mLocalDeltas \in [Paths -> Specs(F)]
  BY DEF Datas
<1>2. /\ d.mData[p] \in [exists : BOOLEAN, fields : Seq(F)] /\ SpecOK(d.mData[p])
      /\ d.mData[p].fields \in Seq(F)
  BY <1>1, SpecsType
<1>3. spec = [exists |-> TRUE, fields |-> d.mData[p].fields]
  <2>1. ASSUME NEW s \in [exists : BOOLEAN, fields : Seq(F)], NEW c
        PROVE  [s EXCEPT !.exists = c] = [exists |-> c, fields |-> s.fields]
    OBVIOUS
  <2>2. QED
    BY <1>2, <2>1, Zenon
<1>4. spec \in Specs(F)
  <2>1. \A i, j \in DOMAIN d.mData[p].fields :
            d.mData[p].fields[i].key = d.mData[p].fields[j].key => i = j
    BY <1>2 DEF SpecOK
  <2>2. QED
    BY ONLY <1>2, <1>3, <2>1, SpecIs
<1>5. spec.fields = d.mData[p].fields
  BY <1>3
<1>6. \A k : Alike(d.mData[p], spec, k)
  BY <1>5 DEF Alike, HasField, FieldValue, Positions
<1>7. e = [d EXCEPT !.mData[p] = spec]
  BY DEF CreateSpec
<1> HIDE DEF spec, e
<1>8. e \in Datas(F)
  BY <1>4, <1>7 DEF Datas
<1>9. /\ e.mData[p] = spec /\ e.mLocalDeltas = d.mLocalDeltas
      /\ \A q \in Paths : q # p => e.mData[q] = d.mData[q]
  BY <1>1, <1>7 DEF Datas
<1>10. QED
  BY <1>6, <1>8, <1>9, AlikeSelf DEF e

LEMMA EraseSpecGood ==
    ASSUME NEW F, NEW d \in Datas(F), NEW p \in Paths
    PROVE  /\ EraseSpec(d, p) \in Datas(F)
           /\ EraseSpec(d, p).mLocalDeltas = d.mLocalDeltas
           /\ \A q \in Paths \ {p} : EraseSpec(d, p).mData[q] = d.mData[q]
BY EmptyIsGood DEF EraseSpec, Datas

LEMMA MoveSpecGood ==
    ASSUME NEW F, NEW d \in Datas(F), NEW p \in Paths, NEW newPath \in Paths \ {p}
    PROVE  /\ MoveSpec(d, p, newPath) \in Datas(F)
           /\ MoveSpec(d, p, newPath).mLocalDeltas = d.mLocalDeltas
           /\ \A q \in Paths \ {p, newPath} : MoveSpec(d, p, newPath).mData[q] = d.mData[q]
<1> DEFINE e == MoveSpec(d, p, newPath)
<1>1. d.mData \in [Paths -> Specs(F)] /\ d.mLocalDeltas \in [Paths -> Specs(F)]
  BY DEF Datas
<1>2. \/ e = d
      \/ e = [d EXCEPT !.mData = [d.mData EXCEPT ![newPath] = d.mData[p], ![p] = NoSpec]]
  BY <1>1 DEF MoveSpec, Datas
<1>3. [d.mData EXCEPT ![newPath] = d.mData[p], ![p] = NoSpec] \in [Paths -> Specs(F)]
  BY <1>1, EmptyIsGood
<1> HIDE DEF e
<1>4. QED
  BY <1>1, <1>2, <1>3 DEF Datas, e

(***************************************************************************)
(* A value that has JSON and can arrive is the same when it has.           *)
(***************************************************************************)
LEMMA RoundTrip ==
    ASSUME NEW v \in Values, v.type \in Serializable, Arrives(v)
    PROVE  FromJson(ToJson(v)) = v
<1> USE DEF Scalars, ListOps
<1>1. CASE v = [type |-> "TfToken", data |-> <<1>>]
  <2>1. ToJson(v) = [type |-> "TfToken", data |-> <<1>>]
    BY <1>1 DEF ToJson, FromScalar
  <2>2. QED
    BY <1>1, <2>1 DEF FromJson, ToScalar
<1>2. CASE v = [type |-> "SdfValueBlock", data |-> <<0>>]
  <2>1. ToJson(v) = [type |-> "SdfValueBlock", data |-> <<>>]
    BY <1>2 DEF ToJson, FromScalar
  <2>2. QED
    BY <1>2, <2>1 DEF FromJson, ToScalar
<1>3. CASE v = [type |-> "GfVec3f", data |-> <<1, 2, 3>>]
  <2>1. Dimension["GfVec3f"] = 3 /\ "GfVec3f" \in Tuples
    BY DEF Dimension, Tuples
  <2>2. ToJson(v).type = "GfVec3f" /\ ToJson(v).data = [i \in 1..3 |-> <<1, 2, 3>>[i]]
    BY <1>3 DEF ToJson
  <2>3. [i \in 1..3 |-> <<1, 2, 3>>[i]] = <<1, 2, 3>>
    OBVIOUS
  <2>4. QED
    BY <1>3, <2>1, <2>2, <2>3 DEF FromJson
<1>4. CASE \/ v = [type |-> "SdfListOp<TfToken>", data |-> <<1, 0, 0, 0, 0, 0, 0>>]
           \/ v = [type |-> "SdfListOp<TfToken>", data |-> <<0, 0, 1, 0, 0, 0, 0>>]
           \/ v = [type |-> "SdfListOp<TfToken>", data |-> <<0, 0, 0, 1, 0, 0, 2>>]
  BY <1>4 DEF Arrives
<1>5. CASE v = [type |-> "SdfListOp<TfToken>", data |-> <<1, 1, 0, 0, 0, 0, 0>>]
  <2>1. Tail(<<1, 1, 0, 0, 0, 0, 0>>) = <<1, 0, 0, 0, 0, 0>>
    OBVIOUS
  <2>2. ToJson(v) = [type |-> "SdfListOp<TfToken>", data |-> <<1, 0, 0, 0, 0, 0>>]
    BY <1>5, <2>1 DEF ToJson, FromListOp
  <2>3. QED
    BY <1>5, <2>2 DEF FromJson, ToListOp
<1>6. CASE v = [type |-> "SdfListOp<TfToken>", data |-> <<0, 0, 0, 1, 2, 3, 0>>]
  <2>1. Tail(<<0, 0, 0, 1, 2, 3, 0>>) = <<0, 0, 1, 2, 3, 0>>
    OBVIOUS
  <2>2. ToJson(v) = [type |-> "SdfListOp<TfToken>", data |-> <<0, 0, 1, 2, 3, 0>>]
    BY <1>6, <2>1 DEF ToJson, FromListOp
  <2>3. QED
    BY <1>6, <2>2 DEF FromJson, ToListOp, CreateListOp
<1>7. CASE v = [type |-> "GfVec4f", data |-> <<1, 2, 3, 4>>]
  BY <1>7 DEF Serializable, Tuples, Dimension, Arrays
<1>8. QED
  BY <1>1, <1>2, <1>3, <1>4, <1>5, <1>6, <1>7 DEF Values

\* Fields with the same names and other values, in the same order.
WithValues(spec, w) ==
    [exists |-> spec.exists,
     fields |-> [i \in DOMAIN spec.fields |-> [key |-> spec.fields[i].key, value |-> w[i]]]]

ValuesFit(spec, w, G) ==
    \A i \in DOMAIN spec.fields : [key |-> spec.fields[i].key, value |-> w[i]] \in G

ValuesShown(other, spec, w) ==
    /\ \A k : HasField(other, k) <=> HasField(spec, k)
    /\ \A i \in DOMAIN spec.fields : Shown(other, spec.fields[i].key, w[i])

LEMMA MappedGood ==
    ASSUME NEW F, NEW G, NEW spec \in Specs(F), NEW w, ValuesFit(spec, w, G)
    PROVE  /\ WithValues(spec, w) \in Specs(G)
           /\ ValuesShown(WithValues(spec, w), spec, w)
<1> DEFINE other == WithValues(spec, w)
<1> USE DEF WithValues, ValuesFit
<1>1. /\ spec.fields \in Seq(F) /\ SpecOK(spec) /\ spec.exists \in BOOLEAN
      /\ DOMAIN spec.fields = 1..Len(spec.fields) /\ Len(spec.fields) \in Nat
  BY SpecsType
<1>2. /\ DOMAIN other.fields = DOMAIN spec.fields
      /\ \A i \in DOMAIN spec.fields :
            /\ other.fields[i].key = spec.fields[i].key /\ other.fields[i].value = w[i]
            /\ other.fields[i] \in G
  OBVIOUS
<1>3. other.fields \in Seq(G)
  BY <1>1
<1>4. other.exists = spec.exists
  OBVIOUS
<1>5. other \in [exists : BOOLEAN, fields : Seq(G)]
  BY <1>1, <1>3
<1>6. SpecOK(other)
  <2>1. \A i, j \in DOMAIN other.fields : other.fields[i].key = other.fields[j].key => i = j
    BY <1>1, <1>2 DEF SpecOK
  <2>2. spec.fields = <<>> => other.fields = <<>>
    OBVIOUS
  <2>3. other.exists \in BOOLEAN
    BY <1>5
  <2>4. ~other.exists => spec.fields = <<>>
    BY ONLY <1>1, <1>4, Zenon DEF SpecOK
  <2>5. QED
    BY <2>1, <2>2, <2>3, <2>4 DEF SpecOK
<1>7. other \in Specs(G)
  <2> HIDE DEF other
  <2> QED BY <1>5, <1>6 DEF Specs
<1>8. \A k : HasField(other, k) <=> HasField(spec, k)
  BY <1>2 DEF HasField, Positions
<1>9. \A i \in DOMAIN spec.fields : Shown(other, spec.fields[i].key, w[i])
  BY <1>2, <1>7, FieldAt
<1>10. QED
  BY <1>7, <1>8, <1>9 DEF ValuesShown

(***************************************************************************)
(* An event, written and read, and its application.                        *)
(***************************************************************************)
LEMMA ToEventGood ==
    ASSUME NEW deltas \in [Paths -> Specs(AuthorField)], CanBeWritten(deltas),
           NEW p \in Paths
    PROVE  /\ ToEvent(deltas)[p] \in Specs(WrittenField)
           /\ HasField(ToEvent(deltas)[p], Key) <=> HasField(deltas[p], Key)
           /\ HasField(deltas[p], Key) =>
                 /\ FieldValue(deltas[p], Key).type \in Serializable
                 /\ Shown(ToEvent(deltas)[p], Key, ToJson(FieldValue(deltas[p], Key)))
<1> DEFINE spec == deltas[p]
           w == [i \in DOMAIN spec.fields |-> ToJson(spec.fields[i].value)]
           other == ToEvent(deltas)[p]
<1>1. spec \in Specs(AuthorField) /\ \A i \in DOMAIN spec.fields : spec.fields[i] \in AuthorField
  BY SpecsType
<1>2. "SdfTimeSampleMap" \notin Serializable
  BY DEF Serializable, Scalars, Tuples, Dimension, Arrays, ListOps
<1>3. ASSUME NEW i \in DOMAIN spec.fields
      PROVE  /\ spec.fields[i].key = Key /\ spec.fields[i].value \in Values
             /\ spec.fields[i].value.type \in Serializable
  <2>1. spec.fields[i].value.type \in Serializable
    BY DEF CanBeWritten
  <2>2. \A m \in SampleMaps : m.type = "SdfTimeSampleMap"
    BY DEF SampleMaps, SampleMap
  <2>3. QED
    BY <1>1, <1>2, <2>1, <2>2 DEF AuthorField
<1>4. other = WithValues(spec, w)
  BY DEF ToEvent, WithValues
<1>5. ValuesFit(spec, w, WrittenField)
  BY <1>3 DEF WrittenField, ValuesFit
<1> HIDE DEF other, spec
<1>6. other \in Specs(WrittenField) /\ ValuesShown(other, spec, w)
  <2> HIDE DEF w
  <2> QED BY ONLY <1>1, <1>4, <1>5, MappedGood
<1>7. ASSUME HasField(spec, Key)
      PROVE  /\ FieldValue(spec, Key).type \in Serializable
             /\ Shown(other, Key, ToJson(FieldValue(spec, Key)))
  <2>1. PICK i \in DOMAIN spec.fields :
            spec.fields[i].key = Key /\ FieldValue(spec, Key) = spec.fields[i].value
    BY <1>1, <1>7, FieldIn
  <2>2. QED
    BY <1>3, <1>6, <2>1 DEF ValuesShown
<1>8. QED
  BY <1>6, <1>7 DEF other, spec, ValuesShown

LEMMA FromEventGood ==
    ASSUME NEW event \in [Paths -> Specs(WrittenField)], NEW p \in Paths
    PROVE  /\ FromEvent(event)[p] \in Specs(ReadField)
           /\ HasField(FromEvent(event)[p], Key) <=> HasField(event[p], Key)
           /\ HasField(event[p], Key) =>
                 Shown(FromEvent(event)[p], Key, FromJson(FieldValue(event[p], Key)))
<1> DEFINE spec == event[p]
           w == [i \in DOMAIN spec.fields |-> FromJson(spec.fields[i].value)]
           other == FromEvent(event)[p]
<1>1. spec \in Specs(WrittenField) /\ \A i \in DOMAIN spec.fields : spec.fields[i] \in WrittenField
  BY SpecsType
<1>2. other = WithValues(spec, w)
  BY DEF FromEvent, WithValues
<1>3. ValuesFit(spec, w, ReadField)
  BY <1>1 DEF WrittenField, ReadField, ValuesFit
<1> HIDE DEF other, spec
<1>4. other \in Specs(ReadField) /\ ValuesShown(other, spec, w)
  <2> HIDE DEF w
  <2> QED BY ONLY <1>1, <1>2, <1>3, MappedGood
<1>5. ASSUME HasField(spec, Key)
      PROVE  Shown(other, Key, FromJson(FieldValue(spec, Key)))
  <2>1. PICK i \in DOMAIN spec.fields :
            spec.fields[i].key = Key /\ FieldValue(spec, Key) = spec.fields[i].value
    BY <1>1, <1>5, FieldIn
  <2>2. QED
    BY <1>4, <2>1 DEF ValuesShown
<1>6. QED
  BY <1>4, <1>5 DEF other, spec, ValuesShown

\* The loop over an update, when it has no field or one.
LEMMA UpdateOfNone ==
    ASSUME NEW spec, NEW update, update.fields = <<>>
    PROVE  WithUpdate(spec, update) = spec
<1> DEFINE Loop(f) == [n \in 0..0 |->
                IF n = 0 THEN spec
                ELSE WithField(f[n - 1], update.fields[n].key, update.fields[n].value)]
           applied == CHOOSE f : f = Loop(f)
<1>1. Len(update.fields) = 0
  OBVIOUS
<1>2. WithUpdate(spec, update) = applied[0]
  BY <1>1 DEF WithUpdate
<1>3. [n \in 0..0 |-> spec] = Loop([n \in 0..0 |-> spec])
  OBVIOUS
<1>4. applied = Loop(applied)
  <2> HIDE DEF Loop
  <2> QED BY <1>3
<1> HIDE DEF applied
<1>5. QED
  BY <1>2, <1>4

LEMMA UpdateOfOne ==
    ASSUME NEW spec, NEW update, Len(update.fields) = 1
    PROVE  WithUpdate(spec, update)
               = WithField(spec, update.fields[1].key, update.fields[1].value)
<1> DEFINE Loop(f) == [n \in 0..1 |->
                IF n = 0 THEN spec
                ELSE WithField(f[n - 1], update.fields[n].key, update.fields[n].value)]
           applied == CHOOSE f : f = Loop(f)
           end == WithField(spec, update.fields[1].key, update.fields[1].value)
           Two == [n \in 0..1 |-> IF n = 0 THEN spec ELSE end]
<1>1. WithUpdate(spec, update) = applied[1]
  BY DEF WithUpdate
<1>2. Two = Loop(Two)
  OBVIOUS
<1>3. applied = Loop(applied)
  <2> HIDE DEF Loop, Two
  <2> QED BY <1>2
<1> HIDE DEF applied
<1>4. applied[0] = spec
  BY <1>3
<1>5. applied[1] = end
  BY <1>3, <1>4
<1>6. QED
  BY <1>1, <1>5

LEMMA WithUpdateGood ==
    ASSUME NEW spec \in Specs(ReadField), NEW update \in Specs(ReadField)
    PROVE  /\ WithUpdate(spec, update) \in Specs(ReadField)
           /\ HasField(update, Key) =>
                 Shown(WithUpdate(spec, update), Key, FieldValue(update, Key))
           /\ ~HasField(update, Key) => WithUpdate(spec, update) = spec
<1>1. /\ update.fields \in Seq(ReadField) /\ SpecOK(update)
      /\ DOMAIN update.fields = 1..Len(update.fields) /\ Len(update.fields) \in Nat
      /\ \A i \in DOMAIN update.fields : update.fields[i] \in ReadField
  BY SpecsType
<1>2. \A i \in DOMAIN update.fields : update.fields[i].key = Key
  BY <1>1 DEF ReadField
<1>3. Len(update.fields) <= 1
  <2>1. SUFFICES ASSUME Len(update.fields) >= 2
                 PROVE  FALSE
    BY <1>1
  <2>2. 1 \in DOMAIN update.fields /\ 2 \in DOMAIN update.fields
    BY <1>1, <2>1
  <2>3. 1 = 2
    BY <1>1, <1>2, <2>2 DEF SpecOK
  <2>4. QED
    BY <2>3
<1>4. CASE Len(update.fields) = 0
  <2>1. update.fields = <<>>
    BY <1>1, <1>4
  <2>2. QED
    BY <2>1, UpdateOfNone, NoField
<1>5. CASE Len(update.fields) = 1
  <2>1. 1 \in DOMAIN update.fields /\ update.fields[1].key = Key
    BY <1>1, <1>2, <1>5
  <2>2. Shown(update, Key, update.fields[1].value)
    BY <2>1, FieldAt
  <2>3. WithUpdate(spec, update) = WithField(spec, Key, update.fields[1].value)
    BY <1>5, <2>1, UpdateOfOne
  <2>4. [key |-> Key, value |-> update.fields[1].value] \in ReadField
    BY <1>1, <2>1 DEF ReadField
  <2>5. QED
    BY <2>2, <2>3, <2>4, WithFieldGood DEF Shown
<1>6. Len(update.fields) = 0 \/ Len(update.fields) = 1
  <2>1. PICK len \in Nat : len = Len(update.fields)
    BY <1>1
  <2>2. len <= 1
    BY <1>3, <2>1
  <2>3. len = 0 \/ len = 1
    BY ONLY len \in Nat, <2>2
  <2>4. QED
    BY <2>1, <2>3
<1>7. QED
  BY ONLY <1>4, <1>5, <1>6

(***************************************************************************)
(* The invariant: what is in the data, and what is still under way.        *)
(***************************************************************************)
DataType ==
    /\ author \in Datas(AuthorField)
    /\ reader \in Datas(ReadField) /\ reader.mLocalDeltas = [p \in Paths |-> NoSpec]
    /\ wire \in Seq([Paths -> Specs(WrittenField)])
    /\ edits \in 0..MaxEdits
    /\ untold \subseteq Fields

\* The last event on its way that has the field.
LastWith(events, i, p) ==
    HasField(events[i][p], Key) /\ \A j \in DOMAIN events : j > i => ~HasField(events[j][p], Key)

\* What the reader will have is what the author has: from the edit that is not sent yet, or
\* else from the last event that has the field, or else it has it already.
WillFollow(spec, local, events, read, p) ==
    /\ HasField(local, Key) =>
          Shown(spec, Key, FieldValue(local, Key)) /\ Arrives(FieldValue(local, Key))
    /\ ~HasField(local, Key) =>
          /\ \A i \in DOMAIN events : LastWith(events, i, p) =>
                Shown(spec, Key, FromJson(FieldValue(events[i][p], Key)))
          /\ (\A i \in DOMAIN events : ~HasField(events[i][p], Key)) => Alike(spec, read, Key)

WillFollowAt(p) ==
    WillFollow(author.mData[p], author.mLocalDeltas[p], wire, reader.mData[p], p)

\* Time samples are never sent.
FollowInv ==
    /\ \A p \in Paths : <<p, Key>> \notin untold => WillFollowAt(p)
    /\ \A p \in Paths : <<p, TimeSamples>> \notin untold =>
                            ~HasField(author.mData[p], TimeSamples)

Inv == DataType /\ FollowInv

LEMMA TypeOfData ==
    ASSUME DataType
    PROVE  TypeOK
<1>1. /\ author.mData \in [Paths -> Specs(AuthorField)]
      /\ author.mLocalDeltas \in [Paths -> Specs(AuthorField)]
      /\ reader.mData \in [Paths -> Specs(ReadField)]
  BY DEF DataType, Datas
<1>2. \A p \in Paths :
          SpecOK(author.mData[p]) /\ SpecOK(author.mLocalDeltas[p]) /\ SpecOK(reader.mData[p])
  BY <1>1, SpecsType
<1>3. QED
  BY <1>2 DEF DataType, TypeOK

LEMMA ReadHasNoSamples ==
    ASSUME NEW spec \in Specs(ReadField)
    PROVE  ~HasField(spec, TimeSamples)
<1>1. ASSUME HasField(spec, TimeSamples)
      PROVE  FALSE
  <2>1. PICK i \in DOMAIN spec.fields :
            spec.fields[i].key = TimeSamples /\ spec.fields[i] \in ReadField
    BY <1>1, FieldIn
  <2>2. QED
    BY <2>1, LayerValuesAssumption DEF ReadField
<1>2. QED
  BY <1>1

LEMMA FollowedByInv ==
    ASSUME Inv
    PROVE  Followed
<1> SUFFICES ASSUME wire = <<>>, \A p \in Paths : ~author.mLocalDeltas[p].exists,
                    NEW pk \in Fields, pk \notin untold
             PROVE  Same(pk[1], pk[2])
  BY Zenon DEF Followed
<1> DEFINE p == pk[1]
           k == pk[2]
<1>1. p \in Paths /\ k \in {Key, TimeSamples} /\ pk = <<p, k>>
  BY DEF Fields
<1> SUFFICES Same(p, k)
  OBVIOUS
<1> HIDE DEF p, k
<1>2. /\ author.mLocalDeltas[p] \in Specs(AuthorField)
      /\ reader.mData[p] \in Specs(ReadField)
  BY <1>1 DEF Inv, DataType, Datas
<1>3. CASE k = Key
  <2>1. SpecOK(author.mLocalDeltas[p])
    BY <1>2, SpecsType
  <2>2. author.mLocalDeltas[p].fields = <<>>
    BY <1>1, <2>1, Zenon DEF SpecOK
  <2>3. ~HasField(author.mLocalDeltas[p], Key)
    BY <2>2, NoField
  <2>4. WillFollowAt(p)
    <3>1. <<p, Key>> \notin untold
      BY ONLY <1>1, <1>3, pk \notin untold
    <3>2. QED
      BY <1>1, <3>1 DEF Inv, FollowInv
  <2>5. DOMAIN wire = {}
    OBVIOUS
  <2>6. Alike(author.mData[p], reader.mData[p], Key)
    BY <2>3, <2>4, <2>5 DEF WillFollowAt, WillFollow
  <2>7. QED
    BY <1>3, <2>6 DEF Alike, Same
<1>4. CASE k = TimeSamples
  <2>1. ~HasField(author.mData[p], TimeSamples)
    <3>1. <<p, TimeSamples>> \notin untold
      BY ONLY <1>1, <1>4, pk \notin untold
    <3>2. QED
      BY <1>1, <3>1 DEF Inv, FollowInv
  <2>2. ~HasField(reader.mData[p], TimeSamples)
    BY <1>2, ReadHasNoSamples
  <2>3. QED
    BY <1>4, <2>1, <2>2 DEF Same
<1>5. QED
  BY <1>1, <1>3, <1>4

LEMMA InvInit == Init => Inv
<1> SUFFICES ASSUME Init
             PROVE  Inv
  OBVIOUS
<1>1. PICK present \in SUBSET Paths :
          author = Loaded([p \in Paths |-> IF p \in present THEN EmptySpec ELSE NoSpec])
  BY DEF Init
<1>2. /\ author \in Datas(AuthorField) /\ author \in Datas(ReadField)
      /\ author.mLocalDeltas = [p \in Paths |-> NoSpec]
      /\ \A p \in Paths : author.mData[p] \in {EmptySpec, NoSpec}
  BY <1>1, EmptyIsGood DEF Loaded, Datas
<1>3. DataType
  BY <1>2, LayerValuesAssumption DEF Init, DataType
<1>4. ASSUME NEW p \in Paths, NEW k
      PROVE  ~HasField(author.mData[p], k) /\ ~HasField(author.mLocalDeltas[p], k)
  BY <1>2, EmptyIsGood
<1>5. ASSUME NEW p \in Paths
      PROVE  WillFollowAt(p)
  <2>1. wire = <<>> /\ DOMAIN wire = {} /\ reader = author
    BY DEF Init
  <2>2. Alike(author.mData[p], reader.mData[p], Key)
    BY <2>1, AlikeSelf
  <2>3. QED
    BY <1>4, <2>1, <2>2 DEF WillFollowAt, WillFollow
<1>6. QED
  BY <1>3, <1>4, <1>5 DEF Inv, FollowInv

(***************************************************************************)
(* The author's edits.                                                     *)
(***************************************************************************)
LEMMA WillFollowAlike ==
    ASSUME NEW spec, NEW after, NEW local, NEW localAfter, NEW events, NEW read, NEW p,
           Alike(spec, after, Key), Alike(local, localAfter, Key),
           WillFollow(spec, local, events, read, p)
    PROVE  WillFollow(after, localAfter, events, read, p)
<1>1. CASE HasField(local, Key)
  BY <1>1 DEF WillFollow, Alike, Shown
<1>2. CASE ~HasField(local, Key)
  <2>1. ~HasField(localAfter, Key)
    BY <1>2 DEF Alike
  <2>2. \A v : Shown(spec, Key, v) => Shown(after, Key, v)
    BY DEF Alike, Shown
  <2>3. Alike(spec, read, Key) => Alike(after, read, Key)
    BY DEF Alike
  <2>4. QED
    BY <1>2, <2>1, <2>2, <2>3 DEF WillFollow
<1>3. QED
  BY <1>1, <1>2

\* What an edit leaves alone is not more untold than before; what it records is agreed on.
LEMMA EditKeeps ==
    ASSUME Inv, DataType', UNCHANGED <<reader, wire>>,
           \A q \in Paths, k \in {Key, TimeSamples} : <<q, k>> \notin untold' =>
               \/ /\ <<q, k>> \notin untold
                  /\ Alike(author.mData[q], author'.mData[q], k)
                  /\ Alike(author.mLocalDeltas[q], author'.mLocalDeltas[q], k)
               \/ k = Key /\ WillFollowAt(q)'
    PROVE  Inv'
<1>1. ASSUME NEW q \in Paths, <<q, Key>> \notin untold'
      PROVE  WillFollowAt(q)'
  <2>1. CASE WillFollowAt(q)'
    BY <2>1
  <2>2. CASE ~WillFollowAt(q)'
    <3>1. /\ <<q, Key>> \notin untold
          /\ Alike(author.mData[q], author'.mData[q], Key)
          /\ Alike(author.mLocalDeltas[q], author'.mLocalDeltas[q], Key)
      BY <1>1, <2>2
    <3>2. WillFollow(author.mData[q], author.mLocalDeltas[q], wire, reader.mData[q], q)
      BY <3>1 DEF Inv, FollowInv, WillFollowAt
    <3>3. WillFollow(author'.mData[q], author'.mLocalDeltas[q], wire, reader.mData[q], q)
      BY ONLY <3>1, <3>2, WillFollowAlike
    <3>4. QED
      BY <3>3 DEF WillFollowAt
  <2>3. QED
    BY <2>1, <2>2
<1>2. ASSUME NEW q \in Paths, <<q, TimeSamples>> \notin untold'
      PROVE  ~HasField(author'.mData[q], TimeSamples)
  <2>1. /\ <<q, TimeSamples>> \notin untold
        /\ Alike(author.mData[q], author'.mData[q], TimeSamples)
    BY <1>2, LayerValuesAssumption
  <2>2. QED
    BY <2>1 DEF Inv, FollowInv, Alike
<1>3. QED
  BY <1>1, <1>2 DEF Inv, FollowInv

LEMMA EditType ==
    ASSUME DataType, Edit
    PROVE  /\ edits' \in 0..MaxEdits /\ UNCHANGED <<reader, wire>>
           /\ author' \in Datas(AuthorField) /\ untold' \subseteq Fields => DataType'
BY LayerValuesAssumption DEF Edit, DataType

LEMMA InvEditField ==
    ASSUME Inv, NEW p \in Paths, EditField(p)
    PROVE  Inv'
<1>1. PICK v \in Values :
          /\ author' = Set(author, p, Key, v)
          /\ untold' = IF Arrives(v) THEN untold \ {<<p, Key>>} ELSE untold \cup {<<p, Key>>}
  BY DEF EditField
<1>2. author \in Datas(AuthorField) /\ untold \subseteq Fields /\ DataType
  BY DEF Inv, DataType
<1>3. [key |-> Key, value |-> v] \in AuthorField
  BY DEF AuthorField
<1>4. /\ author' \in Datas(AuthorField)
      /\ Shown(author'.mData[p], Key, v) /\ Shown(author'.mLocalDeltas[p], Key, v)
      /\ OnlyFieldChanges(author, author', p, Key)
  BY <1>1, <1>2, <1>3, SetGood
<1>5. untold' \subseteq Fields
  BY <1>1, <1>2 DEF Fields
<1>6. DataType' /\ UNCHANGED <<reader, wire>>
  BY <1>2, <1>4, <1>5, EditType DEF EditField
<1>7. ASSUME NEW q \in Paths, NEW k \in {Key, TimeSamples}, <<q, k>> \notin untold'
      PROVE  \/ /\ <<q, k>> \notin untold
                /\ Alike(author.mData[q], author'.mData[q], k)
                /\ Alike(author.mLocalDeltas[q], author'.mLocalDeltas[q], k)
             \/ k = Key /\ WillFollowAt(q)'
  <2>1. CASE <<q, k>> # <<p, Key>>
    <3>1. <<q, k>> \notin untold
      BY <1>1, <1>7, <2>1
    <3>2. QED
      BY <1>4, <2>1, <3>1 DEF OnlyFieldChanges
  <2>2. CASE <<q, k>> = <<p, Key>>
    <3>1. q = p /\ k = Key /\ Arrives(v)
      BY <1>1, <1>7, <2>2
    <3>2. WillFollowAt(p)'
      BY <1>4, <3>1 DEF Shown, WillFollowAt, WillFollow
    <3>3. QED
      BY <3>1, <3>2
  <2>3. QED
    BY <2>1, <2>2
<1>8. QED
  BY <1>6, <1>7, EditKeeps

\* One field is changed and not recorded, or not in a way that is sent.
LEMMA InvUntoldField ==
    ASSUME Inv, Edit, NEW p \in Paths, NEW k \in {Key, TimeSamples},
           author' \in Datas(AuthorField), OnlyFieldChanges(author, author', p, k),
           untold' = untold \cup {<<p, k>>}
    PROVE  Inv'
<1>1. untold' \subseteq Fields
  BY DEF Inv, DataType, Fields
<1>2. DataType' /\ UNCHANGED <<reader, wire>>
  BY <1>1, EditType DEF Inv
<1>3. ASSUME NEW q \in Paths, NEW other \in {Key, TimeSamples}, <<q, other>> \notin untold'
      PROVE  /\ <<q, other>> \notin untold
             /\ Alike(author.mData[q], author'.mData[q], other)
             /\ Alike(author.mLocalDeltas[q], author'.mLocalDeltas[q], other)
  <2>1. <<q, other>> \notin untold /\ <<q, other>> # <<p, k>>
    BY <1>3
  <2>2. QED
    BY <2>1 DEF OnlyFieldChanges
<1>4. QED
  BY <1>2, <1>3, EditKeeps

LEMMA InvClearField ==
    ASSUME Inv, NEW p \in Paths, ClearField(p)
    PROVE  Inv'
<1>1. PICK k \in {Key, TimeSamples} :
          author' = Erase(author, p, k) /\ untold' = untold \cup {<<p, k>>}
  BY DEF ClearField
<1>2. author' \in Datas(AuthorField) /\ OnlyFieldChanges(author, author', p, k)
  BY <1>1, EraseGood DEF Inv, DataType
<1>3. QED
  BY <1>1, <1>2, InvUntoldField DEF ClearField

LEMMA InvEditSample ==
    ASSUME Inv, NEW p \in Paths, NEW time \in Times, EditSample(p, time)
    PROVE  Inv'
<1>1. author' \in Datas(AuthorField) /\ OnlyFieldChanges(author, author', p, TimeSamples)
  BY SampleGood DEF EditSample, Inv, DataType
<1>2. QED
  BY <1>1, InvUntoldField DEF EditSample

\* Specs come and go without a trace in what is to be sent.
LEMMA InvSpecs ==
    ASSUME Inv, Edit, NEW P \in SUBSET Paths, author' \in Datas(AuthorField),
           author'.mLocalDeltas = author.mLocalDeltas,
           \A q \in Paths \ P : \A k : Alike(author.mData[q], author'.mData[q], k),
           untold' = untold \cup (P \X {Key, TimeSamples})
    PROVE  Inv'
<1>1. untold' \subseteq Fields
  BY DEF Inv, DataType, Fields
<1>2. DataType' /\ UNCHANGED <<reader, wire>>
  BY <1>1, EditType DEF Inv
<1>3. ASSUME NEW q \in Paths, NEW k \in {Key, TimeSamples}, <<q, k>> \notin untold'
      PROVE  /\ <<q, k>> \notin untold
             /\ Alike(author.mData[q], author'.mData[q], k)
             /\ Alike(author.mLocalDeltas[q], author'.mLocalDeltas[q], k)
  <2>1. <<q, k>> \notin untold /\ q \notin P
    BY <1>3
  <2>2. QED
    BY <2>1, AlikeSelf
<1>4. QED
  BY <1>2, <1>3, EditKeeps

LEMMA InvAddSpec ==
    ASSUME Inv, NEW p \in Paths, AddSpec(p)
    PROVE  Inv'
<1>1. /\ author' \in Datas(AuthorField) /\ author'.mLocalDeltas = author.mLocalDeltas
      /\ \A q \in Paths : \A k : Alike(author.mData[q], author'.mData[q], k)
  BY CreateSpecGood DEF AddSpec, Inv, DataType
<1>2. PICK P \in SUBSET Paths : P = {}
  OBVIOUS
<1>3. untold' = untold \cup (P \X {Key, TimeSamples}) /\ Edit
  BY <1>2 DEF AddSpec
<1>4. \A q \in Paths \ P : \A k : Alike(author.mData[q], author'.mData[q], k)
  BY <1>1
<1>5. QED
  BY ONLY Inv, P \in SUBSET Paths, <1>1, <1>3, <1>4, InvSpecs

LEMMA InvRemoveSpec ==
    ASSUME Inv, NEW p \in Paths, RemoveSpec(p)
    PROVE  Inv'
<1>1. /\ author' \in Datas(AuthorField) /\ author'.mLocalDeltas = author.mLocalDeltas
      /\ \A q \in Paths \ {p} : author'.mData[q] = author.mData[q]
  BY EraseSpecGood DEF RemoveSpec, Inv, DataType
<1>2. untold' = untold \cup ({p} \X {Key, TimeSamples}) /\ Edit
  BY DEF RemoveSpec, FieldsOf
<1>3. \A q \in Paths \ {p} : \A k : Alike(author.mData[q], author'.mData[q], k)
  BY <1>1, AlikeSelf
<1>4. {p} \in SUBSET Paths
  OBVIOUS
<1>5. QED
  BY <1>1, <1>2, <1>3, <1>4, InvSpecs

LEMMA InvRenameSpec ==
    ASSUME Inv, NEW p \in Paths, NEW newPath \in Paths \ {p}, RenameSpec(p, newPath)
    PROVE  Inv'
<1>1. /\ author' \in Datas(AuthorField) /\ author'.mLocalDeltas = author.mLocalDeltas
      /\ \A q \in Paths \ {p, newPath} : author'.mData[q] = author.mData[q]
  <2>1. author \in Datas(AuthorField) /\ author' = MoveSpec(author, p, newPath)
    BY DEF RenameSpec, Inv, DataType
  <2>2. QED
    BY ONLY <2>1, p \in Paths, newPath \in Paths \ {p}, MoveSpecGood
<1>2. untold' = untold \cup ({p, newPath} \X {Key, TimeSamples}) /\ Edit
  BY DEF RenameSpec, FieldsOf
<1>3. \A q \in Paths \ {p, newPath} : \A k : Alike(author.mData[q], author'.mData[q], k)
  BY <1>1, AlikeSelf
<1>4. {p, newPath} \in SUBSET Paths
  OBVIOUS
<1>5. QED
  BY <1>1, <1>2, <1>3, <1>4, InvSpecs

(***************************************************************************)
(* The author's tick and the reader's.                                     *)
(***************************************************************************)
LEMMA TickFollows ==
    ASSUME NEW S, NEW events \in Seq(S), NEW e, NEW spec, NEW local, NEW read, NEW p,
           WillFollow(spec, local, events, read, p),
           HasField(e[p], Key) <=> HasField(local, Key),
           HasField(local, Key) => FromJson(FieldValue(e[p], Key)) = FieldValue(local, Key)
    PROVE  WillFollow(spec, NoSpec, Append(events, e), read, p)
<1> DEFINE longer == Append(events, e)
           n == Len(events)
<1>1. /\ n \in Nat /\ DOMAIN events = 1..n /\ DOMAIN longer = 1..(n + 1)
      /\ longer[n + 1] = e /\ \A i \in 1..n : longer[i] = events[i]
  OBVIOUS
<1>2. ~HasField(NoSpec, Key)
  BY NoField DEF NoSpec
<1> HIDE DEF longer, n
<1>3. n + 1 \in DOMAIN longer /\ \A i \in DOMAIN longer : i = n + 1 \/ (i \in 1..n /\ n + 1 > i)
  BY <1>1
<1>4. CASE HasField(local, Key)
  <2>1. Shown(spec, Key, FromJson(FieldValue(e[p], Key)))
    BY <1>4 DEF WillFollow
  <2>2. \A i \in DOMAIN longer : LastWith(longer, i, p) => i = n + 1
    BY <1>1, <1>3, <1>4 DEF LastWith
  <2>3. \A i \in DOMAIN longer : LastWith(longer, i, p) =>
            Shown(spec, Key, FromJson(FieldValue(longer[i][p], Key)))
    BY <1>1, <2>1, <2>2
  <2>4. ~(\A i \in DOMAIN longer : ~HasField(longer[i][p], Key))
    BY <1>1, <1>3, <1>4
  <2>5. QED
    BY <1>2, <2>3, <2>4 DEF WillFollow, longer
<1>5. CASE ~HasField(local, Key)
  <2>1. ASSUME NEW i \in DOMAIN longer, LastWith(longer, i, p)
        PROVE  i \in DOMAIN events /\ LastWith(events, i, p) /\ longer[i] = events[i]
    <3>1. i \in 1..n /\ longer[i] = events[i]
      BY <1>1, <1>3, <1>5, <2>1 DEF LastWith
    <3>2. \A j \in DOMAIN events : j \in DOMAIN longer /\ longer[j] = events[j]
      BY <1>1
    <3>3. QED
      BY <1>1, <2>1, <3>1, <3>2 DEF LastWith
  <2>2. \A i \in DOMAIN longer : LastWith(longer, i, p) =>
            Shown(spec, Key, FromJson(FieldValue(longer[i][p], Key)))
    BY <1>5, <2>1 DEF WillFollow
  <2>3. (\A i \in DOMAIN longer : ~HasField(longer[i][p], Key))
            => \A i \in DOMAIN events : ~HasField(events[i][p], Key)
    <3>1. \A j \in DOMAIN events : j \in DOMAIN longer /\ longer[j] = events[j]
      BY <1>1
    <3>2. QED
      BY <3>1
  <2>4. (\A i \in DOMAIN longer : ~HasField(longer[i][p], Key)) => Alike(spec, read, Key)
    BY <1>5, <2>3 DEF WillFollow
  <2>5. QED
    BY <1>2, <2>2, <2>4 DEF WillFollow, longer
<1>6. QED
  BY <1>4, <1>5

LEMMA ApplyFollows ==
    ASSUME NEW S, NEW events \in Seq(S), events # <<>>, NEW spec, NEW local, NEW read,
           NEW after, NEW p, WillFollow(spec, local, events, read, p),
           HasField(Head(events)[p], Key) =>
               Shown(after, Key, FromJson(FieldValue(Head(events)[p], Key))),
           ~HasField(Head(events)[p], Key) => after = read
    PROVE  WillFollow(spec, local, Tail(events), after, p)
<1> DEFINE rest == Tail(events)
           n == Len(events)
<1>1. /\ n \in Nat /\ DOMAIN events = 1..n /\ DOMAIN rest = 1..(n - 1) /\ 1 \in 1..n
      /\ Head(events) = events[1]
      /\ \A i \in 1..(n - 1) : rest[i] = events[i + 1]
  OBVIOUS
<1> HIDE DEF rest, n
<1>2. /\ \A i \in DOMAIN rest : i + 1 \in DOMAIN events /\ rest[i] = events[i + 1]
      /\ \A j \in DOMAIN events : j = 1 \/ (j - 1 \in DOMAIN rest /\ rest[j - 1] = events[j])
      /\ 1 \in DOMAIN events
  BY <1>1
<1>3. CASE HasField(local, Key)
  BY <1>3 DEF WillFollow
<1>4. CASE ~HasField(local, Key)
  <2>1. ASSUME NEW i \in DOMAIN rest, LastWith(rest, i, p)
        PROVE  LastWith(events, i + 1, p)
    <3>1. ASSUME NEW j \in DOMAIN events, j > i + 1
          PROVE  ~HasField(events[j][p], Key)
      <4>1. j - 1 \in DOMAIN rest /\ j - 1 > i /\ rest[j - 1] = events[j]
        BY <1>1, <3>1
      <4>2. QED
        BY <2>1, <4>1 DEF LastWith
    <3>2. QED
      BY <1>2, <2>1, <3>1 DEF LastWith
  <2>2. \A i \in DOMAIN rest : LastWith(rest, i, p) =>
            Shown(spec, Key, FromJson(FieldValue(rest[i][p], Key)))
    BY <1>2, <1>4, <2>1 DEF WillFollow
  <2>3. ASSUME \A i \in DOMAIN rest : ~HasField(rest[i][p], Key)
        PROVE  Alike(spec, after, Key)
    <3>1. \A j \in DOMAIN events : j # 1 => ~HasField(events[j][p], Key)
      BY <1>2, <2>3
    <3>2. CASE HasField(events[1][p], Key)
      <4>1. LastWith(events, 1, p)
        BY <1>1, <3>1, <3>2 DEF LastWith
      <4>2. Shown(spec, Key, FromJson(FieldValue(events[1][p], Key)))
        BY <1>2, <1>4, <4>1 DEF WillFollow
      <4>3. QED
        BY <1>1, <3>2, <4>2 DEF Shown, Alike
    <3>3. CASE ~HasField(events[1][p], Key)
      <4>1. \A j \in DOMAIN events : ~HasField(events[j][p], Key)
        BY <3>1, <3>3
      <4>2. QED
        BY <1>1, <1>4, <3>3, <4>1 DEF WillFollow
    <3>4. QED
      BY <3>2, <3>3
  <2>4. QED
    BY <1>4, <2>2, <2>3 DEF WillFollow, rest
<1>5. QED
  BY <1>3, <1>4

LEMMA InvTick ==
    ASSUME Inv, Tick
    PROVE  Inv'
<1> DEFINE local == author.mLocalDeltas
           e == ToEvent(local)
<1>1. /\ DataType /\ author.mData \in [Paths -> Specs(AuthorField)]
      /\ local \in [Paths -> Specs(AuthorField)]
  BY DEF Inv, DataType, Datas
<1>2. /\ author' = FetchLocalDeltas(author) /\ reader' = reader /\ edits' = edits
      /\ \/ CanBeWritten(local) /\ wire' = Append(wire, e) /\ untold' = untold
         \/ /\ untold' = untold \cup {pk \in Fields : HasField(local[pk[1]], pk[2])}
            /\ wire' = wire
  BY DEF Tick
<1>3. /\ author' \in Datas(AuthorField) /\ author'.mData = author.mData
      /\ \A q \in Paths : author'.mLocalDeltas[q] = NoSpec
  BY <1>1, <1>2, EmptyIsGood DEF FetchLocalDeltas, DataType, Datas
<1>4. \A q \in Paths : \A k : ~HasField(NoSpec, k)
  BY NoField DEF NoSpec
<1>5. CASE CanBeWritten(local) /\ wire' = Append(wire, e) /\ untold' = untold
  <2>1. /\ \A q \in Paths : e[q] \in Specs(WrittenField)
        /\ e = [q \in Paths |-> e[q]]
    <3>1. \A q \in Paths : e[q] \in Specs(WrittenField)
      BY <1>1, <1>5, ToEventGood
    <3>2. e = [q \in Paths |-> e[q]]
      BY DEF ToEvent
    <3>3. QED
      BY <3>1, <3>2
  <2> HIDE DEF e
  <2>2. e \in [Paths -> Specs(WrittenField)]
    BY <2>1
  <2>3. wire \in Seq([Paths -> Specs(WrittenField)])
    BY <1>1 DEF DataType
  <2>4. wire' \in Seq([Paths -> Specs(WrittenField)])
    BY <1>5, <2>2, <2>3
  <2>5. DataType'
    BY <1>1, <1>2, <1>3, <1>5, <2>4 DEF DataType
  <2>6. ASSUME NEW q \in Paths, <<q, Key>> \notin untold
        PROVE  WillFollowAt(q)'
    <3>1. WillFollow(author.mData[q], local[q], wire, reader.mData[q], q)
      BY <2>6 DEF Inv, FollowInv, WillFollowAt
    <3>2. /\ HasField(e[q], Key) <=> HasField(local[q], Key)
          /\ HasField(local[q], Key) =>
                /\ FieldValue(local[q], Key).type \in Serializable
                /\ Shown(e[q], Key, ToJson(FieldValue(local[q], Key)))
      BY <1>1, <1>5, ToEventGood DEF e
    <3>3. HasField(local[q], Key) => FromJson(FieldValue(e[q], Key)) = FieldValue(local[q], Key)
      <4>1. SUFFICES ASSUME HasField(local[q], Key)
                     PROVE  FromJson(FieldValue(e[q], Key)) = FieldValue(local[q], Key)
        OBVIOUS
      <4>2. FieldValue(local[q], Key) \in Values
        BY <1>1, <4>1, KeyOfField
      <4>3. Arrives(FieldValue(local[q], Key))
        BY <3>1, <4>1 DEF WillFollow
      <4>4. FromJson(ToJson(FieldValue(local[q], Key))) = FieldValue(local[q], Key)
        BY <3>2, <4>1, <4>2, <4>3, RoundTrip
      <4>5. QED
        BY <3>2, <4>1, <4>4 DEF Shown
    <3> HIDE DEF local
    <3>4. WillFollow(author.mData[q], NoSpec, Append(wire, e), reader.mData[q], q)
      BY ONLY <2>3, <3>1, <3>2, <3>3, TickFollows
    <3>5. QED
      BY <1>2, <1>3, <1>5, <3>4 DEF WillFollowAt
  <2>7. QED
    BY <1>3, <1>5, <2>5, <2>6 DEF Inv, FollowInv
<1>6. CASE /\ untold' = untold \cup {pk \in Fields : HasField(local[pk[1]], pk[2])}
           /\ wire' = wire
  <2>1. DataType'
    BY <1>1, <1>2, <1>3, <1>6 DEF DataType
  <2>2. ASSUME NEW q \in Paths, NEW k \in {Key, TimeSamples}, <<q, k>> \notin untold'
        PROVE  /\ <<q, k>> \notin untold
               /\ Alike(author.mData[q], author'.mData[q], k)
               /\ Alike(author.mLocalDeltas[q], author'.mLocalDeltas[q], k)
    <3>1. <<q, k>> \notin untold /\ ~HasField(local[q], k)
      BY <1>6, <2>2 DEF Fields
    <3>2. QED
      BY <1>3, <1>4, <3>1, AlikeSelf DEF Alike
  <2>3. QED
    BY <1>2, <1>6, <2>1, <2>2, EditKeeps
<1>7. QED
  BY <1>2, <1>5, <1>6

LEMMA InvApply ==
    ASSUME Inv, Apply
    PROVE  Inv'
<1> DEFINE event == FromEvent(Head(wire))
<1>1. /\ DataType /\ reader.mData \in [Paths -> Specs(ReadField)]
      /\ wire \in Seq([Paths -> Specs(WrittenField)]) /\ wire # <<>>
  BY DEF Inv, DataType, Datas, Apply
<1>2. Head(wire) \in [Paths -> Specs(WrittenField)]
  BY <1>1
<1>3. /\ wire' = Tail(wire) /\ author' = author /\ edits' = edits /\ untold' = untold
      /\ reader' = [reader EXCEPT !.mData =
                        [p \in Paths |-> WithUpdate(reader.mData[p], event[p])]]
  BY DEF Apply
<1>4. \A p \in Paths :
          /\ event[p] \in Specs(ReadField)
          /\ HasField(event[p], Key) <=> HasField(Head(wire)[p], Key)
          /\ HasField(Head(wire)[p], Key) =>
                Shown(event[p], Key, FromJson(FieldValue(Head(wire)[p], Key)))
  BY <1>2, FromEventGood
<1> HIDE DEF event
<1>5. \A p \in Paths :
          /\ WithUpdate(reader.mData[p], event[p]) \in Specs(ReadField)
          /\ HasField(event[p], Key) =>
                Shown(WithUpdate(reader.mData[p], event[p]), Key, FieldValue(event[p], Key))
          /\ ~HasField(event[p], Key) =>
                WithUpdate(reader.mData[p], event[p]) = reader.mData[p]
  BY <1>1, <1>4, WithUpdateGood
<1>6. /\ reader' \in Datas(ReadField) /\ reader'.mLocalDeltas = reader.mLocalDeltas
      /\ \A p \in Paths : reader'.mData[p] = WithUpdate(reader.mData[p], event[p])
  BY <1>1, <1>3, <1>5 DEF DataType, Datas
<1>7. DataType'
  <2>1. Tail(wire) \in Seq([Paths -> Specs(WrittenField)])
    BY <1>1
  <2>2. QED
    BY <1>1, <1>3, <1>6, <2>1 DEF DataType
<1>8. ASSUME NEW q \in Paths, <<q, Key>> \notin untold
      PROVE  WillFollowAt(q)'
  <2>1. WillFollow(author.mData[q], author.mLocalDeltas[q], wire, reader.mData[q], q)
    BY <1>8 DEF Inv, FollowInv, WillFollowAt
  <2>2. HasField(Head(wire)[q], Key) =>
            Shown(reader'.mData[q], Key, FromJson(FieldValue(Head(wire)[q], Key)))
    BY <1>4, <1>5, <1>6 DEF Shown
  <2>3. ~HasField(Head(wire)[q], Key) => reader'.mData[q] = reader.mData[q]
    BY <1>4, <1>5, <1>6
  <2>4. WillFollow(author.mData[q], author.mLocalDeltas[q], Tail(wire), reader'.mData[q], q)
    BY ONLY <1>1, <2>1, <2>2, <2>3, ApplyFollows
  <2>5. QED
    BY <1>3, <2>4 DEF WillFollowAt
<1>9. QED
  BY <1>3, <1>7, <1>8 DEF Inv, FollowInv

LEMMA InvNext ==
    ASSUME Inv, [Next]_vars
    PROVE  Inv'
<1>1. ASSUME NEW p \in Paths,
             EditField(p) \/ ClearField(p) \/ AddSpec(p) \/ RemoveSpec(p)
      PROVE  Inv'
  BY <1>1, InvEditField, InvClearField, InvAddSpec, InvRemoveSpec
<1>2. ASSUME NEW p \in Paths, NEW newPath \in Paths \ {p}, RenameSpec(p, newPath)
      PROVE  Inv'
  BY <1>2, InvRenameSpec
<1>3. ASSUME NEW p \in Paths, NEW time \in Times, EditSample(p, time)
      PROVE  Inv'
  BY <1>3, InvEditSample
<1>4. CASE UNCHANGED vars
  BY <1>4 DEF vars, Inv, DataType, FollowInv, WillFollowAt
<1>5. QED
  BY <1>1, <1>2, <1>3, <1>4, InvTick, InvApply DEF Next

(***************************************************************************)
(* Whatever the author does and whichever tick throws (FileFormat.cpp:207),*)
(* the data keeps its form, and each field that can be told has its last   *)
(* value in the local edit, in the last event on the way that names it, or *)
(* at the reader.                                                          *)
(***************************************************************************)
THEOREM InvCorrect == Spec => []Inv
<1>1. Init => Inv
  BY InvInit
<1>2. Inv /\ [Next]_vars => Inv'
  BY InvNext
<1>3. QED
  BY <1>1, <1>2, PTL DEF Spec

(***************************************************************************)
(* No spec gets a field twice, which Erase relies on: it takes the first   *)
(* of that name out (Data.cpp:773), whatever is edited, applied or lost.   *)
(***************************************************************************)
THEOREM LayerTypeCorrect == Spec => []TypeOK
<1>1. Inv => TypeOK
  BY TypeOfData DEF Inv
<1>2. QED
  BY <1>1, InvCorrect, PTL

(***************************************************************************)
(* When everything is sent and applied the reader has what the author has  *)
(* in every field but those whose last change is not recorded, was lost    *)
(* with its tick or is a list operation that changes as JSON (explicit     *)
(* without items, or with added or ordered ones), for any number of edits  *)
(* and of events on their way (Data.cpp:273-298, :577, :773,               *)
(* FileFormat.cpp:207, Serialization.h:185-195).                           *)
(***************************************************************************)
THEOREM FollowedCorrect == Spec => []Followed
<1>1. Inv => Followed
  BY FollowedByInv
<1>2. QED
  BY <1>1, InvCorrect, PTL

(***************************************************************************)
(* The samples around a time.                                              *)
(***************************************************************************)
\* Finitely many numbers have a least and a greatest one.
LEMMA EndOfSome ==
    ASSUME NEW all \in SUBSET Int, IsFiniteSet(all), NEW T \in SUBSET all, T # {}
    PROVE  (\E t \in T : \A u \in T : u <= t) /\ (\E t \in T : \A u \in T : t <= u)
<1>1. IsWellFoundedOn(StrictSubsetOrdering(all), SUBSET all)
  BY FS_StrictSubsetOrderingWellFounded, FS_FiniteSubsetsOfFinite
<1>2. ASSUME NEW Tails \in SUBSET (SUBSET all), Tails # {}
      PROVE  \E x \in Tails : \A y \in Tails : ~(y \subseteq x /\ y # x)
  <2>1. PICK x \in Tails : \A y \in Tails : ~(<<y, x>> \in StrictSubsetOrdering(all))
    BY <1>1, <1>2, WFMin
  <2>2. QED
    BY <1>2, <2>1 DEF StrictSubsetOrdering
<1>3. \E t \in T : \A u \in T : u <= t
  <2> DEFINE Above(t) == {u \in T : u > t}
             Tails == {Above(t) : t \in T}
  <2>1. Tails \in SUBSET (SUBSET all) /\ Tails # {}
    OBVIOUS
  <2>2. PICK x \in Tails : \A y \in Tails : ~(y \subseteq x /\ y # x)
    <3> HIDE DEF Tails
    <3> QED BY <1>2, <2>1
  <2>3. PICK t \in T : x = Above(t)
    OBVIOUS
  <2>4. ASSUME NEW u \in T, u > t
        PROVE  FALSE
    <3>1. Above(u) \in Tails
      OBVIOUS
    <3>2. u \in Int /\ t \in Int /\ \A v \in T : v \in Int
      OBVIOUS
    <3>3. u \in Above(t) /\ u \notin Above(u)
      BY <2>4, <3>2
    <3>4. \A v \in T : v > u => v > t
      BY ONLY <2>4, <3>2
    <3>5. Above(u) \subseteq Above(t)
      BY <3>4
    <3>6. QED
      BY <2>2, <2>3, <3>1, <3>3, <3>5
  <2>5. QED
    BY <2>4
<1>4. \E t \in T : \A u \in T : t <= u
  <2> DEFINE Below(t) == {u \in T : u < t}
             Heads == {Below(t) : t \in T}
  <2>1. Heads \in SUBSET (SUBSET all) /\ Heads # {}
    OBVIOUS
  <2>2. PICK x \in Heads : \A y \in Heads : ~(y \subseteq x /\ y # x)
    <3> HIDE DEF Heads
    <3> QED BY <1>2, <2>1
  <2>3. PICK t \in T : x = Below(t)
    OBVIOUS
  <2>4. ASSUME NEW u \in T, u < t
        PROVE  FALSE
    <3>1. Below(u) \in Heads
      OBVIOUS
    <3>2. u \in Int /\ t \in Int /\ \A v \in T : v \in Int
      OBVIOUS
    <3>3. u \in Below(t) /\ u \notin Below(u)
      BY <2>4, <3>2
    <3>4. \A v \in T : v < u => v < t
      BY ONLY <2>4, <3>2
    <3>5. Below(u) \subseteq Below(t)
      BY <3>4
    <3>6. QED
      BY <2>2, <2>3, <3>1, <3>3, <3>5
  <2>5. QED
    BY <2>4
<1>5. QED
  BY <1>3, <1>4

LEMMA EndsOfTimes ==
    ASSUME NEW times \in SUBSET Times, times # {}
    PROVE  /\ First(times) \in times /\ \A u \in times : First(times) <= u
           /\ Last(times) \in times /\ \A u \in times : u <= Last(times)
           /\ times \subseteq Int
<1>1. Times \in SUBSET Int /\ IsFiniteSet(Times)
  BY SpecStoreAssumption
<1>2. /\ \E t \in times : \A u \in times : u <= t
      /\ \E t \in times : \A u \in times : t <= u
  BY <1>1, EndOfSome
<1>3. times \subseteq Int
  BY <1>1
<1>4. \E t \in times : \A u \in times : t >= u
  BY <1>2, <1>3
<1>5. First(times) \in times /\ \A u \in times : First(times) <= u
  BY <1>2 DEF First
<1>6. Last(times) \in times /\ \A u \in times : Last(times) >= u
  BY <1>4 DEF Last
<1>7. QED
  BY <1>3, <1>5, <1>6

LEMMA BracketingEncloses ==
    ASSUME NEW times \in SUBSET Times, times # {}, NEW time \in Int, NEW found,
           found = Bracketing(times, time)
    PROVE  /\ found[1] \in times /\ found[2] \in times
           /\ found[1] = found[2] \/ (found[1] < time /\ time < found[2])
           /\ time \in times => found = <<time, time>>
           /\ \A t \in times : t <= found[1] \/ t >= found[2]
<1> DEFINE first == First(times)
           last == Last(times)
<1>1. /\ first \in times /\ \A u \in times : first <= u
      /\ last \in times /\ \A u \in times : u <= last
      /\ times \subseteq Int
  BY EndsOfTimes
<1> HIDE DEF first, last
<1>2. CASE time <= first
  <2>1. found = <<first, first>>
    BY <1>2 DEF Bracketing, first
  <2>2. QED
    BY <1>1, <1>2, <2>1
<1>3. CASE ~(time <= first) /\ time >= last
  <2>1. found = <<last, last>>
    BY <1>3 DEF Bracketing, first, last
  <2>2. QED
    BY <1>1, <1>3, <2>1
<1>4. CASE ~(time <= first) /\ ~(time >= last)
  <2> DEFINE from == {t \in times : t >= time}
             lower == LowerBound(times, time)
  <2>1. from \in SUBSET Times /\ from # {}
    <3>1. last \in Int /\ last >= time
      BY <1>1, <1>4
    <3>2. last \in from
      BY <1>1, <3>1
    <3>3. QED
      BY <3>2
  <2>2. lower \in from /\ \A u \in from : lower <= u
    <3> HIDE DEF from
    <3>1. First(from) \in from /\ \A u \in from : First(from) <= u
      BY <2>1, EndsOfTimes
    <3>2. QED
      BY <3>1 DEF LowerBound, from
  <2> HIDE DEF lower
  <2>3. CASE lower = time
    <3>1. found = <<time, time>>
      BY <1>4, <2>3 DEF Bracketing, first, last, lower
    <3>2. QED
      BY <1>1, <2>2, <2>3, <3>1
  <2>4. CASE lower # time
    <3> DEFINE under == {t \in times : t < lower}
               before == Before(times, lower)
    <3>1. under \in SUBSET Times /\ under # {}
      <4>1. first \in Int /\ lower \in Int /\ first < time /\ time <= lower
        BY <1>1, <1>4, <2>2
      <4>2. first \in under
        BY <1>1, <4>1
      <4>3. QED
        BY <4>2
    <3>2. before \in under /\ \A u \in under : u <= before
      <4> HIDE DEF under
      <4>1. Last(under) \in under /\ \A u \in under : u <= Last(under)
        BY <3>1, EndsOfTimes
      <4>2. QED
        BY <4>1 DEF Before, under
    <3> HIDE DEF before
    <3>3. found = <<before, lower>>
      BY <1>4, <2>4 DEF Bracketing, first, last, lower, before
    <3>4. /\ lower \in times /\ lower \in Int /\ lower > time
          /\ before \in times /\ before \in Int /\ before < lower
      BY <1>1, <2>2, <2>4, <3>2
    <3>5. before < time
      BY <2>2, <3>4
    <3>6. time \notin times
      BY <2>2, <3>4
    <3>7. ASSUME NEW t \in times
          PROVE  t <= before \/ t >= lower
      <4>1. t \in Int
        BY <1>1
      <4>2. t < lower => t <= before
        BY <3>2
      <4>3. QED
        BY <3>4, <4>1, <4>2
    <3>8. QED
      BY <3>3, <3>4, <3>5, <3>6, <3>7
  <2>5. QED
    BY <2>3, <2>4
<1>5. QED
  BY <1>1, <1>2, <1>3, <1>4

(***************************************************************************)
(* The samples found around a time enclose it, are samples that can be     *)
(* queried, and there is none between them, whatever samples there are     *)
(* (Data.cpp:650).                                                         *)
(***************************************************************************)
THEOREM BracketsCorrect == Spec => []BracketsAgree
<1>1. BracketsAgree
  <2>1. ASSUME NEW p \in Paths, NEW time \in 0..4,
               ListTimeSamplesForPath(author, p) # {}
        PROVE  LET times == ListTimeSamplesForPath(author, p)
                   found == Bracketing(times, time)
               IN  /\ QueryTimeSample(author, p, found[1])
                   /\ QueryTimeSample(author, p, found[2])
                   /\ found[1] = found[2] \/ (found[1] < time /\ time < found[2])
                   /\ QueryTimeSample(author, p, time) => found = <<time, time>>
                   /\ \A t \in times : t <= found[1] \/ t >= found[2]
    <3>1. PICK times \in SUBSET Times : times = ListTimeSamplesForPath(author, p)
      BY DEF ListTimeSamplesForPath
    <3>2. PICK found : found = Bracketing(times, time) /\ time \in Int
      OBVIOUS
    <3>3. /\ found[1] \in times /\ found[2] \in times
          /\ found[1] = found[2] \/ (found[1] < time /\ time < found[2])
          /\ time \in times => found = <<time, time>>
          /\ \A t \in times : t <= found[1] \/ t >= found[2]
      BY ONLY <2>1, <3>1, <3>2, BracketingEncloses
    <3>4. QED
      BY <3>1, <3>2, <3>3 DEF QueryTimeSample
  <2>2. QED
    BY <2>1 DEF BracketsAgree
<1>2. QED
  BY <1>1, PTL
=============================================================================
