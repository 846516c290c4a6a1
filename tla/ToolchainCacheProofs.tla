-------------------------- MODULE ToolchainCacheProofs --------------------------
(***************************************************************************)
(* Theorems about the toolchain cache, for any number of runs, attempts    *)
(* and segments, and whatever the cache held at first.                     *)
(***************************************************************************)
EXTENDS ToolchainCache, SequenceTheorems, TLAPS

Known == {Schema, Generation, Parts, SuffixLength, ArchiveHash}

-------------------------------------------------------------------------------
\* The two readers of a manifest.

\* Where no field is repeated, both readers find the one line of a field, and the
\* same value unless the line ends in a carriage return.
LEMMA OneLine ==
  ASSUME NEW text, DOMAIN text \subseteq Nat, parseFields(text),
         NEW n \in DOMAIN text, NEW f, f = text[n].field
  PROVE  /\ Single(text, f) /\ required(text, f) = text[n].value
         /\ manifest_value(text, f) = IF text[n].cr THEN Garbage ELSE text[n].value
<1>1. Lines(text, f) = {n}
  BY DEF Lines, parseFields
<1>2. \A m \in Lines(text, f) : m <= n
  BY <1>1
<1>3. (CHOOSE m \in Lines(text, f) : TRUE) = n
  BY <1>1
<1>4. (CHOOSE m \in Lines(text, f) : \A k \in Lines(text, f) : k <= m) = n
  BY <1>1, <1>2
<1> QED
  BY <1>1, <1>3, <1>4 DEF Single, manifest_value, required

\* The fields that the readers look for in a manifest.
LookedFor(text) ==
  Known \cup {PartHash(required(text, SuffixLength), n - 1) : n \in 1..required(text, Parts)}

\* In a manifest that the transfer action accepts these are there.
LEMMA AcceptedFields ==
  ASSUME NEW text, Accepted(text)
  PROVE  /\ parseFields(text)
         /\ \A f \in LookedFor(text) : \E n \in DOMAIN text : text[n].field = f
         /\ Returns(text) <=>
              \E n \in DOMAIN text : text[n].field \in LookedFor(text) /\ text[n].cr
<1>1. LookedFor(text) \subseteq Fields(text)
  BY DEF Accepted, LookedFor, Known
<1>2. /\ parseManifest(text).width = required(text, SuffixLength)
      /\ DOMAIN parseManifest(text).parts = 1..required(text, Parts)
  BY DEF parseManifest
<1> QED
  BY <1>1, <1>2 DEF Accepted, Fields, Returns, LookedFor, Known

\* Without carriage returns the script accepts what the transfer action accepts, and
\* reads it alike.
LEMMA ReadAlike ==
  ASSUME NEW text, DOMAIN text \subseteq Nat, Accepted(text), ~Returns(text)
  PROVE  /\ ShellAccepts(text)
         /\ ShellParts(text) = parseManifest(text).parts
         /\ \A f \in Known : manifest_value(text, f) = required(text, f)
<1> DEFINE count == required(text, Parts)
           width == required(text, SuffixLength)
<1>1. ASSUME NEW f \in LookedFor(text)
      PROVE  Single(text, f) /\ manifest_value(text, f) = required(text, f)
  <2>1. PICK n \in DOMAIN text : text[n].field = f
    BY AcceptedFields
  <2>2. ~text[n].cr
    BY <2>1, AcceptedFields
  <2> QED
    BY <2>1, <2>2, AcceptedFields, OneLine
<1>2. \A f \in Known : Single(text, f) /\ manifest_value(text, f) = required(text, f)
  BY <1>1 DEF LookedFor
<1>3. manifest_value(text, Parts) = count /\ manifest_value(text, SuffixLength) = width
  BY <1>2 DEF Known
<1>5. \A n \in 1..count :
        /\ Single(text, PartHash(width, n - 1))
        /\ manifest_value(text, PartHash(width, n - 1))
             = required(text, PartHash(width, n - 1))
  BY <1>1 DEF LookedFor
<1> HIDE DEF count, width
<1>6. ShellParts(text) = [n \in 1..count |-> required(text, PartHash(width, n - 1))]
  BY <1>3, <1>5 DEF ShellParts
<1>7. ShellParts(text) = parseManifest(text).parts
  BY <1>6 DEF parseManifest, count, width
<1>8. \A n \in 1..count : ShellParts(text)[n] # Garbage
  BY <1>6 DEF Accepted, count, width
<1>9. ShellAccepts(text)
  <2>1. \A f \in Known : Single(text, f)
    BY <1>2
  <2>2. \A n \in 1..manifest_value(text, Parts) :
          /\ Single(text, PartHash(manifest_value(text, SuffixLength), n - 1))
          /\ ShellParts(text)[n] # Garbage
    BY <1>3, <1>5, <1>8
  <2> QED
    BY <2>1, <2>2, <1>2 DEF ShellAccepts, Accepted, Known
<1> QED
  BY <1>2, <1>7, <1>9

\* A manifest with carriage returns the script refuses.
LEMMA RefusesReturns ==
  ASSUME NEW text, DOMAIN text \subseteq Nat, Accepted(text), ShellAccepts(text)
  PROVE  ~Returns(text)
<1> DEFINE count == required(text, Parts)
           width == required(text, SuffixLength)
<1>1. \A f \in Known : manifest_value(text, f) # Garbage
  BY GarbageAssumption DEF Known, ShellAccepts
<1>2. ASSUME NEW n \in DOMAIN text, text[n].field \in LookedFor(text),
             manifest_value(text, text[n].field) # Garbage
      PROVE  ~text[n].cr
    BY <1>2, AcceptedFields, OneLine
<1>3. ASSUME NEW f \in Known
      PROVE  manifest_value(text, f) = required(text, f)
  <2>1. f \in LookedFor(text)
    BY DEF LookedFor
  <2>2. PICK n \in DOMAIN text : text[n].field = f
    BY <2>1, AcceptedFields
  <2>3. ~text[n].cr
    BY <1>1, <1>2, <2>1, <2>2
  <2> QED
    BY <2>2, <2>3, AcceptedFields, OneLine
<1>4. manifest_value(text, Parts) = count /\ manifest_value(text, SuffixLength) = width
  BY <1>3 DEF Known
<1>5. \A n \in 1..count : manifest_value(text, PartHash(width, n - 1)) # Garbage
  BY <1>4 DEF ShellAccepts, ShellParts
<1>6. \A f \in LookedFor(text) : manifest_value(text, f) # Garbage
  BY <1>1, <1>5 DEF LookedFor
<1> QED
  BY <1>2, <1>6, AcceptedFields

\* The name of a field that a manifest can have tells which field it is.
LEMMA FieldNames ==
  /\ NoField \notin Known
  /\ \A w, i : PartHash(w, i) \notin Known \cup {NoField}
  /\ \A v, w, i, k : PartHash(v, i) = PartHash(w, k) => v = w /\ i = k
  /\ Schema # Generation /\ Schema # Parts /\ Schema # SuffixLength
  /\ Schema # ArchiveHash /\ Generation # Parts /\ Generation # SuffixLength
  /\ Generation # ArchiveHash /\ Parts # SuffixLength /\ Parts # ArchiveHash
  /\ SuffixLength # ArchiveHash
BY DEF Known, NoField, PartHash, Schema, Generation, Parts, SuffixLength, ArchiveHash

Line(f, v) == [field |-> f, value |-> v, cr |-> FALSE]

\* The lines that pack_toolchain writes.
LEMMA PackedLines ==
  ASSUME NEW g, NEW archive \in Seq(Content), NEW t, t = Packed(g, Width, archive)
  PROVE  /\ DOMAIN t = 1..Len(archive) + 5
         /\ t[1] = Line(Schema, 2) /\ t[2] = Line(Generation, g)
         /\ t[3] = Line(Parts, Len(archive)) /\ t[4] = Line(SuffixLength, Width)
         /\ t[5] = Line(ArchiveHash, archive)
         /\ \A n \in 1..Len(archive) :
              t[n + 5] = Line(PartHash(Width, n - 1), archive[n])
<1> DEFINE count == Len(archive)
           head == << Line(Schema, 2), Line(Generation, g), Line(Parts, count),
                      Line(SuffixLength, Width), Line(ArchiveHash, archive) >>
           tail == [n \in 1..count |-> Line(PartHash(Width, n - 1), archive[n])]
           S == {head[n] : n \in 1..5} \cup {tail[n] : n \in 1..count}
<1>0. count \in Nat
  OBVIOUS
<1>1. t = head \o tail
  BY DEF Packed, Line
<1>2. head \in Seq(S) /\ Len(head) = 5
  OBVIOUS
<1>3. tail \in Seq(S) /\ Len(tail) = count
  BY <1>0
<1>4. head[1] = Line(Schema, 2) /\ head[2] = Line(Generation, g)
      /\ head[3] = Line(Parts, count) /\ head[4] = Line(SuffixLength, Width)
      /\ head[5] = Line(ArchiveHash, archive)
  OBVIOUS
<1>5. \A n \in 1..count : tail[n] = Line(PartHash(Width, n - 1), archive[n])
  OBVIOUS
<1> HIDE DEF head, tail, S, count
<1>6. /\ Len(head \o tail) = 5 + count
      /\ DOMAIN (head \o tail) = 1..5 + count
      /\ \A n \in 1..5 : (head \o tail)[n] = head[n]
      /\ \A n \in 1..count : (head \o tail)[n + 5] = tail[n]
  <2>0. /\ head \o tail \in Seq(S) /\ Len(head \o tail) = Len(head) + Len(tail)
        /\ \A i \in 1..Len(head) + Len(tail) :
             (head \o tail)[i] =
               IF i <= Len(head) THEN head[i] ELSE tail[i - Len(head)]
    BY <1>2, <1>3, ConcatProperties, Zenon
  <2>1. Len(head \o tail) = 5 + count /\ DOMAIN (head \o tail) = 1..5 + count
    BY <1>2, <1>3, <2>0
  <2>2. \A i \in 1..5 + count :
          (head \o tail)[i] = IF i <= 5 THEN head[i] ELSE tail[i - 5]
    BY <1>2, <1>3, <2>0, Zenon
  <2> DEFINE cat == head \o tail
  <2> HIDE DEF cat
  <2>3. \A n \in 1..5 : cat[n] = head[n]
    <3> SUFFICES ASSUME NEW n \in 1..5 PROVE cat[n] = head[n]
      OBVIOUS
    <3>1. n \in 1..5 + count /\ n <= 5
      BY <1>0
    <3> QED
      BY <3>1, <2>2 DEF cat
  <2>4. \A n \in 1..count : cat[n + 5] = tail[n]
    <3> SUFFICES ASSUME NEW n \in 1..count PROVE cat[n + 5] = tail[n]
      OBVIOUS
    <3>1. n + 5 \in 1..5 + count /\ ~(n + 5 <= 5) /\ (n + 5) - 5 = n
      BY <1>0
    <3>2. \A i \in 1..5 + count : cat[i] = IF i <= 5 THEN head[i] ELSE tail[i - 5]
      BY <2>2 DEF cat
    <3> QED
      BY <3>1, <3>2
  <2> QED
    BY <2>1, <2>3, <2>4 DEF cat
<1>7. DOMAIN t = 1..count + 5 /\ \A n \in 1..5 : t[n] = head[n]
  BY <1>0, <1>1, <1>6
<1>8. \A n \in 1..count : t[n + 5] = tail[n]
  BY <1>1, <1>6
<1> QED
  BY <1>4, <1>5, <1>7, <1>8 DEF count

LEMMA ArchiveIsSeq ==
  ASSUME NEW o \in Origin
  PROVE  /\ Archive(o) \in Seq(Content) /\ Len(Archive(o)) = SegmentsOf[o]
         /\ DOMAIN Archive(o) = 1..SegmentsOf[o] /\ SegmentsOf[o] \in Nat \ {0}
         /\ \A n \in 1..SegmentsOf[o] :
              Archive(o)[n] = [origin |-> o, index |-> n - 1]
<1>1. SegmentsOf[o] \in Nat \ {0}
  BY OriginAssumption
<1>2. \A n \in 1..SegmentsOf[o] : [origin |-> o, index |-> n - 1] \in Content
  BY <1>1 DEF Content
<1> QED
  BY <1>1, <1>2 DEF Archive

\* What is read in a manifest that was packed is what was packed.
LEMMA PackedReads ==
  ASSUME NEW g \in Nat, NEW o \in Origin,
         NEW t, t = Packed(g, Width, Archive(o))
  PROVE  /\ DOMAIN t \subseteq Nat /\ Accepted(t) /\ ~Returns(t)
         /\ parseManifest(t) =
              [generation |-> g, width |-> Width, parts |-> Archive(o)]
         /\ required(t, ArchiveHash) = Archive(o)
         /\ manifest_value(t, ArchiveHash) = Archive(o)
<1> DEFINE a == Archive(o)
           count == Len(a)
<1>1. a \in Seq(Content) /\ count \in Nat \ {0} /\ DOMAIN a = 1..count
      /\ count < Namespace(Width)
  BY ArchiveIsSeq, OriginAssumption
<1>2. a # Garbage /\ \A n \in 1..count : a[n] # Garbage
  BY <1>1, GarbageAssumption
<1> HIDE DEF a
<1>3. /\ DOMAIN t = 1..count + 5
      /\ t[1] = Line(Schema, 2) /\ t[2] = Line(Generation, g)
      /\ t[3] = Line(Parts, count) /\ t[4] = Line(SuffixLength, Width)
      /\ t[5] = Line(ArchiveHash, a)
      /\ \A n \in 1..count : t[n + 5] = Line(PartHash(Width, n - 1), a[n])
  <2>1. t = Packed(g, Width, a)
    BY DEF a
  <2> QED
    BY <1>1, <2>1, PackedLines
<1> HIDE DEF count
<1>4. /\ t[1].field = Schema /\ t[1].value = 2
      /\ t[2].field = Generation /\ t[2].value = g
      /\ t[3].field = Parts /\ t[3].value = count
      /\ t[4].field = SuffixLength /\ t[4].value = Width
      /\ t[5].field = ArchiveHash /\ t[5].value = a
      /\ \A n \in 1..count : /\ t[n + 5].field = PartHash(Width, n - 1)
                             /\ t[n + 5].value = a[n]
  <2>1. \A f, v : Line(f, v).field = f /\ Line(f, v).value = v
    BY DEF Line
  <2>2. ASSUME NEW n \in 1..count
        PROVE  /\ t[n + 5].field = PartHash(Width, n - 1)
               /\ t[n + 5].value = a[n]
    <3>1. t[n + 5] = Line(PartHash(Width, n - 1), a[n])
      BY <1>3
    <3> QED
      BY <3>1, <2>1
  <2> QED
    BY <1>3, <2>1, <2>2
<1>5. \A m \in DOMAIN t : m \in 1..5 \/ \E n \in 1..count : m = n + 5
  <2> SUFFICES ASSUME NEW m \in DOMAIN t, m \notin 1..5
               PROVE  \E n \in 1..count : m = n + 5
    OBVIOUS
  <2>1. m \in 1..count + 5
    BY <1>3
  <2>2. m - 5 \in 1..count /\ m = (m - 5) + 5
    BY <1>1, <2>1
  <2> QED
    BY <2>2
<1>cr. ASSUME NEW m \in DOMAIN t PROVE ~t[m].cr
  <2>1. \A f, v : ~Line(f, v).cr
    BY DEF Line
  <2>2. CASE m \in 1..5
    BY <1>3, <2>1, <2>2
  <2>3. CASE \E n \in 1..count : m = n + 5
    BY <1>3, <2>1, <2>3
  <2> QED
    BY <1>5, <2>2, <2>3
<1>6. parseFields(t)
  <2>1. \A m \in DOMAIN t : t[m].field # NoField
    <3> SUFFICES ASSUME NEW m \in DOMAIN t PROVE t[m].field # NoField
      OBVIOUS
    <3>1. CASE m \in 1..5
      BY <3>1, <1>4, FieldNames DEF Known
    <3>2. CASE \E n \in 1..count : m = n + 5
      BY <3>2, <1>4, FieldNames
    <3> QED
      BY <3>1, <3>2, <1>5
  <2>2. ASSUME NEW m \in DOMAIN t, NEW n \in DOMAIN t, t[m].field = t[n].field
        PROVE  m = n
    <3>1. CASE m \in 1..5 /\ n \in 1..5
      BY <3>1, <2>2, <1>4, FieldNames
    <3>2. CASE m \in 1..5 /\ \E k \in 1..count : n = k + 5
      BY <3>2, <2>2, <1>4, FieldNames DEF Known
    <3>3. CASE n \in 1..5 /\ \E k \in 1..count : m = k + 5
      BY <3>3, <2>2, <1>4, FieldNames DEF Known
    <3>4. CASE (\E k \in 1..count : m = k + 5) /\ (\E k \in 1..count : n = k + 5)
      <4>1. PICK i \in 1..count, k \in 1..count : m = i + 5 /\ n = k + 5
        BY <3>4
      <4>2. PartHash(Width, i - 1) = PartHash(Width, k - 1)
        BY <4>1, <2>2, <1>4
      <4>3. i - 1 = k - 1
        BY <4>2, FieldNames
      <4> QED
        BY <4>1, <4>3, <1>1
    <3> QED
      BY <3>1, <3>2, <3>3, <3>4, <1>5
  <2> QED
    BY <2>1, <2>2 DEF parseFields, Fields
<1>7. DOMAIN t \subseteq Nat
  BY <1>1, <1>3
<1>8. ASSUME NEW m \in DOMAIN t
      PROVE  /\ t[m].field \in Fields(t)
             /\ required(t, t[m].field) = t[m].value
             /\ manifest_value(t, t[m].field) = t[m].value
  <2>0. ~t[m].cr
    BY <1>cr
  <2>1. Lines(t, t[m].field) = {m}
    BY <1>6 DEF Lines, parseFields
  <2>2. m <= m
    BY <1>7
  <2>3. (CHOOSE n \in Lines(t, t[m].field) :
           \A k \in Lines(t, t[m].field) : k <= n) = m
    BY <2>1, <2>2
  <2>4. (CHOOSE n \in Lines(t, t[m].field) : TRUE) = m
    BY <2>1
  <2> QED
    BY <2>0, <2>3, <2>4 DEF required, manifest_value, Fields
<1>9. 1 \in DOMAIN t /\ 2 \in DOMAIN t /\ 3 \in DOMAIN t /\ 4 \in DOMAIN t
      /\ 5 \in DOMAIN t /\ \A n \in 1..count : n + 5 \in DOMAIN t
  BY <1>1, <1>3
<1>10. /\ Known \subseteq Fields(t)
       /\ required(t, Schema) = 2 /\ required(t, Generation) = g
       /\ required(t, Parts) = count /\ required(t, SuffixLength) = Width
       /\ required(t, ArchiveHash) = a /\ manifest_value(t, ArchiveHash) = a
  BY <1>4, <1>8, <1>9 DEF Known
<1>11. \A n \in 1..count : /\ PartHash(Width, n - 1) \in Fields(t)
                           /\ required(t, PartHash(Width, n - 1)) = a[n]
  BY <1>4, <1>8, <1>9
<1>12. Accepted(t)
  BY <1>1, <1>2, <1>6, <1>10, <1>11, OriginAssumption DEF Accepted, Known
<1>13. parseManifest(t).parts = [n \in 1..count |-> a[n]]
  BY <1>10, <1>11 DEF parseManifest
<1>14. parseManifest(t).parts = a
  BY <1>1, <1>13
<1>15. parseManifest(t) = [generation |-> g, width |-> Width, parts |-> a]
  BY <1>10, <1>14 DEF parseManifest
<1>16. ~Returns(t)
  BY <1>cr DEF Returns
<1> QED
  BY <1>7, <1>10, <1>12, <1>15, <1>16 DEF a
-------------------------------------------------------------------------------
\* Sequences of manifests.

Elements(s) == {s[n] : n \in DOMAIN s}

LEMMA ElementsAppend ==
  ASSUME NEW s, s \in Seq(Elements(s)), NEW e, NEW t, t = Append(s, e)
  PROVE  t \in Seq(Elements(t)) /\ Elements(t) = Elements(s) \cup {e}
<1> DEFINE S == Elements(s) \cup {e}
<1>1. s \in Seq(S) /\ e \in S
  <2>1. \A i \in 1..Len(s) : s[i] \in S
    BY DEF Elements
  <2> QED
    BY <2>1
<1>2. /\ t \in Seq(S) /\ Len(t) = Len(s) + 1
      /\ \A i \in 1..Len(s) : t[i] = s[i]
      /\ t[Len(s) + 1] = e
  BY <1>1, AppendProperties
<1>3. Len(s) \in Nat /\ DOMAIN s = 1..Len(s) /\ DOMAIN t = 1..Len(s) + 1
  BY <1>1, <1>2
<1>4. Elements(t) = S
  <2>1. ASSUME NEW x \in Elements(t) PROVE x \in S
    BY <1>2 DEF Elements
  <2>2. ASSUME NEW x \in S PROVE x \in Elements(t)
    <3>1. CASE x = e
      <4>1. Len(s) + 1 \in DOMAIN t
        BY <1>3
      <4> QED
        BY <4>1, <3>1, <1>2 DEF Elements
    <3>2. CASE x \in Elements(s)
      <4>1. PICK i \in 1..Len(s) : x = s[i]
        BY <3>2, <1>3 DEF Elements
      <4>2. i \in DOMAIN t /\ x = t[i]
        BY <4>1, <1>2, <1>3
      <4> QED
        BY <4>2 DEF Elements
    <3> QED
      BY <3>1, <3>2
  <2> QED
    BY <2>1, <2>2
<1> QED
  BY <1>2, <1>4

LEMMA ElementsRemove ==
  ASSUME NEW s, s \in Seq(Elements(s)), NEW n \in DOMAIN s,
         NEW t, t = RemoveAt(s, n)
  PROVE  t \in Seq(Elements(t)) /\ Elements(t) \subseteq Elements(s)
<1> DEFINE S == Elements(s)
           front == SubSeq(s, 1, n - 1)
           back == SubSeq(s, n + 1, Len(s))
<1>1. /\ Len(s) \in Nat /\ DOMAIN s = 1..Len(s) /\ n \in 1..Len(s)
      /\ \A i \in 1..Len(s) : s[i] \in S
  BY DEF Elements
<1>2. front \in Seq(S)
  <2>1. \A i \in 1..n - 1 : s[i] \in S
    BY <1>1
  <2> QED
    BY <1>1, <2>1, SubSeqProperties
<1>3. back \in Seq(S)
  <2>1. \A i \in n + 1..Len(s) : s[i] \in S
    BY <1>1
  <2> QED
    BY <1>1, <2>1, SubSeqProperties
<1>4. t \in Seq(S)
  BY <1>2, <1>3, ConcatProperties DEF RemoveAt
<1>5. \A i \in DOMAIN t : t[i] \in S
  BY <1>4
<1>6. Elements(t) \subseteq S
  BY <1>5 DEF Elements
<1>7. t \in Seq(Elements(t))
  <2>1. \A i \in 1..Len(t) : t[i] \in Elements(t)
    BY <1>4 DEF Elements
  <2> QED
    BY <1>4, <2>1
<1> QED
  BY <1>6, <1>7

\* The newest manifest is one of those the service has.
LEMMA LastIsElement ==
  ASSUME NEW s, s \in Seq(Elements(s)), s # <<>>
  PROVE  Last(s) \in Elements(s)
<1>1. Len(s) \in DOMAIN s
  OBVIOUS
<1> QED
  BY <1>1 DEF Last, Elements
-------------------------------------------------------------------------------
\* The inductive invariant.

\* The service: what is in it was packed, and keys are written once.
ServiceInv ==
  /\ \A m \in Elements(manifests) :
       m.generation \in Nat /\ DOMAIN m.text \subseteq Nat /\ Genuine(m.text)
  /\ \A s \in segments : InPlace(s)
  /\ \A r, s \in segments : Key(r) = Key(s) => r = s
  /\ \A s \in segments : s.generation \in Generations =>
       s.content.origin \in Job /\ pc[s.content.origin] # "restore"

\* A job that has nothing of the cache yet, or no longer.
IdleInv ==
  \A j \in Job : pc[j] \in {"restore", "install", "pack"} =>
    parts[j] = {} /\ cursor[j] = 0

\* The number of declared parts that a job has downloaded.
Got(j) == IF pc[j] = "parts" THEN cursor[j] ELSE Len(Declared(manifest[j]))

\* The files are the first of the declared parts, each from its place in a pack
\* of the manifest's generation.
Download(text, files, got) ==
  LET m == parseManifest(text)
  IN  /\ DOMAIN text \subseteq Nat /\ Accepted(text) /\ Genuine(text)
      /\ got <= Len(m.parts)
      /\ {f.name : f \in files} = {PartName(m.width, n - 1) : n \in 1..got}
      /\ \A f \in files : /\ f.content.index = f.name.index
                          /\ Run[f.content.origin] = m.generation

\* The cache still holds every file.
InCache(text, files, cached) ==
  \A f \in files :
    [generation |-> parseManifest(text).generation, name |-> f.name,
     content |-> f.content] \in cached

\* A job that downloads has the declared parts up to the cursor.
Downloading(j) ==
  /\ Download(manifest[j], parts[j], Got(j))
  /\ ~excused[j] => InCache(manifest[j], parts[j], segments)

DownloadInv ==
  \A j \in Job : pc[j] \in {"parts", "verify"} => Downloading(j)

\* A job that has a toolchain has one that was packed, its own unless it hit.
ToolchainInv ==
  /\ \A j \in Job : pc[j] \in {"pack", "save", "saved"} => toolchain[j] = Archive(j)
  /\ \A j \in Job : pc[j] = "hit" => \E o \in Origin : toolchain[j] = Archive(o)

\* The segment n of j's pack is in the cache, or what became of it is known.
Covered(j, n) ==
  LET key == [generation |-> Run[j], name |-> PartName(Width, n - 1)]
  IN  \/ key \in evicted \cup unsaved
      \/ \E s \in segments :
           /\ Key(s) = key
           /\ s.content = [origin |-> j, index |-> n - 1] \/ Rerun(Run[j])

\* A job that saves has covered the segments up to the cursor.
SaveInv ==
  \A j \in Job : pc[j] = "save" =>
    /\ manifest[j] = Packed(Run[j], Width, Archive(j))
    /\ parts[j] = {[name |-> PartName(Width, n - 1), content |-> Archive(j)[n]] :
                     n \in DOMAIN Archive(j)}
    /\ cursor[j] <= SegmentsOf[j]
    /\ \A n \in 1..cursor[j] : Covered(j, n)

\* A manifest of these runs was published by one of their jobs, all covered.
PublishedInv ==
  \A m \in Elements(manifests) : m.generation \in Generations =>
    \E j \in Job :
      /\ m = [generation |-> Run[j], text |-> Packed(Run[j], Width, Archive(j))]
      /\ pc[j] # "restore"
      /\ \A n \in 1..SegmentsOf[j] : Covered(j, n)

IInv == /\ TypeOK /\ ServiceInv /\ IdleInv /\ DownloadInv /\ ToolchainInv
        /\ SaveInv /\ PublishedInv
-------------------------------------------------------------------------------
\* Type correctness.

LEMMA NamesTyped ==
  /\ \A w, i \in Nat : PartName(w, i) \in PartRecord
  /\ \A w, i : PartName(w, i).width = w /\ PartName(w, i).index = i
  /\ \A v, w, i, k : PartName(v, i) = PartName(w, k) => v = w /\ i = k
  /\ Width \in Nat /\ Width \in 1..12
BY OriginAssumption DEF PartName, PartRecord

LEMMA AcceptedTyped ==
  ASSUME NEW text, Accepted(text)
  PROVE  /\ parseManifest(text).generation \in Nat
         /\ parseManifest(text).width \in Nat
         /\ Len(parseManifest(text).parts) \in Nat
         /\ Len(parseManifest(text).parts) = required(text, Parts)
         /\ DOMAIN parseManifest(text).parts = 1..required(text, Parts)
BY DEF Accepted, parseManifest

LEMMA InitType == Init => TypeOK
<1> SUFFICES ASSUME Init PROVE TypeOK
  OBVIOUS
<1>1. PICK e \in Earlier : manifests = e.manifests /\ segments = e.segments
  BY DEF Init
<1>2. /\ manifests \in Seq({manifests[n] : n \in DOMAIN manifests})
      /\ \A n \in DOMAIN manifests : manifests[n].generation \in Nat
      /\ segments \subseteq Segment
  BY <1>1, EarlierAssumption
<1> QED
  BY <1>2 DEF Init, TypeOK, Running, Ended

LEMMA TypeStep ==
  ASSUME TypeOK, ToolchainInv, DownloadInv, [Next]_vars
  PROVE  TypeOK'
<1> USE DEF TypeOK, Running, Ended
<1>1. ASSUME NEW j \in Job, LookupMiss(j)
      PROVE  TypeOK'
  BY <1>1 DEF LookupMiss, Miss, serviceVars
<1>2. ASSUME NEW j \in Job, LookupHit(j)
      PROVE  TypeOK'
  BY <1>2 DEF LookupHit, serviceVars
<1>3. ASSUME NEW j \in Job, RestorePart(j)
      PROVE  TypeOK'
  <2>1. PICK s \in Matches(parseManifest(manifest[j]).generation, CurrentName(j)) :
          parts' = [parts EXCEPT ![j] =
                      @ \cup {[name |-> s.name, content |-> s.content]}]
    BY <1>3 DEF RestorePart
  <2>2. s \in segments
    BY <2>1 DEF Matches
  <2>3. [name |-> s.name, content |-> s.content] \in File
    BY <2>2 DEF Segment, File
  <2>4. parts' \in [Job -> SUBSET File]
    BY <2>1, <2>3
  <2>5. cursor' \in [Job -> Nat]
    BY <1>3 DEF RestorePart
  <2> QED
    BY <1>3, <2>4, <2>5 DEF RestorePart, serviceVars
<1>4. ASSUME NEW j \in Job, RestorePartMiss(j)
      PROVE  TypeOK'
  BY <1>4 DEF RestorePartMiss, Miss, serviceVars
<1>5. ASSUME NEW j \in Job, Restored(j)
      PROVE  TypeOK'
  BY <1>5 DEF Restored, serviceVars
<1>6. ASSUME NEW j \in Job, Unpack(j)
      PROVE  TypeOK'
  <2>1. Selected(manifest[j], parts[j]) = manifest_value(manifest[j], ArchiveHash)
        /\ ShellAccepts(manifest[j])
    BY <1>6 DEF Unpack, Verified, Complete
  <2>2. Genuine(manifest[j])
    BY <1>6 DEF Unpack, DownloadInv, Downloading, Download
  <2>3. Selected(manifest[j], parts[j]) \in Seq(Content)
    BY <2>1, <2>2, ArchiveIsSeq DEF Genuine
  <2> QED
    BY <1>6, <2>3 DEF Unpack, Forget, serviceVars
<1>7. ASSUME NEW j \in Job, UnpackMiss(j)
      PROVE  TypeOK'
  BY <1>7 DEF UnpackMiss, Miss, serviceVars
<1>8. ASSUME NEW j \in Job, Install(j)
      PROVE  TypeOK'
  <2>1. Archive(j) \in Seq(Content)
    BY ArchiveIsSeq DEF Origin
  <2> QED
    BY <1>8, <2>1 DEF Install, Forget, serviceVars
<1>9. ASSUME NEW j \in Job, Pack(j)
      PROVE  TypeOK'
  <2>1. toolchain[j] = Archive(j)
    BY <1>9 DEF Pack, ToolchainInv
  <2>2. \A n \in DOMAIN Archive(j) :
          [name |-> PartName(Width, n - 1), content |-> Archive(j)[n]] \in File
    <3> SUFFICES ASSUME NEW n \in DOMAIN Archive(j)
                 PROVE  [name |-> PartName(Width, n - 1),
                         content |-> Archive(j)[n]] \in File
      OBVIOUS
    <3>1. n - 1 \in Nat /\ Archive(j)[n] \in Content
      BY ArchiveIsSeq DEF Origin
    <3>2. PartName(Width, n - 1) \in PartRecord
      BY <3>1, NamesTyped
    <3> QED
      BY <3>1, <3>2 DEF File
  <2>3. parts' \in [Job -> SUBSET File]
    BY <1>9, <2>1, <2>2 DEF Pack
  <2> QED
    BY <1>9, <2>3 DEF Pack, serviceVars
<1>10. ASSUME NEW j \in Job, SavePart(j)
       PROVE  TypeOK'
  <2> DEFINE key == [generation |-> Run[j], name |-> CurrentName(j)]
             new == {[generation |-> Run[j], name |-> f.name,
                      content |-> f.content] : f \in CurrentFile(j)}
  <2>1. Run[j] \in Nat
    BY OriginAssumption DEF Origin
  <2>2. new \subseteq Segment
    <3>1. CurrentFile(j) \subseteq File
      BY DEF CurrentFile
    <3> QED
      BY <2>1, <3>1 DEF File, Segment
  <2>3. key \in SegmentKey
    <3>1. CurrentName(j) \in PartRecord
      BY <1>10, AcceptedTyped, NamesTyped DEF SavePart, CurrentName
    <3> QED
      BY <2>1, <3>1 DEF SegmentKey
  <2>4. /\ segments' \in {segments, segments \cup new}
        /\ evicted' \in {evicted, evicted \ {key}}
        /\ unsaved' \in {unsaved, unsaved \ {key}, unsaved \cup {key}}
    BY <1>10 DEF SavePart
  <2> HIDE DEF key, new
  <2>5. /\ segments' \subseteq Segment /\ evicted' \subseteq SegmentKey
        /\ unsaved' \subseteq SegmentKey
    BY <2>2, <2>3, <2>4
  <2>6. cursor' \in [Job -> Nat]
    BY <1>10 DEF SavePart
  <2> QED
    BY <1>10, <2>5, <2>6 DEF SavePart
<1>11. ASSUME NEW j \in Job, Publish(j)
       PROVE  TypeOK'
  <2>1. manifests' \in Seq(Elements(manifests'))
        /\ \A m \in Elements(manifests') : m.generation \in Nat
    <3>1. manifests \in Seq(Elements(manifests))
          /\ \A m \in Elements(manifests) : m.generation \in Nat
      BY DEF Elements
    <3>2. CASE manifests' = manifests
      BY <3>1, <3>2
    <3>3. CASE manifests' = Append(manifests,
                 [generation |-> Run[j], text |-> manifest[j]])
      <4>1. Run[j] \in Nat
        BY OriginAssumption DEF Origin
      <4>2. /\ manifests' \in Seq(Elements(manifests'))
            /\ Elements(manifests') = Elements(manifests) \cup
                 {[generation |-> Run[j], text |-> manifest[j]]}
        BY <3>1, <3>3, ElementsAppend
      <4> QED
        BY <3>1, <4>1, <4>2
    <3> QED
      BY <1>11, <3>2, <3>3 DEF Publish
  <2>2. manifests' \in Seq({manifests'[n] : n \in DOMAIN manifests'})
        /\ \A n \in DOMAIN manifests' : manifests'[n].generation \in Nat
    BY <2>1 DEF Elements
  <2> QED
    BY <1>11, <2>2 DEF Publish, Forget
<1>12. ASSUME NEW j \in Job, Cancel(j)
       PROVE  TypeOK'
  BY <1>12 DEF Cancel, Forget, serviceVars
<1>13. ASSUME NEW s \in segments, EvictSegment(s)
       PROVE  TypeOK'
  <2>1. Key(s) \in SegmentKey
    BY DEF Key, Segment, SegmentKey
  <2> QED
    BY <1>13, <2>1 DEF EvictSegment
<1>14. ASSUME NEW n \in DOMAIN manifests, EvictManifest(n)
       PROVE  TypeOK'
  <2>1. manifests' \in Seq(Elements(manifests'))
        /\ Elements(manifests') \subseteq Elements(manifests)
    <3>1. manifests \in Seq(Elements(manifests))
      BY DEF Elements
    <3> QED
      BY <1>14, <3>1, ElementsRemove DEF EvictManifest
  <2>2. \A m \in Elements(manifests) : m.generation \in Nat
    BY DEF Elements
  <2>3. \A m \in Elements(manifests') : m.generation \in Nat
    BY <2>1, <2>2
  <2>4. manifests' \in Seq({manifests'[k] : k \in DOMAIN manifests'})
        /\ \A k \in DOMAIN manifests' : manifests'[k].generation \in Nat
    BY <2>1, <2>3 DEF Elements
  <2> QED
    BY <1>14, <2>4 DEF EvictManifest
<1>15. CASE UNCHANGED vars
  BY <1>15 DEF vars, serviceVars
<1> QED
  BY <1>1, <1>2, <1>3, <1>4, <1>5, <1>6, <1>7, <1>8, <1>9, <1>10, <1>11, <1>12,
     <1>13, <1>14, <1>15 DEF Next, Step
-------------------------------------------------------------------------------
\* What a step can do to the service, and what it cannot undo.

\* A manifest that is new was published.
LEMMA ManifestsStep ==
  ASSUME TypeOK, [Next]_vars
  PROVE  \A m \in Elements(manifests') :
           \/ m \in Elements(manifests)
           \/ \E j \in Job : /\ Publish(j)
                             /\ m = [generation |-> Run[j], text |-> manifest[j]]
<1>0. manifests \in Seq(Elements(manifests))
  BY DEF TypeOK, Elements
<1>1. CASE manifests' = manifests
  BY <1>1
<1>2. ASSUME NEW j \in Job, Publish(j),
             manifests' = Append(manifests,
               [generation |-> Run[j], text |-> manifest[j]])
      PROVE  \A m \in Elements(manifests') :
               \/ m \in Elements(manifests)
               \/ m = [generation |-> Run[j], text |-> manifest[j]]
  <2>1. Elements(manifests') = Elements(manifests) \cup
          {[generation |-> Run[j], text |-> manifest[j]]}
    BY <1>0, <1>2, ElementsAppend
  <2> QED
    BY <2>1
<1>3. ASSUME NEW n \in DOMAIN manifests, EvictManifest(n)
      PROVE  Elements(manifests') \subseteq Elements(manifests)
  BY <1>0, <1>3, ElementsRemove DEF EvictManifest
<1>4. \/ manifests' = manifests
      \/ \E j \in Job : Publish(j)
      \/ \E n \in DOMAIN manifests : EvictManifest(n)
  <2>1. ASSUME NEW j \in Job, Step(j), ~Publish(j)
        PROVE  manifests' = manifests
    BY <2>1 DEF Step, LookupMiss, LookupHit, RestorePart, RestorePartMiss,
                Restored, Unpack, UnpackMiss, Install, Pack, SavePart, Miss,
                serviceVars
  <2>2. ASSUME NEW j \in Job, Cancel(j)
        PROVE  manifests' = manifests
    BY <2>2 DEF Cancel, serviceVars
  <2>3. ASSUME NEW s \in segments, EvictSegment(s)
        PROVE  manifests' = manifests
    BY <2>3 DEF EvictSegment
  <2>4. CASE UNCHANGED vars
    BY <2>4 DEF vars, serviceVars
  <2> QED
    BY <2>1, <2>2, <2>3, <2>4 DEF Next
<1>5. ASSUME NEW j \in Job, Publish(j)
      PROVE  \/ manifests' = manifests
             \/ manifests' = Append(manifests,
                  [generation |-> Run[j], text |-> manifest[j]])
  BY <1>5 DEF Publish
<1> QED
  BY <1>1, <1>2, <1>3, <1>4, <1>5

\* The other variables of the service change only with a segment.
LEMMA SegmentsStep ==
  ASSUME [Next]_vars
  PROVE  \/ UNCHANGED <<segments, evicted, unsaved>>
         \/ \E j \in Job : SavePart(j)
         \/ \E s \in segments : EvictSegment(s)
<1>1. ASSUME NEW j \in Job, Step(j), ~SavePart(j)
      PROVE  UNCHANGED <<segments, evicted, unsaved>>
  BY <1>1 DEF Step, LookupMiss, LookupHit, RestorePart, RestorePartMiss,
              Restored, Unpack, UnpackMiss, Install, Pack, Publish, Miss,
              serviceVars
<1>2. ASSUME NEW j \in Job, Cancel(j)
      PROVE  UNCHANGED <<segments, evicted, unsaved>>
  BY <1>2 DEF Cancel, serviceVars
<1>3. ASSUME NEW n \in DOMAIN manifests, EvictManifest(n)
      PROVE  UNCHANGED <<segments, evicted, unsaved>>
  BY <1>3 DEF EvictManifest
<1>4. CASE UNCHANGED vars
  BY <1>4 DEF vars, serviceVars
<1> QED
  BY <1>1, <1>2, <1>3, <1>4 DEF Next

\* A job that has begun does not begin again.
LEMMA BegunStays ==
  ASSUME TypeOK, [Next]_vars, NEW j \in Job, pc[j] # "restore"
  PROVE  pc'[j] # "restore"
<1>1. ASSUME NEW k \in Job, Step(k) \/ Cancel(k)
      PROVE  pc'[j] # "restore"
  BY <1>1 DEF TypeOK, Step, LookupMiss, LookupHit, RestorePart, RestorePartMiss,
              Restored, Unpack, UnpackMiss, Install, Pack, SavePart, Publish,
              Cancel, Miss
<1>2. ASSUME NEW s \in segments, EvictSegment(s)
      PROVE  pc'[j] # "restore"
  BY <1>2 DEF EvictSegment
<1>3. ASSUME NEW n \in DOMAIN manifests, EvictManifest(n)
      PROVE  pc'[j] # "restore"
  BY <1>3 DEF EvictManifest
<1>4. CASE UNCHANGED vars
  BY <1>4 DEF vars
<1> QED
  BY <1>1, <1>2, <1>3, <1>4 DEF Next

LEMMA RerunStays ==
  ASSUME TypeOK, [Next]_vars, NEW g, Rerun(g)
  PROVE  Rerun(g)'
BY BegunStays DEF Rerun

\* Two attempts of one run that have begun: one of them is a later one.
LEMMA TwoAttempts ==
  ASSUME NEW a \in Job, NEW b \in Job, a # b, Run[a] = Run[b],
         pc[a] # "restore", pc[b] # "restore"
  PROVE  Rerun(Run[a])
BY OriginAssumption DEF Rerun

\* The file that a saving job offers is the segment of its pack that the cursor
\* is at.
LEMMA SavedFile ==
  ASSUME TypeOK, SaveInv, NEW j \in Job, SavePart(j)
  PROVE  LET n == cursor[j] + 1
             file == [name |-> PartName(Width, n - 1),
                      content |-> [origin |-> j, index |-> n - 1]]
         IN  /\ n \in 1..SegmentsOf[j] /\ cursor[j] \in Nat
             /\ CurrentName(j) = PartName(Width, n - 1)
             /\ CurrentFile(j) = {file}
<1>1. /\ pc[j] = "save" /\ ~AllTransferred(j)
      /\ manifest[j] = Packed(Run[j], Width, Archive(j))
      /\ parts[j] = {[name |-> PartName(Width, n - 1), content |-> Archive(j)[n]] :
                       n \in DOMAIN Archive(j)}
      /\ cursor[j] <= SegmentsOf[j] /\ cursor[j] \in Nat
  BY DEF SavePart, SaveInv, TypeOK
<1>2. /\ Run[j] \in Nat /\ j \in Origin
  BY OriginAssumption DEF Origin
<1>3. parseManifest(manifest[j]) =
        [generation |-> Run[j], width |-> Width, parts |-> Archive(j)]
  BY <1>1, <1>2, PackedReads
<1>4. /\ Len(Archive(j)) = SegmentsOf[j] /\ SegmentsOf[j] \in Nat
      /\ DOMAIN Archive(j) = 1..SegmentsOf[j]
      /\ \A n \in 1..SegmentsOf[j] :
           Archive(j)[n] = [origin |-> j, index |-> n - 1]
  BY <1>2, ArchiveIsSeq
<1>5. cursor[j] # SegmentsOf[j]
  BY <1>1, <1>3, <1>4 DEF AllTransferred, Declared
<1> DEFINE n == cursor[j] + 1
           file(k) == [name |-> PartName(Width, k - 1),
                       content |-> [origin |-> j, index |-> k - 1]]
<1>6. n \in 1..SegmentsOf[j] /\ n - 1 = cursor[j]
  BY <1>1, <1>4, <1>5
<1>7. CurrentName(j) = PartName(Width, n - 1)
  BY <1>3, <1>6 DEF CurrentName
<1>8. parts[j] = {file(k) : k \in 1..SegmentsOf[j]}
  BY <1>1, <1>4
<1>9. \A k \in 1..SegmentsOf[j] :
        file(k).name = PartName(Width, n - 1) => k = n
  <2> SUFFICES ASSUME NEW k \in 1..SegmentsOf[j],
                      PartName(Width, k - 1) = PartName(Width, n - 1)
               PROVE  k = n
    OBVIOUS
  <2>1. k - 1 = n - 1
    BY NamesTyped
  <2> QED
    BY <2>1, <1>4, <1>6
<1>10. CurrentFile(j) = {file(n)}
  <2>1. file(n) \in CurrentFile(j)
    BY <1>6, <1>7, <1>8 DEF CurrentFile
  <2>2. ASSUME NEW f \in CurrentFile(j) PROVE f = file(n)
    <3>1. PICK k \in 1..SegmentsOf[j] : f = file(k)
      BY <1>8 DEF CurrentFile
    <3>2. file(k).name = PartName(Width, n - 1)
      BY <3>1, <1>7 DEF CurrentFile
    <3> QED
      BY <3>1, <3>2, <1>9
  <2> QED
    BY <2>1, <2>2
<1> QED
  BY <1>1, <1>6, <1>7, <1>10

\* What saving a segment does: nothing, if its key is taken; else it is stored or
\* its upload fails.
LEMMA SavedSegment ==
  ASSUME TypeOK, SaveInv, NEW j \in Job, SavePart(j), NEW n, n = cursor[j] + 1
  PROVE  LET key == [generation |-> Run[j], name |-> PartName(Width, n - 1)]
             new == [generation |-> Run[j], name |-> PartName(Width, n - 1),
                     content |-> [origin |-> j, index |-> n - 1]]
         IN  \/ /\ \E s \in segments : Key(s) = key
                /\ UNCHANGED <<segments, evicted, unsaved>>
             \/ /\ \A s \in segments : Key(s) # key
                /\ segments' = segments \cup {new}
                /\ evicted' = evicted \ {key} /\ unsaved' = unsaved \ {key}
             \/ /\ \A s \in segments : Key(s) # key
                /\ unsaved' = unsaved \cup {key} /\ evicted' = evicted \ {key}
                /\ UNCHANGED segments
<1> DEFINE key == [generation |-> Run[j], name |-> PartName(Width, n - 1)]
           new == [generation |-> Run[j], name |-> PartName(Width, n - 1),
                   content |-> [origin |-> j, index |-> n - 1]]
           file == [name |-> PartName(Width, n - 1),
                    content |-> [origin |-> j, index |-> n - 1]]
<1>1. CurrentName(j) = PartName(Width, n - 1) /\ CurrentFile(j) = {file}
  BY SavedFile
<1>2. {[generation |-> Run[j], name |-> f.name, content |-> f.content] :
         f \in CurrentFile(j)} = {new}
  BY <1>1
<1>3. key = [generation |-> Run[j], name |-> CurrentName(j)]
  BY <1>1
<1> QED
  BY <1>2, <1>3 DEF SavePart

\* The segments of a job that has begun stay covered.
LEMMA CoveredStays ==
  ASSUME TypeOK, SaveInv, [Next]_vars,
         NEW i \in Job, NEW k \in 1..SegmentsOf[i], Covered(i, k),
         pc[i] # "restore"
  PROVE  Covered(i, k)'
<1> DEFINE key == [generation |-> Run[i], name |-> PartName(Width, k - 1)]
<1>1. Rerun(Run[i]) => Rerun(Run[i])'
  BY RerunStays
<1>2. CASE UNCHANGED <<segments, evicted, unsaved>>
  BY <1>1, <1>2 DEF Covered
<1>3. ASSUME NEW s \in segments, EvictSegment(s)
      PROVE  Covered(i, k)'
  <2>1. /\ segments' = segments \ {s} /\ evicted' = evicted \cup {Key(s)}
        /\ unsaved' = unsaved
    BY <1>3 DEF EvictSegment
  <2>2. CASE key \in evicted' \cup unsaved'
    BY <2>2 DEF Covered
  <2>3. CASE key \notin evicted' \cup unsaved'
    <3>1. PICK r \in segments :
            /\ Key(r) = key
            /\ r.content = [origin |-> i, index |-> k - 1] \/ Rerun(Run[i])
      BY <2>1, <2>3 DEF Covered
    <3>2. r \in segments'
      BY <2>1, <2>3, <3>1
    <3> QED
      BY <1>1, <3>1, <3>2 DEF Covered, Key
  <2> QED
    BY <2>2, <2>3
<1>4. ASSUME NEW j \in Job, SavePart(j)
      PROVE  Covered(i, k)'
  <2> DEFINE n == cursor[j] + 1
             other == [generation |-> Run[j], name |-> PartName(Width, n - 1)]
             new == [generation |-> Run[j], name |-> PartName(Width, n - 1),
                     content |-> [origin |-> j, index |-> n - 1]]
  <2>1. \/ UNCHANGED <<segments, evicted, unsaved>>
        \/ /\ segments' = segments \cup {new}
           /\ evicted' = evicted \ {other} /\ unsaved' = unsaved \ {other}
        \/ /\ unsaved' = unsaved \cup {other} /\ evicted' = evicted \ {other}
           /\ UNCHANGED segments
    BY <1>4, SavedSegment
  <2>2. n \in Nat /\ k \in Nat
    BY <1>4, SavedFile, OriginAssumption DEF Origin
  <2>3. CASE key = other /\ segments' = segments \cup {new}
    <3>1. Run[i] = Run[j] /\ k = n
      <4>1. k - 1 = n - 1
        BY <2>3, NamesTyped
      <4> QED
        BY <2>2, <2>3, <4>1
    <3>2. Key(new) = key
      BY <2>3 DEF Key
    <3>3. new.content = [origin |-> i, index |-> k - 1] \/ Rerun(Run[i])'
      <4>1. CASE i = j
        BY <3>1, <4>1
      <4>2. CASE i # j
        <5>1. pc[j] # "restore"
          BY <1>4 DEF SavePart
        <5>2. Rerun(Run[i])
          BY <3>1, <4>2, <5>1, TwoAttempts
        <5> QED
          BY <5>2, <1>1
      <4> QED
        BY <4>1, <4>2
    <3>4. new \in segments'
      BY <2>3
    <3> QED
      BY <3>2, <3>3, <3>4 DEF Covered, Key
  <2>4. CASE key = other /\ unsaved' = unsaved \cup {other}
    BY <2>4 DEF Covered
  <2>5. CASE /\ key # other
             /\ segments \subseteq segments'
             /\ evicted \ {other} \subseteq evicted'
             /\ unsaved \ {other} \subseteq unsaved'
    <3>1. CASE key \in evicted \cup unsaved
      BY <2>5, <3>1 DEF Covered
    <3>2. CASE key \notin evicted \cup unsaved
      <4>1. PICK r \in segments :
              /\ Key(r) = key
              /\ r.content = [origin |-> i, index |-> k - 1] \/ Rerun(Run[i])
        BY <3>2 DEF Covered
      <4> QED
        BY <1>1, <2>5, <4>1 DEF Covered, Key
    <3> QED
      BY <3>1, <3>2
  <2> HIDE DEF key, other, new, n
  <2>6. CASE UNCHANGED <<segments, evicted, unsaved>>
    BY <2>6, <1>2
  <2> QED
    BY <2>1, <2>3, <2>4, <2>5, <2>6
<1> QED
  BY <1>2, <1>3, <1>4, SegmentsStep

\* The segment that was just offered is covered.
LEMMA SavedIsCovered ==
  ASSUME TypeOK, ServiceInv, SaveInv, [Next]_vars, NEW j \in Job, SavePart(j),
         NEW n, n = cursor[j] + 1
  PROVE  Covered(j, n)'
<1> DEFINE key == [generation |-> Run[j], name |-> PartName(Width, n - 1)]
           new == [generation |-> Run[j], name |-> PartName(Width, n - 1),
                   content |-> [origin |-> j, index |-> n - 1]]
<1>1. \/ (\E s \in segments : Key(s) = key) /\ UNCHANGED segments
      \/ segments' = segments \cup {new}
      \/ key \in unsaved'
  BY SavedSegment
<1>2. CASE segments' = segments \cup {new}
  <2>1. new \in segments' /\ Key(new) = key
        /\ new.content = [origin |-> j, index |-> n - 1]
    BY <1>2 DEF Key
  <2> HIDE DEF new
  <2> QED
    BY <2>1 DEF Covered, Key
<1>3. CASE key \in unsaved'
  BY <1>3 DEF Covered
<1>4. CASE (\E s \in segments : Key(s) = key) /\ UNCHANGED segments
  <2>1. PICK s \in segments : Key(s) = key
    BY <1>4
  <2>2. s.generation = Run[j] /\ s.name = PartName(Width, n - 1)
    BY <2>1 DEF Key
  <2>3. s.content.origin \in Job /\ pc[s.content.origin] # "restore"
    BY <2>2 DEF ServiceInv, Generations
  <2>4. s.content.index = n - 1 /\ Run[s.content.origin] = Run[j]
    BY <2>2, NamesTyped DEF ServiceInv, InPlace
  <2>5. s.content \in Content
    BY DEF TypeOK, Segment
  <2>6. CASE s.content.origin = j
    <3>1. s.content = [origin |-> j, index |-> n - 1]
      BY <2>4, <2>5, <2>6 DEF Content
    <3> QED
      BY <1>4, <2>1, <3>1 DEF Covered, Key
  <2>7. CASE s.content.origin # j
    <3>1. pc[j] # "restore"
      BY DEF SavePart
    <3>2. Rerun(Run[j])
      BY <2>3, <2>4, <2>7, <3>1, TwoAttempts
    <3>3. Rerun(Run[j])'
      BY <3>2, RerunStays
    <3> QED
      BY <1>4, <2>1, <3>3 DEF Covered, Key
  <2> QED
    BY <2>6, <2>7
<1> QED
  BY <1>1, <1>2, <1>3, <1>4
-------------------------------------------------------------------------------
\* The steps preserve the invariant.

\* A job packs and saves under its own number.
LEMMA SavingReads ==
  ASSUME SaveInv, NEW j \in Job, pc[j] = "save"
  PROVE  /\ Run[j] \in Nat /\ j \in Origin
         /\ manifest[j] = Packed(Run[j], Width, Archive(j))
         /\ DOMAIN manifest[j] \subseteq Nat /\ Genuine(manifest[j])
         /\ Declared(manifest[j]) = Archive(j)
<1>1. Run[j] \in Nat /\ j \in Origin
  BY OriginAssumption DEF Origin
<1>2. manifest[j] = Packed(Run[j], Width, Archive(j))
  BY DEF SaveInv
<1> QED
  BY <1>1, <1>2, PackedReads DEF Genuine, Declared

LEMMA ServiceStep ==
  ASSUME IInv, [Next]_vars
  PROVE  ServiceInv'
<1> USE DEF IInv
<1>1. \A m \in Elements(manifests') :
        m.generation \in Nat /\ DOMAIN m.text \subseteq Nat /\ Genuine(m.text)
  <2> SUFFICES ASSUME NEW m \in Elements(manifests')
               PROVE  m.generation \in Nat /\ DOMAIN m.text \subseteq Nat
                      /\ Genuine(m.text)
    OBVIOUS
  <2>1. CASE m \in Elements(manifests)
    BY <2>1 DEF ServiceInv
  <2>2. ASSUME NEW j \in Job, Publish(j),
               m = [generation |-> Run[j], text |-> manifest[j]]
        PROVE  m.generation \in Nat /\ DOMAIN m.text \subseteq Nat
               /\ Genuine(m.text)
    BY <2>2, SavingReads DEF Publish
  <2> QED
    BY <2>1, <2>2, ManifestsStep
<1>2. \A s \in segments : s.generation \in Generations =>
        s.content.origin \in Job /\ pc'[s.content.origin] # "restore"
  BY BegunStays DEF ServiceInv
<1>3. CASE segments' \subseteq segments
  BY <1>1, <1>2, <1>3 DEF ServiceInv, Elements
<1>4. ASSUME NEW j \in Job, SavePart(j)
      PROVE  ServiceInv'
  <2> DEFINE n == cursor[j] + 1
             new == [generation |-> Run[j], name |-> PartName(Width, n - 1),
                     content |-> [origin |-> j, index |-> n - 1]]
  <2>1. \/ segments' = segments
        \/ /\ segments' = segments \cup {new}
           /\ \A s \in segments : Key(s) # Key(new)
    BY <1>4, SavedSegment DEF Key
  <2>2. InPlace(new) /\ new.content.origin = j
    BY NamesTyped DEF InPlace
  <2>3. pc'[j] # "restore"
    BY <1>4, BegunStays DEF SavePart
  <2> HIDE DEF new
  <2>4. CASE segments' = segments \cup {new} /\ \A s \in segments : Key(s) # Key(new)
    <3>1. \A s \in segments' : InPlace(s)
      BY <2>2, <2>4 DEF ServiceInv
    <3>2. \A r, s \in segments' : Key(r) = Key(s) => r = s
      BY <2>4 DEF ServiceInv
    <3>3. \A s \in segments' : s.generation \in Generations =>
            s.content.origin \in Job /\ pc'[s.content.origin] # "restore"
      BY <1>2, <2>2, <2>3, <2>4
    <3> QED
      BY <1>1, <3>1, <3>2, <3>3 DEF ServiceInv, Elements
  <2> QED
    BY <1>3, <2>1, <2>4
<1>5. ASSUME NEW s \in segments, EvictSegment(s)
      PROVE  segments' \subseteq segments
  BY <1>5 DEF EvictSegment
<1> QED
  BY <1>3, <1>4, <1>5, SegmentsStep

\* A step of one job leaves what the others have.
LEMMA OthersKept ==
  ASSUME TypeOK, NEW k \in Job, Step(k) \/ Cancel(k), NEW j \in Job, j # k
  PROVE  /\ pc'[j] = pc[j] /\ manifest'[j] = manifest[j] /\ parts'[j] = parts[j]
         /\ cursor'[j] = cursor[j] /\ toolchain'[j] = toolchain[j]
         /\ excused'[j] = excused[j]
<1> USE DEF TypeOK
<1>1. CASE LookupMiss(k) \/ LookupHit(k)
  BY <1>1 DEF LookupMiss, LookupHit, Miss
<1>2. CASE RestorePart(k) \/ RestorePartMiss(k) \/ Restored(k)
  BY <1>2 DEF RestorePart, RestorePartMiss, Restored, Miss
<1>3. CASE Unpack(k) \/ UnpackMiss(k)
  BY <1>3 DEF Unpack, UnpackMiss, Miss, Forget
<1>4. CASE Install(k) \/ Pack(k)
  BY <1>4 DEF Install, Pack, Forget
<1>5. CASE SavePart(k) \/ Publish(k)
  BY <1>5 DEF SavePart, Publish, Forget
<1>6. CASE Cancel(k)
  BY <1>6 DEF Cancel, Forget
<1> QED
  BY <1>1, <1>2, <1>3, <1>4, <1>5, <1>6 DEF Step

\* Only an eviction takes a segment away.
LEMMA SegmentsKept ==
  ASSUME NEW k \in Job, Step(k) \/ Cancel(k)
  PROVE  segments \subseteq segments'
<1>1. CASE SavePart(k)
  BY <1>1 DEF SavePart
<1>2. CASE Step(k) /\ ~SavePart(k)
  BY <1>2 DEF Step, LookupMiss, LookupHit, RestorePart, RestorePartMiss,
              Restored, Unpack, UnpackMiss, Install, Pack, Publish, Miss,
              serviceVars
<1>3. CASE Cancel(k)
  BY <1>3 DEF Cancel, serviceVars
<1> QED
  BY <1>1, <1>2, <1>3

LEMMA IdleStep ==
  ASSUME IInv, [Next]_vars
  PROVE  IdleInv'
<1> USE DEF IInv
<1>1. ASSUME NEW k \in Job, Step(k) \/ Cancel(k)
      PROVE  IdleInv'
  <2> SUFFICES ASSUME NEW j \in Job, pc'[j] \in {"restore", "install", "pack"}
               PROVE  parts'[j] = {} /\ cursor'[j] = 0
    BY DEF IdleInv
  <2>1. CASE j # k
    BY <1>1, <2>1, OthersKept DEF IdleInv
  <2>2. CASE j = k
    <3>1. CASE LookupMiss(k) \/ RestorePartMiss(k) \/ UnpackMiss(k)
      BY <2>2, <3>1 DEF LookupMiss, RestorePartMiss, UnpackMiss, Miss, TypeOK
    <3>2. CASE Install(k)
      BY <2>2, <3>2 DEF Install, Forget, IdleInv, TypeOK
    <3>3. CASE LookupHit(k) \/ Restored(k) \/ Unpack(k) \/ Pack(k) \/ Publish(k)
      BY <2>2, <3>3 DEF LookupHit, Restored, Unpack, Pack, Publish, TypeOK
    <3>4. CASE RestorePart(k) \/ SavePart(k) \/ Cancel(k)
      BY <2>2, <3>4 DEF RestorePart, SavePart, Cancel, TypeOK
    <3> QED
      BY <1>1, <3>1, <3>2, <3>3, <3>4 DEF Step
  <2> QED
    BY <2>1, <2>2
<1>2. CASE UNCHANGED <<pc, parts, cursor>>
  BY <1>2 DEF IdleInv
<1> QED
  BY <1>1, <1>2 DEF Next, EvictSegment, EvictManifest, vars

\* The newest manifest is genuine.
LEMMA NewestGenuine ==
  ASSUME TypeOK, ServiceInv, manifests # <<>>
  PROVE  DOMAIN Last(manifests).text \subseteq Nat /\ Genuine(Last(manifests).text)
<1>1. manifests \in Seq(Elements(manifests))
  BY DEF TypeOK, Elements
<1> QED
  BY <1>1, LastIsElement DEF ServiceInv

\* A part that arrived is the one at the cursor.
LEMMA DownloadPart ==
  ASSUME IInv, NEW j \in Job, RestorePart(j)
  PROVE  Downloading(j)'
<1> USE DEF IInv
<1> DEFINE m == parseManifest(manifest[j])
           c == cursor[j]
<1>1. PICK s \in Matches(m.generation, CurrentName(j)) :
        /\ s.generation = m.generation
        /\ parts' = [parts EXCEPT ![j] =
                       @ \cup {[name |-> s.name, content |-> s.content]}]
  BY DEF RestorePart
<1> DEFINE file == [name |-> s.name, content |-> s.content]
<1>2. /\ pc[j] = "parts" /\ pc'[j] = "parts" /\ manifest'[j] = manifest[j]
      /\ cursor'[j] = c + 1 /\ excused'[j] = excused[j] /\ segments' = segments
      /\ parts'[j] = parts[j] \cup {file} /\ c \in Nat
  BY <1>1 DEF RestorePart, TypeOK, serviceVars
<1>3. Downloading(j) /\ Got(j) = c
  BY <1>2 DEF DownloadInv, Got
<1>4. Len(m.parts) \in Nat /\ c < Len(m.parts)
  <2>1. Len(m.parts) \in Nat /\ c <= Len(m.parts)
    BY <1>2, <1>3, AcceptedTyped DEF Downloading, Download
  <2>2. c # Len(m.parts)
    BY DEF RestorePart, AllTransferred, Declared
  <2> QED
    BY <1>2, <2>1, <2>2
<1>5. s \in segments /\ s.name = PartName(m.width, c)
  BY DEF Matches, CurrentName
<1>6. file.content.index = file.name.index /\ Run[file.content.origin] = m.generation
  BY <1>1, <1>5 DEF ServiceInv, InPlace
<1>7. [generation |-> m.generation, name |-> file.name, content |-> file.content]
        \in segments
  <2>1. s \in Segment
    BY <1>5 DEF TypeOK
  <2>2. s = [generation |-> s.generation, name |-> s.name, content |-> s.content]
    BY <2>1 DEF Segment
  <2> QED
    BY <1>1, <1>5, <2>2
<1>8. Got(j)' = c + 1
  BY <1>2 DEF Got
<1>9. {f.name : f \in parts'[j]} = {PartName(m.width, n - 1) : n \in 1..c + 1}
  <2>1. {f.name : f \in parts'[j]} = {f.name : f \in parts[j]} \cup {file.name}
    BY <1>2
  <2>2. {f.name : f \in parts[j]} = {PartName(m.width, n - 1) : n \in 1..c}
    BY <1>3 DEF Downloading, Download, InCache
  <2>3. file.name = PartName(m.width, (c + 1) - 1)
    BY <1>2, <1>5
  <2>4. 1..c + 1 = 1..c \cup {c + 1}
    BY <1>2
  <2> HIDE DEF file, m, c
  <2> QED
    BY <2>1, <2>2, <2>3, <2>4
<1>10. /\ DOMAIN manifest[j] \subseteq Nat /\ Accepted(manifest[j])
       /\ Genuine(manifest[j])
       /\ \A f \in parts[j] : /\ f.content.index = f.name.index
                              /\ Run[f.content.origin] = m.generation
       /\ ~excused[j] => \A f \in parts[j] :
            [generation |-> m.generation, name |-> f.name, content |-> f.content]
              \in segments
  BY <1>3 DEF Downloading, Download, InCache
<1>11. c + 1 <= Len(m.parts)
  BY <1>2, <1>4
<1> HIDE DEF file
<1>12. \A f \in parts'[j] : /\ f.content.index = f.name.index
                            /\ Run[f.content.origin] = m.generation
  BY <1>2, <1>6, <1>10
<1>13. ~excused'[j] => \A f \in parts'[j] :
         [generation |-> m.generation, name |-> f.name, content |-> f.content]
           \in segments'
  BY <1>2, <1>7, <1>10
<1> QED
  BY <1>2, <1>8, <1>9, <1>10, <1>11, <1>12, <1>13 DEF Downloading, Download, InCache

LEMMA DownloadStep ==
  ASSUME IInv, [Next]_vars
  PROVE  DownloadInv'
<1> USE DEF IInv
<1>1. ASSUME NEW j \in Job, Downloading(j), pc'[j] = pc[j],
             manifest'[j] = manifest[j], parts'[j] = parts[j],
             cursor'[j] = cursor[j],
             excused'[j] \/ (excused'[j] = excused[j] /\ segments \subseteq segments')
      PROVE  Downloading(j)'
  <2>1. Got(j)' = Got(j)
    BY <1>1 DEF Got
  <2>2. Download(manifest[j], parts[j], Got(j))
        /\ (~excused'[j] => InCache(manifest[j], parts[j], segments'))
    BY <1>1 DEF Downloading, InCache
  <2> QED
    BY <1>1, <2>1, <2>2 DEF Downloading
<1>2. ASSUME NEW k \in Job, Step(k) \/ Cancel(k)
      PROVE  DownloadInv'
  <2> SUFFICES ASSUME NEW j \in Job, pc'[j] \in {"parts", "verify"}
               PROVE  Downloading(j)'
    BY DEF DownloadInv
  <2>1. CASE j # k
    <3>1. /\ pc'[j] = pc[j] /\ manifest'[j] = manifest[j] /\ parts'[j] = parts[j]
          /\ cursor'[j] = cursor[j] /\ excused'[j] = excused[j]
          /\ segments \subseteq segments'
      BY <1>2, <2>1, OthersKept, SegmentsKept
    <3>2. Downloading(j)
      BY <3>1 DEF DownloadInv
    <3> QED
      BY <1>1, <3>1, <3>2
  <2>2. CASE j = k
    <3>1. CASE LookupHit(k)
      <4>1. /\ pc'[j] = "parts" /\ manifest'[j] = Last(manifests).text
            /\ parts'[j] = {} /\ cursor'[j] = 0 /\ Accepted(manifest'[j])
            /\ manifests # <<>>
        BY <2>2, <3>1 DEF LookupHit, TypeOK, IdleInv
      <4>2. DOMAIN manifest'[j] \subseteq Nat /\ Genuine(manifest'[j])
        BY <4>1, NewestGenuine
      <4>3. Got(j)' = 0 /\ Len(parseManifest(manifest'[j]).parts) \in Nat
        BY <4>1, AcceptedTyped DEF Got
      <4> QED
        BY <4>1, <4>2, <4>3 DEF Downloading, Download, InCache
    <3>2. CASE RestorePart(k)
      BY <2>2, <3>2, DownloadPart
    <3>3. CASE Restored(k)
      <4>1. /\ pc[j] = "parts" /\ pc'[j] = "verify" /\ manifest'[j] = manifest[j]
            /\ parts'[j] = parts[j] /\ excused'[j] = excused[j]
            /\ segments' = segments /\ cursor[j] = Len(Declared(manifest[j]))
        BY <2>2, <3>3 DEF Restored, TypeOK, AllTransferred, serviceVars
      <4>2. Downloading(j) /\ Got(j)' = Got(j)
        BY <4>1 DEF DownloadInv, Got, Declared
      <4> QED
        BY <4>1, <4>2 DEF Downloading
    <3>4. CASE LookupMiss(k) \/ RestorePartMiss(k) \/ UnpackMiss(k)
      BY <2>2, <3>4 DEF LookupMiss, RestorePartMiss, UnpackMiss, Miss, TypeOK
    <3>5. CASE Unpack(k) \/ Install(k) \/ Pack(k) \/ Publish(k) \/ Cancel(k)
      BY <2>2, <3>5 DEF Unpack, Install, Pack, Publish, Cancel, TypeOK
    <3>6. CASE SavePart(k)
      BY <2>2, <3>6 DEF SavePart, TypeOK
    <3> QED
      BY <1>2, <3>1, <3>2, <3>3, <3>4, <3>5, <3>6 DEF Step
  <2> QED
    BY <2>1, <2>2
<1>3. ASSUME NEW s \in segments, EvictSegment(s)
      PROVE  DownloadInv'
  <2> SUFFICES ASSUME NEW j \in Job, pc'[j] \in {"parts", "verify"}
               PROVE  Downloading(j)'
    BY DEF DownloadInv
  <2>1. /\ pc'[j] = pc[j] /\ manifest'[j] = manifest[j] /\ parts'[j] = parts[j]
        /\ cursor'[j] = cursor[j]
    BY <1>3 DEF EvictSegment
  <2>2. excused'[j]
    BY <1>3, <2>1 DEF EvictSegment
  <2>3. Downloading(j)
    BY <2>1 DEF DownloadInv
  <2> QED
    BY <1>1, <2>1, <2>2, <2>3
<1>4. CASE UNCHANGED <<segments, pc, manifest, parts, cursor, excused>>
  BY <1>1, <1>4 DEF DownloadInv
<1> QED
  BY <1>2, <1>3, <1>4 DEF Next, EvictManifest, vars, serviceVars

LEMMA ToolchainStep ==
  ASSUME IInv, [Next]_vars
  PROVE  ToolchainInv'
<1> USE DEF IInv
<1>1. ASSUME NEW k \in Job, Step(k) \/ Cancel(k)
      PROVE  ToolchainInv'
  <2>1. ASSUME NEW j \in Job
        PROVE  /\ pc'[j] \in {"pack", "save", "saved"} => toolchain'[j] = Archive(j)
               /\ pc'[j] = "hit" => \E o \in Origin : toolchain'[j] = Archive(o)
    <3>1. CASE j # k
      BY <1>1, <3>1, OthersKept DEF ToolchainInv
    <3>2. CASE j = k
      <4>1. CASE Unpack(k)
        <5>1. /\ pc[j] = "verify" /\ pc'[j] = "hit" /\ ShellAccepts(manifest[j])
              /\ toolchain'[j] = manifest_value(manifest[j], ArchiveHash)
          BY <3>2, <4>1 DEF Unpack, Verified, Complete, TypeOK
        <5>2. Genuine(manifest[j])
          BY <5>1 DEF DownloadInv, Downloading, Download
        <5> QED
          BY <5>1, <5>2 DEF Genuine
      <4>2. CASE Install(k)
        BY <3>2, <4>2 DEF Install, TypeOK
      <4>3. CASE LookupMiss(k) \/ RestorePartMiss(k) \/ UnpackMiss(k)
        BY <3>2, <4>3 DEF LookupMiss, RestorePartMiss, UnpackMiss, Miss, TypeOK
      <4>4. CASE LookupHit(k) \/ RestorePart(k) \/ Restored(k) \/ Cancel(k)
        BY <3>2, <4>4 DEF LookupHit, RestorePart, Restored, Cancel, TypeOK
      <4>5. CASE Pack(k) \/ SavePart(k) \/ Publish(k)
        BY <3>2, <4>5 DEF Pack, SavePart, Publish, ToolchainInv, TypeOK
      <4> QED
        BY <1>1, <4>1, <4>2, <4>3, <4>4, <4>5 DEF Step
    <3> QED
      BY <3>1, <3>2
  <2> QED
    BY <2>1 DEF ToolchainInv
<1>2. CASE UNCHANGED <<pc, toolchain>>
  BY <1>2 DEF ToolchainInv
<1> QED
  BY <1>1, <1>2 DEF Next, EvictSegment, EvictManifest, vars

LEMMA SaveStep ==
  ASSUME IInv, [Next]_vars
  PROVE  SaveInv'
<1> USE DEF IInv
<1>1. ASSUME NEW j \in Job, pc[j] = "save", pc'[j] = "save",
             manifest'[j] = manifest[j], parts'[j] = parts[j],
             cursor'[j] = cursor[j]
      PROVE  /\ manifest'[j] = Packed(Run[j], Width, Archive(j))
             /\ parts'[j] = {[name |-> PartName(Width, n - 1),
                              content |-> Archive(j)[n]] : n \in DOMAIN Archive(j)}
             /\ cursor'[j] <= SegmentsOf[j]
             /\ \A n \in 1..cursor'[j] : Covered(j, n)'
  <2>1. ASSUME NEW n \in 1..cursor[j] PROVE Covered(j, n)'
    <3>1. n \in 1..SegmentsOf[j] /\ Covered(j, n)
      BY <1>1, OriginAssumption DEF SaveInv, TypeOK, Origin
    <3> QED
      BY <1>1, <3>1, CoveredStays
  <2> QED
    BY <1>1, <2>1 DEF SaveInv
<1>2. ASSUME NEW k \in Job, Step(k) \/ Cancel(k)
      PROVE  SaveInv'
  <2>1. ASSUME NEW j \in Job, pc'[j] = "save"
        PROVE  /\ manifest'[j] = Packed(Run[j], Width, Archive(j))
               /\ parts'[j] = {[name |-> PartName(Width, n - 1),
                                content |-> Archive(j)[n]] : n \in DOMAIN Archive(j)}
               /\ cursor'[j] <= SegmentsOf[j]
               /\ \A n \in 1..cursor'[j] : Covered(j, n)'
    <3>1. CASE j # k
      BY <1>1, <1>2, <2>1, <3>1, OthersKept
    <3>2. CASE j = k /\ Pack(k)
      <4>1. /\ toolchain[j] = Archive(j) /\ cursor[j] = 0
            /\ manifest'[j] = Packed(Run[j], Width, toolchain[j])
            /\ parts'[j] = {[name |-> PartName(Width, n - 1),
                             content |-> toolchain[j][n]] : n \in DOMAIN toolchain[j]}
            /\ cursor'[j] = 0
        BY <3>2 DEF Pack, TypeOK, ToolchainInv, IdleInv
      <4>2. 0 <= SegmentsOf[j] /\ 1..0 = {}
        BY OriginAssumption DEF Origin
      <4> QED
        BY <4>1, <4>2
    <3>3. CASE j = k /\ SavePart(k)
      <4>1. /\ pc[j] = "save" /\ manifest'[j] = manifest[j] /\ parts'[j] = parts[j]
            /\ cursor'[j] = cursor[j] + 1
        BY <3>3 DEF SavePart, TypeOK
      <4>2. cursor[j] + 1 \in 1..SegmentsOf[j] /\ cursor[j] \in Nat
            /\ SegmentsOf[j] \in Nat
        BY <3>3, SavedFile, OriginAssumption DEF Origin
      <4>3. ASSUME NEW n \in 1..cursor'[j] PROVE Covered(j, n)'
        <5>1. CASE n = cursor[j] + 1
          BY <3>3, <5>1, SavedIsCovered
        <5>2. CASE n # cursor[j] + 1
          <6>1. n \in 1..cursor[j] /\ n \in 1..SegmentsOf[j]
            BY <4>1, <4>2, <5>2
          <6>2. Covered(j, n)
            BY <4>1, <6>1 DEF SaveInv
          <6> QED
            BY <4>1, <6>1, <6>2, CoveredStays
        <5> QED
          BY <5>1, <5>2
      <4> QED
        BY <4>1, <4>2, <4>3 DEF SaveInv
    <3>4. CASE j = k /\ ~Pack(k) /\ ~SavePart(k)
      BY <1>2, <2>1, <3>4
         DEF Step, LookupMiss, LookupHit, RestorePart, RestorePartMiss, Restored,
             Unpack, UnpackMiss, Install, Publish, Cancel, Miss, TypeOK
    <3> QED
      BY <3>1, <3>2, <3>3, <3>4
  <2> QED
    BY <2>1 DEF SaveInv
<1>3. CASE UNCHANGED <<pc, manifest, parts, cursor>>
  BY <1>1, <1>3 DEF SaveInv
<1> QED
  BY <1>2, <1>3 DEF Next, EvictSegment, EvictManifest, vars

LEMMA PublishedStep ==
  ASSUME IInv, [Next]_vars
  PROVE  PublishedInv'
<1> USE DEF IInv
<1>1. ASSUME NEW j \in Job, pc[j] # "restore", \A n \in 1..SegmentsOf[j] : Covered(j, n)
      PROVE  pc'[j] # "restore" /\ \A n \in 1..SegmentsOf[j] : Covered(j, n)'
  BY <1>1, BegunStays, CoveredStays
<1> SUFFICES ASSUME NEW m \in Elements(manifests'), m.generation \in Generations
             PROVE  \E j \in Job :
                      /\ m = [generation |-> Run[j],
                              text |-> Packed(Run[j], Width, Archive(j))]
                      /\ pc'[j] # "restore"
                      /\ \A n \in 1..SegmentsOf[j] : Covered(j, n)'
  BY DEF PublishedInv, Elements
<1>2. CASE m \in Elements(manifests)
  <2>1. PICK j \in Job :
          /\ m = [generation |-> Run[j], text |-> Packed(Run[j], Width, Archive(j))]
          /\ pc[j] # "restore"
          /\ \A n \in 1..SegmentsOf[j] : Covered(j, n)
    BY <1>2 DEF PublishedInv
  <2> QED
    BY <2>1, <1>1
<1>3. ASSUME NEW j \in Job, Publish(j),
             m = [generation |-> Run[j], text |-> manifest[j]]
      PROVE  /\ m = [generation |-> Run[j], text |-> Packed(Run[j], Width, Archive(j))]
             /\ pc'[j] # "restore"
             /\ \A n \in 1..SegmentsOf[j] : Covered(j, n)'
  <2>1. pc[j] = "save" /\ AllTransferred(j)
    BY <1>3 DEF Publish
  <2>2. manifest[j] = Packed(Run[j], Width, Archive(j))
        /\ Declared(manifest[j]) = Archive(j) /\ j \in Origin
    BY <2>1, SavingReads
  <2>3. cursor[j] = SegmentsOf[j]
    BY <2>1, <2>2, ArchiveIsSeq DEF AllTransferred
  <2>4. \A n \in 1..SegmentsOf[j] : Covered(j, n)
    BY <2>1, <2>3 DEF SaveInv
  <2> QED
    BY <1>3, <2>1, <2>2, <2>4, <1>1
<1> QED
  BY <1>2, <1>3, ManifestsStep
-------------------------------------------------------------------------------
LEMMA InitInv == Init => IInv
<1> SUFFICES ASSUME Init PROVE IInv
  OBVIOUS
<1>1. PICK e \in Earlier : manifests = e.manifests /\ segments = e.segments
  BY DEF Init
<1>2. TypeOK
  BY InitType
<1>3. /\ \A n \in DOMAIN manifests :
           /\ manifests[n].generation \in Nat \ Generations
           /\ DOMAIN manifests[n].text \subseteq Nat
           /\ Genuine(manifests[n].text)
      /\ \A s \in segments : InPlace(s) /\ s.generation \notin Generations
      /\ \A r, s \in segments :
           r.generation = s.generation /\ r.name = s.name => r = s
  BY <1>1, EarlierAssumption
<1>4. ServiceInv
  BY <1>3 DEF ServiceInv, Elements, Key
<1>5. PublishedInv
  BY <1>3 DEF PublishedInv, Elements
<1>6. IdleInv /\ DownloadInv /\ ToolchainInv /\ SaveInv
  BY DEF Init, IdleInv, DownloadInv, ToolchainInv, SaveInv
<1> QED
  BY <1>2, <1>4, <1>5, <1>6 DEF IInv

LEMMA StepInv == IInv /\ [Next]_vars => IInv'
<1> SUFFICES ASSUME IInv, [Next]_vars PROVE IInv'
  OBVIOUS
<1>1. TypeOK'
  BY TypeStep DEF IInv
<1> QED
  BY <1>1, ServiceStep, IdleStep, DownloadStep, ToolchainStep, SaveStep,
     PublishedStep DEF IInv

\* Of every state that the jobs and the service reach.
THEOREM InvariantHolds == Spec => []IInv
BY InitInv, StepInv, PTL DEF Spec

\* Every variable has its type in every state.
THEOREM TypeCorrect == Spec => []TypeOK
<1>1. IInv => TypeOK
  BY DEF IInv
<1> QED
  BY <1>1, InvariantHolds, PTL

\* A job builds with what one attempt installed, to the last segment: a toolchain
\* taken from the cache is never put together from several packs, however many
\* runs save at the same time and whatever is evicted or fails.
THEOREM ToolchainIsWhole == Spec => []WholeToolchain
<1>1. IInv => WholeToolchain
  BY DEF IInv, ToolchainInv, WholeToolchain, Origin
<1> QED
  BY <1>1, InvariantHolds, PTL

\* The transfer action reports a restored toolchain only with all the declared
\* segments and no others, each from its place in a pack of that generation.
THEOREM RestoreIsExact == Spec => []RestoredIsDeclared
<1>1. ASSUME IInv PROVE RestoredIsDeclared
  <2> SUFFICES ASSUME NEW j \in Job, pc[j] = "verify"
               PROVE  LET m == parseManifest(manifest[j])
                      IN  /\ {f.name : f \in parts[j]} =
                               {PartName(m.width, n - 1) : n \in DOMAIN m.parts}
                          /\ \A f \in parts[j] :
                               /\ f.content.index = f.name.index
                               /\ Run[f.content.origin] = m.generation
    BY DEF RestoredIsDeclared
  <2>1. Download(manifest[j], parts[j], Got(j))
    BY <1>1 DEF IInv, DownloadInv, Downloading
  <2>2. 1..Got(j) = DOMAIN parseManifest(manifest[j]).parts
    BY <2>1, AcceptedTyped DEF Download, Got, Declared
  <2> QED
    BY <2>1, <2>2 DEF Download
<1> QED
  BY <1>1, InvariantHolds, PTL

\* Of the manifests that the transfer action accepted the shell script refuses those
\* with carriage returns and no others, and it reads the same parts in the rest.
THEOREM OneReading == Spec => []ReadersAgree
<1>1. ASSUME IInv PROVE ReadersAgree
  <2> SUFFICES ASSUME NEW j \in Job, pc[j] \in {"parts", "verify"}
               PROVE  /\ ShellAccepts(manifest[j]) <=> ~Returns(manifest[j])
                      /\ ShellAccepts(manifest[j]) =>
                           /\ ShellParts(manifest[j]) = Declared(manifest[j])
                           /\ manifest_value(manifest[j], SuffixLength)
                                = parseManifest(manifest[j]).width
    BY DEF ReadersAgree
  <2>1. DOMAIN manifest[j] \subseteq Nat /\ Accepted(manifest[j])
    BY <1>1 DEF IInv, DownloadInv, Downloading, Download
  <2>2. ShellAccepts(manifest[j]) => ~Returns(manifest[j])
    BY <2>1, RefusesReturns
  <2> QED
    BY <2>1, <2>2, ReadAlike DEF Known, Declared, parseManifest
<1> QED
  BY <1>1, InvariantHolds, PTL

\* The segments of a published manifest are in the cache, and are those that it
\* declares, but for failed uploads, evictions and further attempts of the run.
THEOREM ManifestIsWhole == Spec => []PublishedIsWhole
<1>1. ASSUME IInv PROVE PublishedIsWhole
  <2> SUFFICES ASSUME NEW n \in DOMAIN manifests,
                      manifests[n].generation \in Generations,
                      NEW k \in DOMAIN parseManifest(manifests[n].text).parts
               PROVE  LET m == parseManifest(manifests[n].text)
                          key == [generation |-> m.generation,
                                  name |-> PartName(m.width, k - 1)]
                      IN  \/ key \in evicted \cup unsaved
                          \/ \E s \in segments :
                               /\ Key(s) = key
                               /\ \/ s.content = m.parts[k]
                                  \/ Rerun(m.generation)
    BY DEF PublishedIsWhole
  <2>1. PICK j \in Job :
          /\ manifests[n] = [generation |-> Run[j],
                             text |-> Packed(Run[j], Width, Archive(j))]
          /\ \A i \in 1..SegmentsOf[j] : Covered(j, i)
    BY <1>1 DEF IInv, PublishedInv, Elements
  <2>2. Run[j] \in Nat /\ j \in Origin
    BY OriginAssumption DEF Origin
  <2>3. parseManifest(manifests[n].text) =
          [generation |-> Run[j], width |-> Width, parts |-> Archive(j)]
    BY <2>1, <2>2, PackedReads
  <2>4. k \in 1..SegmentsOf[j] /\ Archive(j)[k] = [origin |-> j, index |-> k - 1]
    <3>1. k \in DOMAIN Archive(j)
      BY <2>3
    <3> QED
      BY <2>2, <3>1, ArchiveIsSeq
  <2>5. Covered(j, k)
    BY <2>1, <2>4
  <2> QED
    BY <2>3, <2>4, <2>5 DEF Covered
<1> QED
  BY <1>1, InvariantHolds, PTL

\* The files of a download that nothing disturbed pass the script's tests, if the
\* cache holds what the manifest declares.
LEMMA SoundVerifies ==
  ASSUME IInv, NEW j \in Job, pc[j] = "verify", ~excused[j], Sound(manifest[j])
  PROVE  Verified(manifest[j], parts[j])
<1> DEFINE text == manifest[j]
           files == parts[j]
           m == parseManifest(text)
           count == Len(m.parts)
<1>1. Download(text, files, Got(j)) /\ InCache(text, files, segments)
  BY DEF IInv, DownloadInv, Downloading
<1>2. /\ DOMAIN text \subseteq Nat /\ Accepted(text) /\ Got(j) = count
      /\ {f.name : f \in files} = {PartName(m.width, n - 1) : n \in 1..count}
  BY <1>1 DEF Download, Got, Declared
<1>3. /\ count \in Nat /\ count = required(text, Parts)
      /\ m.parts = [n \in 1..count |-> m.parts[n]]
  BY <1>2, AcceptedTyped DEF parseManifest
<1>4. /\ ShellAccepts(text) /\ ShellParts(text) = m.parts
      /\ manifest_value(text, Parts) = count
      /\ manifest_value(text, SuffixLength) = m.width
      /\ manifest_value(text, ArchiveHash) = required(text, ArchiveHash)
  <2>1. ~Returns(text)
    BY DEF Sound
  <2> QED
    BY <1>2, <1>3, <2>1, ReadAlike DEF Known, parseManifest
<1>5. /\ required(text, ArchiveHash) = m.parts
      /\ \A k \in 1..count :
           [generation |-> m.generation, name |-> PartName(m.width, k - 1),
            content |-> m.parts[k]] \in segments
  <2>1. DOMAIN m.parts = 1..count
    BY <1>3
  <2> QED
    BY <2>1 DEF Sound
<1>6. \A r, s \in segments : Key(r) = Key(s) => r = s
  BY DEF IInv, ServiceInv
<1> HIDE DEF text, files, m, count
<1>7. ASSUME NEW n \in 1..count
      PROVE  (CHOOSE f \in files : f.name = PartName(m.width, n - 1)).content
               = m.parts[n]
  <2>1. \E f \in files : f.name = PartName(m.width, n - 1)
    BY <1>2
  <2>2. PICK f \in files :
          /\ f = CHOOSE g \in files : g.name = PartName(m.width, n - 1)
          /\ f.name = PartName(m.width, n - 1)
    BY <2>1
  <2> DEFINE stored == [generation |-> m.generation,
                        name |-> PartName(m.width, n - 1), content |-> f.content]
             declared == [generation |-> m.generation,
                          name |-> PartName(m.width, n - 1), content |-> m.parts[n]]
  <2>3. stored \in segments /\ declared \in segments
    BY <1>1, <1>5, <2>2 DEF InCache, m
  <2>4. Key(stored) = Key(declared)
    BY DEF Key
  <2>5. stored = declared
    BY <1>6, <2>3, <2>4
  <2> QED
    BY <2>2, <2>5
<1>8. Selected(text, files) = [n \in 1..count |-> m.parts[n]]
  BY <1>4, <1>7 DEF Selected
<1>9. Complete(text, files)
  BY <1>2, <1>4 DEF Complete
<1> QED
  BY <1>3, <1>4, <1>5, <1>8, <1>9 DEF Verified, text, files

\* A part that the cache holds under its own key is not missed.
LEMMA SoundMatches ==
  ASSUME IInv, NEW j \in Job, pc[j] = "parts", ~AllTransferred(j),
         Sound(manifest[j])
  PROVE  \E s \in Matches(parseManifest(manifest[j]).generation, CurrentName(j)) :
           s.generation = parseManifest(manifest[j]).generation
<1> DEFINE m == parseManifest(manifest[j])
           k == cursor[j] + 1
           part == [generation |-> m.generation, name |-> PartName(m.width, k - 1),
                    content |-> m.parts[k]]
<1>1. Accepted(manifest[j]) /\ cursor[j] \in Nat /\ cursor[j] <= Len(m.parts)
  BY DEF IInv, TypeOK, DownloadInv, Downloading, Download, Got
<1>2. /\ Len(m.parts) \in Nat /\ DOMAIN m.parts = 1..Len(m.parts)
      /\ cursor[j] # Len(m.parts)
  BY <1>1, AcceptedTyped DEF AllTransferred, Declared
<1>3. k \in DOMAIN m.parts /\ k - 1 = cursor[j]
  BY <1>1, <1>2
<1>4. part \in segments
  BY <1>3 DEF Sound
<1>5. part.generation = m.generation /\ part.name = CurrentName(j)
  BY <1>3 DEF CurrentName
<1> QED
  BY <1>4, <1>5 DEF Matches

\* A job gives up a manifest it found only after a call failed or a segment was
\* dropped on the way, or if the cache does not hold what it declares.
THEOREM CacheIsUsed == Spec => SoundIsRestored
<1>1. ASSUME IInv, [Next]_vars
      PROVE  \A j \in Job : pc[j] \in {"parts", "verify"} /\ pc'[j] = "install" =>
               excused'[j] \/ ~Sound(manifest[j])
  <2> SUFFICES ASSUME NEW j \in Job, pc[j] \in {"parts", "verify"},
                      pc'[j] = "install", ~excused'[j], Sound(manifest[j])
               PROVE  FALSE
    OBVIOUS
  <2>1. TypeOK
    BY <1>1 DEF IInv
  <2>2. CASE RestorePartMiss(j)
    BY <1>1, <2>1, <2>2, SoundMatches DEF RestorePartMiss, TypeOK
  <2>3. CASE UnpackMiss(j)
    BY <1>1, <2>1, <2>3, SoundVerifies DEF UnpackMiss, TypeOK
  <2>4. CASE (Step(j) \/ Cancel(j)) /\ ~RestorePartMiss(j) /\ ~UnpackMiss(j)
    BY <2>1, <2>4
       DEF Step, LookupMiss, LookupHit, RestorePart, Restored, Unpack, Install,
           Pack, SavePart, Publish, Cancel, TypeOK
  <2>5. ASSUME NEW k \in Job, Step(k) \/ Cancel(k), k # j
        PROVE  FALSE
    BY <2>1, <2>5, OthersKept
  <2>6. CASE UNCHANGED pc
    BY <2>6
  <2> QED
    BY <1>1, <2>2, <2>3, <2>4, <2>5, <2>6
       DEF Next, EvictSegment, EvictManifest, vars
<1> QED
  BY <1>1, InvariantHolds, PTL DEF Spec, SoundIsRestored
\* Both readers take what pack_toolchain writes, and read the generation, the
\* segments and the archive's digest that it was given, whatever the archive.
THEOREM ManifestRoundTrip ==
  ASSUME NEW g \in Nat, NEW o \in Origin,
         NEW text, text = Packed(g, Width, Archive(o))
  PROVE  /\ Accepted(text) /\ ShellAccepts(text)
         /\ parseManifest(text) =
              [generation |-> g, width |-> Width, parts |-> Archive(o)]
         /\ ShellParts(text) = Archive(o)
         /\ manifest_value(text, ArchiveHash) = Archive(o)
<1>1. /\ DOMAIN text \subseteq Nat /\ Accepted(text) /\ ~Returns(text)
      /\ parseManifest(text) =
           [generation |-> g, width |-> Width, parts |-> Archive(o)]
      /\ manifest_value(text, ArchiveHash) = Archive(o)
  BY PackedReads
<1>2. ShellAccepts(text) /\ ShellParts(text) = parseManifest(text).parts
  BY <1>1, ReadAlike
<1> QED
  BY <1>1, <1>2
===============================================================================
