---------------------------- MODULE ToolchainCache ----------------------------
(***************************************************************************)
(* The cache of the AMD toolchain in CI.  A build job looks up the newest  *)
(* manifest, downloads the segments it declares, verifies and unpacks      *)
(* them; on a miss it installs the toolchain, packs it, and saves segments *)
(* and manifest under its run number (the transfer action's index.js,      *)
(* toolchain-cache.sh, and the steps of build-os.yml that call them).      *)
(*                                                                         *)
(* Runs of different branches and labels go on at the same time, each with *)
(* one job, for release/antsdr-os.yaml lists one board; a run may be       *)
(* attempted again after it ended, under the same number.  The service is  *)
(* external: keys are written once, entries are evicted at any time, and a *)
(* call may fail.  The bundled client library (dist/index.js) reports a    *)
(* failed save as a warning and a failed restore as a miss; it throws      *)
(* neither.                                                                *)
(***************************************************************************)
EXTENDS ToolchainManifest, SequencesExt

CONSTANTS
  Job,        \* attempts of runs that build with the toolchain
  Past,       \* attempts that ended before: the cache may hold their packs
  Run,        \* Run[j]: the number of j's run, the generation it saves under
  Previous,   \* Previous[j]: the attempts of the same run before j
  SegmentsOf, \* SegmentsOf[o]: the number of segments of o's archive
  Width,      \* PART_SUFFIX_LENGTH
  Earlier,    \* the contents the cache may have at first
  PrefixOf,   \* pairs of generations: the first's digits begin the second's
  NoFile

Origin == Job \cup Past

Generations == {Run[j] : j \in Job}

\* The attempts of a run come one after the other; a pack has fewer segments
\* than its suffixes can number.
ASSUME OriginAssumption ==
  /\ Run \in [Origin -> Nat] /\ Previous \in [Job -> SUBSET Job]
  /\ \A a, b \in Job : a # b /\ Run[a] = Run[b] =>
       a \in Previous[b] \/ b \in Previous[a]
  /\ SegmentsOf \in [Origin -> Nat \ {0}] /\ Width \in 1..12
  /\ \A o \in Origin : SegmentsOf[o] < Namespace(Width)

\* A segment's content: the pack it was cut from and its place there.
Content == [origin : Origin, index : Nat]
Archive(o) == [n \in 1..SegmentsOf[o] |-> [origin |-> o, index |-> n - 1]]

ASSUME GarbageAssumption ==
  /\ Garbage \notin Nat
  /\ \A o \in Origin : /\ Archive(o) # Garbage
                       /\ \A n \in DOMAIN Archive(o) : Archive(o)[n] # Garbage

PartRecord == [width : Nat, index : Nat]
Segment == [generation : Nat, name : PartRecord, content : Content]

\* What a manifest that the script accepts says of the archive is true.
Genuine(text) ==
  ShellAccepts(text) =>
    \E o \in Origin : manifest_value(text, ArchiveHash) = Archive(o)

\* A segment is stored under the run and the number it was packed with.
InPlace(s) == /\ s.content.index = s.name.index
              /\ Run[s.content.origin] = s.generation

\* The cache was filled by runs before these.
ASSUME EarlierAssumption ==
  \A e \in Earlier :
    /\ e.manifests \in Seq({e.manifests[n] : n \in DOMAIN e.manifests})
    /\ \A n \in DOMAIN e.manifests :
         /\ e.manifests[n].generation \in Nat \ Generations
         /\ DOMAIN e.manifests[n].text \subseteq Nat
         /\ Genuine(e.manifests[n].text)
    /\ e.segments \subseteq Segment
    /\ \A s \in e.segments : InPlace(s) /\ s.generation \notin Generations
    /\ \A r, s \in e.segments :
         r.generation = s.generation /\ r.name = s.name => r = s

VARIABLES
  manifests,  \* service: the saved manifests, oldest first
  segments,   \* service: the saved segments
  evicted,    \* history: keys of segments that the service dropped last
  unsaved,    \* history: keys of segments whose last upload failed
  pc,         \* the step each job is at
  manifest,   \* cache-root/manifest/toolchain.env of each job
  parts,      \* cache-root/parts: the files of each job
  cursor,     \* number of the segment being transferred
  toolchain,  \* the toolchain root: NoFile or the archive unpacked there
  excused     \* history: a call failed or a segment was evicted on the way

serviceVars == <<manifests, segments, evicted, unsaved>>
vars == <<serviceVars, pc, manifest, parts, cursor, toolchain, excused>>

Running == {"restore", "parts", "verify", "install", "pack", "save"}
Ended == {"hit", "saved", "failed"}

Key(s) == [generation |-> s.generation, name |-> s.name]

\* Mistake: the parts are counted from one below.
PartNameOff(width, i) == [width |-> width, index |-> i - 1]
PartName(width, i) == [width |-> width, index |-> i]
Declared(text) == parseManifest(text).parts
-------------------------------------------------------------------------------
Init ==
  /\ \E e \in Earlier : manifests = e.manifests /\ segments = e.segments
  /\ evicted = {} /\ unsaved = {}
  /\ pc = [j \in Job |-> "restore"]
  /\ manifest = [j \in Job |-> NoFile]
  /\ parts = [j \in Job |-> {}]
  /\ cursor = [j \in Job |-> 0]
  /\ toolchain = [j \in Job |-> NoFile]
  /\ excused = [j \in Job |-> FALSE]

\* The service: a segment is found by its key, or failing that by a key that
\* begins with the one asked for.
Matches(generation, name) ==
  LET exact == {s \in segments : s.generation = generation /\ s.name = name}
  IN  IF exact # {} THEN exact
      ELSE {s \in segments : /\ <<generation, s.generation>> \in PrefixOf
                             /\ s.name = name}

\* What the model keeps of a transfer is dropped with it.
Forget(j) ==
  /\ cursor' = [cursor EXCEPT ![j] = 0]
  /\ excused' = [excused EXCEPT ![j] = FALSE]

\* The action ends without the toolchain: neither parts nor root are left.
Miss(j) ==
  /\ pc' = [pc EXCEPT ![j] = "install"]
  /\ parts' = [parts EXCEPT ![j] = {}]
  /\ toolchain' = [toolchain EXCEPT ![j] = NoFile]
  /\ cursor' = [cursor EXCEPT ![j] = 0]
  /\ UNCHANGED serviceVars

\* restore finds no manifest, or none that parses and belongs to its key.
LookupMiss(j) ==
  /\ pc[j] = "restore" /\ \A p \in Previous[j] : pc[p] \notin Running
  /\ \/ excused' = [excused EXCEPT ![j] = TRUE]
     \/ /\ \/ manifests = <<>>
           \/ /\ manifests # <<>>
              /\ ~ /\ Accepted(Last(manifests).text)
                   /\ parseManifest(Last(manifests).text).generation
                        = Last(manifests).generation
        /\ UNCHANGED excused
  /\ manifest' = [manifest EXCEPT ![j] = NoFile]
  /\ Miss(j)

\* restore finds the newest manifest and goes through the parts it declares.
LookupHit(j) ==
  /\ pc[j] = "restore" /\ \A p \in Previous[j] : pc[p] \notin Running
  /\ manifests # <<>>
  /\ Accepted(Last(manifests).text)
  /\ parseManifest(Last(manifests).text).generation = Last(manifests).generation
  /\ manifest' = [manifest EXCEPT ![j] = Last(manifests).text]
  /\ pc' = [pc EXCEPT ![j] = "parts"]
  /\ UNCHANGED <<serviceVars, parts, cursor, toolchain, excused>>

\* The part that j asks the service for or offers it.
CurrentName(j) == PartName(parseManifest(manifest[j]).width, cursor[j])

\* Mistake: one more part than was declared.
AllTransferredLate(j) == cursor[j] > Len(Declared(manifest[j]))
AllTransferred(j) == cursor[j] = Len(Declared(manifest[j]))

\* Mistake: the key that was matched is not compared.
RestorePartAny(j) ==
  /\ pc[j] = "parts" /\ ~AllTransferred(j)
  /\ \E s \in Matches(parseManifest(manifest[j]).generation, CurrentName(j)) :
       parts' = [parts EXCEPT ![j] =
                   @ \cup {[name |-> s.name, content |-> s.content]}]
  /\ cursor' = [cursor EXCEPT ![j] = @ + 1]
  /\ UNCHANGED <<serviceVars, pc, manifest, toolchain, excused>>

\* A part arrives under the key that was asked for.
RestorePart(j) ==
  /\ pc[j] = "parts" /\ ~AllTransferred(j)
  /\ \E s \in Matches(parseManifest(manifest[j]).generation, CurrentName(j)) :
       /\ s.generation = parseManifest(manifest[j]).generation
       /\ parts' = [parts EXCEPT ![j] =
                      @ \cup {[name |-> s.name, content |-> s.content]}]
  /\ cursor' = [cursor EXCEPT ![j] = @ + 1]
  /\ UNCHANGED <<serviceVars, pc, manifest, toolchain, excused>>

\* A part is not there, or another key was matched: a recoverable miss.
RestorePartMiss(j) ==
  /\ pc[j] = "parts" /\ ~AllTransferred(j)
  /\ \/ excused' = [excused EXCEPT ![j] = TRUE]
     \/ /\ \A s \in Matches(parseManifest(manifest[j]).generation, CurrentName(j)) :
             s.generation # parseManifest(manifest[j]).generation
        /\ UNCHANGED excused
  /\ UNCHANGED manifest
  /\ Miss(j)

\* The output cache-restored is true.
Restored(j) ==
  /\ pc[j] = "parts" /\ AllTransferred(j)
  /\ pc' = [pc EXCEPT ![j] = "verify"]
  /\ cursor' = [cursor EXCEPT ![j] = 0]
  /\ UNCHANGED <<serviceVars, manifest, parts, toolchain, excused>>

\* The files of the declared names, in the order of their numbers.
Selected(text, files) ==
  [n \in 1..manifest_value(text, Parts) |->
     (CHOOSE f \in files :
        f.name = PartName(manifest_value(text, SuffixLength), n - 1)).content]

\* The declared files are there, and no others.
Complete(text, files) ==
  /\ ShellAccepts(text)
  /\ {f.name : f \in files} =
       {PartName(manifest_value(text, SuffixLength), n - 1) :
          n \in 1..manifest_value(text, Parts)}

\* Mistake: the digests are not compared.
VerifiedByNames(text, files) == Complete(text, files)

\* restore_toolchain's tests, before it touches the toolchain root: the digest
\* of each part and that of the archive.
Verified(text, files) ==
  /\ Complete(text, files)
  /\ Selected(text, files) = ShellParts(text)
  /\ Selected(text, files) = manifest_value(text, ArchiveHash)

\* The toolchain is unpacked and used: the output cache-hit is true.
Unpack(j) ==
  /\ pc[j] = "verify"
  /\ Verified(manifest[j], parts[j])
  /\ toolchain' = [toolchain EXCEPT ![j] = Selected(manifest[j], parts[j])]
  /\ parts' = [parts EXCEPT ![j] = {}]
  /\ manifest' = [manifest EXCEPT ![j] = NoFile]
  /\ pc' = [pc EXCEPT ![j] = "hit"]
  /\ Forget(j)
  /\ UNCHANGED serviceVars

\* A test fails, or tar does and what it unpacked is removed.
UnpackMiss(j) ==
  /\ pc[j] = "verify"
  /\ \/ excused' = [excused EXCEPT ![j] = TRUE]
     \/ ~Verified(manifest[j], parts[j]) /\ UNCHANGED excused
  /\ UNCHANGED manifest
  /\ Miss(j)

\* install-vivado.sh downloads and runs the installer.
Install(j) ==
  /\ pc[j] = "install"
  /\ toolchain' = [toolchain EXCEPT ![j] = Archive(j)]
  /\ pc' = [pc EXCEPT ![j] = "pack"]
  /\ Forget(j)
  /\ UNCHANGED <<serviceVars, manifest, parts>>

\* pack_toolchain empties the cache root and fills it from the toolchain root.
Pack(j) ==
  /\ pc[j] = "pack"
  /\ parts' = [parts EXCEPT ![j] =
       {[name |-> PartName(Width, n - 1), content |-> toolchain[j][n]] :
          n \in DOMAIN toolchain[j]}]
  /\ manifest' = [manifest EXCEPT ![j] = Packed(Run[j], Width, toolchain[j])]
  /\ pc' = [pc EXCEPT ![j] = "save"]
  /\ UNCHANGED <<serviceVars, cursor, toolchain, excused>>

CurrentFile(j) == {f \in parts[j] : f.name = CurrentName(j)}

\* saveCache of the file that is the current part: nothing is stored if the key
\* exists already, or if the upload fails, which the library only reports.
SavePart(j) ==
  LET key == [generation |-> Run[j], name |-> CurrentName(j)]
  IN  /\ pc[j] = "save" /\ ~AllTransferred(j)
      /\ Accepted(manifest[j]) /\ parseManifest(manifest[j]).generation = Run[j]
      /\ CurrentFile(j) # {}
      /\ \/ /\ \E s \in segments : Key(s) = key
            /\ UNCHANGED <<segments, evicted, unsaved>>
         \/ /\ \A s \in segments : Key(s) # key
            /\ segments' = segments \cup
                 {[generation |-> Run[j], name |-> f.name,
                   content |-> f.content] : f \in CurrentFile(j)}
            /\ evicted' = evicted \ {key} /\ unsaved' = unsaved \ {key}
         \/ /\ \A s \in segments : Key(s) # key
            /\ unsaved' = unsaved \cup {key} /\ evicted' = evicted \ {key}
            /\ UNCHANGED segments
      /\ cursor' = [cursor EXCEPT ![j] = @ + 1]
      /\ UNCHANGED <<manifests, pc, manifest, parts, toolchain, excused>>

\* Mistake: the manifest goes first.
PublishFirst(j) ==
  /\ pc[j] = "save" /\ cursor[j] = 0
  /\ \A n \in DOMAIN manifests : manifests[n].generation # Run[j]
  /\ manifests' = Append(manifests,
       [generation |-> Run[j], text |-> manifest[j]])
  /\ UNCHANGED <<segments, evicted, unsaved, pc, manifest, parts, cursor,
                 toolchain, excused>>

\* The manifest follows the last part, in the same way, and the staging
\* directory is cleared.
Publish(j) ==
  /\ pc[j] = "save" /\ AllTransferred(j)
  /\ \/ /\ \A n \in DOMAIN manifests : manifests[n].generation # Run[j]
        /\ manifests' = Append(manifests,
             [generation |-> Run[j], text |-> manifest[j]])
     \/ UNCHANGED manifests
  /\ pc' = [pc EXCEPT ![j] = "saved"]
  /\ parts' = [parts EXCEPT ![j] = {}]
  /\ manifest' = [manifest EXCEPT ![j] = NoFile]
  /\ Forget(j)
  /\ UNCHANGED <<segments, evicted, unsaved, toolchain>>

\* A job runs into a time limit, fails in a step, or is cancelled by hand.
Cancel(j) ==
  /\ pc[j] \in Running
  /\ pc' = [pc EXCEPT ![j] = "failed"]
  /\ parts' = [parts EXCEPT ![j] = {}]
  /\ manifest' = [manifest EXCEPT ![j] = NoFile]
  /\ toolchain' = [toolchain EXCEPT ![j] = NoFile]
  /\ Forget(j)
  /\ UNCHANGED serviceVars

\* The service drops a segment.
EvictSegment(s) ==
  /\ segments' = segments \ {s}
  /\ evicted' = evicted \cup {Key(s)}
  /\ excused' = [j \in Job |-> excused[j] \/ pc[j] \in {"parts", "verify"}]
  /\ UNCHANGED <<manifests, unsaved, pc, manifest, parts, cursor, toolchain>>

\* The service drops a manifest.
EvictManifest(n) ==
  /\ manifests' = RemoveAt(manifests, n)
  /\ UNCHANGED <<segments, evicted, unsaved, pc, manifest, parts, cursor,
                 toolchain, excused>>

Step(j) ==
  \/ LookupMiss(j) \/ LookupHit(j)
  \/ RestorePart(j) \/ RestorePartMiss(j) \/ Restored(j)
  \/ Unpack(j) \/ UnpackMiss(j)
  \/ Install(j) \/ Pack(j) \/ SavePart(j) \/ Publish(j)

Next ==
  \/ \E j \in Job : Step(j) \/ Cancel(j)
  \/ \E s \in segments : EvictSegment(s)
  \/ \E n \in DOMAIN manifests : EvictManifest(n)

Spec == Init /\ [][Next]_vars
-------------------------------------------------------------------------------
File == [name : PartRecord, content : Content]
SegmentKey == [generation : Nat, name : PartRecord]

TypeOK ==
  /\ manifests \in Seq({manifests[n] : n \in DOMAIN manifests})
  /\ \A n \in DOMAIN manifests : manifests[n].generation \in Nat
  /\ segments \subseteq Segment
  /\ evicted \subseteq SegmentKey /\ unsaved \subseteq SegmentKey
  /\ pc \in [Job -> Running \cup Ended]
  /\ DOMAIN manifest = Job
  /\ parts \in [Job -> SUBSET File]
  /\ cursor \in [Job -> Nat]
  /\ toolchain \in [Job -> {NoFile} \cup Seq(Content)]
  /\ excused \in [Job -> BOOLEAN]

\* "Whether a complete verified toolchain was restored": what a job builds with
\* is, to the last segment, what one attempt installed, never segments of
\* several packs put together, whatever was evicted, failed or saved twice.
WholeToolchain ==
  \A j \in Job : pc[j] \in {"hit", "pack", "save", "saved"} =>
    \E o \in Origin : toolchain[j] = Archive(o)

\* "Whether every declared segment was restored": the transfer reports success
\* with exactly the declared files, each cut from its own place in a pack of the
\* manifest's generation, although the service also matches longer keys.
RestoredIsDeclared ==
  \A j \in Job : pc[j] = "verify" =>
    LET m == parseManifest(manifest[j])
    IN  /\ {f.name : f \in parts[j]} =
             {PartName(m.width, n - 1) : n \in DOMAIN m.parts}
        /\ \A f \in parts[j] : /\ f.content.index = f.name.index
                               /\ Run[f.content.origin] = m.generation

\* Of the manifests that the transfer action lets through the script refuses those
\* with carriage returns and no others, and in the rest it reads the same parts and
\* digests.
ReadersAgree ==
  \A j \in Job : pc[j] \in {"parts", "verify"} =>
    /\ ShellAccepts(manifest[j]) <=> ~Returns(manifest[j])
    /\ ShellAccepts(manifest[j]) =>
         /\ ShellParts(manifest[j]) = Declared(manifest[j])
         /\ manifest_value(manifest[j], SuffixLength) = parseManifest(manifest[j]).width

\* A later attempt of this run is or was at work.
Rerun(generation) ==
  \E j \in Job : Run[j] = generation /\ Previous[j] # {} /\ pc[j] # "restore"

\* "Save publishes the manifest only after every segment", as far as it holds:
\* each segment of a published manifest is there unless its upload failed or
\* the service dropped it, and it is the segment that the manifest declares
\* unless the run was attempted again, under the same generation.
PublishedIsWhole ==
  \A n \in DOMAIN manifests : manifests[n].generation \in Generations =>
    LET m == parseManifest(manifests[n].text)
    IN  \A k \in DOMAIN m.parts :
          LET key == [generation |-> m.generation,
                      name |-> PartName(m.width, k - 1)]
          IN  \/ key \in evicted \cup unsaved
              \/ \E s \in segments :
                   /\ Key(s) = key
                   /\ \/ s.content = m.parts[k]
                      \/ Rerun(m.generation)

\* The script reads the manifest, and all that it declares is in the cache, unchanged.
Sound(text) ==
  LET m == parseManifest(text)
  IN  /\ ~Returns(text)
      /\ required(text, ArchiveHash) = m.parts
      /\ \A k \in DOMAIN m.parts :
           [generation |-> m.generation, name |-> PartName(m.width, k - 1),
            content |-> m.parts[k]] \in segments

\* A toolchain that is in the cache is used: a job that has found its manifest
\* gives it up only after a call failed or a segment was dropped on the way.
SoundIsRestored ==
  [][\A j \in Job : pc[j] \in {"parts", "verify"} /\ pc'[j] = "install" =>
       excused'[j] \/ ~Sound(manifest[j])]_vars

\* "Save publishes the manifest only after every segment", as it stands: each
\* segment of a published manifest was stored, though it may be dropped later.
ManifestLast ==
  \A n \in DOMAIN manifests : manifests[n].generation \in Generations =>
    LET m == parseManifest(manifests[n].text)
    IN  \A k \in DOMAIN m.parts :
          LET key == [generation |-> m.generation,
                      name |-> PartName(m.width, k - 1)]
          IN  key \in evicted \/ \E s \in segments : Key(s) = key
===============================================================================
