--------------------------- MODULE ToolchainManifest ---------------------------
(***************************************************************************)
(* The manifest of a cached toolchain and its two readers: parseManifest   *)
(* of the transfer action (manifest.js), which decides what is downloaded, *)
(* and the shell script (toolchain-cache.sh), which decides what is        *)
(* unpacked.  A text is a sequence of lines, each of which may end in a    *)
(* carriage return (cr) before its newline; blank lines are left out.  A   *)
(* digest is the thing digested: SHA-256 is taken to have no collisions.   *)
(***************************************************************************)
EXTENDS Integers, Sequences

CONSTANT Garbage   \* a value that is empty or not of its field's form

\* Field names.  NoField is the name of a line without one.
NoField == <<>>
Schema == <<"schema">>
Generation == <<"generation">>
Parts == <<"parts">>
SuffixLength == <<"part_suffix_length">>
ArchiveHash == <<"archive_sha256">>
PartHash(width, i) == <<"part_sha256", width, i>>

Fields(text) == {text[n].field : n \in DOMAIN text}
Lines(text, f) == {n \in DOMAIN text : text[n].field = f}

\* The part numbers that a suffix of this length can write.
Namespace(width) == 10 ^ width
-------------------------------------------------------------------------------
\* Mistake: a field that is there twice is read, not refused.
parseFieldsTwice(text) == NoField \notin Fields(text)

\* The lines that parseFields takes: each has a field name, none is repeated.  It
\* splits the text at \r?\n, so that a carriage return is no part of any value.
parseFields(text) ==
  /\ NoField \notin Fields(text)
  /\ \A m, n \in DOMAIN text : text[m].field = text[n].field => m = n

\* The value of a field that must be there: the last one set in the map.
required(text, f) ==
  text[CHOOSE n \in Lines(text, f) : \A m \in Lines(text, f) : m <= n].value

\* What parseManifest returns for a text it accepts.
parseManifest(text) ==
  LET width == required(text, SuffixLength)
  IN  [generation |-> required(text, Generation), width |-> width,
       parts |-> [n \in 1..required(text, Parts) |->
                    required(text, PartHash(width, n - 1))]]

\* parseManifest does not throw.
Accepted(text) ==
  /\ parseFields(text)
  /\ {Schema, Generation, Parts, SuffixLength, ArchiveHash} \subseteq Fields(text)
  /\ required(text, Schema) = 2
  /\ required(text, Generation) \in Nat
  /\ required(text, Parts) \in Nat \ {0}
  /\ required(text, SuffixLength) \in 1..12
  /\ required(text, ArchiveHash) # Garbage
  /\ required(text, Parts) < Namespace(required(text, SuffixLength))
  /\ \A n \in 1..required(text, Parts) :
       LET field == PartHash(required(text, SuffixLength), n - 1)
       IN  field \in Fields(text) /\ required(text, field) # Garbage
-------------------------------------------------------------------------------
\* manifest_value prints the value of every line of the field: the tests on what
\* it printed pass only if there is one.  Lines of no known field are ignored.
\* sed keeps a carriage return, which no test lets through.
Single(text, f) == \E n \in Lines(text, f) : Lines(text, f) = {n}
manifest_value(text, f) ==
  LET line == text[CHOOSE n \in Lines(text, f) : TRUE]
  IN  IF line.cr THEN Garbage ELSE line.value

\* The digests the script compares, for the part numbers it counts to.
ShellParts(text) ==
  [n \in 1..manifest_value(text, Parts) |->
     manifest_value(text, PartHash(manifest_value(text, SuffixLength), n - 1))]

\* The script's own tests on the manifest.
ShellAccepts(text) ==
  /\ \A f \in {Schema, Generation, Parts, SuffixLength, ArchiveHash} :
       Single(text, f)
  /\ manifest_value(text, Schema) = 2
  /\ manifest_value(text, Generation) \in Nat
  /\ manifest_value(text, Parts) \in Nat \ {0}
  /\ manifest_value(text, SuffixLength) \in 1..12
  /\ manifest_value(text, ArchiveHash) # Garbage
  /\ manifest_value(text, Parts) < Namespace(manifest_value(text, SuffixLength))
  /\ \A n \in 1..manifest_value(text, Parts) :
       /\ Single(text, PartHash(manifest_value(text, SuffixLength), n - 1))
       /\ ShellParts(text)[n] # Garbage

\* A line that both readers look for ends in a carriage return.
Returns(text) ==
  LET m == parseManifest(text)
      looked_for == {Schema, Generation, Parts, SuffixLength, ArchiveHash}
                      \cup {PartHash(m.width, n - 1) : n \in DOMAIN m.parts}
  IN  \E n \in DOMAIN text : text[n].field \in looked_for /\ text[n].cr

\* What pack_toolchain writes for an archive, the sequence of its segments.
Packed(generation, width, archive) ==
  LET line(f, v) == [field |-> f, value |-> v, cr |-> FALSE]
      count == Len(archive)
  IN  << line(Schema, 2), line(Generation, generation), line(Parts, count),
         line(SuffixLength, width), line(ArchiveHash, archive) >>
      \o [n \in 1..count |-> line(PartHash(width, n - 1), archive[n])]
===============================================================================
