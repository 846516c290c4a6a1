---------------------------- MODULE MCToolchainCache ----------------------------
EXTENDS ToolchainCache

\* Run 1 is attempted twice and run 12, whose number begins with a 1, runs beside
\* it; run 7 is over and may have left something in the cache.
MCJob == {"a1", "a2", "b"}
MCPast == {"old"}
MCRun == [o \in Origin |-> CASE o = "b" -> 12 [] o = "old" -> 7 [] OTHER -> 1]
MCPrevious == [j \in MCJob |-> IF j = "a2" THEN {"a1"} ELSE {}]
MCSegmentsOf == [o \in Origin |-> IF o \in {"a1", "a2"} THEN 2 ELSE 1]
MCPrefixOf == {<<1, 12>>}

Old == Packed(7, Width, Archive("old"))
OldSegment == [generation |-> 7, name |-> [width |-> Width, index |-> 0],
               content |-> [origin |-> "old", index |-> 0]]
Entry(generation, text) ==
  [manifests |-> <<[generation |-> generation, text |-> text]>>,
   segments |-> {OldSegment}]

\* An empty cache, a pack of an earlier run, and manifests that no current
\* packer writes: the legacy schema, a field twice, one for another generation,
\* one without the digest of its part, carriage returns on a line that is looked for
\* and on one that is not.
MCEarlier ==
  { [manifests |-> <<>>, segments |-> {}],
    Entry(7, Old),
    Entry(7, [Old EXCEPT ![1].value = 1]),
    Entry(7, Append(Old, [field |-> Parts, value |-> 1, cr |-> FALSE])),
    Entry(8, Old),
    Entry(7, SubSeq(Old, 1, 5)),
    Entry(7, [Old EXCEPT ![1].cr = TRUE]),
    Entry(7, Append(Old, [field |-> <<"note">>, value |-> 1, cr |-> TRUE])) }
===============================================================================
