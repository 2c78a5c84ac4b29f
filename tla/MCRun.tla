------------------------------- MODULE MCRun -------------------------------
(* Instances of RunEngine for TLC.                                          *)
EXTENDS RunEngine

\* Two writes, the second after the first.
WritePair == {"a", "b"}
WritePairDeps == [s \in WritePair |-> IF s = "b" THEN {"a"} ELSE {}]
WritePairKind == [s \in WritePair |-> "write"]

\* A step of every kind: a read; after it a write, then a step that cannot be
\* gated; after it, too, the founder's own step, then a write.
Founder == {"look", "send", "odd", "sign", "file"}
FounderDeps ==
  [s \in Founder |-> CASE s \in {"send", "sign"} -> {"look"}
                       [] s = "odd"  -> {"send"}
                       [] s = "file" -> {"sign"}
                       [] OTHER      -> {}]
FounderKind ==
  [s \in Founder |-> CASE s = "look" -> "exempt"
                       [] s = "odd"  -> "invalid"
                       [] s = "sign" -> "user"
                       [] OTHER      -> "write"]
============================================================================
