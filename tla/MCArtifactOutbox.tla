---------------------------- MODULE MCArtifactOutbox ----------------------------
(* Commands and digests are interchangeable.                               *)
EXTENDS ArtifactOutbox, TLC
AnyName == Permutations(Command) \union Permutations(Digest)
================================================================================
