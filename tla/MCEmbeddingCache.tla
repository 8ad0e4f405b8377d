--------------------------- MODULE MCEmbeddingCache ---------------------------
(***************************************************************************)
(* An instance of EmbeddingCache: "base+" and "base@" become one file name. *)
(***************************************************************************)
EXTENDS EmbeddingCache

MCProcesses == {"p1", "p2", "p3"}
MCAudios == {"hash1", "hash2"}
MCRevisions == {"base+", "base@"}
MCRevision == [p \in MCProcesses |-> IF p = "p3" THEN "base@" ELSE "base+"]
MCSafeKey == [r \in MCRevisions |-> "base-"]
================================================================================
