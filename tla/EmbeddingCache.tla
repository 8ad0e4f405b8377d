---------------------------- MODULE EmbeddingCache ----------------------------
(***************************************************************************)
(* FrozenEmbeddingCache.get_or_create (research/acoustic.py): embeddings   *)
(* kept in files of one directory, which several experiment processes may  *)
(* share and any of which may be killed at any moment.                     *)
(*                                                                         *)
(* An embedding is known by what it was computed from, <<audio, revision>>; *)
(* the same pair is what a complete file holds, since the payload repeats  *)
(* the audio hash and the model revision beside the embedding. A caller    *)
(* passes the hash of the audio it passes.                                 *)
(***************************************************************************)
CONSTANTS
  Processes,
  Audios,             \* audio files, by their hash
  Revisions,          \* model revisions
  Revision,           \* Revision[p]: the revision of p's backend
  SafeKey,            \* SafeKey[r]: what _safe_model_key leaves of a revision
  Absent,             \* there is no such file
  Empty,              \* the file was opened, and truncated by that
  Corrupt,            \* the file holds something json.loads does not accept
  None                \* no audio, no result

Embeddings == Audios \X Revisions
Embedding(p, a) == <<a, Revision[p]>>

ASSUME BackendAssumption == Revision \in [Processes -> Revisions]
ASSUME ContentAssumption ==
  /\ {Absent, Empty, Corrupt, None} \intersect Embeddings = {}
  /\ Absent # Empty /\ Absent # Corrupt

VARIABLES
  pc,        \* where each process is, or how its last call ended
  want,      \* the audio its call is for
  result,    \* what its last call returned
  file,      \* what each cache file holds
  torn,      \* history: files some process died over while writing them
  shared     \* history: files two calls were at work on at once

vars == <<pc, want, result, file, torn, shared>>

Keys == {SafeKey[r] : r \in Revisions}
Files == Audios \X Keys
FileOf(p, a) == <<a, SafeKey[Revision[p]]>>
Mine(p) == FileOf(p, want[p])

Working == {"exists", "read", "embed", "open", "write"}
Ended == {"idle", "returned", "unreadable", "mismatch", "unembedded", "killed"}
Busy(f) == {p \in Processes : pc[p] \in Working /\ Mine(p) = f}

Init ==
  /\ pc = [p \in Processes |-> "idle"]
  /\ want = [p \in Processes |-> None]
  /\ result = [p \in Processes |-> None]
  /\ file = [f \in Files |-> Absent]
  /\ torn = {} /\ shared = {}

Goto(p, place) == pc' = [pc EXCEPT ![p] = place]
Return(p, e) == Goto(p, "returned") /\ result' = [result EXCEPT ![p] = e]
Hold(f, content) == file' = [file EXCEPT ![f] = content]

----------------------------------------------------------------------------
Call(p, a) ==
  /\ pc[p] \in Ended
  /\ want' = [want EXCEPT ![p] = a]
  /\ shared' = IF Busy(FileOf(p, a)) = {} THEN shared
               ELSE shared \union {FileOf(p, a)}
  /\ Goto(p, "exists")
  /\ UNCHANGED <<result, file, torn>>

\* Mutant of Exists: an entry is computed afresh although it is there.
ExistsIgnored(p) ==
  /\ pc[p] = "exists"
  /\ Goto(p, "embed")
  /\ UNCHANGED <<want, result, file, torn, shared>>

\* path.exists()
Exists(p) ==
  /\ pc[p] = "exists"
  /\ Goto(p, IF file[Mine(p)] = Absent THEN "embed" ELSE "read")
  /\ UNCHANGED <<want, result, file, torn, shared>>

\* Mutant of SameRevision: the revision in the payload is not looked at.
SameRevisionUnchecked(p, content) == TRUE
SameRevision(p, content) == content[2] = Revision[p]

\* The file is read as it is at that moment. The payload's audio hash is in the
\* file's name, so the check on it cannot fail; two revisions may share a name.
Read(p) ==
  LET content == file[Mine(p)] IN
  /\ pc[p] = "read"
  /\ \/ /\ content \notin Embeddings
        /\ Goto(p, "unreadable") /\ UNCHANGED result
     \/ /\ content \in Embeddings /\ ~SameRevision(p, content)
        /\ Goto(p, "mismatch") /\ UNCHANGED result
     \/ /\ content \in Embeddings /\ SameRevision(p, content)
        /\ Return(p, content)
  /\ UNCHANGED <<want, file, torn, shared>>

\* Mutant of Embed: the file is opened before the backend is asked.
EmbedAfterOpen(p) ==
  /\ pc[p] = "embed"
  /\ Hold(Mine(p), Empty)
  /\ Goto(p, "open")
  /\ UNCHANGED <<want, result, torn, shared>>

Embed(p) ==
  /\ pc[p] = "embed"
  /\ Goto(p, "open")
  /\ UNCHANGED <<want, result, file, torn, shared>>

\* The backend's libraries are missing, or it raises.
EmbedRaises(p) ==
  /\ pc[p] = "embed"
  /\ Goto(p, "unembedded")
  /\ UNCHANGED <<want, result, file, torn, shared>>

\* path.write_text opens the file and truncates it ...
Open(p) ==
  /\ pc[p] = "open"
  /\ Hold(Mine(p), Empty)
  /\ Goto(p, "write")
  /\ UNCHANGED <<want, result, torn, shared>>

\* ... and then writes from its start: over a longer payload that another
\* process has written since, the end of that payload remains.
Written(p, content) ==
  {Embedding(p, want[p])}
    \union (IF content \in {Empty, Embedding(p, want[p])} THEN {} ELSE {Corrupt})

Write(p) ==
  /\ pc[p] = "write"
  /\ \E content \in Written(p, file[Mine(p)]) : Hold(Mine(p), content)
  /\ Return(p, Embedding(p, want[p]))
  /\ UNCHANGED <<want, torn, shared>>

\* The process is killed, perhaps with part of the payload written.
Kill(p) ==
  /\ pc[p] \in Working
  /\ IF pc[p] = "write"
     THEN /\ torn' = torn \union {Mine(p)}
          /\ \E content \in {file[Mine(p)], Corrupt} : Hold(Mine(p), content)
     ELSE UNCHANGED <<torn, file>>
  /\ Goto(p, "killed")
  /\ UNCHANGED <<want, result, shared>>

Next ==
  \E p \in Processes :
    \/ \E a \in Audios : Call(p, a)
    \/ Exists(p) \/ Read(p) \/ Embed(p) \/ EmbedRaises(p) \/ Open(p) \/ Write(p)
    \/ Kill(p)

Spec == Init /\ [][Next]_vars

----------------------------------------------------------------------------
(***************************************************************************)
(* Properties.                                                             *)
(***************************************************************************)

\* Every variable has its type, and a call is for an audio file.
TypeOK ==
  /\ pc \in [Processes -> Working \union Ended]
  /\ want \in [Processes -> Audios \union {None}]
  /\ \A p \in Processes : pc[p] # "idle" => want[p] \in Audios
  /\ result \in [Processes -> Embeddings \union {None}]
  /\ file \in [Files -> Embeddings \union {Absent, Empty, Corrupt}]
  /\ torn \subseteq Files /\ shared \subseteq Files

\* A call that returns, returns the embedding of its own audio by its own model:
\* whatever other processes wrote, whoever died, and although the names of two
\* model revisions may be the same file name.
NoWrongEmbedding ==
  \A p \in Processes : pc[p] = "returned" => result[p] = Embedding(p, want[p])

\* An entry that cannot be read, and that nobody is writing, was left so by a
\* process that died over it, or by two calls that were at work on it at once.
\* No call that ends by itself, alone, leaves such an entry.
DamageHasACause ==
  \A f \in Files :
    (file[f] \in {Empty, Corrupt} /\ \A p \in Busy(f) : pc[p] # "write")
      => f \in torn \union shared

\* The cache is frozen: what a file holds is never replaced, be it an embedding
\* or the remains of a crash, unless two calls were at work on it at once.
Frozen ==
  [][\A f \in Files :
       (/\ f \notin shared
        /\ file[f] # Absent
        /\ \A p \in Busy(f) : pc[p] # "write")
         => file'[f] = file[f]]_vars
================================================================================
