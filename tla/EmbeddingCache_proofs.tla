------------------------ MODULE EmbeddingCache_proofs -------------------------
(***************************************************************************)
(* What TLAPS proves of the embedding cache for any number of processes,   *)
(* audio files and revisions, and whatever _safe_model_key maps to what.   *)
(***************************************************************************)
EXTENDS EmbeddingCache, TLAPS

USE BackendAssumption, ContentAssumption

(***************************************************************************)
(* The inductive invariant. A file's name gives the audio of the embedding *)
(* it holds; two calls at work on one file have marked it as shared; and a *)
(* call alone on its file knows what is there: nothing until it opens the  *)
(* file, and an empty file from then until it has written.                 *)
(***************************************************************************)
FileOfItsAudio ==
  \A f \in Files : file[f] \in Embeddings => file[f][1] = f[1]

AtWork(p) == pc[p] \in Working
SharedIsMarked ==
  \A p, q \in Processes :
    (p # q /\ AtWork(p) /\ AtWork(q) /\ Mine(p) = Mine(q)) => Mine(p) \in shared

AloneOnFile ==
  \A p \in Processes :
    AtWork(p) /\ Mine(p) \notin shared =>
      /\ pc[p] \in {"embed", "open"} => file[Mine(p)] = Absent
      /\ pc[p] = "write" => file[Mine(p)] = Empty

Inv ==
  TypeOK /\ FileOfItsAudio /\ SharedIsMarked /\ AloneOnFile
    /\ NoWrongEmbedding /\ DamageHasACause

(***************************************************************************)
(* Names of files.                                                         *)
(***************************************************************************)

\* The file of a call is one of the directory, and its name has the audio's hash.
LEMMA FileOfType ==
  ASSUME NEW p \in Processes, NEW a \in Audios
  PROVE  FileOf(p, a) \in Files /\ FileOf(p, a)[1] = a
BY DEF FileOf, Files, Keys

LEMMA MineType ==
  ASSUME TypeOK, NEW p \in Processes, pc[p] # "idle"
  PROVE  want[p] \in Audios /\ Mine(p) \in Files /\ Mine(p)[1] = want[p]
BY FileOfType DEF TypeOK, Mine

LEMMA EmbeddingType ==
  ASSUME NEW p \in Processes, NEW a \in Audios
  PROVE  Embedding(p, a) \in Embeddings
           /\ Embedding(p, a)[1] = a /\ Embedding(p, a)[2] = Revision[p]
BY DEF Embedding, Embeddings

(***************************************************************************)
(* The invariant holds at first and is kept by every action.               *)
(***************************************************************************)
LEMMA InitInv == Init => Inv
BY DEF Init, Inv, TypeOK, FileOfItsAudio, SharedIsMarked, AtWork, AloneOnFile,
       NoWrongEmbedding, DamageHasACause, Busy, Working, Ended

\* A call begins: it may be the second at work on its file.
LEMMA CallInv ==
  ASSUME Inv, NEW p \in Processes, NEW a \in Audios, Call(p, a)
  PROVE  Inv'
<1> USE DEF Call, Goto
<1>1. TypeOK'
  BY FileOfType DEF Inv, TypeOK, Working, Ended
<1>2. \A q \in Processes \ {p} : pc'[q] = pc[q] /\ want'[q] = want[q] /\ Mine(q)' = Mine(q)
  BY DEF Inv, TypeOK, Mine
<1>3. /\ pc'[p] = "exists" /\ want'[p] = a /\ Mine(p)' = FileOf(p, a)
      /\ pc[p] \notin Working
  BY DEF Inv, TypeOK, Mine, Working, Ended
<1>4. shared \subseteq shared'
  OBVIOUS
<1>5. FileOfItsAudio'
  BY DEF Inv, FileOfItsAudio
<1>6. SharedIsMarked'
  <2> SUFFICES ASSUME NEW q \in Processes, NEW r \in Processes,
                      q # r, AtWork(q)', AtWork(r)', Mine(q)' = Mine(r)'
               PROVE  Mine(q)' \in shared'
    BY DEF SharedIsMarked
  <2>1. CASE q # p /\ r # p
    BY <2>1, <1>2, <1>4 DEF Inv, SharedIsMarked, AtWork
  <2>2. CASE q = p
    <3>1. r \in Busy(FileOf(p, a))
      BY <2>2, <1>2, <1>3 DEF Busy, AtWork
    <3> QED
      BY <2>2, <3>1, <1>3
  <2>3. CASE r = p
    <3>1. q \in Busy(FileOf(p, a))
      BY <2>3, <1>2, <1>3 DEF Busy, AtWork
    <3> QED
      BY <2>3, <3>1, <1>3
  <2> QED
    BY <2>1, <2>2, <2>3
<1>7. AloneOnFile'
  BY <1>2, <1>3, <1>4 DEF Inv, AloneOnFile, AtWork
<1>8. NoWrongEmbedding'
  BY <1>2, <1>3 DEF Inv, NoWrongEmbedding, Embedding
<1>9. DamageHasACause'
  <2> SUFFICES ASSUME NEW f \in Files, file'[f] \in {Empty, Corrupt},
                      \A q \in Busy(f)' : pc'[q] # "write"
               PROVE  f \in torn' \union shared'
    BY DEF DamageHasACause
  <2>1. \A q \in Busy(f) : pc[q] # "write"
    BY <1>2, <1>3 DEF Busy, Working
  <2> QED
    BY <2>1, <1>4 DEF Inv, DamageHasACause
<1> QED
  BY <1>1, <1>5, <1>6, <1>7, <1>8, <1>9 DEF Inv

\* What a step of process p that leaves want and shared alone changes of the
\* others: only their file, when it is p's.
Alone(p) ==
  /\ want' = want /\ shared' = shared
  /\ \A q \in Processes \ {p} : pc'[q] = pc[q] /\ result'[q] = result[q]
  /\ \A f \in Files : f # Mine(p) => file'[f] = file[f]

\* Such a step of a process at work keeps the invariant if it leaves its own
\* process and its own file as they should be.
LEMMA StepInv ==
  ASSUME Inv, NEW p \in Processes, Alone(p), AtWork(p), TypeOK', torn \subseteq torn',
         file'[Mine(p)] \in Embeddings => file'[Mine(p)][1] = Mine(p)[1],
         pc'[p] = "returned" => result'[p] = Embedding(p, want[p]),
         AtWork(p)' /\ Mine(p) \notin shared =>
           /\ pc'[p] \in {"embed", "open"} => file'[Mine(p)] = Absent
           /\ pc'[p] = "write" => file'[Mine(p)] = Empty,
         (/\ file'[Mine(p)] \in {Empty, Corrupt}
          /\ pc'[p] # "write"
          /\ Mine(p) \notin shared)
           => \/ Mine(p) \in torn'
              \/ file'[Mine(p)] = file[Mine(p)] /\ pc[p] # "write"
  PROVE  Inv'
<1>1. \A q \in Processes : Mine(q)' = Mine(q) /\ want'[q] = want[q]
  BY DEF Alone, Mine
<1>2. \A q \in Processes \ {p} : pc'[q] = pc[q] /\ result'[q] = result[q]
  BY DEF Alone
<1>3. Mine(p) \in Files
  BY MineType DEF Inv, AtWork, Working
<1>4. FileOfItsAudio'
  BY DEF Inv, FileOfItsAudio, Alone
<1>5. SharedIsMarked'
  BY <1>1, <1>2 DEF Inv, SharedIsMarked, AtWork, Alone
<1>6. AloneOnFile'
  <2> SUFFICES ASSUME NEW q \in Processes, AtWork(q)', Mine(q)' \notin shared'
               PROVE  /\ pc'[q] \in {"embed", "open"} => file'[Mine(q)] = Absent
                      /\ pc'[q] = "write" => file'[Mine(q)] = Empty
    BY <1>1 DEF AloneOnFile
  <2>1. CASE q = p
    BY <2>1, <1>1 DEF Alone
  <2>2. CASE q # p
    <3>1. AtWork(q) /\ Mine(q) \notin shared
      BY <2>2, <1>1, <1>2 DEF AtWork, Alone
    <3>2. Mine(q) # Mine(p) /\ Mine(q) \in Files
      BY <2>2, <3>1, MineType DEF Inv, SharedIsMarked, AtWork, Working
    <3> QED
      BY <2>2, <3>1, <3>2, <1>2 DEF Inv, AloneOnFile, Alone
  <2> QED
    BY <2>1, <2>2
<1>7. NoWrongEmbedding'
  BY <1>1, <1>2 DEF Inv, NoWrongEmbedding, Embedding
<1>8. DamageHasACause'
  <2> SUFFICES ASSUME NEW f \in Files, file'[f] \in {Empty, Corrupt},
                      \A q \in Busy(f)' : pc'[q] # "write", f \notin shared
               PROVE  f \in torn'
    BY DEF DamageHasACause, Alone
  <2>1. \A q \in Processes \ {p} : q \in Busy(f) => q \in Busy(f)'
    BY <1>1, <1>2 DEF Busy
  <2>2. CASE f # Mine(p)
    <3>1. \A q \in Busy(f) : pc[q] # "write"
      BY <2>1, <2>2, <1>2 DEF Busy
    <3> QED
      BY <2>2, <3>1 DEF Inv, DamageHasACause, Alone
  <2>3. CASE f = Mine(p)
    <3>1. pc'[p] # "write"
      BY <2>3, <1>1 DEF Busy, Working
    <3>2. CASE file'[f] = file[f] /\ pc[p] # "write"
      <4>1. \A q \in Busy(f) : pc[q] # "write"
        BY <2>1, <3>2, <1>2 DEF Busy
      <4> QED
        BY <3>2, <4>1 DEF Inv, DamageHasACause
    <3> QED
      BY <2>3, <3>1, <3>2
  <2> QED
    BY <2>2, <2>3
<1> QED
  BY <1>4, <1>5, <1>6, <1>7, <1>8 DEF Inv

\* The cache is looked at.
LEMMA ExistsInv ==
  ASSUME Inv, NEW p \in Processes, Exists(p)
  PROVE  Inv'
<1> USE DEF Exists, Goto
<1>1. AtWork(p) /\ Mine(p) \in Files
  BY MineType DEF Inv, AtWork, Working
<1>2. TypeOK'
  BY DEF Inv, TypeOK, Working, Ended
<1>3. pc'[p] = "read" \/ (pc'[p] = "embed" /\ file[Mine(p)] = Absent)
  BY DEF Inv, TypeOK
<1>4. Alone(p)
  BY DEF Alone, Inv, TypeOK
<1>5. file'[Mine(p)] \in Embeddings => file'[Mine(p)][1] = Mine(p)[1]
  BY <1>1 DEF Inv, FileOfItsAudio
<1> QED
  BY <1>1, <1>2, <1>3, <1>4, <1>5, StepInv

\* What is read is returned only if it is this audio's, by this revision.
LEMMA ReadInv ==
  ASSUME Inv, NEW p \in Processes, Read(p)
  PROVE  Inv'
<1> USE DEF Read, Goto, Return
<1>1. AtWork(p) /\ Mine(p) \in Files /\ want[p] \in Audios /\ Mine(p)[1] = want[p]
  BY MineType DEF Inv, AtWork, Working
<1>2. pc[p] = "read" /\ pc'[p] \in {"unreadable", "mismatch", "returned"}
  BY DEF Inv, TypeOK
<1>3. pc'[p] = "returned" => result'[p] = Embedding(p, want[p])
  <2> SUFFICES ASSUME pc'[p] = "returned"
               PROVE  result'[p] = Embedding(p, want[p])
    OBVIOUS
  <2>1. file[Mine(p)] \in Embeddings /\ SameRevision(p, file[Mine(p)])
          /\ result'[p] = file[Mine(p)]
    BY DEF Inv, TypeOK
  <2>2. file[Mine(p)][1] = want[p] /\ file[Mine(p)][2] = Revision[p]
    BY <1>1, <2>1 DEF Inv, FileOfItsAudio, SameRevision
  <2> QED
    BY <2>1, <2>2 DEF Embedding, Embeddings
<1>4. TypeOK'
  BY DEF Inv, TypeOK, Working, Ended
<1>5. Alone(p)
  BY DEF Alone, Inv, TypeOK
<1>6. file'[Mine(p)] \in Embeddings => file'[Mine(p)][1] = Mine(p)[1]
  BY <1>1 DEF Inv, FileOfItsAudio
<1>7. ~AtWork(p)'
  BY <1>2 DEF AtWork, Working
<1> QED
  BY <1>1, <1>2, <1>3, <1>4, <1>5, <1>6, <1>7, StepInv

\* The backend answers or raises.
LEMMA EmbedInv ==
  ASSUME Inv, NEW p \in Processes, Embed(p) \/ EmbedRaises(p)
  PROVE  Inv'
<1> USE DEF Embed, EmbedRaises, Goto
<1>1. AtWork(p) /\ Mine(p) \in Files
  BY MineType DEF Inv, AtWork, Working
<1>2. TypeOK'
  BY DEF Inv, TypeOK, Working, Ended
<1>3. pc[p] = "embed" /\ pc'[p] \in {"open", "unembedded"}
  BY DEF Inv, TypeOK
<1>4. Alone(p)
  BY DEF Alone, Inv, TypeOK
<1>5. file'[Mine(p)] \in Embeddings => file'[Mine(p)][1] = Mine(p)[1]
  BY <1>1 DEF Inv, FileOfItsAudio
<1>6. Mine(p) \notin shared => file'[Mine(p)] = Absent
  BY <1>1, <1>3 DEF Inv, AloneOnFile
<1> QED
  BY <1>1, <1>2, <1>3, <1>4, <1>5, <1>6, StepInv

\* The file is opened: from here until it is written, this call answers for it.
LEMMA OpenInv ==
  ASSUME Inv, NEW p \in Processes, Open(p)
  PROVE  Inv'
<1> USE DEF Open, Goto, Hold
<1>1. AtWork(p) /\ Mine(p) \in Files
  BY MineType DEF Inv, AtWork, Working
<1>2. TypeOK'
  BY <1>1 DEF Inv, TypeOK, Working, Ended
<1>3. pc'[p] = "write" /\ file'[Mine(p)] = Empty
  BY <1>1 DEF Inv, TypeOK
<1>4. Alone(p)
  BY DEF Alone, Inv, TypeOK
<1> QED
  BY <1>1, <1>2, <1>3, <1>4, StepInv

\* The payload is written, whole unless another call was at work on the file.
LEMMA WriteInv ==
  ASSUME Inv, NEW p \in Processes, Write(p)
  PROVE  Inv'
<1> USE DEF Write, Goto, Return, Hold
<1>1. AtWork(p) /\ Mine(p) \in Files /\ want[p] \in Audios /\ Mine(p)[1] = want[p]
  BY MineType DEF Inv, AtWork, Working
<1>2. PICK content \in Written(p, file[Mine(p)]) : Hold(Mine(p), content)
  OBVIOUS
<1>3. content = Embedding(p, want[p]) \/ content = Corrupt
  BY <1>2 DEF Written
<1>4. Embedding(p, want[p]) \in Embeddings /\ Embedding(p, want[p])[1] = want[p]
  BY <1>1, EmbeddingType
<1>5. /\ pc'[p] = "returned" /\ result'[p] = Embedding(p, want[p])
      /\ file'[Mine(p)] = content
  BY <1>1, <1>2 DEF Inv, TypeOK
<1>6. TypeOK'
  BY <1>1, <1>2, <1>3, <1>4 DEF Inv, TypeOK, Working, Ended
<1>7. Alone(p)
  BY <1>2 DEF Alone, Inv, TypeOK
<1>8. Mine(p) \notin shared => content = Embedding(p, want[p])
  BY <1>1, <1>2 DEF Inv, AloneOnFile, Written
<1>9. ~AtWork(p)'
  BY <1>5 DEF AtWork, Working
<1> QED
  BY <1>1, <1>3, <1>4, <1>5, <1>6, <1>7, <1>8, <1>9, StepInv

\* A process killed while it writes leaves a torn file.
LEMMA KillInv ==
  ASSUME Inv, NEW p \in Processes, Kill(p)
  PROVE  Inv'
<1> USE DEF Kill, Goto, Hold
<1>1. AtWork(p) /\ Mine(p) \in Files
  BY MineType DEF Inv, AtWork, Working
<1>2. TypeOK'
  BY <1>1 DEF Inv, TypeOK, Working, Ended
<1>3. pc'[p] = "killed"
  BY DEF Inv, TypeOK
<1>4. Alone(p)
  BY DEF Alone, Inv, TypeOK
<1>5. file'[Mine(p)] \in {file[Mine(p)], Corrupt} /\ torn \subseteq torn'
  BY <1>1 DEF Inv, TypeOK
<1>6. file'[Mine(p)] \in Embeddings => file'[Mine(p)][1] = Mine(p)[1]
  BY <1>1, <1>5 DEF Inv, FileOfItsAudio
<1>7. IF pc[p] = "write" THEN Mine(p) \in torn' ELSE file' = file
  OBVIOUS
<1>8. ~AtWork(p)'
  BY <1>3 DEF AtWork, Working
<1> QED
  BY <1>1, <1>2, <1>3, <1>4, <1>5, <1>6, <1>7, <1>8, StepInv

LEMMA NextInv == Inv /\ [Next]_vars => Inv'
<1> SUFFICES ASSUME Inv, [Next]_vars
             PROVE  Inv'
  OBVIOUS
<1>1. CASE Next
  <2>1. PICK p \in Processes :
          \/ \E a \in Audios : Call(p, a)
          \/ Exists(p) \/ Read(p) \/ Embed(p) \/ EmbedRaises(p) \/ Open(p) \/ Write(p)
          \/ Kill(p)
    BY <1>1 DEF Next
  <2> QED
    BY <2>1, CallInv, ExistsInv, ReadInv, EmbedInv, OpenInv, WriteInv, KillInv
<1>2. CASE UNCHANGED vars
  BY <1>2 DEF vars, Inv, TypeOK, FileOfItsAudio, SharedIsMarked, AtWork, AloneOnFile,
              NoWrongEmbedding, DamageHasACause, Busy, Mine
<1> QED
  BY <1>1, <1>2

LEMMA AlwaysInv == Spec => []Inv
BY InitInv, NextInv, PTL DEF Spec

(***************************************************************************)
(* The theorems.                                                           *)
(***************************************************************************)

\* Every variable has its type, for any processes, audio files and revisions.
THEOREM TypeCorrect == Spec => []TypeOK
<1>1. Inv => TypeOK
  BY DEF Inv
<1> QED
  BY <1>1, AlwaysInv, PTL

\* No call returns the embedding of another audio file or of another model,
\* although revisions may share file names and processes may die at any moment.
THEOREM ReturnsItsOwn == Spec => []NoWrongEmbedding
<1>1. Inv => NoWrongEmbedding
  BY DEF Inv
<1> QED
  BY <1>1, AlwaysInv, PTL

\* An unreadable entry that nobody is writing was left by a process that died
\* over it, or by two calls that were at work on it at once.
THEOREM DamageIsExplained == Spec => []DamageHasACause
<1>1. Inv => DamageHasACause
  BY DEF Inv
<1> QED
  BY <1>1, AlwaysInv, PTL

\* One step of one process does not touch an entry that is there, unless the
\* process is the one writing it or the entry has been shared.
LEMMA StepFrozen ==
  ASSUME Inv, NEW p \in Processes, NEW f \in Files,
         Open(p) \/ Write(p) \/ Kill(p),
         f \notin shared, file[f] # Absent, \A q \in Busy(f) : pc[q] # "write"
  PROVE  file'[f] = file[f]
<1>1. AtWork(p)
  BY DEF Open, Write, Kill, AtWork, Working
<1>2. f = Mine(p) => p \in Busy(f) /\ pc[p] # "write"
  BY <1>1 DEF Busy, AtWork
<1>3. CASE Open(p)
  <2>1. f # Mine(p)
    BY <1>1, <1>3 DEF Inv, AloneOnFile, Open
  <2> QED
    BY <1>3, <2>1 DEF Open, Hold, Inv, TypeOK
<1>4. CASE Write(p)
  <2>1. f # Mine(p)
    BY <1>2, <1>4 DEF Write
  <2> QED
    BY <1>4, <2>1 DEF Write, Hold, Inv, TypeOK
<1>5. CASE Kill(p)
  BY <1>2, <1>5 DEF Kill, Hold, Inv, TypeOK
<1> QED
  BY <1>3, <1>4, <1>5

\* What Frozen says of a step.
FrozenStep ==
  \A f \in Files :
    (/\ f \notin shared
     /\ file[f] # Absent
     /\ \A p \in Busy(f) : pc[p] # "write")
      => file'[f] = file[f]

\* What a file holds is never replaced unless two calls were at work on it.
THEOREM IsFrozen == Spec => Frozen
<1>1. Inv /\ [Next]_vars => [FrozenStep]_vars
  <2> SUFFICES ASSUME Inv, Next, NEW f \in Files,
                      f \notin shared, file[f] # Absent,
                      \A p \in Busy(f) : pc[p] # "write"
               PROVE  file'[f] = file[f]
    BY DEF FrozenStep
  <2>1. CASE UNCHANGED file
    BY <2>1
  <2>2. CASE \E p \in Processes : Open(p) \/ Write(p) \/ Kill(p)
    BY <2>2, StepFrozen
  <2> QED
    BY <2>1, <2>2 DEF Next, Call, Exists, Read, Embed, EmbedRaises
<1>2. Frozen <=> [][FrozenStep]_vars
  BY PTL DEF Frozen, FrozenStep
<1> QED
  BY <1>1, <1>2, AlwaysInv, PTL DEF Spec
================================================================================
