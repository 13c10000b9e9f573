----------------------------- MODULE FileCache -----------------------------
(***************************************************************************)
(* One artifact on disk behind the cache of files.py.  Documentation and   *)
(* embeddings are read through it, by endpoints that run in threads and by *)
(* the event loop; the event loop and the command line rewrite the file,   *)
(* the command line from a process whose cache is another one.  Nothing    *)
(* is locked: every call of the file system is a step of its own.          *)
(***************************************************************************)
EXTENDS Naturals

CONSTANTS
  Reader,       \* threads reading the artifact
  Writer,       \* tasks rewriting it
  Foreign,      \* the writers of another process
  Content,      \* what a complete write puts into the file
  Torn,         \* what it holds between the truncation and the end of a write
  Missing,
  MaxSignature  \* bound of the model: changes of the file

ASSUME CacheAssumption ==
  /\ Torn \notin Content /\ Missing \notin Content \cup {Torn}
  /\ Reader \cap Writer = {} /\ Foreign \subseteq Writer
  /\ MaxSignature \in Nat

VARIABLES
  file,         \* what the path holds, and its modification time and size
  cache,        \* _cache's entry for the path
  at,           \* where each reader and each writer is
  signature,    \* what a reader's stat returned
  parsed,       \* what it has parsed
  writing,      \* what a writer is writing
  held          \* history: what the file has held since a read began

cached == <<file, cache, at, signature, parsed, writing, held>>

Data == Content \cup {Torn, Missing}
NoEntry == [signature |-> 0, data |-> Missing]

\* The path changes: no two of its states have one signature, as long as no
\* two writes of equal size fall into one tick of the file system's clock.
Becomes(data) ==
  /\ file.signature < MaxSignature
  /\ file' = [data |-> data, signature |-> file.signature + 1]
  /\ held' = [r \in Reader |-> IF at[r] = "idle" THEN held[r]
                               ELSE held[r] \cup {data}]

-----------------------------------------------------------------------------
(* read_cached                                                             *)

\* require: a path that is missing raises.
Require(r) ==
  /\ at[r] = "idle" /\ file.data # Missing
  /\ at' = [at EXCEPT ![r] = "stat"]
  /\ held' = [held EXCEPT ![r] = {file.data}]
  /\ UNCHANGED <<file, cache, signature, parsed, writing>>

Stat(r) ==
  /\ at[r] = "stat" /\ file.data # Missing
  /\ signature' = [signature EXCEPT ![r] = file.signature]
  /\ at' = [at EXCEPT ![r] = "lookup"]
  /\ UNCHANGED <<file, cache, parsed, writing, held>>

Hit(r) ==
  /\ at[r] = "lookup" /\ cache # NoEntry /\ cache.signature = signature[r]
  /\ parsed' = [parsed EXCEPT ![r] = cache.data]
  /\ at' = [at EXCEPT ![r] = "read"]
  /\ UNCHANGED <<file, cache, signature, writing, held>>

\* What a write has left half done may parse all the same.
Parse(r) ==
  /\ at[r] = "lookup" /\ cache.signature # signature[r] /\ file.data # Missing
  /\ parsed' = [parsed EXCEPT ![r] = file.data]
  /\ at' = [at EXCEPT ![r] = "parsed"]
  /\ UNCHANGED <<file, cache, signature, writing, held>>

\* The file has gone since require, or what it holds does not parse.
Raises(r) ==
  /\ \/ at[r] = "stat" /\ file.data = Missing
     \/ /\ at[r] = "lookup" /\ cache.signature # signature[r]
        /\ file.data \in {Torn, Missing}
  /\ at' = [at EXCEPT ![r] = "idle"]
  /\ UNCHANGED <<file, cache, signature, parsed, writing, held>>

\* A mutant: the file is looked at again after it has been parsed.
StoreRestat(r) ==
  /\ at[r] = "parsed"
  /\ cache' = [signature |-> file.signature, data |-> parsed[r]]
  /\ at' = [at EXCEPT ![r] = "read"]
  /\ UNCHANGED <<file, signature, parsed, writing, held>>

Store(r) ==
  /\ at[r] = "parsed"
  /\ cache' = [signature |-> signature[r], data |-> parsed[r]]
  /\ at' = [at EXCEPT ![r] = "read"]
  /\ UNCHANGED <<file, signature, parsed, writing, held>>

Return(r) ==
  /\ at[r] = "read"
  /\ at' = [at EXCEPT ![r] = "idle"]
  /\ UNCHANGED <<file, cache, signature, parsed, writing, held>>

-----------------------------------------------------------------------------
(* write_text: opening truncates, and the cached parse is dropped last.    *)

Truncate(w, content) ==
  /\ at[w] = "idle"
  /\ Becomes(Torn)
  /\ writing' = [writing EXCEPT ![w] = content]
  /\ at' = [at EXCEPT ![w] = "truncated"]
  /\ UNCHANGED <<cache, signature, parsed>>

Write(w) ==
  /\ at[w] = "truncated"
  /\ Becomes(writing[w])
  /\ at' = [at EXCEPT ![w] = IF w \in Foreign THEN "idle" ELSE "written"]
  /\ UNCHANGED <<cache, signature, parsed, writing>>

\* The disk is full, or the writer's process dies.
RewriteFails(w) ==
  /\ at[w] = "truncated"
  /\ at' = [at EXCEPT ![w] = "idle"]
  /\ UNCHANGED <<file, cache, signature, parsed, writing, held>>

Drop(w) ==
  /\ at[w] = "written"
  /\ cache' = NoEntry
  /\ at' = [at EXCEPT ![w] = "idle"]
  /\ UNCHANGED <<file, signature, parsed, writing, held>>

ClearCache ==
  /\ cache # NoEntry /\ cache' = NoEntry
  /\ UNCHANGED <<file, at, signature, parsed, writing, held>>

\* Somebody removes the artifact.
Remove ==
  /\ file.data # Missing /\ Becomes(Missing)
  /\ UNCHANGED <<cache, at, signature, parsed, writing>>

CacheInit ==
  /\ file = [data |-> Missing, signature |-> 0]
  /\ cache = NoEntry
  /\ at = [t \in Reader \cup Writer |-> "idle"]
  /\ signature = [r \in Reader |-> 0]
  /\ parsed = [r \in Reader |-> Missing]
  /\ writing = [w \in Writer |-> Torn]
  /\ held = [r \in Reader |-> {}]

Read(r) == \/ Require(r) \/ Stat(r) \/ Hit(r) \/ Parse(r) \/ Raises(r)
           \/ Store(r) \/ Return(r)

Rewrite(w) == \/ \E content \in Content : Truncate(w, content)
              \/ Write(w) \/ RewriteFails(w) \/ Drop(w)

CacheNext == \/ \E r \in Reader : Read(r)
        \/ \E w \in Writer : Rewrite(w)
        \/ ClearCache \/ Remove

CacheSpec == CacheInit /\ [][CacheNext]_cached

-----------------------------------------------------------------------------
(* Properties                                                              *)

\* Types of the file, of the cache entry and of every local of a read.
CacheTypeOK ==
  /\ file \in [data : Data, signature : Nat]
  /\ cache \in [data : Data, signature : Nat]
  /\ at \in [Reader \cup Writer ->
               {"idle", "stat", "lookup", "parsed", "read", "truncated", "written"}]
  /\ signature \in [Reader -> Nat] /\ parsed \in [Reader -> Data]
  /\ writing \in [Writer -> Content \cup {Torn}]
  /\ held \in [Reader -> SUBSET Data]

\* The cache never answers with less than a read of the file would: what a
\* read returns is something the file held at some moment of that very read
\* (files.py:20-23 and write_text's docstring), however reads and writes
\* interleave, and although a slow reader may put an old parse back after a
\* writer has dropped it.
ReadIsFresh == \A r \in Reader : at[r] = "read" => parsed[r] \in held[r]
=============================================================================
