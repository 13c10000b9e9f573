--------------------------- MODULE MCRepositories ---------------------------
(***************************************************************************)
(* A small instance of RunStore and of FileCache.  A behaviour is about    *)
(* one of them (part), the other stays as it starts.  For RunStore there   *)
(* are two scopes, one of which a behaviour keeps to: two server processes *)
(* that ask for and rerun one run, or one process with several runs and no *)
(* feedback.  For FileCache there are two readers, a writer of the         *)
(* server's process and one of another process.                            *)
(***************************************************************************)
EXTENDS RunStore, FileCache, TLC

CONSTANTS q1, q2, first, second, r1

VARIABLE part

Within ==
  IF OneProcess
  THEN pc[q2] = "idle" /\ \A q \in Request, s \in Stage : applicable[q][s] = NoFeedback
  ELSE clock < MaxClock /\ \A q \in Request : pc[q] # "idle" => run[q] = r1

MCInit ==
  /\ Init /\ process[q1] = first /\ CacheInit
  /\ \/ part = "runs"
     \/ part = "cache" /\ process[q2] = first

MCNext ==
  /\ UNCHANGED part
  /\ \/ part = "runs" /\ Next /\ Within' /\ UNCHANGED cached
     \/ part = "cache" /\ CacheNext /\ UNCHANGED vars

MCSpec == MCInit /\ [][MCNext]_<<part, vars, cached>>

\* A request that is not being served keeps values nobody reads.
Quiet(q) == IF pc[q] = "idle" THEN <<>>
            ELSE <<run[q], snapshot[q], start[q], applicable[q], temp[q], doomed[q]>>

\* The history variables matter to one scope only; to the other, of them, only
\* whether a run was ever saved.
Seen == IF OneProcess THEN <<savedAt, writes>>
        ELSE {r \in Run : savedAt[r] # 0}
View == <<part, process, files, mtime, clock, pc, [q \in Request |-> Quiet(q)], Seen,
          cached>>

Alike == Permutations(Temp) \cup Permutations(Reader) \cup Permutations(Content)
=============================================================================
