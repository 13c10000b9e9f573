-------------------------- MODULE IngestionProofs --------------------------
(***************************************************************************)
(* Proofs about Ingestion: its types, and that a selection is skipped only *)
(* over the complete files of one run, and a listing fails on no database, *)
(* unless a forced or an overlapping run disturbed the files.  Progress    *)
(* says how far a run has got that is served alone.  Where nobody was      *)
(* disturbed it is inductive because the embeddings come last and stop     *)
(* every later run; a run over complete files keeps it up to its answer,   *)
(* which is what makes the files sound again.                              *)
(***************************************************************************)
EXTENDS Ingestion, TLAPS

(* Sequences of files *)

LEMMA Tuples ==
  ASSUME NEW a, NEW b, NEW c
  PROVE  /\ Head(<<a, b, c>>) = a /\ Tail(<<a, b, c>>) = <<b, c>>
         /\ Head(<<a, b>>) = a /\ Tail(<<a, b>>) = <<b>>
         /\ Head(<<a>>) = a /\ Tail(<<a>>) = <<>>
         /\ <<a, b, c>> # <<>> /\ <<a, b>> # <<>> /\ <<a>> # <<>>
OBVIOUS

\* The lists of files that a run works through.
LEMMA Concrete ==
  /\ Head(<<"schema", "graph", "mst">>) = "schema"
  /\ Tail(<<"schema", "graph", "mst">>) = <<"graph", "mst">>
  /\ Head(<<"graph", "mst">>) = "graph" /\ Tail(<<"graph", "mst">>) = <<"mst">>
  /\ Head(<<"mst">>) = "mst" /\ Tail(<<"mst">>) = <<>>
  /\ Head(<<"schema", "graph">>) = "schema"
  /\ Tail(<<"schema", "graph">>) = <<"graph">>
  /\ Head(<<"graph">>) = "graph" /\ Tail(<<"graph">>) = <<>>
  /\ Head(<<"schema", "descriptions", "embeddings">>) = "schema"
  /\ Tail(<<"schema", "descriptions", "embeddings">>) =
       <<"descriptions", "embeddings">>
  /\ Head(<<"schema", "descriptions">>) = "schema"
  /\ Tail(<<"schema", "descriptions">>) = <<"descriptions">>
  /\ Head(<<"descriptions">>) = "descriptions" /\ Tail(<<"descriptions">>) = <<>>
  /\ Head(<<"descriptions", "embeddings">>) = "descriptions"
  /\ Tail(<<"descriptions", "embeddings">>) = <<"embeddings">>
  /\ Head(<<"embeddings">>) = "embeddings" /\ Tail(<<"embeddings">>) = <<>>
BY Tuples

LEMMA Lists ==
  /\ Extraction \in Seq(Artifact) /\ Documents \in Seq(Artifact)
  /\ <<>> \in Seq(Artifact)
  /\ \A s \in Seq(Artifact) : s # <<>> =>
       Head(s) \in Artifact /\ Tail(s) \in Seq(Artifact)
<1>1. {"schema", "graph", "mst", "descriptions", "embeddings"} = Artifact
  BY DEF Artifact
<1>2. Extraction \in Seq(Artifact)
  BY <1>1 DEF Extraction
<1>3. Documents \in Seq(Artifact)
  BY <1>1 DEF Documents
<1>4. QED
  BY <1>2, <1>3

(* Types *)

LEMMA TypesInit == Init => TypeOK
<1> SUFFICES ASSUME Init PROVE TypeOK
  OBVIOUS
<1>1. <<>> \in Seq(Artifact)
  BY Lists
<1>2. todo \in [Request -> Seq(Artifact)]
  BY <1>1 DEF Init
<1>3. /\ live \in Version /\ extracted \in [Request -> Version]
      /\ batch \in [Request -> 1 .. Batches]
      /\ attempt \in [Request -> 1 .. DESCRIBE_MAX_ATTEMPTS]
  BY BoundAssumption DEF Init, Version
<1>4. QED
  BY <1>2, <1>3 DEF Init, TypeOK

LEMMA TypesEnds ==
  ASSUME TypeOK, NEW i \in Request, Ends(i), NEW how, answer' = how,
         how \in {"none", "skipped", "error", "ingested"}, disturbed' \in BOOLEAN
  PROVE  TypeOK'
BY BoundAssumption, Lists DEF Ends, TypeOK, Version, others

LEMMA TypesServe == ASSUME TypeOK, NEW i \in Request, Serve(i) PROVE TypeOK'
<1>1. CASE Open(i)
  BY <1>1, Lists DEF Open, TypeOK, local, others, history
<1>2. CASE Close(i)
  <2>1. [of |-> extracted[i], described |-> described[i]] \in Content
    BY DEF Content, TypeOK
  <2>2. Head(todo[i]) \in Artifact /\ Tail(todo[i]) \in Seq(Artifact)
    BY <1>2, Lists DEF Close, TypeOK
  <2>3. QED
    BY <1>2, <2>1, <2>2 DEF Close, TypeOK, others, history
<1>3. CASE WriteFails(i)
  BY <1>3, TypesEnds DEF WriteFails, TypeOK
<1>4. CASE Describe(i)
  BY <1>4, BoundAssumption DEF Describe, TypeOK, others, history
<1>5. CASE NextBatch(i)
  BY <1>5, BoundAssumption DEF NextBatch, TypeOK, others, history
<1>6. CASE AskAgain(i)
  BY <1>6, BoundAssumption DEF AskAgain, TypeOK, others, history
<1>7. CASE DescribeFails(i)
  BY <1>7, TypesEnds DEF DescribeFails, TypeOK
<1>8. CASE Apply(i)
  BY <1>8, Lists DEF Apply, TypeOK, others, history
<1>9. CASE Answer(i)
  BY <1>9, TypesEnds DEF Answer, TypeOK
<1>10. QED
  BY <1>1, <1>2, <1>3, <1>4, <1>5, <1>6, <1>7, <1>8, <1>9 DEF Serve

LEMMA TypesList == ASSUME TypeOK, List PROVE TypeOK'
<1>1. listing' \in {"none", "schema", "descriptions", "failed"}
  BY DEF List, ListEmbeddings, ListSchema, ListDescriptions, Loading, TypeOK
<1>2. UNCHANGED <<live, artifact, local, memory, history>>
  BY DEF List, ListEmbeddings, ListSchema, ListDescriptions
<1>3. QED
  BY <1>1, <1>2 DEF TypeOK, local, history

LEMMA TypesNext == TypeOK /\ [Next]_vars => TypeOK'
<1> SUFFICES ASSUME TypeOK, [Next]_vars PROVE TypeOK'
  OBVIOUS
<1>1. ASSUME NEW i \in Request, Skip(i) PROVE TypeOK'
  BY <1>1 DEF Skip, TypeOK, others, history
<1>2. ASSUME NEW i \in Request, NEW force \in BOOLEAN, Refuse(i, force)
      PROVE  TypeOK'
  BY <1>2 DEF Refuse, TypeOK, others, history
<1>3. ASSUME NEW i \in Request, NEW force \in BOOLEAN, Extract(i, force)
      PROVE  TypeOK'
  <2>1. whole' \subseteq Request /\ disturbed' \in BOOLEAN
    BY <1>3 DEF Extract, TypeOK
  <2>2. /\ pc' \in [Request -> {"idle", "writing", "describing"}]
        /\ extracted' \in [Request -> Version]
        /\ described' \in [Request -> BOOLEAN]
    BY <1>3 DEF Extract, TypeOK
  <2>3. todo' \in [Request -> Seq(Artifact)]
    BY <1>3, Lists DEF Extract, TypeOK
  <2>4. QED
    BY <1>3, <2>1, <2>2, <2>3 DEF Extract, TypeOK, others
<1>4. ASSUME NEW i \in Request, Serve(i) PROVE TypeOK'
  BY <1>4, TypesServe
<1>5. CASE LoadSchema
  <2>1. memory' \in Content \cup {Missing, Torn}
    <3>1. CASE Loads("schema")
      <4>1. artifact["schema"] \in [of : Version, described : BOOLEAN]
        BY <3>1 DEF Loads, Content
      <4>2. [artifact["schema"] EXCEPT !.described = @ \/ Loads("descriptions")]
              \in Content
        BY <4>1 DEF Content, Loads
      <4>3. QED
        BY <1>5, <3>1, <4>2 DEF LoadSchema
    <3>2. QED
      BY <1>5, <3>1 DEF LoadSchema
  <2>2. QED
    BY <1>5, <2>1 DEF LoadSchema, TypeOK, local, history
<1>6. CASE List
  BY <1>6, TypesList
<1>7. CASE Migrate
  BY <1>7, BoundAssumption DEF Migrate, TypeOK, local, others, history, Version
<1>8. CASE Crash
  BY <1>8, Lists, BoundAssumption DEF Crash, TypeOK, history, Version
<1>9. CASE UNCHANGED vars
  BY <1>9 DEF vars, local, others, history, TypeOK
<1>10. QED
  BY <1>1, <1>2, <1>3, <1>4, <1>5, <1>6, <1>7, <1>8, <1>9 DEF Next

\* Every variable of the ingestion keeps its type.
THEOREM IngestionTypes == Spec => []TypeOK
BY TypesInit, TypesNext, PTL DEF Spec

-----------------------------------------------------------------------------
(* The steps taken together by what they do to the files: most of them     *)
(* leave these alone, and take no request further than it was.             *)

\* Run i has written a, with its descriptions if it has them.
Done(i, a) == Loads(a) /\ artifact[a].of = extracted[i]
Graphs(i) == Done(i, "graph") /\ (HasMst => Done(i, "mst"))
Prose(i, a) == Done(i, a) /\ artifact[a].described

Extracting(i) ==
  \/ todo[i] = <<"schema", "graph", "mst">>
  \/ todo[i] = <<"graph", "mst">>
  \/ todo[i] = <<"mst">> /\ Done(i, "graph")
  \/ todo[i] = <<"schema", "graph">> /\ ~HasMst
  \/ todo[i] = <<"graph">> /\ ~HasMst
  \/ todo[i] = <<>> /\ Graphs(i)

\* What a run still writes once it has its descriptions: the embeddings last,
\* and only if there are none.
Tails == {<<"schema", "descriptions", "embeddings">>,
          <<"descriptions", "embeddings">>, <<"embeddings">>}
Short == {<<"schema", "descriptions">>, <<"descriptions">>, <<>>}

Documenting(i) ==
  /\ Graphs(i)
  /\ todo[i] \in Tails \cup Short
  /\ todo[i] \in Short => Loads("embeddings")
  /\ todo[i] \notin {<<"schema", "descriptions", "embeddings">>,
                     <<"schema", "descriptions">>} => Prose(i, "schema")
  /\ todo[i] \in {<<"embeddings">>, <<>>} => Prose(i, "descriptions")

Finished(i) == pc[i] = "writing" /\ described[i] /\ todo[i] = <<>>

\* How far run i has got, if it is served alone.
Progress(i) ==
  /\ pc[i] = "writing" /\ ~described[i] => Extracting(i)
  /\ pc[i] = "describing" => Graphs(i)
  /\ pc[i] = "writing" /\ described[i] => Documenting(i)

\* One request at a time is between two writes.
OneWrites ==
  \A i, o \in Request : pc[i] = "writing" /\ pc[o] = "writing" => i = o

\* Embeddings that load are not written again, and are the last to be.
MarkLast ==
  \A i \in Request :
    /\ todo[i] \in Seq(Artifact \ {"embeddings"}) \cup Tails
    /\ pc[i] = "writing" /\ Loads("embeddings") =>
         todo[i] \in Seq(Artifact \ {"embeddings"})

\* A listing goes on to schema and descriptions only past embeddings.
Listed == listing \in {"schema", "descriptions"} => Loads("embeddings")

\* Who is served alone is, and has got as far as its files have.
Whole ==
  \A i \in whole : pc[i] # "idle" =>
    Progress(i) /\ \A o \in Request \ {i} : pc[o] = "idle"

Sound ==
  ~disturbed =>
    /\ \A i \in Request : pc[i] # "idle" => i \in whole
    /\ Loads("embeddings") =>
         Complete /\ \A i \in Request : pc[i] = "idle" \/ Finished(i)

IInv == TypeOK /\ OneWrites /\ MarkLast /\ Listed /\ Whole /\ Sound

LEMMA SoundInit == Init => IInv
<1> SUFFICES ASSUME Init PROVE IInv
  OBVIOUS
<1>1. TypeOK
  BY TypesInit
<1>2. /\ \A i \in Request : pc[i] = "idle" /\ todo[i] = <<>>
      /\ ~Loads("embeddings")
  BY FileAssumption DEF Init, Loads, Artifact
<1>3. <<>> \in Seq(Artifact \ {"embeddings"})
  OBVIOUS
<1>4. OneWrites /\ MarkLast /\ Listed
  BY <1>2, <1>3 DEF OneWrites, MarkLast, Listed, Init
<1>5. Whole /\ Sound
  BY <1>2 DEF Whole, Sound, Init
<1>6. QED
  BY <1>1, <1>4, <1>5 DEF IInv

\* A step that leaves the files and whose requests stay where they are, or
\* are through.
LEMMA Kept ==
  ASSUME IInv, UNCHANGED <<artifact, whole>>,
         \A i \in Request :
           \/ pc'[i] = "idle" /\ todo'[i] = <<>>
           \/ /\ pc'[i] = pc[i] /\ todo'[i] = todo[i]
              /\ extracted'[i] = extracted[i] /\ described'[i] = described[i]
  PROVE  /\ OneWrites' /\ MarkLast' /\ Whole'
         /\ disturbed' = disturbed => Sound'
<1>1. \A a : Loads(a)' <=> Loads(a)
  BY DEF Loads
<1>2. Complete' <=> Complete
  BY DEF Complete, Loads
<1>3. OneWrites'
  BY DEF IInv, OneWrites
<1>4. MarkLast'
  <2>1. <<>> \in Seq(Artifact \ {"embeddings"})
    OBVIOUS
  <2>2. QED
    BY <1>1, <2>1 DEF IInv, MarkLast
<1>5. \A i \in Request :
        pc'[i] # "idle" /\ Progress(i) => Progress(i)'
  <2>1. SUFFICES ASSUME NEW i \in Request, pc'[i] # "idle", Progress(i)
                 PROVE  Progress(i)'
    OBVIOUS
  <2>2. /\ pc'[i] = pc[i] /\ todo'[i] = todo[i]
        /\ extracted'[i] = extracted[i] /\ described'[i] = described[i]
    BY <2>1
  <2>3. \A a : Done(i, a)' <=> Done(i, a)
    BY <1>1, <2>2 DEF Done
  <2>4. \A a : Prose(i, a)' <=> Prose(i, a)
    BY <2>3 DEF Prose
  <2>5. Graphs(i)' <=> Graphs(i)
    BY <2>3 DEF Graphs
  <2>6. Extracting(i) => Extracting(i)'
    BY <2>2, <2>3, <2>5 DEF Extracting
  <2>7. Documenting(i) => Documenting(i)'
    BY <1>1, <2>2, <2>4, <2>5 DEF Documenting
  <2>8. QED
    BY <2>1, <2>2, <2>5, <2>6, <2>7 DEF Progress
<1>6. Whole'
  <2>1. SUFFICES ASSUME NEW i \in whole, pc'[i] # "idle"
                 PROVE  Progress(i)' /\ \A o \in Request \ {i} : pc'[o] = "idle"
    BY DEF Whole
  <2>2. i \in Request
    BY DEF IInv, TypeOK
  <2>3. pc[i] # "idle"
    BY <2>1, <2>2
  <2>4. Progress(i) /\ \A o \in Request \ {i} : pc[o] = "idle"
    BY <2>3 DEF IInv, Whole
  <2>5. QED
    BY <1>5, <2>1, <2>2, <2>4
<1>7. ASSUME disturbed' = disturbed PROVE Sound'
  <2>1. \A i \in Request : Finished(i) => Finished(i)' \/ pc'[i] = "idle"
    BY DEF Finished
  <2>2. QED
    BY <1>1, <1>2, <1>7, <2>1 DEF IInv, Sound
<1>8. QED
  BY <1>3, <1>4, <1>6, <1>7

\* A step of request i that does not end it.
LEMMA Advanced ==
  ASSUME IInv, TypeOK', NEW i \in Request, pc[i] # "idle",
         pc[i] = "writing" \/ LoopFree,
         \A o \in Request \ {i} : /\ pc'[o] = pc[o] /\ todo'[o] = todo[o]
                                  /\ extracted'[o] = extracted[o]
                                  /\ described'[o] = described[o],
         UNCHANGED <<listing, whole, disturbed>>,
         todo'[i] \in Seq(Artifact \ {"embeddings"}) \cup Tails,
         pc'[i] = "writing" /\ Loads("embeddings")' =>
           todo'[i] \in Seq(Artifact \ {"embeddings"}),
         Loads("embeddings") => Loads("embeddings")',
         i \in whole => Progress(i)',
         ~disturbed /\ Loads("embeddings")' => Complete' /\ Finished(i)'
  PROVE  IInv'
<1>1. \A o \in Request \ {i} : pc[o] # "writing"
  BY DEF IInv, OneWrites, LoopFree
<1>2. OneWrites'
  BY <1>1 DEF OneWrites
<1>3. MarkLast'
  BY <1>1 DEF IInv, MarkLast
<1>4. Listed'
  BY DEF IInv, Listed
<1>5. i \in whole => \A o \in Request \ {i} : pc'[o] = "idle"
  BY DEF IInv, Whole
<1>6. Whole'
  BY <1>5 DEF IInv, Whole, TypeOK
<1>7. Sound'
  <2>1. SUFFICES ASSUME ~disturbed
                 PROVE  /\ \A o \in Request : pc'[o] # "idle" => o \in whole
                        /\ Loads("embeddings")' =>
                             /\ Complete'
                             /\ \A o \in Request :
                                  pc'[o] = "idle" \/ Finished(o)'
    BY DEF Sound
  <2>2. i \in whole /\ \A o \in Request : pc'[o] # "idle" => o \in whole
    BY <2>1 DEF IInv, Sound
  <2>3. QED
    BY <1>5, <2>1, <2>2
<1>8. QED
  BY <1>2, <1>3, <1>4, <1>6, <1>7 DEF IInv

-----------------------------------------------------------------------------
(* What request i does once it is taken on                                 *)

LEMMA OpenKeeps == ASSUME IInv, NEW i \in Request, Open(i) PROVE IInv'
<1>1. TypeOK'
  BY TypesServe DEF IInv, Serve
<1>2. PICK h \in Artifact : h = Head(todo[i])
  BY Lists DEF Open, IInv, TypeOK
<1>3. /\ artifact' = [artifact EXCEPT ![h] = Torn]
      /\ pc[i] = "writing" /\ todo[i] # <<>>
      /\ UNCHANGED <<local, listing, whole, disturbed>>
  BY <1>2 DEF Open, others, history
<1>4. /\ \A a \in Artifact \ {h} : artifact'[a] = artifact[a]
      /\ artifact'[h] = Torn
  BY <1>3 DEF IInv, TypeOK
<1>5. Loads("embeddings")' => Loads("embeddings")
  BY <1>4, FileAssumption DEF Loads, Artifact
<1>6. Loads("embeddings") => Loads("embeddings")'
  <2>1. SUFFICES ASSUME Loads("embeddings") PROVE h # "embeddings"
    BY <1>4 DEF Loads, Artifact
  <2>2. todo[i] \in Seq(Artifact \ {"embeddings"}) /\ todo[i] # <<>>
    BY <1>3, <2>1 DEF IInv, MarkLast
  <2>3. Head(todo[i]) \in Artifact \ {"embeddings"}
    BY <2>2
  <2>4. QED
    BY <1>2, <2>3
<1>7. \A a \in Artifact \ {h} :
        /\ Done(i, a) => Done(i, a)'
        /\ Prose(i, a) => Prose(i, a)'
  BY <1>3, <1>4 DEF Done, Prose, Loads, local
<1>8. ASSUME Progress(i) PROVE Progress(i)'
  <2>1. CASE ~described[i]
    <3>1. Extracting(i) /\ todo' = todo
      BY <1>3, <1>8, <2>1 DEF Progress, local
    <3>2. CASE todo[i] = <<"mst">> /\ Done(i, "graph")
      <4>1. h = "mst"
        BY <1>2, <3>2
      <4>2. Done(i, "graph")'
        BY <1>7, <3>2, <4>1 DEF Artifact
      <4>3. QED
        BY <1>3, <2>1, <3>1, <3>2, <4>2 DEF Progress, Extracting, local
    <3>3. CASE todo[i] # <<"mst">>
      <4>1. Extracting(i)'
        BY <1>3, <3>1, <3>3 DEF Extracting
      <4>2. QED
        BY <1>3, <2>1, <4>1 DEF Progress, local
    <3>4. QED
      BY <1>3, <3>1, <3>2, <3>3, Tuples DEF Extracting
  <2>2. CASE described[i]
    <3>1. Documenting(i) /\ todo' = todo
      BY <1>3, <1>8, <2>2 DEF Progress, local
    <3>2. h \notin {"graph", "mst"}
      BY <1>2, <1>3, <3>1, Concrete DEF Documenting, Tails, Short
    <3>3. Graphs(i)'
      BY <1>7, <3>1, <3>2 DEF Documenting, Graphs, Artifact
    <3>4. todo[i] \notin {<<"schema", "descriptions", "embeddings">>,
                          <<"schema", "descriptions">>} => Prose(i, "schema")'
      <4>1. todo[i] \in {<<"descriptions", "embeddings">>, <<"descriptions">>,
                         <<"embeddings">>} => h # "schema"
        BY <1>2, Concrete
      <4>2. QED
        BY <1>3, <1>7, <3>1, <4>1 DEF Documenting, Tails, Short, Artifact
    <3>5. todo[i] \in {<<"embeddings">>, <<>>} => Prose(i, "descriptions")'
      <4>1. todo[i] = <<"embeddings">> => h # "descriptions"
        BY <1>2, Concrete
      <4>2. QED
        BY <1>3, <1>7, <3>1, <4>1 DEF Documenting, Artifact
    <3>6. Documenting(i)'
      BY <1>6, <3>1, <3>3, <3>4, <3>5 DEF Documenting
    <3>7. QED
      BY <1>3, <2>2, <3>6 DEF Progress, local
  <2>3. QED
    BY <2>1, <2>2
<1>9. ~disturbed => ~Loads("embeddings")'
  BY <1>3, <1>5 DEF IInv, Sound, Finished
<1>10. i \in whole => Progress(i)'
  BY <1>3, <1>8 DEF IInv, Whole
<1>11. /\ todo'[i] \in Seq(Artifact \ {"embeddings"}) \cup Tails
       /\ Loads("embeddings")' => todo'[i] \in Seq(Artifact \ {"embeddings"})
  BY <1>3, <1>5 DEF IInv, MarkLast, local
<1>12. QED
  BY <1>1, <1>3, <1>6, <1>9, <1>10, <1>11, Advanced DEF local

\* What is left to write after the first file of it.
LEMMA Rests ==
  ASSUME NEW s \in Seq(Artifact \ {"embeddings"}) \cup Tails, s # <<>>
  PROVE  /\ Tail(s) \in Seq(Artifact \ {"embeddings"}) \cup Tails
         /\ s \in Seq(Artifact \ {"embeddings"}) \/ Head(s) = "embeddings" =>
              Tail(s) \in Seq(Artifact \ {"embeddings"})
<1>1. CASE s \in Seq(Artifact \ {"embeddings"})
  <2>1. Tail(s) \in Seq(Artifact \ {"embeddings"})
    BY <1>1
  <2>2. QED
    BY <2>1
<1>2. CASE s \in Tails
  <2>1. <<>> \in Seq(Artifact \ {"embeddings"})
    OBVIOUS
  <2>2. CASE s = <<"embeddings">>
    BY <2>1, <2>2, Concrete
  <2>3. CASE s \in {<<"schema", "descriptions", "embeddings">>,
                    <<"descriptions", "embeddings">>}
    <3>1. Tail(s) \in Tails /\ Head(s) # "embeddings"
      BY <2>3, Concrete DEF Tails
    <3>2. s \in Seq(Artifact \ {"embeddings"}) =>
            Tail(s) \in Seq(Artifact \ {"embeddings"})
      BY <1>2, s # <<>>
    <3>3. QED
      BY <3>1, <3>2
  <2>4. QED
    BY <1>2, <2>2, <2>3 DEF Tails
<1>3. QED
  BY <1>1, <1>2

LEMMA CloseKeeps == ASSUME IInv, NEW i \in Request, Close(i) PROVE IInv'
<1>1. TypeOK'
  BY TypesServe DEF IInv, Serve
<1>2. PICK h \in Artifact : h = Head(todo[i])
  BY Lists DEF Close, IInv, TypeOK
<1> DEFINE new == [of |-> extracted[i], described |-> described[i]]
<1>3. /\ artifact' = [artifact EXCEPT ![h] = new]
      /\ pc[i] = "writing" /\ todo[i] # <<>>
      /\ UNCHANGED <<pc, extracted, described, listing, whole, disturbed>>
      /\ todo' = [todo EXCEPT ![i] = Tail(todo[i])]
      /\ todo'[i] = Tail(todo[i])
  BY <1>2 DEF Close, IInv, TypeOK, others, history
<1>4. new \in Content
  BY DEF Content, IInv, TypeOK
<1>5. /\ \A a \in Artifact \ {h} : artifact'[a] = artifact[a]
      /\ artifact'[h] = new
  BY <1>3 DEF IInv, TypeOK
<1>6. \A a \in Artifact : Loads(a) => Loads(a)'
  BY <1>4, <1>5 DEF Loads
<1>7. Loads("embeddings")' => Loads("embeddings") \/ h = "embeddings"
  BY <1>5 DEF Loads, Artifact
<1>8. \A a \in Artifact :
        /\ Done(i, a) => Done(i, a)'
        /\ h # a /\ Prose(i, a) => Prose(i, a)'
  BY <1>3, <1>4, <1>5 DEF Done, Prose, Loads
<1>9. Done(i, h)' /\ (described[i] => Prose(i, h)')
  BY <1>3, <1>4, <1>5 DEF Done, Prose, Loads
<1>10. Graphs(i) => Graphs(i)'
  BY <1>8 DEF Graphs, Artifact
<1>11. ASSUME Progress(i) PROVE Progress(i)'
  <2>1. CASE ~described[i]
    <3>1. Extracting(i)
      BY <1>3, <1>11, <2>1 DEF Progress
    <3>2. Extracting(i)'
      <4>1. CASE todo[i] = <<"schema", "graph", "mst">>
        BY <1>3, <4>1, Concrete DEF Extracting
      <4>2. CASE todo[i] = <<"graph", "mst">>
        <5>1. h = "graph" /\ todo'[i] = <<"mst">>
          BY <1>2, <1>3, <4>2, Concrete
        <5>2. QED
          BY <1>9, <5>1 DEF Extracting
      <4>3. CASE todo[i] = <<"mst">> /\ Done(i, "graph")
        <5>1. h = "mst" /\ todo'[i] = <<>>
          BY <1>2, <1>3, <4>3, Concrete
        <5>2. Done(i, "graph")'
          BY <1>8, <4>3 DEF Artifact
        <5>3. QED
          BY <1>9, <5>1, <5>2 DEF Extracting, Graphs
      <4>4. CASE todo[i] = <<"schema", "graph">> /\ ~HasMst
        BY <1>3, <4>4, Concrete DEF Extracting
      <4>5. CASE todo[i] = <<"graph">> /\ ~HasMst
        <5>1. h = "graph" /\ todo'[i] = <<>>
          BY <1>2, <1>3, <4>5, Concrete
        <5>2. QED
          BY <1>9, <4>5, <5>1 DEF Extracting, Graphs
      <4>6. QED
        BY <1>3, <3>1, <4>1, <4>2, <4>3, <4>4, <4>5 DEF Extracting
    <3>3. QED
      BY <1>3, <2>1, <3>2 DEF Progress
  <2>2. CASE described[i]
    <3>1. Documenting(i)
      BY <1>3, <1>11, <2>2 DEF Progress
    <3>2. Documenting(i)'
      <4>1. CASE todo[i] = <<"schema", "descriptions", "embeddings">>
        <5>1. h = "schema" /\ todo'[i] = <<"descriptions", "embeddings">>
          BY <1>2, <1>3, <4>1, Concrete
        <5>2. QED
          BY <1>9, <1>10, <2>2, <3>1, <5>1 DEF Documenting, Tails, Short
      <4>2. CASE todo[i] = <<"descriptions", "embeddings">>
        <5>1. h = "descriptions" /\ todo'[i] = <<"embeddings">>
          BY <1>2, <1>3, <4>2, Concrete
        <5>2. Prose(i, "schema")'
          BY <1>8, <3>1, <4>2, <5>1 DEF Documenting, Artifact
        <5>3. QED
          BY <1>9, <1>10, <2>2, <3>1, <5>1, <5>2 DEF Documenting, Tails, Short
      <4>3. CASE todo[i] = <<"embeddings">>
        <5>1. h = "embeddings" /\ todo'[i] = <<>>
          BY <1>2, <1>3, <4>3, Concrete
        <5>2. Prose(i, "schema")' /\ Prose(i, "descriptions")'
          BY <1>8, <3>1, <4>3, <5>1 DEF Documenting, Artifact
        <5>3. Loads("embeddings")'
          BY <1>9, <5>1 DEF Done
        <5>4. QED
          BY <1>10, <3>1, <5>1, <5>2, <5>3 DEF Documenting, Tails, Short
      <4>4. CASE todo[i] = <<"schema", "descriptions">>
        <5>1. h = "schema" /\ todo'[i] = <<"descriptions">>
          BY <1>2, <1>3, <4>4, Concrete
        <5>2. Loads("embeddings")'
          BY <1>6, <3>1, <4>4 DEF Documenting, Short, Artifact
        <5>3. QED
          BY <1>9, <1>10, <2>2, <3>1, <5>1, <5>2 DEF Documenting, Tails, Short
      <4>5. CASE todo[i] = <<"descriptions">>
        <5>1. h = "descriptions" /\ todo'[i] = <<>>
          BY <1>2, <1>3, <4>5, Concrete
        <5>2. Prose(i, "schema")'
          BY <1>8, <3>1, <4>5, <5>1 DEF Documenting, Artifact
        <5>3. Loads("embeddings")'
          BY <1>6, <3>1, <4>5 DEF Documenting, Short, Artifact
        <5>4. QED
          BY <1>9, <1>10, <2>2, <3>1, <5>1, <5>2, <5>3
             DEF Documenting, Tails, Short
      <4>6. QED
        BY <1>3, <3>1, <4>1, <4>2, <4>3, <4>4, <4>5 DEF Documenting, Tails, Short
    <3>3. QED
      BY <1>3, <2>2, <3>2 DEF Progress
  <2>3. QED
    BY <2>1, <2>2
<1>12. i \in whole => Progress(i)'
  BY <1>3, <1>11 DEF IInv, Whole
<1>13. ASSUME ~disturbed, Loads("embeddings")' PROVE Complete' /\ Finished(i)'
  <2>1. i \in whole /\ ~Loads("embeddings")
    BY <1>3, <1>13 DEF IInv, Sound, Finished
  <2>2. h = "embeddings" /\ Progress(i) /\ Progress(i)'
    BY <1>3, <1>7, <1>12, <1>13, <2>1 DEF IInv, Whole
  <2>3. described[i]
    <3>1. ~Extracting(i)
      BY <1>2, <1>3, <2>2, Concrete DEF Extracting
    <3>2. QED
      BY <1>3, <2>2, <3>1 DEF Progress
  <2>4. todo[i] = <<"embeddings">>
    <3>1. todo[i] \in Tails \cup Short
      BY <1>3, <2>2, <2>3 DEF Progress, Documenting
    <3>2. QED
      BY <1>2, <1>3, <2>2, <3>1, Concrete DEF Tails, Short
  <2>5. todo'[i] = <<>>
    BY <1>3, <2>4, Concrete
  <2>6. Documenting(i)'
    BY <1>3, <2>2, <2>3 DEF Progress
  <2>7. /\ Graphs(i)' /\ Prose(i, "schema")' /\ Prose(i, "descriptions")'
    BY <2>5, <2>6, Tuples DEF Documenting
  <2>8. Complete'
    BY <1>13, <2>7 DEF Complete, Graphs, Done, Prose, Artifact
  <2>9. QED
    BY <1>3, <2>3, <2>5, <2>8 DEF Finished
<1>14. /\ todo'[i] \in Seq(Artifact \ {"embeddings"}) \cup Tails
       /\ Loads("embeddings")' => todo'[i] \in Seq(Artifact \ {"embeddings"})
  <2>1. todo[i] \in Seq(Artifact \ {"embeddings"}) \cup Tails
    BY DEF IInv, MarkLast
  <2>2. Loads("embeddings") => todo[i] \in Seq(Artifact \ {"embeddings"})
    BY <1>3 DEF IInv, MarkLast
  <2>3. QED
    BY <1>2, <1>3, <1>7, <2>1, <2>2, Rests
<1>15. Loads("embeddings") => Loads("embeddings")'
  BY <1>6 DEF Artifact
<1>16. \A o \in Request \ {i} : pc'[o] = pc[o] /\ todo'[o] = todo[o]
  BY <1>3 DEF IInv, TypeOK
<1>17. QED
  BY <1>1, <1>3, <1>12, <1>13, <1>14, <1>15, <1>16, Advanced

LEMMA DescribeKeeps == ASSUME IInv, NEW i \in Request, Describe(i) PROVE IInv'
<1>1. TypeOK'
  BY TypesServe DEF IInv, Serve
<1>2. /\ pc[i] = "writing" /\ todo[i] = <<>> /\ ~described[i]
      /\ pc' = [pc EXCEPT ![i] = "describing"] /\ pc'[i] = "describing"
      /\ UNCHANGED <<artifact, extracted, described, todo, listing, whole,
                     disturbed>>
  BY DEF Describe, IInv, TypeOK, others, history
<1>3. i \in whole => Progress(i)'
  <2>1. SUFFICES ASSUME i \in whole PROVE Graphs(i)
    BY <1>2 DEF Progress, Graphs, Done, Loads
  <2>2. Extracting(i)
    BY <1>2, <2>1 DEF IInv, Whole, Progress
  <2>3. QED
    BY <1>2, <2>2, Tuples DEF Extracting
<1>4. ~disturbed => ~Loads("embeddings")'
  BY <1>2 DEF IInv, Sound, Finished, Loads
<1>5. todo'[i] \in Seq(Artifact \ {"embeddings"}) \cup Tails
  BY <1>2 DEF IInv, MarkLast
<1>6. \A o \in Request \ {i} : pc'[o] = pc[o]
  BY <1>2 DEF IInv, TypeOK
<1>7. Loads("embeddings") => Loads("embeddings")'
  BY <1>2 DEF Loads
<1>8. QED
  BY <1>1, <1>2, <1>3, <1>4, <1>5, <1>6, <1>7, Advanced

LEMMA ApplyKeeps == ASSUME IInv, NEW i \in Request, Apply(i) PROVE IInv'
<1>1. TypeOK'
  BY TypesServe DEF IInv, Serve
<1>2. /\ pc[i] = "describing" /\ LoopFree
      /\ pc' = [pc EXCEPT ![i] = "writing"] /\ pc'[i] = "writing"
      /\ described' = [described EXCEPT ![i] = TRUE] /\ described'[i]
      /\ todo' = [todo EXCEPT ![i] = Documents] /\ todo'[i] = Documents
      /\ UNCHANGED <<artifact, extracted, listing, whole, disturbed>>
  BY DEF Apply, IInv, TypeOK, others, history
<1>3. Loads("embeddings")' <=> Loads("embeddings")
  BY <1>2 DEF Loads
<1>4. /\ Loads("embeddings") => Documents = <<"schema", "descriptions">>
      /\ ~Loads("embeddings") =>
           Documents = <<"schema", "descriptions", "embeddings">>
  BY DEF Documents
<1>5. i \in whole => Progress(i)'
  <2>1. SUFFICES ASSUME i \in whole PROVE Documenting(i)'
    BY <1>2 DEF Progress
  <2>2. Graphs(i)
    BY <1>2, <2>1 DEF IInv, Whole, Progress
  <2>3. Graphs(i)'
    BY <1>2, <2>2 DEF Graphs, Done, Loads
  <2>4. CASE Loads("embeddings")
    <3>1. todo'[i] = <<"schema", "descriptions">> /\ todo'[i] \in Short
      BY <1>2, <1>4, <2>4 DEF Short
    <3>2. todo'[i] \notin {<<"embeddings">>, <<>>}
      BY <3>1, Tuples
    <3>3. QED
      BY <1>3, <2>3, <2>4, <3>1, <3>2 DEF Documenting
  <2>5. CASE ~Loads("embeddings")
    <3>1. /\ todo'[i] = <<"schema", "descriptions", "embeddings">>
          /\ todo'[i] \in Tails
      BY <1>2, <1>4, <2>5 DEF Tails
    <3>2. todo'[i] \notin Short /\ todo'[i] # <<"embeddings">>
      BY <3>1, Tuples DEF Short
    <3>3. todo'[i] # <<>>
      BY <3>2 DEF Short
    <3>4. QED
      BY <2>3, <3>1, <3>2, <3>3 DEF Documenting
  <2>6. QED
    BY <2>4, <2>5
<1>6. ~disturbed => ~Loads("embeddings")'
  BY <1>2, <1>3 DEF IInv, Sound, Finished
<1>7. <<"schema", "descriptions">> \in Seq(Artifact \ {"embeddings"})
  <2>1. {"schema", "descriptions"} \subseteq Artifact \ {"embeddings"}
    BY DEF Artifact
  <2>2. QED
    BY <2>1
<1>8. /\ todo'[i] \in Seq(Artifact \ {"embeddings"}) \cup Tails
      /\ Loads("embeddings")' => todo'[i] \in Seq(Artifact \ {"embeddings"})
  BY <1>2, <1>3, <1>4, <1>7 DEF Tails
<1>9. \A o \in Request \ {i} : /\ pc'[o] = pc[o] /\ todo'[o] = todo[o]
                               /\ described'[o] = described[o]
  BY <1>2 DEF IInv, TypeOK
<1>10. QED
  BY <1>1, <1>2, <1>3, <1>5, <1>6, <1>8, <1>9, Advanced

\* A run that nobody came in between of leaves the files of one run.
LEMMA AnswerKeeps == ASSUME IInv, NEW i \in Request, Answer(i) PROVE IInv'
<1>1. TypeOK'
  BY TypesServe DEF IInv, Serve
<1>2. /\ pc[i] = "writing" /\ todo[i] = <<>> /\ described[i]
      /\ pc' = [pc EXCEPT ![i] = "idle"]
      /\ disturbed' = (disturbed /\ i \notin whole)
      /\ UNCHANGED <<artifact, listing, whole>>
  BY DEF Answer, Ends, others
<1>3. \A o \in Request :
        \/ pc'[o] = "idle" /\ todo'[o] = <<>>
        \/ /\ pc'[o] = pc[o] /\ todo'[o] = todo[o]
           /\ extracted'[o] = extracted[o] /\ described'[o] = described[o]
  BY DEF Answer, Ends, IInv, TypeOK
<1>4. OneWrites' /\ MarkLast' /\ Whole'
  BY <1>2, <1>3, Kept
<1>5. Listed'
  BY <1>2 DEF IInv, Listed, Loads
<1>6. Sound'
  <2>1. CASE i \in whole
    <3>1. Documenting(i) /\ \A o \in Request \ {i} : pc[o] = "idle"
      BY <1>2, <2>1 DEF IInv, Whole, Progress
    <3>2. /\ Graphs(i) /\ Prose(i, "schema") /\ Prose(i, "descriptions")
          /\ Loads("embeddings")
      BY <1>2, <3>1, Tuples DEF Documenting, Short
    <3>3. Complete
      BY <3>2 DEF Complete, Graphs, Done, Prose, Artifact
    <3>4. Complete'
      BY <1>2, <3>3 DEF Complete, Loads
    <3>5. \A o \in Request : pc'[o] = "idle"
      BY <1>2, <3>1 DEF IInv, TypeOK
    <3>6. QED
      BY <3>4, <3>5 DEF Sound
  <2>2. CASE i \notin whole
    <3>1. disturbed' = disturbed
      BY <1>2, <2>2 DEF IInv, TypeOK
    <3>2. QED
      BY <1>2, <1>3, <3>1, Kept
  <2>3. QED
    BY <2>1, <2>2
<1>7. QED
  BY <1>1, <1>4, <1>5, <1>6 DEF IInv

\* A step of Kept that does not touch the listing, or only ends it.
LEMMA Stays ==
  ASSUME IInv, TypeOK', UNCHANGED <<artifact, whole, disturbed>>,
         listing' = listing \/ listing' = "none",
         \A i \in Request :
           \/ pc'[i] = "idle" /\ todo'[i] = <<>>
           \/ /\ pc'[i] = pc[i] /\ todo'[i] = todo[i]
              /\ extracted'[i] = extracted[i] /\ described'[i] = described[i]
  PROVE  IInv'
<1>1. OneWrites' /\ MarkLast' /\ Whole' /\ Sound'
  BY Kept
<1>2. Listed'
  BY DEF IInv, Listed, Loads
<1>3. QED
  BY <1>1, <1>2 DEF IInv

LEMMA ServeKeeps == ASSUME IInv, NEW i \in Request, Serve(i) PROVE IInv'
<1>1. TypeOK'
  BY TypesServe DEF IInv
<1>2. ASSUME Ends(i), disturbed' = disturbed PROVE IInv'
  <2>1. UNCHANGED <<artifact, listing, whole>>
    BY <1>2 DEF Ends, others
  <2>2. \A o \in Request :
          \/ pc'[o] = "idle" /\ todo'[o] = <<>>
          \/ /\ pc'[o] = pc[o] /\ todo'[o] = todo[o]
             /\ extracted'[o] = extracted[o] /\ described'[o] = described[o]
    BY <1>2 DEF Ends, IInv, TypeOK
  <2>3. QED
    BY <1>1, <1>2, <2>1, <2>2, Stays
<1>3. CASE WriteFails(i)
  BY <1>2, <1>3 DEF WriteFails
<1>4. CASE NextBatch(i)
  BY <1>1, <1>4, Stays DEF NextBatch, others, history
<1>5. CASE AskAgain(i)
  BY <1>1, <1>5, Stays DEF AskAgain, others, history
<1>6. CASE DescribeFails(i)
  BY <1>2, <1>6 DEF DescribeFails
<1>7. QED
  BY <1>3, <1>4, <1>5, <1>6, OpenKeeps, CloseKeeps, DescribeKeeps, ApplyKeeps,
     AnswerKeeps DEF Serve

LEMMA ExtractKeeps ==
  ASSUME IInv, NEW i \in Request, NEW force \in BOOLEAN, Extract(i, force)
  PROVE  IInv'
<1>1. TypeOK'
  BY TypesNext DEF IInv, Next
<1>2. /\ pc[i] = "idle" /\ LoopFree
      /\ pc' = [pc EXCEPT ![i] = "writing"] /\ pc'[i] = "writing"
      /\ todo' = [todo EXCEPT ![i] = Extraction] /\ todo'[i] = Extraction
      /\ ~described'[i]
      /\ whole' = {o \in {i} : \A r \in Request : pc[r] = "idle"}
      /\ disturbed' = (disturbed \/ Loads("embeddings") \/ whole' = {})
      /\ UNCHANGED <<artifact, listing>>
  BY DEF Extract, Arrives, IInv, TypeOK, others
<1>3. Loads("embeddings")' <=> Loads("embeddings")
  BY <1>2 DEF Loads
<1>4. \A o \in Request \ {i} : /\ pc'[o] = pc[o] /\ pc[o] # "writing"
                               /\ todo'[o] = todo[o]
  BY <1>2 DEF IInv, TypeOK, LoopFree
<1>5. Extraction \in Seq(Artifact \ {"embeddings"})
  <2> DEFINE Others == Artifact \ {"embeddings"}
  <2>1. /\ "schema" \in Others /\ "graph" \in Others /\ "mst" \in Others
    BY DEF Artifact
  <2>2. <<"schema", "graph", "mst">> \in Seq(Others)
    BY ONLY <2>1
  <2>3. <<"schema", "graph">> \in Seq(Others)
    BY ONLY <2>1
  <2>4. QED
    BY <2>2, <2>3 DEF Extraction
<1>6. OneWrites' /\ MarkLast'
  BY <1>2, <1>4, <1>5 DEF IInv, OneWrites, MarkLast
<1>7. Listed'
  BY <1>2, <1>3 DEF IInv, Listed
<1>8. Progress(i)'
  BY <1>2 DEF Progress, Extracting, Extraction
<1>9. Whole'
  BY <1>2, <1>4, <1>8 DEF Whole
<1>10. Sound'
  <2>1. SUFFICES ASSUME ~disturbed'
                 PROVE  /\ \A o \in Request : pc'[o] # "idle" => o \in whole'
                        /\ ~Loads("embeddings")'
    BY DEF Sound
  <2>2. ~Loads("embeddings") /\ whole' # {}
    BY <1>2, <2>1
  <2>3. i \in whole' /\ \A o \in Request : pc[o] = "idle"
    BY <1>2, <2>2
  <2>4. QED
    BY <1>3, <1>4, <2>2, <2>3
<1>11. QED
  BY <1>1, <1>6, <1>7, <1>9, <1>10 DEF IInv

LEMMA ListKeeps == ASSUME IInv, List PROVE IInv'
<1>1. TypeOK'
  BY TypesList DEF IInv
<1>2. UNCHANGED <<artifact, pc, extracted, described, todo, whole, disturbed>>
  BY DEF List, ListEmbeddings, ListSchema, ListDescriptions, local, history
<1>3. OneWrites' /\ MarkLast' /\ Whole' /\ Sound'
  BY <1>2, Kept
<1>4. Listed'
  BY <1>2 DEF IInv, Listed, List, ListEmbeddings, ListSchema, ListDescriptions,
              Loading, Loads
<1>5. QED
  BY <1>1, <1>3, <1>4 DEF IInv

LEMMA SoundNext == IInv /\ [Next]_vars => IInv'
<1> SUFFICES ASSUME IInv, [Next]_vars PROVE IInv'
  OBVIOUS
<1>1. TypeOK'
  BY TypesNext DEF IInv
<1>2. ASSUME NEW i \in Request, Skip(i) PROVE IInv'
  BY <1>1, <1>2, Stays DEF Skip, others, history
<1>3. ASSUME NEW i \in Request, NEW force \in BOOLEAN, Refuse(i, force)
      PROVE  IInv'
  BY <1>1, <1>3, Stays DEF Refuse, others, history
<1>4. CASE LoadSchema
  BY <1>1, <1>4, Stays DEF LoadSchema, local, history
<1>5. CASE Migrate
  BY <1>1, <1>5, Stays DEF Migrate, local, others, history
<1>6. CASE Crash
  BY <1>1, <1>6, Stays DEF Crash, history
<1>7. CASE UNCHANGED vars
  BY <1>1, <1>7, Stays DEF vars, local, others, history
<1>8. QED
  BY <1>2, <1>3, <1>4, <1>5, <1>6, <1>7, ServeKeeps, ExtractKeeps, ListKeeps
     DEF Next

\* A selection that is skipped finds the complete, described files of one run
\* and one version of the database, wherever earlier runs failed or crashed,
\* unless a forced or an overlapping run came in between and none has got
\* through alone since.
THEOREM SkippedIsComplete == Spec => []SkipMeansComplete
<1>1. IInv => SkipMeansComplete
  BY DEF IInv, Sound, SkipMeansComplete, Marked
<1>2. QED
  BY <1>1, SoundInit, SoundNext, PTL DEF Spec

-----------------------------------------------------------------------------
(* The listing of the databases survives each of them.                     *)

\* Only a file that does not load makes a listing fail.  Past embeddings that
\* load, which are there to stay, schema and descriptions load as well.
LEMMA ListingStep ==
  ASSUME IInv, [Next]_vars, listing' = "failed", listing # "failed"
  PROVE  disturbed
<1>1. List
  BY DEF Next, vars, Skip, Refuse, Extract, Serve, Open, Close, WriteFails,
         Describe, NextBatch, AskAgain, DescribeFails, Apply, Answer, Ends,
         LoadSchema, Migrate, Crash, others
<1>2. PICK a \in {"schema", "descriptions"} : listing = a /\ ~Loads(a)
  BY <1>1 DEF List, ListEmbeddings, ListSchema, ListDescriptions, Loading,
              MayFail
<1>3. Loads("embeddings") /\ ~Complete
  BY <1>2 DEF IInv, Listed, Complete, Artifact
<1>4. QED
  BY <1>3 DEF IInv, Sound

\* A listing, which reads one file after the other while runs write, fail and
\* crash, fails on no database unless a forced or an overlapping run came in
\* between and none has got through alone since.
THEOREM ListingIsSafe == Spec => ListingSurvives
<1>1. IInv /\ [Next]_vars => (listing' = "failed" /\ listing # "failed" => disturbed)
  BY ListingStep
<1>2. QED
  BY <1>1, SoundInit, SoundNext, PTL DEF Spec, ListingSurvives
=============================================================================
