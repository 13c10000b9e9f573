--------------------------- MODULE RunStoreProofs ---------------------------
(***************************************************************************)
(* For any requests, processes, runs and bounds: the run files keep their  *)
(* type, the feedback history in a run's file accounts for the selection   *)
(* and the query beside it, and while one process uses the directory a     *)
(* saved run is kept until it may go.  And the caches of the file          *)
(* repositories (FileCache), which are read by the same requests, return   *)
(* what was in the file.                                                   *)
(*                                                                         *)
(* For the history, the invariant covers what has not reached a run's file *)
(* yet: every temporary file and every copy a request has loaded is        *)
(* explained by its own history, and a request has no feedback for a stage *)
(* before the one it starts from, so that what it keeps it need not        *)
(* explain again.  For retention, it covers the clean-up that has chosen   *)
(* what it will remove: nothing it holds is saved again before it is done, *)
(* and no two files are of the same instant, so that the MaxFiles files a  *)
(* clean-up leaves stand for as many writes.                               *)
(***************************************************************************)
EXTENDS RunStore, FileCache, FiniteSetTheorems, TLAPS

Applies ==
  \A q \in Request : \A t \in Stage :
    <<t, start[q]>> \in Earlier => applicable[q][t] = NoFeedback

IInv ==
  /\ TypeOK /\ Applies
  /\ \A p \in Path : Exists(p) => Explained(files[p])
  /\ \A q \in Request : Explained(snapshot[q])

-----------------------------------------------------------------------------
(* Windows                                                                 *)

\* What a prompt shows is a window, and its newest item is the current
\* feedback if there is one, the last of the history otherwise.
LEMMA WindowShowsNewest ==
  ASSUME NEW prior \in Given, NEW current \in Given
  PROVE  /\ Window(prior, current) \in Items
         /\ Latest(Window(prior, current)) =
              IF current # NoFeedback THEN current ELSE prior
<1> DEFINE before == IF prior = NoFeedback THEN <<>> ELSE <<prior>>
<1>1. Window(prior, current) = IF current \in {NoFeedback, prior} THEN before
                               ELSE Append(before, current)
  BY DEF Window
<1>2. CASE prior = NoFeedback /\ current = NoFeedback
  BY <1>1, <1>2 DEF Latest, Items
<1>3. CASE prior # NoFeedback /\ current = NoFeedback
  <2>1. before = <<prior>> /\ prior \in Feedback
    BY <1>3 DEF Given
  <2>2. Window(prior, current) = <<prior>>
    BY <1>1, <1>3, <2>1
  <2> QED
    BY <1>3, <2>1, <2>2 DEF Latest, Items
<1>4. CASE prior = NoFeedback /\ current # NoFeedback
  <2>1. before = <<>> /\ current \in Feedback
    BY <1>4 DEF Given
  <2>2. Window(prior, current) = <<current>>
    BY <1>1, <1>4, <2>1
  <2> QED
    BY <1>4, <2>1, <2>2 DEF Latest, Items
<1>5. CASE prior # NoFeedback /\ current # NoFeedback
  <2>1. /\ before = <<prior>>
        /\ prior \in Feedback /\ current \in Feedback
    BY <1>5 DEF Given
  <2>2. CASE prior = current
    <3>1. Window(prior, current) = <<current>>
      BY <1>1, <2>1, <2>2
    <3> QED
      BY <1>5, <2>1, <3>1 DEF Latest, Items
  <2>3. CASE prior # current
    <3>1. Window(prior, current) = Append(<<prior>>, current)
      BY <1>1, <1>5, <2>1, <2>3
    <3>2. /\ <<prior>> \in Seq(Feedback) /\ Len(<<prior>>) = 1
          /\ Append(<<prior>>, current) \in Seq(Feedback)
          /\ Len(Append(<<prior>>, current)) = 2
          /\ Append(<<prior>>, current)[2] = current
      BY <2>1
    <3>3. Append(<<prior>>, current) # <<>>
      BY <3>2
    <3> QED
      BY <1>5, <3>1, <3>2, <3>3 DEF Latest, Items
  <2> QED
    BY <2>2, <2>3
<1> QED
  BY <1>2, <1>3, <1>4, <1>5

LEMMA BlankIsExplained ==
  BlankState \in State /\ Explained(BlankState)
BY DEF BlankState, State, Explained, Latest, Guidance, Items, Given, Stage

\* What a request saves is a state that its own history explains.
LEMMA SavedIsExplained ==
  ASSUME IInv, NEW q \in Request, NEW kept \in BOOLEAN,
         kept => start[q] = "validation"
  PROVE  Saved(q, kept) \in State /\ Explained(Saved(q, kept))
<1>1. /\ snapshot[q] \in State /\ Explained(snapshot[q])
      /\ applicable[q] \in [Stage -> Given] /\ start[q] \in Stage
      /\ \A t \in Stage :
           <<t, start[q]>> \in Earlier => applicable[q][t] = NoFeedback
  BY DEF IInv, TypeOK, Applies
<1>2. /\ snapshot[q].last \in [Stage -> Given] /\ snapshot[q].selection \in Items
      /\ snapshot[q].query \in Guidance
  BY <1>1 DEF State
<1>3. \A s \in Stage : /\ ItemsOf(q, s) \in Items
                       /\ Latest(ItemsOf(q, s)) = LastOf(q)[s]
  <2> SUFFICES ASSUME NEW s \in Stage
               PROVE  /\ ItemsOf(q, s) \in Items
                      /\ Latest(ItemsOf(q, s)) = LastOf(q)[s]
    OBVIOUS
  <2>1. snapshot[q].last[s] \in Given /\ applicable[q][s] \in Given
    BY <1>1, <1>2
  <2> QED
    BY <2>1, WindowShowsNewest DEF ItemsOf, LastOf
<1>4. LastOf(q) \in [Stage -> Given]
  BY <1>1, <1>2 DEF LastOf
<1>5. {"table_selection", "query_generation", "validation"} = Stage
  BY DEF Stage
<1>6. GuidanceOf(q) \in Guidance
  BY <1>3, <1>5 DEF GuidanceOf, Guidance
<1>7. /\ Saved(q, kept).last = LastOf(q)
      /\ Saved(q, kept).selection =
           IF start[q] = "table_selection"
           THEN ItemsOf(q, "table_selection") ELSE snapshot[q].selection
      /\ Saved(q, kept).query =
           IF kept THEN snapshot[q].query ELSE GuidanceOf(q)
  BY DEF Saved
<1>8. Saved(q, kept) \in State
  <2> DEFINE selection == IF start[q] = "table_selection"
                          THEN ItemsOf(q, "table_selection")
                          ELSE snapshot[q].selection
             query == IF kept THEN snapshot[q].query ELSE GuidanceOf(q)
  <2>1. selection \in Items /\ query \in Guidance
    BY <1>2, <1>3, <1>5, <1>6
  <2>2. Saved(q, kept) = [last |-> LastOf(q), selection |-> selection,
                          query |-> query, told |-> GuidanceOf(q)]
    BY DEF Saved
  <2> HIDE DEF selection, query
  <2> QED
    BY <1>4, <1>6, <2>1, <2>2 DEF State
\* A part that is kept had no feedback given for the stages that made it.
<1>9. ASSUME NEW s \in Stage, <<s, start[q]>> \in Earlier
      PROVE  LastOf(q)[s] = snapshot[q].last[s]
  BY <1>1, <1>9 DEF LastOf
<1>10. Latest(Saved(q, kept).selection) = LastOf(q)["table_selection"]
  <2>1. CASE start[q] = "table_selection"
    BY <1>3, <1>5, <1>7, <2>1
  <2>2. CASE start[q] # "table_selection"
    <3>1. <<"table_selection", start[q]>> \in Earlier
      BY <1>1, <2>2 DEF Stage, Earlier
    <3> QED
      BY <1>1, <1>5, <1>7, <1>9, <2>2, <3>1 DEF Explained
  <2> QED
    BY <2>1, <2>2
<1>11. /\ Latest(Saved(q, kept).query.table_selection) =
            LastOf(q)["table_selection"]
       /\ Latest(Saved(q, kept).query.query_generation) =
            LastOf(q)["query_generation"]
  <2>1. CASE kept
    <3>1. /\ <<"table_selection", start[q]>> \in Earlier
          /\ <<"query_generation", start[q]>> \in Earlier
      BY <2>1 DEF Earlier
    <3> QED
      BY <1>1, <1>5, <1>7, <1>9, <2>1, <3>1 DEF Explained
  <2>2. CASE ~kept
    BY <1>3, <1>5, <1>7, <2>2 DEF GuidanceOf
  <2> QED
    BY <2>1, <2>2
<1> QED
  BY <1>7, <1>8, <1>10, <1>11 DEF Explained

-----------------------------------------------------------------------------
(* The invariant                                                           *)

LEMMA InitInv == Init => IInv
<1> SUFFICES ASSUME Init PROVE IInv
  OBVIOUS
<1>1. TypeOK
  BY BoundAssumption, BlankIsExplained
  DEF Init, TypeOK, Stage, Given, Saving
<1>2. Applies
  BY DEF Init, Applies
<1>3. /\ \A p \in Path : ~Exists(p)
      /\ \A q \in Request : Explained(snapshot[q])
  BY BlankIsExplained DEF Init, Exists
<1> QED
  BY <1>1, <1>2, <1>3 DEF IInv

\* A step that writes no file and loads nothing.
LEMMA IdleStep ==
  ASSUME IInv, TypeOK', UNCHANGED <<snapshot, start, applicable>>,
         \A p \in Path : files'[p] \in {files[p], NoFile}
  PROVE  IInv'
BY DEF IInv, Applies, Exists

\* A temporary file is written, and maybe its request ends.
LEMMA WriteStep ==
  ASSUME IInv, TypeOK', UNCHANGED <<snapshot, start, applicable>>,
         NEW t \in Temp, NEW state \in State, Explained(state),
         files' = [files EXCEPT ![t] = state]
  PROVE  IInv'
<1>1. \A p \in Path : files'[p] = IF p = t THEN state ELSE files[p]
  BY DEF IInv, TypeOK
<1> QED
  BY <1>1 DEF IInv, Applies, Exists

\* A request starts on a state that is explained.
LEMMA StartStep ==
  ASSUME IInv, TypeOK', UNCHANGED files, NEW q \in Request, NEW s \in Stage,
         NEW state \in State, Explained(state), NEW given \in [Stage -> Given],
         \A t \in Stage : <<t, s>> \in Earlier => given[t] = NoFeedback,
         snapshot' = [snapshot EXCEPT ![q] = state],
         start' = [start EXCEPT ![q] = s],
         applicable' = [applicable EXCEPT ![q] = given]
  PROVE  IInv'
<1>1. \A o \in Request : /\ snapshot'[o] = IF o = q THEN state ELSE snapshot[o]
                         /\ start'[o] = IF o = q THEN s ELSE start[o]
                         /\ applicable'[o] = IF o = q THEN given ELSE applicable[o]
  BY DEF IInv, TypeOK
<1>2. Applies'
  BY <1>1 DEF IInv, Applies
<1>3. \A o \in Request : Explained(snapshot[o])'
  BY <1>1 DEF IInv
<1>4. \A p \in Path : Exists(p)' => Explained(files[p])'
  BY DEF IInv, Exists
<1> QED
  BY <1>2, <1>3, <1>4 DEF IInv

LEMMA NextInv == IInv /\ [Next]_vars => IInv'
<1> SUFFICES ASSUME IInv, [Next]_vars PROVE IInv'
  OBVIOUS
<1>a. TypeOK /\ clock \in Nat /\ clock + 1 \in Nat
  BY DEF IInv, TypeOK
<1>b. process' = process
  BY DEF Next, vars
<1>0. TypeOK /\ clock \in Nat /\ clock + 1 \in Nat /\ process' = process
  BY <1>a, <1>b
<1>1. ASSUME NEW q \in Request, NEW r \in Run, Ask(q, r) PROVE IInv'
  <2> DEFINE given == [s \in Stage |-> NoFeedback]
  <2>1. given \in [Stage -> Given] /\ "table_selection" \in Stage
    BY DEF Given, Stage
  <2>2. TypeOK'
    BY <1>0, <1>1, <2>1, BlankIsExplained DEF TypeOK, Ask, history
  <2> QED
    BY <1>1, <2>1, <2>2, BlankIsExplained, StartStep DEF Ask
<1>2. ASSUME NEW q \in Request, NEW r \in Run, NEW s \in Stage,
             NEW given \in [Stage -> Given], Rerun(q, r, s, given)
      PROVE  IInv'
  <2>1. files[r] \in State /\ Explained(files[r])
    BY <1>0, <1>2 DEF Rerun, Exists, IInv, TypeOK, Path
  <2>2. TypeOK'
    BY <1>0, <1>2, <2>1 DEF TypeOK, Rerun, history
  <2> QED
    BY <1>2, <2>1, <2>2, StartStep DEF Rerun
<1>3. ASSUME NEW q \in Request, EndUnsaved(q) \/ Respond(q) PROVE IInv'
  <2>1. TypeOK'
    BY <1>0, <1>3 DEF TypeOK, EndUnsaved, Respond, history
  <2> QED
    BY <1>3, <2>1, IdleStep DEF EndUnsaved, Respond
<1>4. ASSUME NEW q \in Request, NEW t \in Temp, NEW kept \in BOOLEAN,
             WriteTemp(q, t, kept)
      PROVE  IInv'
  <2>1. Saved(q, kept) \in State /\ Explained(Saved(q, kept))
    BY <1>4, SavedIsExplained DEF WriteTemp
  <2>2. TypeOK'
    BY <1>0, <1>4, <2>1 DEF TypeOK, WriteTemp, Saving, Path
  <2> QED
    BY <1>4, <2>1, <2>2, WriteStep DEF WriteTemp
<1>5. ASSUME NEW q \in Request, NEW t \in Temp, WriteFails(q, t) PROVE IInv'
  <2>1. TypeOK'
    BY <1>0, <1>5, BlankIsExplained DEF TypeOK, WriteFails, Path
  <2> QED
    BY <1>5, <2>1, WriteStep, BlankIsExplained DEF WriteFails
<1>6. ASSUME NEW q \in Request, Replace(q) PROVE IInv'
  <2>1. /\ run[q] \in Path /\ temp[q] \in Path
        /\ files[temp[q]] \in State /\ Explained(files[temp[q]])
    BY <1>0, <1>6 DEF Replace, TypeOK, Exists, IInv, Path
  <2>2. TypeOK'
    <3>1. files' \in [Path -> State \cup {NoFile}]
      BY <1>0, <1>6, <2>1 DEF TypeOK, Replace
    <3>2. mtime[temp[q]] \in Nat
      BY <1>0, <2>1 DEF TypeOK
    <3>3. mtime' \in [Path -> Nat] /\ savedAt' \in [Run -> Nat]
      BY <1>0, <1>6, <3>2 DEF TypeOK, Replace
    <3> QED
      BY <1>0, <1>6, <3>1, <3>3 DEF TypeOK, Replace, Saving
  <2>3. \A p \in Path : files'[p] \in {files[p], files[temp[q]], NoFile}
    BY <1>0, <1>6, <2>1 DEF Replace, TypeOK
  <2>4. \A p \in Path : Exists(p)' => Explained(files[p])'
    BY <2>1, <2>3 DEF Exists, IInv
  <2> QED
    BY <1>6, <2>2, <2>4 DEF Replace, IInv, Applies
<1>7. ASSUME NEW q \in Request, ReplaceFails(q) PROVE IInv'
  <2>1. TypeOK'
    BY <1>0, <1>7 DEF TypeOK, ReplaceFails, history
  <2>2. \A p \in Path : files'[p] \in {files[p], NoFile}
    BY <1>0, <1>7 DEF ReplaceFails, TypeOK
  <2> QED
    BY <1>7, <2>1, <2>2, IdleStep DEF ReplaceFails
<1>8. ASSUME NEW q \in Request, List(q) PROVE IInv'
  <2>1. PICK E \in Excess : doomed' = [doomed EXCEPT ![q] = Expired \cup E]
    BY <1>8 DEF List
  <2>2. Expired \cup E \subseteq Path
    BY <2>1 DEF Excess, Recent, Expired
  <2>3. TypeOK'
    BY <1>0, <1>8, <2>1, <2>2 DEF TypeOK, List, Saving, history
  <2> QED
    BY <1>8, <2>3, IdleStep DEF List
<1>9. ASSUME NEW q \in Request, NEW p \in Path, Unlink(q, p) PROVE IInv'
  <2>1. TypeOK'
    BY <1>0, <1>9 DEF TypeOK, Unlink, history
  <2>2. \A o \in Path : files'[o] \in {files[o], NoFile}
    BY <1>0, <1>9 DEF Unlink, TypeOK
  <2> QED
    BY <1>9, <2>1, <2>2, IdleStep DEF Unlink
<1>10. ASSUME NEW o \in Process, Crash(o) PROVE IInv'
  <2>1. TypeOK'
    BY <1>0, <1>10 DEF TypeOK, Crash, history
  <2> QED
    BY <1>10, <2>1, IdleStep DEF Crash
<1>11. CASE Pass \/ UNCHANGED vars
  <2>1. TypeOK'
    BY <1>0, <1>11 DEF TypeOK, Pass, vars, request, history
  <2> QED
    BY <1>11, <2>1, IdleStep DEF Pass, vars, request
<1> QED
  BY <1>1, <1>2, <1>3, <1>4, <1>5, <1>6, <1>7, <1>8, <1>9, <1>10, <1>11
  DEF Next, Serve

LEMMA Invariant == Spec => []IInv
<1> QED
  BY InitInv, NextInv, PTL DEF Spec

\* The run files, the requests and the copies they hold keep their type.
THEOREM RunTypes == Spec => []TypeOK
<1>1. IInv => TypeOK
  BY DEF IInv
<1> QED
  BY Invariant, <1>1, PTL

\* Whatever reruns overlap and wherever processes die, the feedback history
\* in a run's file accounts for its selection and for its query.
THEOREM HistoryExplains == Spec => []HistoryExplainsArtifacts
<1>1. IInv => HistoryExplainsArtifacts
  BY DEF IInv, HistoryExplainsArtifacts, Path
<1> QED
  BY Invariant, <1>1, PTL

-----------------------------------------------------------------------------
(* What one process removes                                                *)

\* One request saves at a time; a file is known by the instant at which it was
\* written; and what a clean-up has found may go, whenever it gets to it.
Retaining ==
  /\ \A q, o \in Request : pc[q] \in Saving /\ pc[o] \in Saving => q = o
  /\ writes \subseteq 1 .. clock
  /\ \A p \in Path : Exists(p) => mtime[p] \in writes
  /\ \A p, k \in Path : Exists(p) /\ Exists(k) /\ mtime[p] = mtime[k] => p = k
  /\ \A r \in Run : Exists(r) => savedAt[r] = mtime[r]
  /\ \A r \in Run : savedAt[r] # 0 /\ ~Exists(r) => MayGo(r)
  /\ \A q \in Request : pc[q] = "unlinking" =>
       \A r \in Run : r \in doomed[q] /\ savedAt[r] # 0 => MayGo(r)

\* What may go may still go later.
LEMMA MayStillGo ==
  ASSUME TypeOK, NEW r \in Run, MayGo(r), savedAt'[r] = savedAt[r],
         clock' \in Nat, clock <= clock', writes \subseteq writes', writes' \subseteq 1 .. clock'
  PROVE  MayGo(r)'
<1> DEFINE S == {w \in writes : w > savedAt[r]}
           T == {w \in writes' : w > savedAt[r]}
<1>1. clock \in Nat /\ savedAt[r] \in Nat /\ MaxAge \in Nat /\ MaxFiles \in Nat
  BY BoundAssumption DEF TypeOK
<1>2. S \subseteq T /\ T \subseteq 1 .. clock'
  OBVIOUS
<1>3. IsFiniteSet(1 .. clock')
  BY FS_Interval
<1>4. IsFiniteSet(T)
  BY <1>2, <1>3, FS_Subset
<1>5. IsFiniteSet(S) /\ Cardinality(S) <= Cardinality(T)
  <2> HIDE DEF S, T
  <2> QED
    BY <1>2, <1>4, FS_Subset
<1>6. Cardinality(S) \in Nat /\ Cardinality(T) \in Nat
  <2> HIDE DEF S, T
  <2> QED
    BY <1>4, <1>5, FS_CardinalityType
<1>7. CASE clock - savedAt[r] > MaxAge
  BY <1>1, <1>7 DEF MayGo
<1>8. CASE Cardinality(S) >= MaxFiles
  <2>1. Cardinality(T) >= MaxFiles
    <3> HIDE DEF S, T
    <3> QED
      BY <1>1, <1>5, <1>6, <1>8
  <2>2. QED
    BY <2>1 DEF MayGo
<1>9. QED
  BY <1>7, <1>8 DEF MayGo

\* The files that a clean-up finds beyond the newest MaxFiles are each older
\* than all of those.
LEMMA ExcessMayGo ==
  ASSUME TypeOK, Retaining, NEW E \in Excess, NEW r \in Run, r \in E
  PROVE  MayGo(r)
<1> DEFINE K == Recent \ E
           T == {w \in writes : w > savedAt[r]}
           f == [k \in K |-> mtime[k]]
<1>1. /\ E \subseteq Recent
      /\ Cardinality(K) = IF Cardinality(Recent) > MaxFiles THEN MaxFiles ELSE Cardinality(Recent)
      /\ \A p \in E, k \in K : mtime[p] <= mtime[k]
  BY DEF Excess
<1>2. \A k \in Recent : k \in Path /\ Exists(k) /\ mtime[k] \in Nat
  BY DEF Recent, TypeOK
<1>3. r \in Path /\ Exists(r) /\ savedAt[r] = mtime[r]
  BY <1>1, <1>2 DEF Retaining
<1>4. IsFiniteSet(1 .. clock) /\ clock \in Nat
  BY FS_Interval DEF TypeOK
<1>5. IsFiniteSet(T)
  <2>1. T \subseteq 1 .. clock
    BY DEF Retaining
  <2>2. QED
    BY <1>4, <2>1, FS_Subset
<1>6. IsFiniteSet(Recent)
  <2> DEFINE g == [k \in Recent |-> mtime[k]]
  <2>1. g \in [Recent -> 1 .. clock]
    BY <1>2 DEF Retaining
  <2>2. \A k, l \in Recent : g[k] = g[l] => k = l
    BY <1>2 DEF Retaining
  <2> HIDE DEF g
  <2>3. g \in Injection(Recent, 1 .. clock)
    BY <2>1, <2>2 DEF Injection, IsInjective
  <2>4. QED
    BY <1>4, <2>3, FS_Injection
<1>7. ASSUME NEW k \in K PROVE mtime[k] \in T
  <2>1. k \in Path /\ Exists(k) /\ k # r /\ mtime[r] <= mtime[k]
    BY <1>1, <1>2
  <2>2. mtime[k] # mtime[r] /\ mtime[k] \in writes
    BY <1>3, <2>1 DEF Retaining
  <2>3. mtime[k] \in Nat /\ mtime[r] \in Nat
    BY <1>1, <1>2
  <2>4. QED
    BY <1>3, <2>1, <2>2, <2>3
<1>8. f \in Injection(K, T)
  <2>1. f \in [K -> T]
    BY <1>7
  <2>2. \A k, l \in K : f[k] = f[l] => k = l
    BY <1>2 DEF Retaining
  <2> HIDE DEF f, K, T
  <2>3. QED
    BY <2>1, <2>2 DEF Injection, IsInjective
<1>9. Cardinality(K) <= Cardinality(T)
  <2> HIDE DEF f, K, T
  <2> QED
    BY <1>5, <1>8, FS_Injection
<1>10. Cardinality(K) # Cardinality(Recent)
  <2>1. K \subseteq Recent /\ K # Recent
    BY <1>1
  <2> HIDE DEF K
  <2>2. QED
    BY <1>6, <2>1, FS_Subset
<1>11. Cardinality(K) = MaxFiles
  BY <1>1, <1>10
<1>12. Cardinality(T) >= MaxFiles
  <2>1. Cardinality(T) \in Nat /\ MaxFiles \in Nat
    BY <1>5, FS_CardinalityType, BoundAssumption
  <2> HIDE DEF T, K
  <2>2. QED
    BY <1>9, <1>11, <2>1
<1>13. QED
  BY <1>12 DEF MayGo

\* A step that saves no run: it may write a temporary file, and it removes of
\* the runs' files only some that may go.
LEMMA RetainStep ==
  ASSUME TypeOK, Retaining, TypeOK', savedAt' = savedAt,
         clock <= clock', writes \subseteq writes', writes' \subseteq 1 .. clock',
         \A q, o \in Request : pc'[q] \in Saving /\ pc'[o] \in Saving => q = o,
         \A p \in Path : Exists(p)' => mtime'[p] \in writes',
         \A p, k \in Path : Exists(p)' /\ Exists(k)' /\ mtime'[p] = mtime'[k] => p = k,
         \A r \in Run : Exists(r)' => Exists(r) /\ mtime'[r] = mtime[r],
         \A r \in Run : Exists(r) /\ ~Exists(r)' /\ savedAt[r] # 0 => MayGo(r),
         \A q \in Request : pc'[q] = "unlinking" =>
           \A r \in Run : r \in doomed'[q] /\ savedAt[r] # 0 => MayGo(r)
  PROVE  Retaining'
<1>1. clock' \in Nat
  BY DEF TypeOK
<1>2. ASSUME NEW r \in Run, MayGo(r) PROVE MayGo(r)'
  BY <1>1, <1>2, MayStillGo
<1>3. \A r \in Run : Exists(r)' => savedAt'[r] = mtime'[r]
  BY DEF Retaining
<1>4. \A r \in Run : savedAt'[r] # 0 /\ ~Exists(r)' => MayGo(r)'
  BY <1>2 DEF Retaining
<1>5. \A q \in Request : pc'[q] = "unlinking" =>
        \A r \in Run : r \in doomed'[q] /\ savedAt'[r] # 0 => MayGo(r)'
  BY <1>2
<1>6. QED
  BY <1>3, <1>4, <1>5 DEF Retaining

\* A step that touches neither files nor clock, and dooms nothing.
LEMMA RetainIdle ==
  ASSUME TypeOK, Retaining, TypeOK', UNCHANGED <<files, mtime, clock, history>>,
         \A q, o \in Request : pc'[q] \in Saving /\ pc'[o] \in Saving => q = o,
         \A q \in Request : pc'[q] = "unlinking" =>
           \A r \in Run : r \in doomed'[q] /\ savedAt[r] # 0 => MayGo(r)
  PROVE  Retaining'
<1>1. /\ files' = files /\ mtime' = mtime /\ clock' = clock /\ savedAt' = savedAt /\ writes' = writes
      /\ clock \in Nat
  BY DEF history, TypeOK
<1>2. \A p \in Path : Exists(p)' <=> Exists(p)
  BY <1>1 DEF Exists
<1>3. Run \subseteq Path
  BY DEF Path
<1>4. /\ \A p \in Path : Exists(p)' => mtime'[p] \in writes'
      /\ \A p, k \in Path : Exists(p)' /\ Exists(k)' /\ mtime'[p] = mtime'[k] => p = k
      /\ writes' \subseteq 1 .. clock'
  BY <1>1, <1>2 DEF Retaining
<1>5. clock <= clock' /\ writes \subseteq writes'
  BY <1>1
<1>6. QED
  BY <1>1, <1>2, <1>3, <1>4, <1>5, RetainStep

\* A temporary file is written, maybe for good.
LEMMA RetainWrite ==
  ASSUME TypeOK, Retaining, TypeOK', savedAt' = savedAt, doomed' = doomed,
         NEW t \in Temp, ~Exists(t), NEW state, files' = [files EXCEPT ![t] = state],
         clock' = clock + 1, writes' = writes \cup {clock'},
         mtime' = [mtime EXCEPT ![t] = clock'],
         \A q, o \in Request : pc'[q] \in Saving /\ pc'[o] \in Saving => q = o,
         \A q \in Request : pc'[q] = "unlinking" => pc[q] = "unlinking"
  PROVE  Retaining'
<1>1. /\ t \in Path /\ clock \in Nat /\ \A r \in Run : r # t /\ r \in Path
      /\ \A p \in Path : p # t => files'[p] = files[p] /\ mtime'[p] = mtime[p]
      /\ mtime'[t] = clock + 1
  BY NameAssumption DEF TypeOK, Path
<1>2. \A p \in Path : p # t => (Exists(p)' <=> Exists(p))
  BY <1>1 DEF Exists
<1>3. writes \subseteq 1 .. clock /\ writes' \subseteq 1 .. clock'
  BY <1>1 DEF Retaining
<1>4. \A p \in Path : Exists(p) => mtime[p] \in writes /\ mtime[p] # clock + 1
  BY <1>1, <1>3 DEF Retaining
<1>5. \A p \in Path : Exists(p)' => mtime'[p] \in writes'
  BY <1>1, <1>2, <1>4
<1>6. ASSUME NEW p \in Path, NEW k \in Path, Exists(p)', Exists(k)', mtime'[p] = mtime'[k]
      PROVE  p = k
  BY <1>1, <1>2, <1>4, <1>6 DEF Retaining
<1>7. /\ \A r \in Run : Exists(r)' => Exists(r) /\ mtime'[r] = mtime[r]
      /\ \A r \in Run : ~ (Exists(r) /\ ~Exists(r)')
  BY <1>1, <1>2
<1>8. \A q \in Request : pc'[q] = "unlinking" =>
        \A r \in Run : r \in doomed'[q] /\ savedAt[r] # 0 => MayGo(r)
  BY DEF Retaining
<1>9. clock <= clock' /\ writes \subseteq writes'
  BY <1>1
<1>10. QED
  BY <1>3, <1>5, <1>6, <1>7, <1>8, <1>9, RetainStep

\* Files are removed, of the runs only those that may go.
LEMMA RetainRemove ==
  ASSUME TypeOK, Retaining, TypeOK', UNCHANGED <<mtime, clock, savedAt, writes>>,
         \A p \in Path : files'[p] \in {files[p], NoFile},
         \A r \in Run : Exists(r) /\ ~Exists(r)' /\ savedAt[r] # 0 => MayGo(r),
         \A q \in Request : pc'[q] \in Saving => pc[q] \in Saving,
         \A q \in Request : pc'[q] = "unlinking" => pc[q] = "unlinking" /\ doomed'[q] \subseteq doomed[q]
  PROVE  Retaining'
<1>1. \A p \in Path : Exists(p)' => Exists(p)
  BY DEF Exists
<1>2. clock \in Nat /\ clock' = clock /\ writes' = writes /\ mtime' = mtime /\ savedAt' = savedAt
  BY DEF TypeOK
<1>3. Run \subseteq Path
  BY DEF Path
<1>4. /\ \A p \in Path : Exists(p)' => mtime'[p] \in writes'
      /\ \A p, k \in Path : Exists(p)' /\ Exists(k)' /\ mtime'[p] = mtime'[k] => p = k
      /\ writes' \subseteq 1 .. clock'
      /\ \A q, o \in Request : pc'[q] \in Saving /\ pc'[o] \in Saving => q = o
  BY <1>1, <1>2 DEF Retaining
<1>5. /\ clock <= clock' /\ writes \subseteq writes'
      /\ \A r \in Run : Exists(r)' => Exists(r) /\ mtime'[r] = mtime[r]
  BY <1>1, <1>2, <1>3
<1>6. \A q \in Request : pc'[q] = "unlinking" =>
        \A r \in Run : r \in doomed'[q] /\ savedAt[r] # 0 => MayGo(r)
  BY DEF Retaining
<1>7. QED
  BY <1>2, <1>4, <1>5, <1>6, RetainStep

\* A run is saved: its file takes the place and the instant of the temporary one.
LEMMA RetainReplace ==
  ASSUME TypeOK, Retaining, TypeOK', NEW q \in Request, Replace(q)
  PROVE  Retaining'
<1>0. PICK r \in Run, t \in Temp : r = run[q] /\ t = temp[q]
  BY DEF TypeOK
<1>1. /\ r \in Run /\ t \in Temp /\ r # t /\ r \in Path /\ t \in Path /\ Exists(t)
      /\ Run \subseteq Path
  BY <1>0, NameAssumption DEF TypeOK, Path, Replace
<1>2. /\ files'[r] = files[t] /\ files'[t] = NoFile
      /\ \A p \in Path : p # r /\ p # t => files'[p] = files[p]
      /\ mtime'[r] = mtime[t] /\ \A p \in Path : p # r => mtime'[p] = mtime[p]
      /\ savedAt'[r] = mtime[t] /\ \A x \in Run : x # r => savedAt'[x] = savedAt[x]
  BY <1>0, <1>1 DEF TypeOK, Replace
<1>3. /\ clock' = clock /\ writes' = writes /\ clock \in Nat /\ doomed' = doomed
      /\ pc[q] = "written" /\ pc' = [pc EXCEPT ![q] = "listing"]
  BY DEF Replace, TypeOK
<1>4. /\ Exists(r)' /\ ~Exists(t)'
      /\ \A p \in Path : p # r /\ p # t => (Exists(p)' <=> Exists(p))
  BY <1>1, <1>2 DEF Exists
<1>5. \A p \in Path : Exists(p)' => mtime'[p] \in writes'
  BY <1>1, <1>2, <1>3, <1>4 DEF Retaining
<1>6. ASSUME NEW p \in Path, NEW k \in Path, Exists(p)', Exists(k)', mtime'[p] = mtime'[k]
      PROVE  p = k
  BY <1>1, <1>2, <1>4, <1>6 DEF Retaining
<1>7. \A x \in Run : Exists(x)' => savedAt'[x] = mtime'[x]
  BY <1>1, <1>2, <1>4 DEF Retaining
<1>8. ASSUME NEW x \in Run, savedAt'[x] # 0, ~Exists(x)' PROVE MayGo(x)'
  <2>1. x # r /\ x # t /\ x \in Path
    BY <1>1, <1>4, <1>8, NameAssumption
  <2>2. MayGo(x) /\ savedAt'[x] = savedAt[x]
    BY <1>2, <1>4, <1>8, <2>1 DEF Retaining
  <2>3. clock <= clock' /\ writes \subseteq writes' /\ writes' \subseteq 1 .. clock' /\ clock' \in Nat
    BY <1>3 DEF Retaining
  <2>4. QED
    BY <2>2, <2>3, MayStillGo
<1>9. /\ \A o, u \in Request : pc'[o] \in Saving /\ pc'[u] \in Saving => o = u
      /\ \A o \in Request : pc'[o] # "unlinking"
  <2>1. \A o \in Request : pc'[o] = IF o = q THEN "listing" ELSE pc[o]
    BY <1>3 DEF TypeOK
  <2>2. pc[q] \in Saving /\ "unlinking" \in Saving /\ "listing" # "unlinking"
    BY <1>3 DEF Saving
  <2>3. QED
    BY <2>1, <2>2 DEF Retaining
<1>10. QED
  BY <1>3, <1>5, <1>6, <1>7, <1>8, <1>9 DEF Retaining

LEMMA RetainNext ==
  ASSUME TypeOK, Retaining, OneProcess, TypeOK', [Next]_vars
  PROVE  Retaining'
<1>1. ASSUME NEW q \in Request, NEW x, x \in Saving => pc[q] \in Saving \/ Turn(q),
             pc' = [pc EXCEPT ![q] = x]
      PROVE  \A o, u \in Request : pc'[o] \in Saving /\ pc'[u] \in Saving => o = u
  <2>1. \A o \in Request : pc'[o] = IF o = q THEN x ELSE pc[o]
    BY <1>1 DEF TypeOK
  <2>2. Turn(q) => \A o \in Request : o # q => pc[o] \notin Saving
    BY DEF Turn, OneProcess
  <2>3. QED
    BY <1>1, <2>1, <2>2 DEF Retaining
<1>2. ASSUME NEW q \in Request, NEW r \in Run, Ask(q, r) PROVE Retaining'
  <2>1. pc' = [pc EXCEPT ![q] = "running"] /\ "running" \notin Saving /\ doomed' = doomed
    BY <1>2 DEF Ask, Saving
  <2>2. \A o \in Request : pc'[o] = "unlinking" => pc[o] = "unlinking"
    BY <2>1 DEF TypeOK
  <2>3. QED
    BY <1>1, <1>2, <2>1, <2>2, RetainIdle DEF Ask, Retaining
<1>3. ASSUME NEW q \in Request, NEW r \in Run, NEW s \in Stage,
             NEW given \in [Stage -> Given], Rerun(q, r, s, given)
      PROVE  Retaining'
  <2>1. pc' = [pc EXCEPT ![q] = "running"] /\ "running" \notin Saving /\ doomed' = doomed
    BY <1>3 DEF Rerun, Saving
  <2>2. \A o \in Request : pc'[o] = "unlinking" => pc[o] = "unlinking"
    BY <2>1 DEF TypeOK
  <2>3. QED
    BY <1>1, <1>3, <2>1, <2>2, RetainIdle DEF Rerun, Retaining
<1>4. ASSUME NEW q \in Request, EndUnsaved(q) \/ Respond(q) PROVE Retaining'
  <2>1. pc' = [pc EXCEPT ![q] = "idle"] /\ "idle" \notin Saving /\ doomed' = doomed
    BY <1>4 DEF EndUnsaved, Respond, Saving
  <2>2. \A o \in Request : pc'[o] = "unlinking" => pc[o] = "unlinking"
    BY <2>1 DEF TypeOK
  <2>3. UNCHANGED <<files, mtime, clock, history>>
    BY <1>4 DEF EndUnsaved, Respond
  <2>4. QED
    BY <1>1, <2>1, <2>2, <2>3, RetainIdle DEF Retaining
<1>5. ASSUME NEW q \in Request, NEW t \in Temp, NEW kept \in BOOLEAN, WriteTemp(q, t, kept)
      PROVE  Retaining'
  <2>1. Turn(q) /\ pc' = [pc EXCEPT ![q] = "written"]
    BY <1>5 DEF WriteTemp
  <2>2. \A o \in Request : pc'[o] = "unlinking" => pc[o] = "unlinking"
    BY <2>1 DEF TypeOK
  <2>3. QED
    BY <1>1, <1>5, <2>1, <2>2, RetainWrite DEF WriteTemp
<1>6. ASSUME NEW q \in Request, NEW t \in Temp, WriteFails(q, t) PROVE Retaining'
  <2>1. pc' = [pc EXCEPT ![q] = "idle"] /\ "idle" \notin Saving
    BY <1>6 DEF WriteFails, Saving
  <2>2. \A o \in Request : pc'[o] = "unlinking" => pc[o] = "unlinking"
    BY <2>1 DEF TypeOK
  <2>3. QED
    BY <1>1, <1>6, <2>1, <2>2, RetainWrite DEF WriteFails
<1>7. ASSUME NEW q \in Request, ReplaceFails(q) PROVE Retaining'
  <2>1. /\ \A p \in Path : files'[p] \in {files[p], NoFile}
        /\ \A r \in Run : files'[r] = files[r]
    BY <1>7, NameAssumption DEF ReplaceFails, TypeOK, Path
  <2>2. \A r \in Run : ~ (Exists(r) /\ ~Exists(r)')
    BY <2>1 DEF Exists
  <2>3. \A o \in Request : /\ pc'[o] \in Saving => pc[o] \in Saving
                           /\ pc'[o] = "unlinking" => pc[o] = "unlinking"
    BY <1>7 DEF ReplaceFails, TypeOK, Saving
  <2>4. UNCHANGED <<mtime, clock, savedAt, writes>> /\ doomed' = doomed
    BY <1>7 DEF ReplaceFails, history
  <2>5. QED
    BY <2>1, <2>2, <2>3, <2>4, RetainRemove
<1>8. ASSUME NEW q \in Request, List(q) PROVE Retaining'
  <2>1. PICK E \in Excess : doomed' = [doomed EXCEPT ![q] = Expired \cup E]
    BY <1>8 DEF List
  <2>2. /\ pc[q] \in Saving /\ pc' = [pc EXCEPT ![q] = "unlinking"]
        /\ UNCHANGED <<files, mtime, clock, history>>
    BY <1>8 DEF List, Saving
  <2>3. ASSUME NEW r \in Run, r \in Expired \cup E, savedAt[r] # 0 PROVE MayGo(r)
    <3>1. CASE r \in E
      BY <3>1, ExcessMayGo
    <3>2. CASE r \in Expired
      <4>1. Exists(r) /\ clock - mtime[r] > MaxAge
        BY <3>2 DEF Expired
      <4>2. savedAt[r] = mtime[r]
        BY <4>1 DEF Retaining
      <4>3. QED
        BY <4>1, <4>2 DEF MayGo
    <3>3. QED
      BY <2>3, <3>1, <3>2
  <2>4. ASSUME NEW o \in Request, pc'[o] = "unlinking",
               NEW r \in Run, r \in doomed'[o], savedAt[r] # 0
        PROVE  MayGo(r)
    <3>1. CASE o = q
      <4>1. doomed'[o] = Expired \cup E
        BY <2>1, <3>1 DEF TypeOK
      <4>2. QED
        BY <2>3, <2>4, <4>1
    <3>2. CASE o # q
      <4>1. doomed'[o] = doomed[o] /\ pc[o] = "unlinking"
        BY <2>1, <2>2, <2>4, <3>2 DEF TypeOK
      <4>2. QED
        BY <2>4, <4>1 DEF Retaining
    <3>3. QED
      BY <3>1, <3>2
  <2>5. \A o, u \in Request : pc'[o] \in Saving /\ pc'[u] \in Saving => o = u
    BY <1>1, <2>2
  <2>6. QED
    BY <2>2, <2>4, <2>5, RetainIdle
<1>9. ASSUME NEW q \in Request, NEW p \in Path, Unlink(q, p) PROVE Retaining'
  <2>1. /\ pc[q] = "unlinking" /\ p \in doomed[q] /\ pc' = pc
        /\ files' = [files EXCEPT ![p] = NoFile]
        /\ doomed' = [doomed EXCEPT ![q] = @ \ {p}]
        /\ UNCHANGED <<mtime, clock, savedAt, writes>>
    BY <1>9 DEF Unlink, history
  <2>2. /\ \A k \in Path : files'[k] \in {files[k], NoFile}
        /\ \A k \in Path : k # p => files'[k] = files[k]
        /\ \A o \in Request : doomed'[o] \subseteq doomed[o]
    BY <2>1 DEF TypeOK
  <2>3. ASSUME NEW r \in Run, Exists(r), ~Exists(r)', savedAt[r] # 0 PROVE MayGo(r)
    <3>1. r = p
      BY <2>2, <2>3 DEF Exists, Path
    <3>2. QED
      BY <2>1, <2>3, <3>1 DEF Retaining
  <2>4. QED
    BY <2>1, <2>2, <2>3, RetainRemove
<1>10. ASSUME NEW o \in Process, Crash(o) PROVE Retaining'
  <2>1. \A q \in Request : pc'[q] \in {pc[q], "idle"}
    BY <1>10 DEF Crash
  <2>2. "idle" \notin Saving /\ "idle" # "unlinking"
    BY DEF Saving
  <2>3. UNCHANGED <<files, mtime, clock, history, doomed>>
    BY <1>10 DEF Crash
  <2>4. \A q, u \in Request : pc'[q] \in Saving /\ pc'[u] \in Saving => q = u
    BY <2>1, <2>2 DEF Retaining
  <2>5. \A q \in Request : pc'[q] = "unlinking" =>
          \A r \in Run : r \in doomed'[q] /\ savedAt[r] # 0 => MayGo(r)
    BY <2>1, <2>2, <2>3 DEF Retaining
  <2>6. QED
    BY <2>3, <2>4, <2>5, RetainIdle
<1>11. CASE Pass
  <2>1. /\ clock' = clock + 1 /\ clock \in Nat
        /\ UNCHANGED <<files, mtime, pc, doomed, savedAt, writes>>
    BY <1>11 DEF Pass, request, history, TypeOK
  <2>2. \A p \in Path : Exists(p)' <=> Exists(p)
    BY <2>1 DEF Exists
  <2>3. Run \subseteq Path
    BY DEF Path
  <2>4. clock <= clock' /\ writes \subseteq writes' /\ writes' \subseteq 1 .. clock'
    BY <2>1 DEF Retaining
  <2>5. /\ \A p \in Path : Exists(p)' => mtime'[p] \in writes'
        /\ \A p, k \in Path : Exists(p)' /\ Exists(k)' /\ mtime'[p] = mtime'[k] => p = k
        /\ \A q, o \in Request : pc'[q] \in Saving /\ pc'[o] \in Saving => q = o
        /\ \A r \in Run : Exists(r)' => Exists(r) /\ mtime'[r] = mtime[r]
        /\ \A r \in Run : ~ (Exists(r) /\ ~Exists(r)')
        /\ \A q \in Request : pc'[q] = "unlinking" =>
             \A r \in Run : r \in doomed'[q] /\ savedAt[r] # 0 => MayGo(r)
    BY <2>1, <2>2, <2>3 DEF Retaining
  <2>6. QED
    BY <2>1, <2>4, <2>5, RetainStep
<1>12. CASE UNCHANGED vars
  <2>1. UNCHANGED <<files, mtime, clock, history, pc, doomed>>
    BY <1>12 DEF vars, request
  <2>2. QED
    BY <2>1, RetainIdle DEF Retaining
<1>13. QED
  BY <1>2, <1>3, <1>4, <1>5, <1>6, <1>7, <1>8, <1>9, <1>10, <1>11, <1>12, RetainReplace
  DEF Next, Serve

LEMMA RetainInit == Init => Retaining
<1> SUFFICES ASSUME Init PROVE Retaining
  OBVIOUS
<1>1. \A p \in Path : ~Exists(p)
  BY DEF Init, Exists
<1>2. \A q \in Request : pc[q] \notin Saving /\ pc[q] # "unlinking"
  BY DEF Init, Saving
<1>3. Run \subseteq Path
  BY DEF Path
<1>4. QED
  BY <1>1, <1>2, <1>3 DEF Init, Retaining

\* Whatever requests one process serves at once, and wherever its saves and
\* clean-ups fail or it dies, a run that was saved can be loaded until it is
\* too old or enough files were written after it (cleanup_old_runs).
THEOREM SavedIsRetained == Spec => []OneProcessRetains
<1> DEFINE Inv == IInv /\ (OneProcess => Retaining)
<1>1. Init => Inv
  BY InitInv, RetainInit
<1>2. Inv /\ [Next]_vars => Inv'
  <2> SUFFICES ASSUME Inv, [Next]_vars PROVE Inv'
    OBVIOUS
  <2>1. IInv' /\ TypeOK /\ TypeOK'
    <3>1. IInv'
      BY NextInv
    <3>2. QED
      BY <3>1 DEF IInv
  <2>2. process' = process
    BY DEF Next, vars
  <2>3. OneProcess' => OneProcess
    BY <2>2 DEF OneProcess
  <2>4. QED
    BY <2>1, <2>3, RetainNext
<1>3. Inv => OneProcessRetains
  BY DEF OneProcessRetains, Retaining
<1> HIDE DEF Inv
<1>4. QED
  BY <1>1, <1>2, <1>3, PTL DEF Spec

-----------------------------------------------------------------------------
(* Cached files                                                            *)
(*                                                                         *)
(* The other files that several readers and writers share are those with a *)
(* cache in front of them, see FileCache: the cache never answers with     *)
(* less than a read of the file would.                                     *)

\* A parse made under a signature, in the cache or on its way into it: while
\* the signature is the file's, the parse is the file's content, and a reader
\* that has seen the signature has seen the parse's content during its read.
CacheSound(s, data) ==
  /\ s <= file.signature
  /\ s = file.signature => data = file.data
  /\ \A r \in Reader : at[r] = "lookup" /\ signature[r] = s => data \in held[r]

\* Strengthens ReadIsFresh to what every step keeps.
CacheInv ==
  /\ CacheTypeOK
  /\ file.signature = 0 => file.data = Missing
  /\ \A r \in Reader : at[r] = "lookup" => signature[r] # 0
  /\ \A r \in Reader : at[r] # "idle" => file.data \in held[r]
  /\ \A r \in Reader : signature[r] <= file.signature
  /\ CacheSound(cache.signature, cache.data)
  /\ \A r \in Reader : at[r] = "parsed" => CacheSound(signature[r], parsed[r])
  /\ \A r \in Reader : at[r] \in {"parsed", "read"} => parsed[r] \in held[r]

LEMMA CacheInitially == CacheInit => CacheInv
BY DEF CacheInit, CacheInv, CacheTypeOK, CacheSound, Data, NoEntry

\* When the file changes, every reader sees what it becomes.
LEMMA FileChanging ==
  ASSUME CacheInv,
         NEW data \in Data, Becomes(data), NEW t \in Writer,
         \/ at' = at
         \/ /\ at[t] \in {"idle", "truncated"}
            /\ \E place \in {"idle", "truncated", "written"} :
                 at' = [at EXCEPT ![t] = place],
         UNCHANGED <<cache, signature, parsed>>,
         writing' \in [Writer -> Content \cup {Torn}]
  PROVE  CacheInv'
<1>1. /\ file' = [data |-> data, signature |-> file.signature + 1]
      /\ held' = [r \in Reader |-> IF at[r] = "idle" THEN held[r]
                                   ELSE held[r] \cup {data}]
      /\ file.signature \in Nat
  BY DEF Becomes, CacheInv, CacheTypeOK
<1>2. \A r \in Reader : at'[r] = at[r]
  BY CacheAssumption DEF CacheInv, CacheTypeOK
<1>3. CacheTypeOK'
  BY <1>1 DEF CacheInv, CacheTypeOK
<1>4. \A r \in Reader : held[r] \subseteq held'[r]
  BY <1>1 DEF CacheInv, CacheTypeOK
<1>5. \A r \in Reader : at'[r] # "idle" => file'.data \in held'[r]
  BY <1>1, <1>2
<1>6. CacheSound(cache.signature, cache.data)'
  <2>1. CacheSound(cache.signature, cache.data) /\ cache' = cache
    BY DEF CacheInv
  <2>2. cache.signature \in Nat /\ cache.data \in Data
    BY DEF CacheInv, CacheTypeOK
  <2>3. CacheSound(cache.signature, cache.data) => CacheSound(cache.signature, cache.data)'
    BY <1>1, <1>2, <1>4, <2>1, <2>2 DEF CacheSound
  <2>4. QED
    BY <2>1, <2>3
<1>7. \A r \in Reader : at'[r] = "parsed" => CacheSound(signature[r], parsed[r])'
  <2>1. SUFFICES ASSUME NEW r \in Reader, at'[r] = "parsed"
                 PROVE  CacheSound(signature[r], parsed[r])'
    OBVIOUS
  <2>2. /\ CacheSound(signature[r], parsed[r])
        /\ signature' = signature /\ parsed' = parsed
        /\ signature[r] \in Nat
    BY <1>2, <2>1 DEF CacheInv, CacheTypeOK
  <2>3. QED
    BY <1>1, <1>2, <1>4, <2>2 DEF CacheSound
<1>8. \A r \in Reader : signature'[r] <= file'.signature
  BY <1>1 DEF CacheInv, CacheTypeOK
<1>9. \A r \in Reader : at'[r] \in {"parsed", "read"} => parsed'[r] \in held'[r]
  BY <1>2, <1>4 DEF CacheInv
<1>10. /\ file'.signature = 0 => file'.data = Missing
       /\ \A r \in Reader : at'[r] = "lookup" => signature'[r] # 0
  BY <1>1, <1>2 DEF CacheInv
<1>11. QED
  BY <1>3, <1>5, <1>6, <1>7, <1>8, <1>9, <1>10 DEF CacheInv

LEMMA CacheReading == ASSUME CacheInv, NEW r \in Reader, Read(r) PROVE CacheInv'
<1> USE DEF CacheInv, CacheTypeOK, CacheSound, Data
<1>1. CASE Require(r)
  BY <1>1 DEF Require
<1>2. CASE Stat(r)
  BY <1>2 DEF Stat
<1>3. CASE Hit(r)
  BY <1>3 DEF Hit
<1>4. CASE Parse(r)
  BY <1>4 DEF Parse
<1>5. CASE Raises(r)
  BY <1>5 DEF Raises
<1>6. CASE Store(r)
  BY <1>6 DEF Store
<1>7. CASE Return(r)
  BY <1>7 DEF Return
<1>8. QED
  BY <1>1, <1>2, <1>3, <1>4, <1>5, <1>6, <1>7 DEF Read

\* The cached parse is dropped: no entry counts as a parse of no file.
LEMMA CacheDropping ==
  ASSUME CacheInv, cache' = NoEntry, UNCHANGED <<file, signature, parsed, held>>,
         writing' = writing, at' \in [Reader \cup Writer -> {"idle", "stat",
           "lookup", "parsed", "read", "truncated", "written"}],
         \A r \in Reader : at'[r] = at[r]
  PROVE  CacheInv'
BY DEF CacheInv, CacheTypeOK, CacheSound, Data, NoEntry

LEMMA CacheInductive == CacheInv /\ [CacheNext]_cached => CacheInv'
<1> SUFFICES ASSUME CacheInv, [CacheNext]_cached PROVE CacheInv'
  OBVIOUS
<1>1. ASSUME NEW r \in Reader, Read(r) PROVE CacheInv'
  BY <1>1, CacheReading
<1>2. ASSUME NEW w \in Writer, Rewrite(w) PROVE CacheInv'
  <2>1. CASE \E content \in Content : Truncate(w, content)
    <3>1. PICK content \in Content : Truncate(w, content)
      BY <2>1
    <3>2. content \in Data /\ writing' \in [Writer -> Content \cup {Torn}]
      BY <3>1 DEF Truncate, CacheInv, CacheTypeOK, Data
    <3>3. at[w] = "idle" /\ at' = [at EXCEPT ![w] = "truncated"]
      BY <3>1 DEF Truncate
    <3>4. Becomes(Torn) /\ UNCHANGED <<cache, signature, parsed>>
      BY <3>1 DEF Truncate
    <3>5. Torn \in Data
      BY DEF Data
    <3>6. QED
      BY <3>2, <3>3, <3>4, <3>5, FileChanging
  <2>2. CASE Write(w)
    <3>1. writing[w] \in Data
      BY DEF CacheInv, CacheTypeOK, Data
    <3>2. QED
      BY <2>2, <3>1, FileChanging DEF Write, CacheInv, CacheTypeOK
  <2>3. CASE RewriteFails(w)
    BY <2>3, CacheAssumption DEF RewriteFails, CacheInv, CacheTypeOK, CacheSound
  <2>4. CASE Drop(w)
    BY <2>4, CacheDropping, CacheAssumption DEF Drop, CacheInv, CacheTypeOK
  <2>5. QED
    BY <1>2, <2>1, <2>2, <2>3, <2>4 DEF Rewrite
<1>3. CASE ClearCache
  BY <1>3, CacheDropping DEF ClearCache, CacheInv, CacheTypeOK
<1>4. CASE Remove
  BY <1>4 DEF Remove, Becomes, CacheInv, CacheTypeOK, CacheSound, Data
<1>5. CASE UNCHANGED cached
  BY <1>5 DEF cached, CacheInv, CacheTypeOK, CacheSound
<1>6. QED
  BY <1>1, <1>2, <1>3, <1>4, <1>5 DEF CacheNext

\* Every variable of the cached file keeps its type.
THEOREM CacheTypes == CacheSpec => []CacheTypeOK
<1>1. CacheInv => CacheTypeOK
  BY DEF CacheInv
<1>2. QED
  BY <1>1, CacheInitially, CacheInductive, PTL DEF CacheSpec

\* Whatever threads, tasks and processes read and write at once, a read
\* returns something that the file held during that read (files.py:32-54).
THEOREM FreshReads == CacheSpec => []ReadIsFresh
<1>1. CacheInv => ReadIsFresh
  BY DEF CacheInv, ReadIsFresh
<1>2. QED
  BY <1>1, CacheInitially, CacheInductive, PTL DEF CacheSpec
=============================================================================
