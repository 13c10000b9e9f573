------------------------------- MODULE Stream -------------------------------
(***************************************************************************)
(* The event streams of /query/stream and /rerun/stream (routes/query.py): *)
(* a task runs the pipeline and puts an event into a queue at the start    *)
(* and at the end of every stage, a generator takes them out and sends     *)
(* them, and the client may leave at any time, upon which the task is      *)
(* cancelled.  Both run on one event loop, so an action is what happens    *)
(* between two awaits: a task is only seen while it waits for a model.     *)
(*                                                                         *)
(* The stages of a run are numbered as they come, retries included.  Those *)
(* that wait for nothing (spelling, policy, execution) start and end       *)
(* within one action.                                                      *)
(***************************************************************************)
EXTENDS Integers, Sequences

CONSTANT MaxStages  \* bounds the stages of a run, the transition cap

ASSUME StreamAssumption == MaxStages \in Nat \ {0}

Message == [event : {"stage_start", "stage_done"}, stage : 1 .. MaxStages]
           \cup [event : {"complete", "error", "end"}, stage : {0}]
Start(n) == [event |-> "stage_start", stage |-> n]
Done(n) == [event |-> "stage_done", stage |-> n]
Outcome(e) == [event |-> e, stage |-> 0]
End == Outcome("end")   \* the None that closes the queue

VARIABLES
  task,       \* "new", "awaiting" or "over"
  stage,      \* the stage the task is in
  cancel,     \* task.cancel() was called
  queue,
  generator,  \* "new", "waiting", "sending" or "closed"
  sending,    \* the message that is on its way
  received,   \* by the client
  connected,
  emitted     \* all that was ever put into the queue

stream == <<generator, sending, received, connected>>
vars == <<task, stage, cancel, queue, stream, emitted>>

-----------------------------------------------------------------------------
(* run_pipeline                                                            *)

Put(messages) ==
  queue' = queue \o messages /\ emitted' = emitted \o messages

\* The stages from m to n, which wait for nothing: each starts and is done.
AtOnce(m, n) ==
  [i \in 1 .. 2 * (n - m + 1) |-> IF i % 2 = 1 THEN Start(m + i \div 2)
                                              ELSE Done(m + i \div 2 - 1)]

\* What a run may end with after n stages; it is complete after one at least.
Outcomes(n) == IF n = 0 THEN {"error"} ELSE {"complete", "error"}

\* A mutant: the outcome is put before the run has ended.
GoOnEarly(head, n) ==
  \/ /\ n < MaxStages
     /\ Put(head \o <<Start(n + 1)>>)
     /\ task' = "awaiting" /\ stage' = n + 1
  \/ /\ \E e \in Outcomes(n) : Put(head \o <<Outcome(e), End>>)
     /\ task' = "awaiting" /\ stage' = n

\* The task goes on to the next stage that waits, or to the end of the run.
GoOn(head, n) ==
  \/ /\ n < MaxStages
     /\ Put(head \o <<Start(n + 1)>>)
     /\ task' = "awaiting" /\ stage' = n + 1
  \/ /\ \E e \in Outcomes(n) : Put(head \o <<Outcome(e), End>>)
     /\ task' = "over" /\ stage' = n

\* The request may be refused before any stage, say for an unknown database.
Begin ==
  /\ task = "new" /\ ~cancel
  /\ \E n \in 0 .. MaxStages : GoOn(AtOnce(1, n), n)
  /\ UNCHANGED <<cancel, stream>>

Resume ==
  /\ task = "awaiting" /\ ~cancel
  /\ \E n \in stage .. MaxStages :
       GoOn(<<Done(stage)>> \o AtOnce(stage + 1, n), n)
  /\ UNCHANGED <<cancel, stream>>

\* A mutant: an exception ends the stream without an outcome.
RaiseSilently ==
  /\ task = "awaiting" /\ ~cancel
  /\ Put(<<End>>) /\ task' = "over"
  /\ UNCHANGED <<stage, cancel, stream>>

\* Something that no adapter turns into an event ends the run within its stage.
Raise ==
  /\ task = "awaiting" /\ ~cancel
  /\ Put(<<Outcome("error"), End>>) /\ task' = "over"
  /\ UNCHANGED <<stage, cancel, stream>>

\* A cancellation reaches the task where it waits, is no Exception, and passes
\* through every adapter; a task that never began ends without a word.
Cancelled ==
  /\ task # "over" /\ cancel
  /\ IF task = "awaiting" THEN Put(<<End>>) ELSE UNCHANGED <<queue, emitted>>
  /\ task' = "over"
  /\ UNCHANGED <<stage, cancel, stream>>

-----------------------------------------------------------------------------
(* event_generator                                                         *)

\* A mutant: the task of a client that left goes on.
CancelNever == UNCHANGED cancel
CancelTask == cancel' = (cancel \/ task # "over")

Iterate ==
  /\ generator = "new" /\ connected
  /\ generator' = "waiting"
  /\ UNCHANGED <<task, stage, cancel, queue, sending, received, connected, emitted>>

Get ==
  /\ generator = "waiting" /\ queue # <<>>
  /\ queue' = Tail(queue)
  /\ IF Head(queue) = End
     THEN generator' = "closed" /\ CancelTask /\ UNCHANGED sending
     ELSE generator' = "sending" /\ sending' = <<Head(queue)>> /\ UNCHANGED cancel
  /\ UNCHANGED <<task, stage, received, connected, emitted>>

Send ==
  /\ generator = "sending" /\ connected
  /\ received' = received \o sending /\ sending' = <<>> /\ generator' = "waiting"
  /\ UNCHANGED <<task, stage, cancel, queue, connected, emitted>>

Leave ==
  /\ connected /\ generator # "closed"
  /\ connected' = FALSE
  /\ UNCHANGED <<task, stage, cancel, queue, generator, sending, received, emitted>>

\* The server closes the generator of a client that left.  One that was never
\* iterated has not entered its try, and nothing is cancelled.
Close ==
  /\ ~connected /\ generator # "closed"
  /\ generator' = "closed" /\ sending' = <<>>
  /\ IF generator = "new" THEN UNCHANGED cancel ELSE CancelTask
  /\ UNCHANGED <<task, stage, queue, received, connected, emitted>>

-----------------------------------------------------------------------------
Init ==
  /\ task = "new" /\ stage = 0 /\ cancel = FALSE
  /\ queue = <<>> /\ emitted = <<>>
  /\ generator = "new" /\ sending = <<>> /\ received = <<>> /\ connected = TRUE

Over == task = "over" /\ generator = "closed" /\ UNCHANGED vars

Next == \/ Begin \/ Resume \/ Raise \/ Cancelled
        \/ Iterate \/ Get \/ Send \/ Leave \/ Close \/ Over

Spec == Init /\ [][Next]_vars

\* The event loop runs what is ready, and the server closes what is left.  A
\* model may be waited for as long as it likes: calls have no timeout by default.
FairSpec ==
  /\ Spec
  /\ WF_vars(Begin) /\ WF_vars(Cancelled) /\ WF_vars(Iterate) /\ WF_vars(Get)
  /\ WF_vars(Send) /\ WF_vars(Close)

-----------------------------------------------------------------------------
(* Properties                                                              *)

\* Type invariant.
TypeOK ==
  /\ task \in {"new", "awaiting", "over"} /\ stage \in 0 .. MaxStages
  /\ cancel \in BOOLEAN /\ connected \in BOOLEAN
  /\ generator \in {"new", "waiting", "sending", "closed"}
  /\ queue \in Seq(Message) /\ received \in Seq(Message) /\ emitted \in Seq(Message)
  /\ sending \in Seq(Message) /\ Len(sending) <= 1

\* The client sees the run as it went: what it has, what is on its way and
\* what still waits is all that was put into the queue, in that order.
NothingIsLost ==
  generator # "closed" => received \o sending \o queue = emitted

\* Whenever the client may look, at most one stage is begun and not ended, the
\* stages come one after the other, and nothing follows the outcome.
StreamIsWellFormed ==
  /\ received # <<>> => Head(received) \in {Start(1), Outcome("error")}
  /\ \A i \in 1 .. Len(received) - 1 :
    LET m == received[i] next == received[i + 1] IN
    CASE m.event = "stage_start" -> next \in {Done(m.stage), Outcome("error")}
      [] m.event = "stage_done"  ->
           next \in {Start(m.stage + 1), Outcome("complete"), Outcome("error")}
      [] OTHER -> FALSE

\* An outcome is read only when the task is over, and so all that it does at
\* the end of a run is done: a rerun asked for upon it finds what was saved.
OutcomeMeansOver ==
  (\E i \in DOMAIN received : received[i].event \in {"complete", "error"})
    => task = "over"

\* A client that looks at the stream sees all of the run, in order, and an
\* outcome only of a run that is over (event_generator).
StreamIsSound == TypeOK /\ NothingIsLost /\ StreamIsWellFormed /\ OutcomeMeansOver

\* A client that stays learns the outcome, if every model answers or its call
\* fails in the end.
ModelsAnswer == WF_vars(Resume \/ Raise)
Told == \E i \in DOMAIN received : received[i].event \in {"complete", "error"}
StayingIsAnswered == ModelsAnswer => (connected ~> (Told \/ ~connected))

\* A client that leaves once its stream flows ends the run, even if the model
\* it waits for never answers: the slot and the lock it holds are given back.
\* Once cancelled, a run starts no further stage and reports no outcome.
SilentOnceCancelled ==
  [][cancel => \A i \in Len(emitted) + 1 .. Len(emitted') : emitted'[i] = End]_vars
LeavingStopsRun ==
  /\ (~connected /\ generator \in {"waiting", "sending"}) ~> task = "over"
  /\ SilentOnceCancelled
=============================================================================
