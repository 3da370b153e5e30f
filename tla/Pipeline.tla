------------------------------ MODULE Pipeline ------------------------------
(***************************************************************************)
(* Starting and stopping: the application thread in Orchestrator.start and *)
(* Orchestrator.stop, the threads it starts (the relay, the dispatch       *)
(* thread, the writer thread of the CSV logger, the sources) and the       *)
(* events that are on their way meanwhile: through one PUSH socket for     *)
(* each partition to the relay, and from it to the two clients the logger  *)
(* has subscribed to, which the dispatch thread polls in turn.             *)
(*                                                                         *)
(* A keyboard interrupt leads to stop() only once start() is through.      *)
(* Before that, and while stop() is running, an interrupt or an error ends *)
(* the application thread.  All other threads are daemons, but the writer  *)
(* keeps the process alive: it is over when both have ended.               *)
(*                                                                         *)
(* Every join has a timeout, and may time out.  The monitor threads of the *)
(* reconstructors are never stopped: they publish as long as they like.    *)
(* The Java process and the charts are left out, and so is what Delivery   *)
(* is about: full sockets, late subscriptions, a partition that two        *)
(* threads make, the reconstructors.                                       *)
(***************************************************************************)
EXTENDS Naturals, Sequences

CONSTANTS Sources,
          QueueSize,   \* maxsize of the logger's queue
          FlushEvery,  \* rows the writer collects
          MaxEvents    \* bound: events of each partition

ASSUME PipelineAssumption ==
  /\ QueueSize \in Nat \ {0} /\ FlushEvery \in Nat \ {0} /\ MaxEvents \in Nat

VARIABLES
  main,      \* where the application thread is
  running,   \* per source, its _running
  source,    \* per source, where its thread is
  relaying,  \* _running of the server
  relay,     \* where its thread is
  streaming, \* _running of the event stream
  dispatch,  \* where its thread is
  writer,    \* where the logger's thread is
  stopping,  \* _stop_event
  ready,     \* _initialized
  open,      \* the file is open
  wire,      \* per partition, its PUSH socket up to the relay
  inbox,     \* per client, its SUB socket
  queue, batch, file,  \* the events in the logger
  sent,      \* per partition, how many events were published
  accepted,  \* history: the events the logger's queue took
  before,    \* history: how many of them when close() began
  expired,   \* history: the join of the writer timed out
  unheard    \* history: threads that began after their stop()

flags   == <<running, relaying, streaming, stopping, ready, open>>
threads == <<main, source, relay, dispatch, writer>>
events  == <<wire, inbox, queue, batch, file, sent>>
history == <<accepted, before, expired, unheard>>
vars    == <<threads, flags, events, history>>

Partitions == {"observed", "observed.validated", "reconstructed"}

\* The partitions there are when the logger subscribes, in the order in which
\* dispatch polls them.  The client of the validated events has no logger.
Clients == {"observed", "reconstructed"}

\* The logger subscribes to "observed.", which is the beginning of both.
HeardBy(p) == IF p = "reconstructed" THEN p ELSE "observed"

\* The n-th event of a partition.
Published ==
  {e \in [n : 1..MaxEvents, partition : Partitions] : e.n <= sent[e.partition]}

Startup  == {"server", "stream", "logger", "sources"}
Stop     == {"stop", "join", "signal", "wait", "close", "unstream", "unthread", "unserver"}
Working  == {"none", "test", "get", "flush", "final"}

TypeOK ==
  /\ main \in Startup \cup {"up"} \cup Stop \cup {"down", "failed"}
  /\ running \in [Sources -> BOOLEAN]
  /\ source \in [Sources -> {"none", "loop", "step", "ended"}]
  /\ relaying \in BOOLEAN /\ relay \in {"none", "begun", "loop", "ended"}
  /\ streaming \in BOOLEAN
  /\ dispatch \in {"none", "begun", "loop", "ended", "crashed"} \cup Clients
  /\ writer \in Working \cup {"done", "crashed"}
  /\ stopping \in BOOLEAN /\ ready \in BOOLEAN /\ open \in BOOLEAN
  /\ sent \in [Partitions -> 0..MaxEvents]
  /\ wire \in [Partitions -> Seq(Published)] /\ inbox \in [Clients -> Seq(Published)]
  /\ \A q \in {queue, batch, file, accepted} : q \in Seq(Published)
  /\ Len(queue) <= QueueSize /\ Len(batch) <= FlushEvery
  /\ before \in 0..Len(accepted) /\ expired \in BOOLEAN
  /\ unheard \subseteq {"relay", "dispatch"}

Init ==
  /\ main = "server"
  /\ running = [s \in Sources |-> FALSE] /\ source = [s \in Sources |-> "none"]
  /\ relaying = FALSE /\ relay = "none"
  /\ streaming = FALSE /\ dispatch = "none"
  /\ writer = "none" /\ stopping = FALSE /\ ready = FALSE /\ open = FALSE
  /\ wire = [p \in Partitions |-> <<>>] /\ inbox = [c \in Clients |-> <<>>]
  /\ queue = <<>> /\ batch = <<>> /\ file = <<>>
  /\ sent = [p \in Partitions |-> 0]
  /\ accepted = <<>> /\ before = 0 /\ expired = FALSE /\ unheard = {}

------------------------------------------------------------------------------
(***************************************************************************)
(* The application thread.                                                 *)
(***************************************************************************)
Main(from, to) == main = from /\ main' = to

StartServer ==
  /\ Main("server", "stream") /\ relay' = "begun"
  /\ UNCHANGED <<source, dispatch, writer, flags, events, history>>

StartStream ==
  /\ Main("stream", "logger") /\ dispatch' = "begun" /\ streaming' = TRUE
  /\ UNCHANGED <<source, relay, writer, running, relaying, stopping, ready, open,
                 events, history>>

\* The logger opens its file and starts its thread, if logging is enabled.
StartLogger ==
  /\ Main("logger", "sources")
  /\ \/ writer' = "test" /\ open' = TRUE
     \/ UNCHANGED <<writer, open>>
  /\ UNCHANGED <<source, relay, dispatch, running, relaying, streaming, stopping,
                 ready, events, history>>

StartSources ==
  /\ \/ \E s \in Sources :
          /\ main = "sources" /\ ~running[s] /\ UNCHANGED main
          /\ running' = [running EXCEPT ![s] = TRUE]
          /\ source' = [source EXCEPT ![s] = "loop"]
     \/ /\ Main("sources", "up") /\ \A s \in Sources : running[s]
        /\ UNCHANGED <<running, source>>
  /\ UNCHANGED <<relay, dispatch, writer, relaying, streaming, stopping, ready, open,
                 events, history>>

\* Whatever interrupts the thread: only the loop at the end of start() heeds it.
Interrupt ==
  /\ \/ Main("up", "stop")
     \/ main \in Startup \cup Stop /\ main' = "failed"
  /\ UNCHANGED <<source, relay, dispatch, writer, flags, events, history>>

\* stop() of each source, with its join.
StopSource ==
  /\ \/ \E s \in Sources : /\ Main("stop", "join") /\ running[s]
                           /\ running' = [running EXCEPT ![s] = FALSE]
     \/ Main("join", "stop") /\ UNCHANGED running
     \/ Main("stop", "signal") /\ (\A s \in Sources : ~running[s]) /\ UNCHANGED running
  /\ UNCHANGED <<source, relay, dispatch, writer, relaying, streaming, stopping, ready,
                 open, events, history>>

\* CSVLogger.close: the signal, ...
Signal ==
  /\ IF writer = "none" THEN Main("signal", "unstream") /\ UNCHANGED <<stopping, before>>
     ELSE /\ Main("signal", "wait") /\ stopping' = TRUE /\ before' = Len(accepted)
  /\ UNCHANGED <<source, relay, dispatch, writer, running, relaying, streaming, ready,
                 open, events, accepted, expired, unheard>>

Ended == writer \in {"done", "crashed"}

\* Faulty variant of Wait: close does not wait for the writer.
WaitNothing ==
  /\ Main("wait", "close")
  /\ UNCHANGED <<source, relay, dispatch, writer, flags, events, history>>

\* ... the join, ...
Wait ==
  /\ Main("wait", "close")
  /\ expired' = ~Ended
  /\ UNCHANGED <<source, relay, dispatch, writer, flags, events, accepted, before, unheard>>

\* ... and the end of the file.
Close ==
  /\ Main("close", "unstream") /\ open' = FALSE
  /\ UNCHANGED <<source, relay, dispatch, writer, running, relaying, streaming, stopping,
                 ready, events, history>>

\* EventStream.stop.  A thread that has not begun yet will undo it.
StopStream ==
  /\ \/ /\ Main("unstream", "unthread") /\ streaming' = FALSE
        /\ unheard' = IF dispatch = "begun" THEN unheard \cup {"dispatch"} ELSE unheard
     \/ Main("unthread", "unserver") /\ UNCHANGED <<streaming, unheard>>
  /\ UNCHANGED <<source, relay, dispatch, writer, running, relaying, stopping, ready, open,
                 events, accepted, before, expired>>

\* ZMQServer.stop.
StopServer ==
  /\ Main("unserver", "down") /\ relaying' = FALSE
  /\ unheard' = IF relay = "begun" THEN unheard \cup {"relay"} ELSE unheard
  /\ UNCHANGED <<source, relay, dispatch, writer, running, streaming, stopping, ready, open,
                 events, accepted, before, expired>>

Application ==
  \/ StartServer \/ StartStream \/ StartLogger \/ StartSources
  \/ StopSource \/ Signal \/ Wait \/ Close \/ StopStream \/ StopServer

------------------------------------------------------------------------------
(***************************************************************************)
(* The sources, the relay and the dispatch thread.                         *)
(***************************************************************************)

\* add_event: the event is in the PUSH socket of its partition.
Publish(p) ==
  /\ sent[p] < MaxEvents /\ sent' = [sent EXCEPT ![p] = @ + 1]
  /\ wire' = [wire EXCEPT ![p] = Append(@, [n |-> sent'[p], partition |-> p])]

\* _run_loop: a thread past the test of _running may still publish.  Whether,
\* and to which partition, is for the chart of its constituent to say.
Source(s) ==
  /\ \/ /\ source[s] = "loop"
        /\ source' = [source EXCEPT ![s] = IF running[s] THEN "step" ELSE "ended"]
        /\ UNCHANGED <<sent, wire>>
     \/ /\ source[s] = "step" /\ source' = [source EXCEPT ![s] = "loop"]
        /\ \/ UNCHANGED <<sent, wire>>
           \/ \E p \in Partitions \ {"reconstructed"} : Publish(p)
  /\ UNCHANGED <<main, relay, dispatch, writer, flags, inbox, queue, batch, file, history>>

\* _monitor_loop: started with the source of its constituent, an interval before
\* the first slot can be silent, and not stopped.
Monitor(s) ==
  /\ source[s] # "none" /\ Publish("reconstructed")
  /\ UNCHANGED <<threads, flags, inbox, queue, batch, file, history>>

\* ZMQServer._loop: the PULL socket takes from any of its peers that has sent.
Relay ==
  /\ \/ relay = "begun" /\ relay' = "loop" /\ relaying' = TRUE /\ UNCHANGED <<wire, inbox>>
     \/ \E p \in Partitions :
          /\ relay = "loop" /\ relaying /\ wire[p] # <<>>
          /\ wire' = [wire EXCEPT ![p] = Tail(@)]
          /\ inbox' = [inbox EXCEPT ![HeardBy(p)] = Append(@, Head(wire[p]))]
          /\ UNCHANGED <<relay, relaying>>
     \/ relay = "loop" /\ ~relaying /\ relay' = "ended" /\ UNCHANGED <<relaying, wire, inbox>>
  /\ UNCHANGED <<main, source, dispatch, writer, running, streaming, stopping, ready, open,
                 queue, batch, file, sent, history>>

\* Faulty variant of Put: the queue has no bound.
PutAlways(e) == queue' = Append(queue, e) /\ accepted' = Append(accepted, e)

\* A full queue drops the event, with a warning.
Put(e) ==
  IF Len(queue) < QueueSize
  THEN queue' = Append(queue, e) /\ accepted' = Append(accepted, e)
  ELSE UNCHANGED <<queue, accepted>>

\* consume_event of the logger.  The first event writes the header: an error
\* if close() has been there.
Consume(e) ==
  \/ writer = "none" /\ UNCHANGED <<ready, dispatch, queue, accepted>>
  \/ /\ writer # "none" /\ (ready \/ open)
     /\ ready' = TRUE /\ Put(e) /\ UNCHANGED dispatch
  \/ /\ writer # "none" /\ ~ready /\ ~open
     /\ dispatch' = "crashed" /\ UNCHANGED <<ready, queue, accepted>>

\* EventStream.dispatch, and poll_once, which drains a socket.
Dispatch ==
  /\ \/ /\ dispatch = "begun" /\ dispatch' = "loop" /\ streaming' = TRUE
        /\ UNCHANGED <<ready, inbox, queue, accepted>>
     \/ /\ dispatch = "loop" /\ dispatch' = IF streaming THEN "observed" ELSE "ended"
        /\ UNCHANGED <<streaming, ready, inbox, queue, accepted>>
     \/ \E c \in Clients :
          /\ dispatch = c /\ inbox[c] # <<>>
          /\ inbox' = [inbox EXCEPT ![c] = Tail(@)] /\ Consume(Head(inbox[c]))
          /\ UNCHANGED streaming
     \/ \E c \in Clients :
          /\ dispatch = c /\ inbox[c] = <<>>
          /\ dispatch' = IF c = "observed" THEN "reconstructed" ELSE "loop"
          /\ UNCHANGED <<streaming, ready, inbox, queue, accepted>>
  /\ UNCHANGED <<main, source, relay, writer, running, relaying, stopping, open, wire,
                 batch, file, sent, before, expired, unheard>>

------------------------------------------------------------------------------
(***************************************************************************)
(* The writer thread of the logger.                                        *)
(***************************************************************************)

\* Faulty variant of Finished: what is in the queue is not looked at.
FinishedOnStop == stopping

\* The test of the writer's loop.
Finished == stopping /\ queue = <<>>

\* Faulty variant of GetFails: get() has no timeout.
GetBlocks == FALSE

\* get() times out after flush_interval.
GetFails == queue = <<>>

Get ==
  /\ writer = "get"
  /\ \/ /\ queue # <<>>
        /\ batch' = Append(batch, Head(queue)) /\ queue' = Tail(queue)
        /\ writer' = IF Len(batch') >= FlushEvery THEN "flush" ELSE "test"
     \/ /\ GetFails
        /\ writer' = IF batch # <<>> THEN "flush" ELSE "test"
        /\ UNCHANGED <<batch, queue>>
  /\ UNCHANGED file

\* _flush_batch, row by row, in the loop and after it.  The file may have been
\* closed: an error, for the final flush of the file as well.
Flush ==
  /\ writer \in {"flush", "final"}
  /\ \/ /\ batch # <<>> /\ open
        /\ file' = Append(file, Head(batch)) /\ batch' = Tail(batch)
        /\ UNCHANGED writer
     \/ /\ batch # <<>> \/ writer = "final"
        /\ ~open /\ writer' = "crashed" /\ UNCHANGED <<batch, file>>
     \/ /\ batch = <<>> /\ (writer = "flush" \/ open)
        /\ writer' = IF writer = "final" THEN "done" ELSE "test"
        /\ UNCHANGED <<batch, file>>
  /\ UNCHANGED queue

Writer ==
  /\ \/ /\ writer = "test" /\ writer' = IF Finished THEN "final" ELSE "get"
        /\ UNCHANGED <<queue, batch, file>>
     \/ Get
     \/ Flush
  /\ UNCHANGED <<main, source, relay, dispatch, flags, wire, inbox, sent, history>>

------------------------------------------------------------------------------
Next ==
  \/ Application \/ Interrupt
  \/ \E s \in Sources : Source(s) \/ Monitor(s)
  \/ Relay \/ Dispatch \/ Writer

Spec == Init /\ [][Next]_vars

(***************************************************************************)
(* The operating system runs every thread.  Nobody has to interrupt, and   *)
(* no monitor has to find a slot silent.                                   *)
(***************************************************************************)
Fairness ==
  /\ WF_vars(Application) /\ WF_vars(Relay) /\ WF_vars(Dispatch) /\ WF_vars(Writer)
  /\ \A s \in Sources : WF_vars(Source(s))

FairSpec == Spec /\ Fairness

------------------------------------------------------------------------------
(***************************************************************************)
(* Properties.                                                             *)
(***************************************************************************)

\* "Signal stop and wait until all queued events are written": the file is a
\* beginning of what the queue took, in its order, and when close() comes to
\* the file without a timeout, all that was queued when it began is there.
\* What the dispatch thread, which runs on, has queued since may be lost.
QueuedIsWritten ==
  /\ accepted = file \o batch \o queue
  /\ main \in {"close", "unstream", "unthread", "unserver", "down"} /\ ~expired
       => Len(file) >= before

\* The writer meets a closed file only after a timeout of close(); the dispatch
\* thread only with the first event of the run, handled after close().  It dies
\* of it, and with it the delivery to everybody else.
OnlyLateErrors ==
  /\ writer = "crashed" => expired
  /\ dispatch = "crashed" => accepted = <<>> /\ stopping

\* stop() gets to its end and every thread it stops ends, but for one that
\* only began after its stop().  The writer ends once close() has been called,
\* and the process with it, after an interruption of stop() as well; without
\* close() the writer, which is no daemon, keeps the process alive for ever.
ShutdownCompletes ==
  /\ main = "stop" ~> main \in {"down", "failed"}
  /\ main = "down" ~>
       /\ \A s \in Sources : source[s] = "ended"
       /\ dispatch \in {"ended", "crashed"} \/ "dispatch" \in unheard
       /\ relay = "ended" \/ "relay" \in unheard
  /\ stopping ~> Ended

=============================================================================
