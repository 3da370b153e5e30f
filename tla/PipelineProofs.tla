--------------------------- MODULE PipelineProofs ---------------------------
(***************************************************************************)
(* Theorems about Pipeline: for any sources, sizes and number of events    *)
(* nothing the logger's queue took is lost, repeated or reordered unless   *)
(* close() ran out of time.                                                *)
(***************************************************************************)
EXTENDS Pipeline, SequenceTheorems, TLAPS

Events == [n : Nat, partition : Partitions]

\* What is known of the sequences, which is all the argument needs.
Typed ==
  /\ wire \in [Partitions -> Seq(Events)] /\ inbox \in [Clients -> Seq(Events)]
  /\ queue \in Seq(Events)
  /\ batch \in Seq(Events) /\ file \in Seq(Events) /\ accepted \in Seq(Events)
  /\ sent \in [Partitions -> Nat] /\ before \in Nat
  /\ writer \in Working \cup {"done", "crashed"}
  /\ stopping \in BOOLEAN /\ ready \in BOOLEAN /\ open \in BOOLEAN /\ expired \in BOOLEAN

After  == {"close", "unstream", "unthread", "unserver", "down"}
Earlier == Startup \cup {"up", "stop", "join", "signal"}

\* The queue's events are in the file, in the writer's hands or in the queue.
Conserved == accepted = file \o batch \o queue

\* The mark that close() sets, once.
Marked ==
  /\ before <= Len(accepted)
  /\ ~stopping => before = 0
  /\ writer = "none" => ~stopping
  /\ main \in Earlier => ~stopping

\* A writer that has left its loop found all there was when close() began.
Leaving ==
  /\ writer \in {"final", "done"} => stopping /\ Len(file) + Len(batch) >= before
  /\ writer = "done" => batch = <<>>

\* The file is only closed on a writer that has ended, or after a timeout.
Waited ==
  /\ main \in Earlier \cup {"wait"} => ~expired
  /\ writer = "crashed" => expired
  /\ writer \notin {"none", "done", "crashed"} /\ ~open => expired
  /\ main \in After /\ ~expired => writer \in {"none", "done"}

\* The header is written by the first event, and not to a closed file.
Headed ==
  /\ main \in {"wait", "close"} => stopping
  /\ writer # "none" /\ ~open => stopping
  /\ ~ready => accepted = <<>>
  /\ dispatch = "crashed" => accepted = <<>> /\ stopping

IInv == Typed /\ Conserved /\ Marked /\ Leaving /\ Waited /\ Headed

------------------------------------------------------------------------------
\* Moving an element from the front of one sequence to the end of the one
\* before it changes nothing of their concatenation.
LEMMA Shift ==
  ASSUME NEW S, NEW p \in Seq(S), NEW q \in Seq(S), q # <<>>
  PROVE  /\ Append(p, Head(q)) \in Seq(S) /\ Tail(q) \in Seq(S)
         /\ Append(p, Head(q)) \o Tail(q) = p \o q
         /\ Len(Append(p, Head(q))) = Len(p) + 1 /\ Len(Tail(q)) = Len(q) - 1
  OBVIOUS

LEMMA AppendLast ==
  ASSUME NEW p \in Seq(Events), NEW q \in Seq(Events), NEW e \in Events
  PROVE  /\ Append(q, e) \in Seq(Events)
         /\ p \o Append(q, e) = Append(p \o q, e)
         /\ Len(Append(q, e)) = Len(q) + 1
  OBVIOUS

LEMMA Associative ==
  ASSUME NEW p \in Seq(Events), NEW q \in Seq(Events), NEW r \in Seq(Events)
  PROVE  (p \o q) \o r = p \o (q \o r)
  BY ConcatAssociative

LEMMA Beginning ==
  ASSUME NEW p \in Seq(Events), NEW q \in Seq(Events)
  PROVE  DOMAIN p \subseteq DOMAIN (p \o q) /\ \A i \in DOMAIN p : (p \o q)[i] = p[i]
  OBVIOUS

------------------------------------------------------------------------------
LEMMA InitIInv == Init => IInv
<1> SUFFICES ASSUME Init PROVE IInv OBVIOUS
<1>0. <<>> \in Seq(Events) /\ Len(<<>>) = 0 OBVIOUS
<1>1. <<>> \o <<>> \o <<>> = <<>> BY <1>0
<1>2. Conserved BY <1>1 DEF Init, Conserved
<1>3. Typed BY <1>0 DEF Init, Typed, Working
<1>4. Marked BY <1>0 DEF Init, Marked
<1>5. Leaving /\ Waited BY DEF Init, Leaving, Waited, After
<1>6. Headed BY DEF Init, Headed
<1> QED BY <1>2, <1>3, <1>4, <1>5, <1>6 DEF IInv

\* The steps of the application thread.
LEMMA ApplicationStep ==
  ASSUME IInv, Application \/ Interrupt
  PROVE  IInv'
<1> USE DEF IInv, Typed, Conserved, Marked, Leaving, Waited, Headed, Earlier, After,
            Startup, Working, Main, flags, events, history
<1>1. CASE StartServer BY <1>1 DEF StartServer
<1>2. CASE StartStream BY <1>2 DEF StartStream
<1>3. CASE StartLogger BY <1>3 DEF StartLogger
<1>4. CASE StartSources BY <1>4 DEF StartSources
<1>5. CASE StopSource BY <1>5 DEF StopSource
<1>6. CASE Signal
  <2>1. CASE writer = "none" BY <1>6, <2>1 DEF Signal
  <2>2. CASE writer # "none"
    <3>1. writer \notin {"final", "done"} BY <1>6
      DEF Signal
    <3>2. /\ main = "signal" /\ main' = "wait" /\ stopping' = TRUE /\ before' = Len(accepted)
          /\ UNCHANGED <<dispatch, writer, ready, open, wire, inbox, queue, batch, file,
                         sent, accepted, expired>>
      BY <1>6, <2>2 DEF Signal
    <3>3. Len(accepted) \in Nat OBVIOUS
    <3>4. Typed' /\ Conserved' BY <3>2, <3>3
    <3>5. Marked' /\ Leaving' BY <2>2, <3>1, <3>2, <3>3
    <3>6. Waited' /\ Headed' BY <3>2
    <3> QED BY <3>4, <3>5, <3>6
  <2> QED BY <2>1, <2>2
<1>7. CASE Wait
  <2>1. /\ main = "wait" /\ main' = "close"
        /\ writer \in {"done", "crashed"} => expired' = FALSE
        /\ writer \notin {"done", "crashed"} => expired' = TRUE
        /\ UNCHANGED <<dispatch, writer, stopping, ready, open, wire, inbox, queue, batch,
                       file, sent, accepted, before>>
    BY <1>7 DEF Wait, Ended
  <2>2. Typed' /\ Conserved' BY <2>1
  <2>3. Marked' /\ Leaving' BY <2>1
  <2>4. Waited' /\ Headed'
    <3>1. CASE writer \in {"done", "crashed"} BY <2>1, <3>1
    <3>2. CASE writer \notin {"done", "crashed"} BY <2>1, <3>2
    <3> QED BY <3>1, <3>2
  <2> QED BY <2>2, <2>3, <2>4
<1>8. CASE Close BY <1>8 DEF Close
<1>9. CASE StopStream BY <1>9 DEF StopStream
<1>10. CASE StopServer BY <1>10 DEF StopServer
<1>11. CASE Interrupt BY <1>11 DEF Interrupt, Stop
<1> QED BY <1>1, <1>2, <1>3, <1>4, <1>5, <1>6, <1>7, <1>8, <1>9, <1>10, <1>11
        DEF Application

LEMMA HeardByClient == \A p \in Partitions : HeardBy(p) \in Clients
  BY DEF Partitions, Clients, HeardBy

\* What publishing does: one more event, at the end of the socket it is sent to.
LEMMA Publishing ==
  ASSUME wire \in [Partitions -> Seq(Events)], sent \in [Partitions -> Nat],
         NEW p \in Partitions, Publish(p)
  PROVE  /\ wire' \in [Partitions -> Seq(Events)] /\ sent' \in [Partitions -> Nat]
         /\ sent'[p] = sent[p] + 1
<1>1. /\ sent' = [sent EXCEPT ![p] = @ + 1]
      /\ wire' = [wire EXCEPT ![p] = Append(@, [n |-> sent'[p], partition |-> p])]
  BY DEF Publish
<1>2. sent' \in [Partitions -> Nat] /\ sent'[p] = sent[p] + 1
  BY <1>1
<1>3. [n |-> sent'[p], partition |-> p] \in Events
  BY <1>2 DEF Events
<1>4. Append(wire[p], [n |-> sent'[p], partition |-> p]) \in Seq(Events)
  BY <1>3, AppendLast
<1> QED BY <1>1, <1>2, <1>4

\* The sources, the monitors and the relay.
LEMMA TransportStep ==
  ASSUME IInv, Relay \/ \E s \in Sources : Source(s) \/ Monitor(s)
  PROVE  IInv'
<1> USE DEF IInv, Typed, Conserved, Marked, Leaving, Waited, Headed, flags, threads, history
<1>1. CASE Relay
  <2>1. ASSUME NEW p \in Partitions, wire[p] # <<>>,
               wire' = [wire EXCEPT ![p] = Tail(@)],
               inbox' = [inbox EXCEPT ![HeardBy(p)] = Append(@, Head(wire[p]))]
        PROVE  wire' \in [Partitions -> Seq(Events)] /\ inbox' \in [Clients -> Seq(Events)]
    <3>1. wire[p] \in Seq(Events) /\ HeardBy(p) \in Clients /\ inbox[HeardBy(p)] \in Seq(Events)
      BY HeardByClient
    <3>2. Tail(wire[p]) \in Seq(Events) /\ Append(inbox[HeardBy(p)], Head(wire[p])) \in Seq(Events)
      BY <2>1, <3>1, Shift
    <3> QED BY <2>1, <3>1, <3>2
  <2>2. wire' \in [Partitions -> Seq(Events)] /\ inbox' \in [Clients -> Seq(Events)]
    BY <1>1, <2>1 DEF Relay
  <2>3. UNCHANGED <<main, dispatch, writer, stopping, ready, open, queue, batch, file,
                    sent, accepted, before, expired>>
    BY <1>1 DEF Relay
  <2> QED BY <2>2, <2>3
<1>2. ASSUME NEW s \in Sources, Source(s) \/ Monitor(s) PROVE IInv'
  <2>1. /\ UNCHANGED <<main, dispatch, writer, stopping, ready, open, inbox, queue, batch,
                       file, accepted, before, expired>>
        /\ \/ UNCHANGED <<sent, wire>>
           \/ \E p \in Partitions : Publish(p)
    BY <1>2 DEF Source, Monitor, Partitions
  <2>2. wire' \in [Partitions -> Seq(Events)] /\ sent' \in [Partitions -> Nat]
    BY <2>1, Publishing
  <2> QED BY <2>1, <2>2
<1> QED BY <1>1, <1>2

\* The dispatch thread, which hands events to the logger.
LEMMA DispatchStep ==
  ASSUME IInv, Dispatch
  PROVE  IInv'
<1> USE DEF IInv
<1>1. /\ UNCHANGED <<main, writer, stopping, open, wire, batch, file, sent, before, expired>>
  BY DEF Dispatch
<1>2. CASE UNCHANGED <<ready, inbox, queue, accepted>> /\ dispatch' # "crashed"
  BY <1>1, <1>2 DEF Typed, Conserved, Marked, Leaving, Waited, Headed
<1>3. ASSUME NEW c \in Clients, dispatch = c, inbox[c] # <<>>,
             inbox' = [inbox EXCEPT ![c] = Tail(@)], Consume(Head(inbox[c]))
      PROVE  IInv'
  <2> DEFINE e == Head(inbox[c])
  <2>1. dispatch # "crashed"
    BY <1>3 DEF Clients
  <2>2. inbox' \in [Clients -> Seq(Events)] /\ e \in Events
    <3>1. inbox \in [Clients -> Seq(Events)] /\ inbox[c] \in Seq(Events)
      BY DEF Typed
    <3>2. Tail(inbox[c]) \in Seq(Events) /\ Head(inbox[c]) \in Events
      BY <1>3, <3>1
    <3> QED BY <1>3, <3>1, <3>2
  <2>3. CASE UNCHANGED <<ready, queue, accepted>>
    <3>1. dispatch' = "crashed" => dispatch = "crashed" \/ (~ready /\ writer # "none" /\ ~open)
      BY <1>3, <2>3 DEF Consume
    <3> QED BY <1>1, <2>1, <2>2, <2>3, <3>1
            DEF Typed, Conserved, Marked, Leaving, Waited, Headed
  <2>4. CASE /\ ready' = TRUE /\ dispatch' = dispatch
             /\ queue' = Append(queue, e)
             /\ accepted' = Append(accepted, e)
    <3>1. /\ Append(queue, e) \in Seq(Events) /\ Append(accepted, e) \in Seq(Events)
          /\ Len(Append(accepted, e)) = Len(accepted) + 1
          /\ file \o batch \in Seq(Events)
      BY <2>2, AppendLast DEF Typed
    <3>2. Typed' BY <1>1, <2>1, <2>2, <2>4, <3>1 DEF Typed
    <3>3. Conserved'
      <4>1. file \o batch \in Seq(Events) /\ queue \in Seq(Events)
        BY <3>1 DEF Typed
      <4>2. Append((file \o batch) \o queue, e) = (file \o batch) \o Append(queue, e)
        BY <2>2, <4>1, AppendLast
      <4> QED BY <1>1, <2>4, <4>2 DEF Conserved
    <3>4. Marked' BY <1>1, <2>4, <3>1 DEF Typed, Marked
    <3>5. Leaving' /\ Waited' BY <1>1 DEF Leaving, Waited
    <3>6. Headed' BY <1>1, <2>1, <2>4 DEF Headed
    <3> QED BY <3>2, <3>3, <3>4, <3>5, <3>6
  <2>5. CASE ready' = TRUE /\ dispatch' = dispatch /\ UNCHANGED <<queue, accepted>>
    BY <1>1, <2>1, <2>2, <2>5
       DEF Typed, Conserved, Marked, Leaving, Waited, Headed
  <2> QED BY <1>3, <2>3, <2>4, <2>5 DEF Consume, Put
<1> QED BY <1>2, <1>3 DEF Dispatch, Clients

\* The writer thread.
LEMMA WriterStep ==
  ASSUME IInv, Writer
  PROVE  IInv'
<1> USE DEF IInv
<1>1. UNCHANGED <<main, dispatch, stopping, ready, open, wire, inbox, sent, accepted, before,
                  expired>>
  BY DEF Writer, flags, history
<1>2. Headed' /\ Marked'
  <2>1. writer \notin {"none", "done", "crashed"} /\ writer' # "none"
    BY DEF Writer, Get, Flush
  <2> QED BY <1>1, <2>1 DEF Headed, Marked
<1>3. CASE writer = "test"
  <2>1. /\ UNCHANGED <<queue, batch, file>>
        /\ \/ Finished /\ writer' = "final"
           \/ writer' = "get"
    BY <1>3 DEF Writer, Get, Flush
  <2>2. Typed' /\ Conserved' BY <1>1, <2>1 DEF Typed, Conserved, Working
  <2>3. Waited' BY <1>1, <1>3, <2>1 DEF Waited
  <2>4. Leaving'
    <3>1. CASE writer' = "final"
      <4>1. stopping /\ queue = <<>> BY <2>1, <3>1 DEF Finished
      <4>2. Len(accepted) = Len(file) + Len(batch)
        BY <4>1 DEF Typed, Conserved
      <4> QED BY <1>1, <2>1, <3>1, <4>1, <4>2 DEF Marked, Leaving
    <3>2. CASE writer' = "get" BY <3>2 DEF Leaving
    <3> QED BY <2>1, <3>1, <3>2
  <2> QED BY <1>2, <2>2, <2>3, <2>4
<1>4. CASE writer = "get"
  <2>1. Get BY <1>4 DEF Writer, Flush
  <2>2. writer' \in {"flush", "test"} /\ file' = file
    BY <1>4, <2>1 DEF Get
  <2>3. CASE queue # <<>> /\ batch' = Append(batch, Head(queue)) /\ queue' = Tail(queue)
    <3>1. /\ batch' \in Seq(Events) /\ queue' \in Seq(Events) /\ batch' \o queue' = batch \o queue
      BY <2>3, Shift DEF Typed
    <3>2. Conserved'
      <4>1. accepted = file \o (batch \o queue) BY Associative DEF Typed, Conserved
      <4>2. file \o (batch' \o queue') = (file \o batch') \o queue'
        BY <3>1, Associative DEF Typed
      <4> QED BY <1>1, <2>2, <3>1, <4>1, <4>2 DEF Conserved
    <3>3. Typed' BY <1>1, <2>2, <3>1 DEF Typed, Working
    <3> QED BY <1>1, <1>2, <1>4, <2>2, <3>2, <3>3 DEF Leaving, Waited
  <2>4. CASE UNCHANGED <<batch, queue>>
    BY <1>1, <1>2, <1>4, <2>2, <2>4 DEF Typed, Working, Conserved, Leaving, Waited
  <2> QED BY <2>1, <2>3, <2>4 DEF Get
<1>5. CASE writer \in {"flush", "final"}
  <2>1. Flush BY <1>5 DEF Writer, Get
  <2>2. CASE batch # <<>> /\ open
    <3>1. /\ file' = Append(file, Head(batch)) /\ batch' = Tail(batch)
          /\ writer' = writer /\ queue' = queue
      BY <2>1, <2>2 DEF Flush
    <3>2. /\ file' \in Seq(Events) /\ batch' \in Seq(Events) /\ file' \o batch' = file \o batch
          /\ Len(file') = Len(file) + 1 /\ Len(batch') = Len(batch) - 1
      BY <2>2, <3>1, Shift DEF Typed
    <3>3. Typed' /\ Conserved' BY <1>1, <3>1, <3>2 DEF Typed, Conserved
    <3>4. Leaving'
      <4>1. Len(file') + Len(batch') = Len(file) + Len(batch)
        BY <3>2 DEF Typed
      <4> QED BY <1>1, <1>5, <3>1, <4>1 DEF Leaving
    <3>5. Waited' BY <1>1, <3>1 DEF Waited
    <3> QED BY <1>2, <3>3, <3>4, <3>5
  <2>3. CASE writer' = "crashed" /\ ~open /\ UNCHANGED <<batch, file, queue>>
    BY <1>1, <1>2, <1>5, <2>3 DEF Typed, Conserved, Leaving, Waited
  <2>4. CASE batch = <<>> /\ UNCHANGED <<batch, file, queue>> /\ writer' = "done"
             /\ writer = "final"
    BY <1>1, <1>2, <2>4 DEF Typed, Conserved, Leaving, Waited
  <2>5. CASE UNCHANGED <<batch, file, queue>> /\ writer' = "test" /\ writer = "flush"
    BY <1>1, <1>2, <2>5 DEF Typed, Working, Conserved, Leaving, Waited
  <2> QED BY <1>5, <2>1, <2>2, <2>3, <2>4, <2>5 DEF Flush
<1> QED BY <1>3, <1>4, <1>5 DEF Writer, Get, Flush

LEMMA StepIInv == IInv /\ [Next]_vars => IInv'
<1> SUFFICES ASSUME IInv, [Next]_vars PROVE IInv' OBVIOUS
<1>1. CASE UNCHANGED vars
  BY <1>1 DEF vars, threads, flags, events, history, IInv, Typed, Conserved, Marked, Leaving,
              Waited, Headed
<1> QED BY <1>1, ApplicationStep, TransportStep, DispatchStep, WriterStep DEF Next

------------------------------------------------------------------------------
LEMMA Invariance == Spec => []IInv
BY InitIInv, StepIInv, PTL DEF Spec

\* Nothing the logger's queue has taken is lost, repeated or put into another
\* order, and close() leaves nothing behind that was queued before it unless
\* it ran out of time (CSVLogger._writer_loop and close).
THEOREM QueuedWritten == Spec => []QueuedIsWritten
<1>1. IInv => QueuedIsWritten
  BY DEF IInv, Typed, Conserved, Marked, Leaving, Waited, After, QueuedIsWritten
<1> QED BY <1>1, Invariance, PTL

\* Neither the writer nor the dispatch thread meets a closed file but in the
\* two cases OnlyLateErrors names (CSVLogger.close against _flush_batch and
\* _init_writer).
THEOREM ErrorsOnlyLate == Spec => []OnlyLateErrors
<1>1. IInv => OnlyLateErrors
  BY DEF IInv, Waited, Headed, OnlyLateErrors
<1> QED BY <1>1, Invariance, PTL

------------------------------------------------------------------------------
(***************************************************************************)
(* Types and bounds.                                                       *)
(***************************************************************************)

\* Where the threads are.
Placed ==
  /\ main \in Startup \cup {"up"} \cup Stop \cup {"down", "failed"}
  /\ source \in [Sources -> {"none", "loop", "step", "ended"}]
  /\ relay \in {"none", "begun", "loop", "ended"}
  /\ dispatch \in {"none", "begun", "loop", "ended", "crashed"} \cup Clients
  /\ writer \in Working \cup {"done", "crashed"}
  /\ unheard \subseteq {"relay", "dispatch"}

\* Their flags.
Flagged ==
  /\ running \in [Sources -> BOOLEAN]
  /\ relaying \in BOOLEAN /\ streaming \in BOOLEAN

\* The events at each stage, and the sizes of the logger's queue and batch.
Numbered ==
  /\ sent \in [Partitions -> 0..MaxEvents]
  /\ wire \in [Partitions -> Seq(Published)] /\ inbox \in [Clients -> Seq(Published)]
  /\ queue \in Seq(Published) /\ batch \in Seq(Published)
  /\ file \in Seq(Published) /\ accepted \in Seq(Published)
  /\ Len(queue) <= QueueSize /\ Len(batch) <= FlushEvery
  /\ writer \in {"test", "get", "none"} => Len(batch) < FlushEvery
  /\ main \in {"server", "stream", "logger"} => writer = "none"

\* What a step does to the sequences.
LEMMA Passing ==
  ASSUME NEW S, NEW p \in Seq(S), NEW q \in Seq(S), q # <<>>
  PROVE  /\ Append(p, Head(q)) \in Seq(S) /\ Tail(q) \in Seq(S)
         /\ Len(Append(p, Head(q))) = Len(p) + 1 /\ Len(Tail(q)) = Len(q) - 1
         /\ Len(p) \in Nat /\ Len(q) \in Nat
  OBVIOUS

LEMMA Growing ==
  ASSUME NEW S, NEW T, S \subseteq T, NEW q \in Seq(S)
  PROVE  q \in Seq(T)
  OBVIOUS

\* A new event is the last of its partition.
LEMMA Appearing ==
  ASSUME sent \in [Partitions -> 0..MaxEvents], NEW p \in Partitions, Publish(p)
  PROVE  /\ sent' \in [Partitions -> 0..MaxEvents] /\ sent'[p] = sent[p] + 1
         /\ Published \subseteq Published'
         /\ [n |-> sent'[p], partition |-> p] \in Published'
         /\ \A e \in Published : e.partition = p => e.n < sent'[p]
<1>1. /\ sent[p] < MaxEvents /\ sent' = [sent EXCEPT ![p] = @ + 1]
      /\ sent[p] \in Nat /\ MaxEvents \in Nat
  BY PipelineAssumption DEF Publish
<1>2. /\ sent' \in [Partitions -> 0..MaxEvents] /\ sent'[p] = sent[p] + 1
      /\ \A o \in Partitions : sent[o] \in Nat /\ sent'[o] \in Nat /\ sent[o] <= sent'[o]
  BY <1>1
<1>3. Published \subseteq Published'
  BY <1>1, <1>2 DEF Published
<1>4. [n |-> sent'[p], partition |-> p] \in Published'
  BY <1>1, <1>2 DEF Published
<1>5. \A e \in Published : e.partition = p => e.n < sent'[p]
  BY <1>1, <1>2 DEF Published
<1>. QED
  BY <1>2, <1>3, <1>4, <1>5

LEMMA PlacedStep == Placed /\ [Next]_vars => Placed'
<1> SUFFICES ASSUME Placed, [Next]_vars PROVE Placed'
  OBVIOUS
<1> USE DEF Placed, Startup, Stop, Working, Clients
<1>1. CASE StartServer \/ StartStream \/ StartLogger
  BY <1>1 DEF StartServer, StartStream, StartLogger, Main, history
<1>2. CASE StartSources
  BY <1>2 DEF StartSources, Main, history
<1>3. CASE StopSource
  BY <1>3 DEF StopSource, Main, history
<1>4. CASE Signal
  BY <1>4 DEF Signal, Main
<1>5. CASE Wait \/ Close
  BY <1>5 DEF Wait, Close, Main, history
<1>6. CASE StopStream \/ StopServer
  BY <1>6 DEF StopStream, StopServer, Main
<1>7. CASE Interrupt
  BY <1>7 DEF Interrupt, Main, history
<1>8. ASSUME NEW s \in Sources, Source(s) PROVE Placed'
  BY <1>8 DEF Source, history
<1>13. ASSUME NEW s \in Sources, Monitor(s) PROVE Placed'
  BY <1>13 DEF Monitor, threads, history
<1>9. CASE Relay
  BY <1>9 DEF Relay, history
<1>10. CASE Dispatch
  BY <1>10 DEF Dispatch, Consume
<1>11. CASE Writer
  BY <1>11 DEF Writer, Get, Flush, history
<1>12. CASE UNCHANGED vars
  BY <1>12 DEF vars, threads, history
<1>. QED
  BY <1>1, <1>2, <1>3, <1>4, <1>5, <1>6, <1>7, <1>8, <1>9, <1>10, <1>11, <1>12, <1>13
  DEF Next, Application

LEMMA FlaggedStep == Flagged /\ [Next]_vars => Flagged'
<1> SUFFICES ASSUME Flagged, [Next]_vars PROVE Flagged'
  OBVIOUS
<1> USE DEF Flagged
<1>1. CASE StartServer \/ StartStream \/ StartLogger
  BY <1>1 DEF StartServer, StartStream, StartLogger, flags
<1>2. CASE StartSources
  BY <1>2 DEF StartSources
<1>3. CASE StopSource
  BY <1>3 DEF StopSource
<1>4. CASE Signal \/ Wait \/ Close
  BY <1>4 DEF Signal, Wait, Close, flags
<1>6. CASE StopStream \/ StopServer
  BY <1>6 DEF StopStream, StopServer
<1>7. CASE Interrupt
  BY <1>7 DEF Interrupt, flags
<1>8. ASSUME NEW s \in Sources, Source(s) \/ Monitor(s) PROVE Flagged'
  BY <1>8 DEF Source, Monitor, flags
<1>9. CASE Relay
  BY <1>9 DEF Relay
<1>10. CASE Dispatch
  BY <1>10 DEF Dispatch, Consume
<1>11. CASE Writer
  BY <1>11 DEF Writer, flags
<1>12. CASE UNCHANGED vars
  BY <1>12 DEF vars, flags
<1>. QED
  BY <1>1, <1>2, <1>3, <1>4, <1>6, <1>7, <1>8, <1>9, <1>10, <1>11, <1>12
  DEF Next, Application

LEMMA NumberedStep == Placed /\ Numbered /\ [Next]_vars => Numbered'
<1> SUFFICES ASSUME Placed, Numbered, [Next]_vars PROVE Numbered'
  OBVIOUS
<1>0. /\ MaxEvents \in Nat /\ QueueSize \in Nat \ {0}
      /\ FlushEvery \in Nat \ {0}
      /\ Len(batch) \in Nat /\ Len(queue) \in Nat
  BY PipelineAssumption DEF Numbered
<1>1. CASE Application \/ Interrupt
  <2>1. UNCHANGED <<wire, inbox, queue, batch, file, sent, accepted>>
    BY <1>1 DEF Application, Interrupt, StartServer, StartStream, StartLogger, StartSources,
                StopSource, Signal, Wait, Close, StopStream, StopServer, events, history
  <2>2. /\ writer' = writer \/ (writer' = "test" /\ main = "logger")
        /\ main' \in {"server", "stream", "logger"}
             => writer' = writer /\ main \in {"server", "stream", "logger"}
    BY <1>1 DEF Application, Interrupt, StartServer, StartStream, StartLogger, StartSources,
                StopSource, Signal, Wait, Close, StopStream, StopServer, Main
  <2>. QED
    BY <1>0, <2>1, <2>2 DEF Numbered, Published
<1>2. ASSUME NEW s \in Sources, Source(s) \/ Monitor(s) PROVE Numbered'
  <2>1. UNCHANGED <<main, writer, inbox, queue, batch, file, accepted>>
    BY <1>2 DEF Source, Monitor, threads, history
  <2>2. CASE UNCHANGED <<sent, wire>>
    BY <2>1, <2>2 DEF Numbered, Published
  <2>3. ASSUME NEW p \in Partitions, Publish(p) PROVE Numbered'
    <3>1. /\ sent' \in [Partitions -> 0..MaxEvents] /\ Published \subseteq Published'
          /\ [n |-> sent'[p], partition |-> p] \in Published'
      BY <2>3, Appearing DEF Numbered
    <3>2. \A q \in Seq(Published) : q \in Seq(Published')
      BY <3>1, Growing
    <3>3. wire' \in [Partitions -> Seq(Published')]
      <4>1. wire \in [Partitions -> Seq(Published')] /\ wire[p] \in Seq(Published')
        BY <3>2 DEF Numbered
      <4>2. Append(wire[p], [n |-> sent'[p], partition |-> p]) \in Seq(Published')
        BY <3>1, <4>1
      <4>3. wire' = [wire EXCEPT ![p] = Append(@, [n |-> sent'[p], partition |-> p])]
        BY <2>3 DEF Publish
      <4>. QED
        BY <4>1, <4>2, <4>3
    <3>4. inbox \in [Clients -> Seq(Published')]
      BY <3>2 DEF Numbered
    <3>5. /\ queue \in Seq(Published') /\ batch \in Seq(Published')
          /\ file \in Seq(Published') /\ accepted \in Seq(Published')
      BY <3>2 DEF Numbered
    <3>. QED
      BY <2>1, <3>1, <3>3, <3>4, <3>5 DEF Numbered
  <2>. QED
    BY <1>2, <2>2, <2>3 DEF Source, Monitor, Partitions
<1>3. CASE Relay
  <2>1. UNCHANGED <<main, writer, sent, queue, batch, file, accepted>>
    BY <1>3 DEF Relay, history
  <2>2. CASE UNCHANGED <<wire, inbox>>
    BY <2>1, <2>2 DEF Numbered, Published
  <2>3. ASSUME NEW p \in Partitions, wire[p] # <<>>,
               wire' = [wire EXCEPT ![p] = Tail(@)],
               inbox' = [inbox EXCEPT ![HeardBy(p)] = Append(@, Head(wire[p]))]
        PROVE  Numbered'
    <3>1. wire[p] \in Seq(Published) /\ HeardBy(p) \in Clients /\ inbox[HeardBy(p)] \in Seq(Published)
      BY HeardByClient DEF Numbered
    <3>2. Tail(wire[p]) \in Seq(Published) /\ Append(inbox[HeardBy(p)], Head(wire[p])) \in Seq(Published)
      BY <2>3, <3>1, Passing
    <3>3. wire' \in [Partitions -> Seq(Published)] /\ inbox' \in [Clients -> Seq(Published)]
      BY <2>3, <3>1, <3>2 DEF Numbered
    <3>. QED
      BY <2>1, <3>3 DEF Numbered, Published
  <2>. QED
    BY <1>3, <2>2, <2>3 DEF Relay
<1>4. CASE Dispatch
  <2>1. UNCHANGED <<main, writer, wire, batch, file, sent>>
    BY <1>4 DEF Dispatch
  <2>2. CASE UNCHANGED <<inbox, queue, accepted>>
    BY <2>1, <2>2 DEF Numbered, Published
  <2>3. ASSUME NEW c \in Clients, inbox[c] # <<>>,
               inbox' = [inbox EXCEPT ![c] = Tail(@)], Consume(Head(inbox[c]))
        PROVE  Numbered'
    <3>1. inbox[c] \in Seq(Published) /\ queue \in Seq(Published) /\ accepted \in Seq(Published)
      BY DEF Numbered
    <3>2. /\ Tail(inbox[c]) \in Seq(Published)
          /\ Append(queue, Head(inbox[c])) \in Seq(Published)
          /\ Append(accepted, Head(inbox[c])) \in Seq(Published)
          /\ Len(Append(queue, Head(inbox[c]))) = Len(queue) + 1
      BY <2>3, <3>1, Passing
    <3>3. inbox' \in [Clients -> Seq(Published)]
      BY <2>3, <3>2 DEF Numbered
    <3>4. \/ UNCHANGED <<queue, accepted>>
          \/ /\ Len(queue) < QueueSize
             /\ queue' = Append(queue, Head(inbox[c]))
             /\ accepted' = Append(accepted, Head(inbox[c]))
      BY <2>3 DEF Consume, Put
    <3>0. Len(queue) <= QueueSize
      BY DEF Numbered
    <3>5. /\ queue' \in Seq(Published) /\ accepted' \in Seq(Published)
          /\ Len(queue') <= QueueSize
      <4>1. CASE UNCHANGED <<queue, accepted>> BY <3>0, <3>1, <4>1
      <4>2. CASE /\ Len(queue) < QueueSize
                 /\ queue' = Append(queue, Head(inbox[c]))
                 /\ accepted' = Append(accepted, Head(inbox[c]))
        <5>1. Len(queue') = Len(queue) + 1 BY <3>2, <4>2
        <5>2. Len(queue') <= QueueSize BY <1>0, <4>2, <5>1
        <5>. QED BY <3>2, <4>2, <5>2
      <4>. QED BY <3>4, <4>1, <4>2
    <3>. QED
      BY <2>1, <3>3, <3>5 DEF Numbered, Published
  <2>. QED
    BY <1>4, <2>2, <2>3 DEF Dispatch
<1>5. CASE Writer
  <2>1. UNCHANGED <<main, wire, inbox, sent, accepted>>
    BY <1>5 DEF Writer, history
  <2>2. writer # "none" /\ writer' # "none"
    BY <1>5 DEF Writer, Get, Flush
  <2>3. CASE writer = "test" /\ writer' \in {"final", "get"} /\ UNCHANGED <<queue, batch, file>>
    BY <2>1, <2>2, <2>3 DEF Numbered, Published
  <2>4. CASE /\ writer = "get" /\ file' = file /\ queue # <<>>
             /\ batch' = Append(batch, Head(queue)) /\ queue' = Tail(queue)
             /\ writer' = IF Len(batch') >= FlushEvery THEN "flush" ELSE "test"
    <3>1. /\ batch' \in Seq(Published) /\ queue' \in Seq(Published)
          /\ Len(batch') = Len(batch) + 1 /\ Len(queue') = Len(queue) - 1
      BY <1>0, <2>4, Passing DEF Numbered, Published
    <3>2. Len(batch) < FlushEvery
      BY <2>4 DEF Numbered, Published
    <3>. QED
      BY <1>0, <2>1, <2>2, <2>4, <3>1, <3>2 DEF Numbered, Published
  <2>5. CASE writer = "get" /\ writer' \in {"flush", "test"} /\ UNCHANGED <<queue, batch, file>>
    BY <2>1, <2>2, <2>5 DEF Numbered, Published
  <2>6. CASE /\ writer \in {"flush", "final"} /\ writer' = writer /\ queue' = queue
             /\ batch # <<>> /\ file' = Append(file, Head(batch)) /\ batch' = Tail(batch)
    BY <1>0, <2>1, <2>2, <2>6, Passing DEF Numbered, Published
  <2>7. CASE /\ writer \in {"flush", "final"} /\ UNCHANGED <<queue, batch, file>>
             /\ writer' \in {"crashed", "done"} \/ (writer' = "test" /\ batch = <<>>)
    <3>1. batch = <<>> => Len(batch) = 0
      OBVIOUS
    <3>. QED
      BY <1>0, <2>1, <2>2, <2>7, <3>1 DEF Numbered, Published
  <2>8. Get => \/ queue # <<>> /\ batch' = Append(batch, Head(queue)) /\ queue' = Tail(queue)
                  /\ writer' = IF Len(batch') >= FlushEvery THEN "flush" ELSE "test"
               \/ writer' \in {"flush", "test"} /\ UNCHANGED <<queue, batch, file>>
    BY DEF Get
  <2>. QED
    BY <1>5, <2>3, <2>4, <2>5, <2>6, <2>7, <2>8 DEF Writer, Get, Flush
<1>6. CASE UNCHANGED vars
  BY <1>6 DEF vars, threads, events, history, Numbered, Published
<1>. QED
  BY <1>1, <1>2, <1>3, <1>4, <1>5, <1>6 DEF Next

\* The places, flags and sizes of Pipeline are what TypeOK says: the queue and
\* the batch of the logger keep their bounds (CSVLogger, queue_maxsize and
\* flush_every).
THEOREM PipelineTyped == Spec => []TypeOK
<1>1. Init => Placed /\ Flagged /\ Numbered
  <2> SUFFICES ASSUME Init PROVE Placed /\ Flagged /\ Numbered
    OBVIOUS
  <2>1. <<>> \in Seq(Published) /\ Len(<<>>) = 0
    OBVIOUS
  <2>2. Placed
    BY DEF Init, Placed, Startup, Stop, Working
  <2>3. Flagged
    BY DEF Init, Flagged
  <2>4. Numbered
    BY <2>1, PipelineAssumption DEF Init, Numbered
  <2>. QED
    BY <2>2, <2>3, <2>4
<1>2. Placed /\ Flagged /\ Numbered /\ [Next]_vars => (Placed /\ Flagged /\ Numbered)'
  BY PlacedStep, FlaggedStep, NumberedStep
<1>3. IInv /\ Placed /\ Flagged /\ Numbered => TypeOK
  <2> SUFFICES ASSUME IInv, Placed, Flagged, Numbered PROVE TypeOK
    OBVIOUS
  <2>1. before \in 0..Len(accepted)
    BY DEF IInv, Typed, Marked
  <2>2. stopping \in BOOLEAN /\ ready \in BOOLEAN /\ open \in BOOLEAN /\ expired \in BOOLEAN
    BY DEF IInv, Typed
  <2>3. /\ \A q \in {queue, batch, file, accepted} : q \in Seq(Published)
        /\ wire \in [Partitions -> Seq(Published)] /\ inbox \in [Clients -> Seq(Published)]
    BY DEF Numbered
  <2>4. sent \in [Partitions -> 0..MaxEvents] /\ Len(queue) <= QueueSize /\ Len(batch) <= FlushEvery
    BY DEF Numbered
  <2>. QED
    BY <2>1, <2>2, <2>3, <2>4 DEF Placed, Flagged, TypeOK
<1>. QED
  BY <1>1, <1>2, <1>3, Invariance, PTL DEF Spec

------------------------------------------------------------------------------
(***************************************************************************)
(* The order of events, and the end of the threads.                        *)
(***************************************************************************)
\* Each event once, and the events of a partition in the order of publishing.
Rising(q) == \A i, j \in DOMAIN q :
  i < j /\ q[i].partition = q[j].partition => q[i].n < q[j].n

\* e was published after the events of its partition that are in q, ...
Behind(q, e) == \A i \in DOMAIN q : q[i].partition = e.partition => q[i].n < e.n

\* ... or before them.
Ahead(e, q) == \A i \in DOMAIN q : e.partition = q[i].partition => e.n < q[i].n

Below(p, q) == \A i \in DOMAIN p : Ahead(p[i], q)

\* Every event is in the socket of its partition, and then in the one of the
\* client that hears the partition.
Routed ==
  /\ \A p \in Partitions : \A i \in DOMAIN wire[p] : wire[p][i].partition = p
  /\ \A c \in Clients : \A i \in DOMAIN inbox[c] : HeardBy(inbox[c][i].partition) = c

\* The events of a partition are behind each other from stage to stage.
InTurn ==
  /\ Routed
  /\ Rising(accepted)
  /\ \A c \in Clients : Rising(inbox[c]) /\ Below(accepted, inbox[c])
  /\ \A p \in Partitions : Rising(wire[p]) /\ Below(accepted, wire[p])
  /\ \A c \in Clients, p \in Partitions : Below(inbox[c], wire[p])

LEMMA TakeFirst ==
  ASSUME NEW S, NEW q \in Seq(S), q # <<>>, Rising(q)
  PROVE  /\ Rising(Tail(q)) /\ Ahead(Head(q), Tail(q))
         /\ \A i \in DOMAIN Tail(q) : \E j \in DOMAIN q : Tail(q)[i] = q[j]
         /\ \E j \in DOMAIN q : Head(q) = q[j]
         /\ \A p : Below(p, q) => Below(p, Tail(q)) /\ Behind(p, Head(q))
         /\ \A r : Below(q, r) => Below(Tail(q), r) /\ Ahead(Head(q), r)
<1>1. /\ Len(q) \in Nat /\ DOMAIN q = 1..Len(q) /\ Head(q) = q[1] /\ Len(q) > 0
      /\ DOMAIN Tail(q) = 1..(Len(q) - 1)
      /\ \A i \in 1..(Len(q) - 1) : Tail(q)[i] = q[i + 1]
  OBVIOUS
<1>2. /\ 1 \in DOMAIN q
      /\ \A i \in DOMAIN Tail(q) : i + 1 \in DOMAIN q /\ 1 < i + 1 /\ Tail(q)[i] = q[i + 1]
      /\ \A i, j \in DOMAIN Tail(q) : i < j => i + 1 < j + 1
  BY <1>1
<1>3. Rising(Tail(q)) /\ Ahead(Head(q), Tail(q))
  BY <1>1, <1>2 DEF Rising, Ahead
<1>4. /\ \A i \in DOMAIN Tail(q) : \E j \in DOMAIN q : Tail(q)[i] = q[j]
      /\ \E j \in DOMAIN q : Head(q) = q[j]
  BY <1>1, <1>2
<1>5. \A p : Below(p, q) => Below(p, Tail(q)) /\ Behind(p, Head(q))
  BY <1>1, <1>2 DEF Below, Ahead, Behind
<1>6. \A r : Below(q, r) => Below(Tail(q), r) /\ Ahead(Head(q), r)
  BY <1>1, <1>2 DEF Below
<1>. QED
  BY <1>3, <1>4, <1>5, <1>6

LEMMA AddLast ==
  ASSUME NEW S, NEW q \in Seq(S), NEW e \in S, Rising(q), Behind(q, e)
  PROVE  /\ Rising(Append(q, e))
         /\ \A i \in DOMAIN Append(q, e) :
              Append(q, e)[i] = e \/ \E j \in DOMAIN q : Append(q, e)[i] = q[j]
         /\ \A p : Below(p, q) /\ Behind(p, e) => Below(p, Append(q, e))
         /\ \A r : Below(q, r) /\ Ahead(e, r) => Below(Append(q, e), r)
<1>1. /\ Len(q) \in Nat /\ DOMAIN q = 1..Len(q) /\ DOMAIN Append(q, e) = 1..(Len(q) + 1)
      /\ \A i \in 1..Len(q) : Append(q, e)[i] = q[i]
      /\ Append(q, e)[Len(q) + 1] = e
  OBVIOUS
<1>2. \A i \in DOMAIN Append(q, e) : \/ i \in DOMAIN q /\ Append(q, e)[i] = q[i]
                                     \/ i = Len(q) + 1 /\ Append(q, e)[i] = e
  BY <1>1
<1>3. Rising(Append(q, e))
  <2> SUFFICES ASSUME NEW i \in DOMAIN Append(q, e), NEW j \in DOMAIN Append(q, e), i < j,
                      Append(q, e)[i].partition = Append(q, e)[j].partition
               PROVE  Append(q, e)[i].n < Append(q, e)[j].n
    BY DEF Rising
  <2>1. i \in DOMAIN q /\ Append(q, e)[i] = q[i]
    BY <1>1
  <2>. QED
    BY <1>2, <2>1 DEF Rising, Behind
<1>4. \A p : Below(p, q) /\ Behind(p, e) => Below(p, Append(q, e))
  BY <1>2 DEF Below, Behind, Ahead
<1>5. \A r : Below(q, r) /\ Ahead(e, r) => Below(Append(q, e), r)
  BY <1>2 DEF Below
<1>. QED
  BY <1>2, <1>3, <1>4, <1>5

\* A new event is behind all events of its partition.
LEMMA PublishInTurn ==
  ASSUME Numbered, InTurn, NEW p \in Partitions, Publish(p), UNCHANGED <<accepted, inbox>>
  PROVE  InTurn'
<1> DEFINE e == [n |-> sent[p] + 1, partition |-> p]
<1>1. /\ wire' = [wire EXCEPT ![p] = Append(@, e)]
      /\ \A q \in Seq(Published) : Behind(q, e)
  <2>1. /\ sent'[p] = sent[p] + 1
        /\ \A x \in Published : x.partition = p => x.n < sent'[p]
    BY Appearing DEF Numbered
  <2>2. \A q \in Seq(Published) : \A i \in DOMAIN q : q[i] \in Published
    OBVIOUS
  <2>3. \A q \in Seq(Published) : Behind(q, e)
    BY <2>1, <2>2 DEF Behind
  <2>. QED
    BY <2>1, <2>3 DEF Publish
<1>2. /\ wire[p] \in Seq(Published) /\ accepted \in Seq(Published)
      /\ \A c \in Clients : inbox[c] \in Seq(Published)
      /\ wire \in [Partitions -> Seq(Published)]
  BY DEF Numbered
<1>3. /\ Rising(Append(wire[p], e))
      /\ \A i \in DOMAIN Append(wire[p], e) :
           Append(wire[p], e)[i] = e \/ \E j \in DOMAIN wire[p] : Append(wire[p], e)[i] = wire[p][j]
      /\ Below(accepted, Append(wire[p], e))
      /\ \A c \in Clients : Below(inbox[c], Append(wire[p], e))
  <2> DEFINE T == Published \cup {e}
  <2>1. wire[p] \in Seq(T) /\ e \in T
    BY <1>2, Growing
  <2>2. Rising(wire[p]) /\ Below(accepted, wire[p]) /\ \A c \in Clients : Below(inbox[c], wire[p])
    BY DEF InTurn
  <2>3. /\ Behind(wire[p], e) /\ Behind(accepted, e)
        /\ \A c \in Clients : Behind(inbox[c], e)
    BY <1>1, <1>2
  <2> HIDE DEF T, e
  <2>. QED
    BY <2>1, <2>2, <2>3, AddLast
<1>4. /\ wire'[p] = Append(wire[p], e)
      /\ \A o \in Partitions : o # p => wire'[o] = wire[o]
      /\ e.partition = p
  BY <1>1, <1>2
<1> HIDE DEF e
<1>5. Routed'
  BY <1>3, <1>4 DEF Routed, InTurn
<1>6. \A o \in Partitions : /\ Rising(wire'[o]) /\ Below(accepted, wire'[o])
                            /\ \A c \in Clients : Below(inbox[c], wire'[o])
  BY <1>3, <1>4 DEF InTurn
<1>. QED
  BY <1>5, <1>6 DEF InTurn

\* The relay takes the first event of a partition that has not passed it.
LEMMA RelayInTurn ==
  ASSUME Numbered, InTurn, NEW p \in Partitions, wire[p] # <<>>,
         wire' = [wire EXCEPT ![p] = Tail(@)],
         inbox' = [inbox EXCEPT ![HeardBy(p)] = Append(@, Head(wire[p]))],
         UNCHANGED accepted
  PROVE  InTurn'
<1> DEFINE e == Head(wire[p])
           h == HeardBy(p)
<1>1. /\ wire \in [Partitions -> Seq(Published)] /\ inbox \in [Clients -> Seq(Published)]
      /\ wire[p] \in Seq(Published) /\ h \in Clients /\ inbox[h] \in Seq(Published)
      /\ e \in Published
  <2>1. wire[p] \in Seq(Published)
    BY DEF Numbered
  <2>2. e \in Published
    BY <2>1
  <2>. QED
    BY <2>1, <2>2, HeardByClient DEF Numbered
<1>2. /\ wire'[p] = Tail(wire[p]) /\ \A o \in Partitions : o # p => wire'[o] = wire[o]
      /\ inbox'[h] = Append(inbox[h], e) /\ \A c \in Clients : c # h => inbox'[c] = inbox[c]
  BY <1>1
<1>3. /\ Rising(wire'[p]) /\ Below(accepted, wire'[p])
      /\ \A c \in Clients : Below(inbox[c], wire'[p])
      /\ Ahead(e, wire'[p]) /\ Behind(accepted, e) /\ Behind(inbox[h], e)
      /\ \A i \in DOMAIN wire'[p] : wire'[p][i].partition = p
      /\ e.partition = p
  <2>1. /\ Rising(wire[p]) /\ Below(accepted, wire[p])
        /\ \A c \in Clients : Below(inbox[c], wire[p])
        /\ \A i \in DOMAIN wire[p] : wire[p][i].partition = p
    BY DEF InTurn, Routed
  <2>. QED
    BY <1>1, <1>2, <2>1, TakeFirst
<1>4. \A o \in Partitions : Ahead(e, wire'[o])
  <2>1. ASSUME NEW o \in Partitions, o # p PROVE Ahead(e, wire'[o])
    BY <1>2, <1>3, <2>1 DEF Ahead, InTurn, Routed
  <2>. QED
    BY <1>3, <2>1
<1> HIDE DEF e, h
<1>5. /\ Rising(inbox'[h]) /\ Below(accepted, inbox'[h])
      /\ \A o \in Partitions : Below(inbox'[h], wire'[o])
      /\ \A i \in DOMAIN inbox'[h] : HeardBy(inbox'[h][i].partition) = h
  <2>1. /\ Rising(inbox[h]) /\ Below(accepted, inbox[h])
        /\ \A o \in Partitions : Below(inbox[h], wire'[o])
        /\ \A i \in DOMAIN inbox[h] : HeardBy(inbox[h][i].partition) = h
    BY <1>1, <1>2, <1>3 DEF InTurn, Routed
  <2>2. HeardBy(e.partition) = h
    BY <1>3 DEF h
  <2>. QED
    BY <1>1, <1>2, <1>3, <1>4, <2>1, <2>2, AddLast
<1>6. Routed'
  BY <1>2, <1>3, <1>5 DEF Routed, InTurn
<1>7. \A c \in Clients : Rising(inbox'[c]) /\ Below(accepted, inbox'[c])
  BY <1>2, <1>5 DEF InTurn
<1>8. \A o \in Partitions : Rising(wire'[o]) /\ Below(accepted, wire'[o])
  BY <1>2, <1>3 DEF InTurn
<1>9. \A c \in Clients, o \in Partitions : Below(inbox'[c], wire'[o])
  BY <1>2, <1>3, <1>5 DEF InTurn
<1>. QED
  BY <1>6, <1>7, <1>8, <1>9 DEF InTurn

\* A client hands over the first event it has.
LEMMA DispatchInTurn ==
  ASSUME Numbered, InTurn, NEW c \in Clients, inbox[c] # <<>>,
         inbox' = [inbox EXCEPT ![c] = Tail(@)], UNCHANGED wire,
         accepted' = accepted \/ accepted' = Append(accepted, Head(inbox[c]))
  PROVE  InTurn'
<1> DEFINE e == Head(inbox[c])
<1>1. /\ inbox \in [Clients -> Seq(Published)] /\ inbox[c] \in Seq(Published)
      /\ accepted \in Seq(Published) /\ e \in Published
  <2>1. inbox[c] \in Seq(Published)
    BY DEF Numbered
  <2>2. e \in Published
    BY <2>1
  <2>. QED
    BY <2>1, <2>2 DEF Numbered
<1>2. inbox'[c] = Tail(inbox[c]) /\ \A d \in Clients : d # c => inbox'[d] = inbox[d]
  BY <1>1
<1>3. /\ Rising(inbox'[c]) /\ Below(accepted, inbox'[c])
      /\ \A p \in Partitions : Below(inbox'[c], wire[p]) /\ Ahead(e, wire[p])
      /\ Ahead(e, inbox'[c]) /\ Behind(accepted, e)
      /\ \A i \in DOMAIN inbox'[c] : HeardBy(inbox'[c][i].partition) = c
      /\ HeardBy(e.partition) = c
  <2>1. /\ Rising(inbox[c]) /\ Below(accepted, inbox[c])
        /\ \A p \in Partitions : Below(inbox[c], wire[p])
        /\ \A i \in DOMAIN inbox[c] : HeardBy(inbox[c][i].partition) = c
    BY DEF InTurn, Routed
  <2>. QED
    BY <1>1, <1>2, <2>1, TakeFirst
<1>4. \A d \in Clients : Ahead(e, inbox'[d])
  <2>1. ASSUME NEW d \in Clients, d # c PROVE Ahead(e, inbox'[d])
    BY <1>2, <1>3, <2>1 DEF Ahead, InTurn, Routed
  <2>. QED
    BY <1>3, <2>1
<1> HIDE DEF e
<1>5. /\ Routed'
      /\ \A d \in Clients : Rising(inbox'[d]) /\ Below(accepted, inbox'[d])
      /\ \A d \in Clients, p \in Partitions : Below(inbox'[d], wire[p])
      /\ Rising(accepted) /\ \A p \in Partitions : Rising(wire[p]) /\ Below(accepted, wire[p])
  BY <1>2, <1>3 DEF InTurn, Routed
<1>6. CASE accepted' = accepted
  BY <1>5, <1>6 DEF InTurn
<1>7. CASE accepted' = Append(accepted, e)
  <2>1. /\ Rising(accepted')
        /\ \A d \in Clients : Below(accepted', inbox'[d])
        /\ \A p \in Partitions : Below(accepted', wire[p])
    BY <1>1, <1>3, <1>4, <1>5, <1>7, AddLast
  <2>. QED
    BY <1>5, <2>1 DEF InTurn
<1>. QED
  BY <1>6, <1>7 DEF e

LEMMA InTurnStep == Numbered /\ InTurn /\ [Next]_vars => InTurn'
<1> SUFFICES ASSUME Numbered, InTurn, [Next]_vars PROVE InTurn'
  OBVIOUS
<1>1. CASE UNCHANGED <<accepted, inbox, wire>>
  BY <1>1 DEF InTurn, Routed
<1>2. Application \/ Interrupt => UNCHANGED <<accepted, inbox, wire>>
  BY DEF Application, Interrupt, StartServer, StartStream, StartLogger, StartSources,
         StopSource, Signal, Wait, Close, StopStream, StopServer, events, history
<1>3. ASSUME NEW s \in Sources, Source(s) \/ Monitor(s) PROVE InTurn'
  BY <1>1, <1>3, PublishInTurn DEF Source, Monitor, Partitions, history
<1>4. Relay => InTurn'
  BY <1>1, RelayInTurn DEF Relay, history
<1>5. Dispatch => InTurn'
  BY <1>1, DispatchInTurn DEF Dispatch, Consume, Put
<1>6. Writer => UNCHANGED <<accepted, inbox, wire>>
  BY DEF Writer, history
<1>7. UNCHANGED vars => UNCHANGED <<accepted, inbox, wire>>
  BY DEF vars, events, history
<1>. QED
  BY <1>1, <1>2, <1>3, <1>4, <1>5, <1>6, <1>7 DEF Next

\* The log has every event at most once, and the events of a partition in the
\* order of publishing, through the sockets, ZMQServer's loop and the turns of
\* EventStream.dispatch to the rows CSVLogger writes, interrupted or not.  The
\* order across partitions is not kept, not even for one source.
THEOREM WrittenInOrder == Spec => []Rising(file)
<1>1. Init => Placed /\ Numbered /\ InTurn
  <2> SUFFICES ASSUME Init PROVE Placed /\ Numbered /\ InTurn
    OBVIOUS
  <2>1. <<>> \in Seq(Published) /\ Len(<<>>) = 0 /\ DOMAIN <<>> = {}
    OBVIOUS
  <2>2. Placed
    BY DEF Init, Placed, Startup, Stop, Working
  <2>3. Numbered
    BY <2>1, PipelineAssumption DEF Init, Numbered
  <2>4. InTurn
    BY <2>1 DEF Init, InTurn, Routed, Rising, Below
  <2>. QED
    BY <2>2, <2>3, <2>4
<1>2. Placed /\ Numbered /\ InTurn /\ [Next]_vars => (Placed /\ Numbered /\ InTurn)'
  BY PlacedStep, NumberedStep, InTurnStep
<1>3. IInv /\ InTurn => Rising(file)
  <2> SUFFICES ASSUME IInv, InTurn PROVE Rising(file)
    OBVIOUS
  <2> DEFINE rest == batch \o queue
  <2>1. rest \in Seq(Events) /\ file \in Seq(Events) /\ accepted = file \o rest
    BY Associative DEF IInv, Typed, Conserved
  <2> HIDE DEF rest
  <2>2. DOMAIN file \subseteq DOMAIN accepted /\ \A i \in DOMAIN file : file[i] = accepted[i]
    BY <2>1, Beginning
  <2>. QED
    BY <2>2 DEF InTurn, Rising
<1>. QED
  BY <1>1, <1>2, <1>3, Invariance, PTL DEF Spec

\* What stop() leaves behind: flags that say so, but for those a thread that
\* began later has set, or will set.
Silenced ==
  /\ main \in {"signal", "wait"} \cup After => \A s \in Sources : ~running[s]
  /\ main \in {"unthread", "unserver", "down"} =>
       "dispatch" \in unheard \/ (~streaming /\ dispatch # "begun")
  /\ main = "down" => "relay" \in unheard \/ (~relaying /\ relay # "begun")

LEMMA SilencedStep == Silenced /\ [Next]_vars => Silenced'
<1> SUFFICES ASSUME Silenced, [Next]_vars PROVE Silenced'
  OBVIOUS
<1> USE DEF Silenced, After
<1>1. CASE StartServer \/ StartStream \/ StartLogger \/ StartSources
  BY <1>1 DEF StartServer, StartStream, StartLogger, StartSources, Main, history
<1>2. CASE StopSource
  BY <1>2 DEF StopSource, Main, history
<1>3. CASE Signal
  BY <1>3 DEF Signal, Main
<1>4. CASE Wait \/ Close
  BY <1>4 DEF Wait, Close, Main, flags, history
<1>5. CASE StopStream
  BY <1>5 DEF StopStream, Main
<1>6. CASE StopServer
  BY <1>6 DEF StopServer, Main
<1>7. CASE Interrupt
  BY <1>7 DEF Interrupt, Main, flags, history
<1>8. ASSUME NEW s \in Sources, Source(s) \/ Monitor(s) PROVE Silenced'
  BY <1>8 DEF Source, Monitor, threads, flags, history
<1>9. CASE Relay
  BY <1>9 DEF Relay, history
<1>10. CASE Dispatch
  BY <1>10 DEF Dispatch, Consume, Clients
<1>11. CASE Writer
  BY <1>11 DEF Writer, flags, history
<1>12. CASE UNCHANGED vars
  BY <1>12 DEF vars, threads, flags, history
<1>. QED
  BY <1>1, <1>2, <1>3, <1>4, <1>5, <1>6, <1>7, <1>8, <1>9, <1>10, <1>11, <1>12
  DEF Next, Application

\* When stop() is through no source takes another step, the dispatch thread no
\* other round and the relay no other event, unless its thread only began after
\* it had been told to stop (_run_loop, EventStream.dispatch, ZMQServer._loop).
\* What ShutdownCompletes has beyond this is that each of them gets that far.
NoFurtherRound == main = "down" =>
  /\ \A s \in Sources : source'[s] = "step" => source[s] = "step"
  /\ dispatch = "loop" /\ dispatch' \in Clients => "dispatch" \in unheard
  /\ \A c \in Clients : Len(inbox'[c]) > Len(inbox[c]) => "relay" \in unheard

\* No step after Orchestrator.stop() has returned begins another round in a
\* thread that stop() has told to end.
THEOREM StoppedThreadsEnd == Spec => [][NoFurtherRound]_vars
<1>1. Init => Placed /\ Numbered /\ Silenced
  <2> SUFFICES ASSUME Init PROVE Placed /\ Numbered /\ Silenced
    OBVIOUS
  <2>1. <<>> \in Seq(Published) /\ Len(<<>>) = 0
    OBVIOUS
  <2>2. Placed
    BY DEF Init, Placed, Startup, Stop, Working
  <2>3. Numbered
    BY <2>1, PipelineAssumption DEF Init, Numbered
  <2>4. Silenced
    BY DEF Init, Silenced, After
  <2>. QED
    BY <2>2, <2>3, <2>4
<1>2. Placed /\ Numbered /\ Silenced /\ [Next]_vars => (Placed /\ Numbered /\ Silenced)'
  BY PlacedStep, NumberedStep, SilencedStep
<1>3. Placed /\ Numbered /\ Silenced /\ [Next]_vars => [NoFurtherRound]_vars
  <2> SUFFICES ASSUME Placed, Numbered, Silenced, Next, main = "down"
               PROVE  /\ \A s \in Sources : source'[s] = "step" => source[s] = "step"
                      /\ dispatch = "loop" /\ dispatch' \in Clients => "dispatch" \in unheard
                      /\ \A c \in Clients : Len(inbox'[c]) > Len(inbox[c]) => "relay" \in unheard
    BY DEF NoFurtherRound
  <2>1. ~Application /\ ~Interrupt
    BY DEF Application, Interrupt, StartServer, StartStream, StartLogger, StartSources,
           StopSource, Signal, Wait, Close, StopStream, StopServer, Main, Startup, Stop
  <2>2. /\ \A s \in Sources : ~running[s]
        /\ "dispatch" \in unheard \/ (~streaming /\ dispatch # "begun")
        /\ "relay" \in unheard \/ (~relaying /\ relay # "begun")
    BY DEF Silenced, After
  <2>3. \A c \in Clients : inbox[c] \in Seq(Published) /\ Len(inbox[c]) \in Nat
    BY DEF Numbered
  <2>4. ASSUME NEW s \in Sources, Source(s) \/ Monitor(s)
        PROVE  /\ \A t \in Sources : source'[t] = "step" => source[t] = "step"
               /\ UNCHANGED <<dispatch, inbox>>
    <3>1. \A t \in Sources : source'[t] = "step" => source[t] = "step"
      BY <2>2, <2>4 DEF Source, Monitor, threads, Placed
    <3>. QED
      BY <2>4, <3>1 DEF Source, Monitor, threads
  <2>5. CASE Relay
    <3>1. UNCHANGED <<source, dispatch>> /\ ("relay" \notin unheard => UNCHANGED inbox)
      BY <2>2, <2>5 DEF Relay
    <3>. QED
      BY <2>3, <3>1 DEF Clients
  <2>6. CASE Dispatch
    <3>1. source' = source
      BY <2>6 DEF Dispatch
    <3>2. dispatch = "loop" /\ ~streaming => dispatch' \notin Clients
      BY <2>6 DEF Dispatch, Clients
    <3>3. \A c \in Clients : ~(Len(inbox'[c]) > Len(inbox[c]))
      <4>1. CASE inbox' = inbox
        BY <2>3, <4>1
      <4>2. ASSUME NEW d \in Clients, inbox[d] # <<>>, inbox' = [inbox EXCEPT ![d] = Tail(@)]
            PROVE  \A c \in Clients : ~(Len(inbox'[c]) > Len(inbox[c]))
        <5>1. Len(Tail(inbox[d])) = Len(inbox[d]) - 1
          BY <2>3, <4>2
        <5>2. /\ inbox'[d] = Tail(inbox[d])
              /\ \A c \in Clients : c # d => inbox'[c] = inbox[c]
          BY <4>2 DEF Numbered
        <5>3. ~(Len(inbox'[d]) > Len(inbox[d]))
          BY <2>3, <5>1, <5>2
        <5>4. \A c \in Clients : c # d => ~(Len(inbox'[c]) > Len(inbox[c]))
          BY <2>3, <5>2
        <5>. QED
          BY <5>3, <5>4
      <4>. QED
        BY <2>6, <4>1, <4>2 DEF Dispatch
    <3>. QED
      BY <2>2, <3>1, <3>2, <3>3
  <2>7. CASE Writer
    BY <2>3, <2>7 DEF Writer, Clients
  <2>. QED
    BY <2>1, <2>3, <2>4, <2>5, <2>6, <2>7 DEF Next, Clients
<1>. QED
  BY <1>1, <1>2, <1>3, PTL DEF Spec

=============================================================================
