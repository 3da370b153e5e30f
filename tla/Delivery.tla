------------------------------ MODULE Delivery ------------------------------
(***************************************************************************)
(* The way of an event: EventStream.add_event in the thread that publishes *)
(* it, the PUSH socket of a client, the relay (ZMQServer), the SUB sockets *)
(* of the clients, and the dispatch thread, which hands it to the          *)
(* consumers: the logger and the reconstructor of each source.             *)
(*                                                                         *)
(* A client is the pair of sockets of one partition.  "observed" and       *)
(* "reconstructed" are there from the beginning, with their subscriptions; *)
(* the partition "observed.validated" is made by the first thread that     *)
(* publishes to it, without a lock: two source threads can make it twice.  *)
(* The client the thread of source s makes is called s.  Making it, the    *)
(* thread applies the wildcard subscriptions, those of the reconstructors; *)
(* a subscription takes effect when it has reached the relay.              *)
(*                                                                         *)
(* An event is named by its source, its number and its partition.          *)
(***************************************************************************)
EXTENDS Naturals, Sequences, FiniteSets, Functions

CONSTANTS Connected,  \* the sources, in the order their reconstructors connect
          Capacity,   \* high-water mark of the sockets
          Publishes,  \* bound: the partitions each source publishes to
          MaxEvents   \* bound: events published

Partitions == {"observed", "observed.validated", "reconstructed"}

Sources   == Range(Connected)
Clients   == {"observed", "reconstructed"} \cup Sources
Consumers == {"logger"} \cup Sources
None      == "none"

ASSUME DeliveryAssumption ==
  /\ Capacity \in Nat \ {0} /\ MaxEvents \in Nat
  /\ Connected \in Seq(Range(Connected)) /\ IsInjective(Connected)
  /\ Publishes \in [Sources -> SUBSET Partitions]
  /\ Sources \cap {"observed", "reconstructed", "logger", "none"} = {}

Events == [src : Sources, n : Nat \ {0}, partition : Partitions]

VARIABLES
  count,    \* per source, the events published
  pc,       \* where the thread of a source is in add_event
  using,    \* the client _get_client gave it
  current,  \* partitions["observed.validated"], or None
  made,     \* the sources whose thread made a client
  applied,  \* per client, how many of the reconstructors are subscribed to it
  joined,   \* per client, how many of these subscriptions the relay knows
  pushed,   \* per client, what its PUSH socket holds
  inbox,    \* per client, what its SUB socket holds
  round,    \* the clients the dispatch thread has yet to poll
  accepted, \* history: events a PUSH socket took
  due,      \* history: those that were pushed with the subscription in effect
  lost,     \* history: events the relay dropped for a full socket
  seen,     \* history: per consumer, the events handed to it
  twice,    \* history: consumers that were handed an event again
  late      \* history: consumers handed an event after a later one of its kind

history == <<accepted, due, lost, seen, twice, late>>
streams == <<current, made, applied, joined>>
sockets == <<pushed, inbox>>
threads == <<count, pc, using, round>>
vars    == <<threads, streams, sockets, history>>

TypeOK ==
  /\ count \in [Sources -> Nat]
  /\ pc \in [Sources -> {"idle", "make", "apply", "push"}]
  /\ using \in [Sources -> Sources \cup {None}]
  /\ current \in Sources \cup {None}
  /\ made \subseteq Sources
  /\ applied \in [Sources -> 0..Len(Connected)]
  /\ joined \in [Sources -> 0..Len(Connected)]
  /\ \A s \in Sources : joined[s] <= applied[s]
  /\ pushed \in [Clients -> Seq(Events)] /\ inbox \in [Clients -> Seq(Events)]
  /\ \A c \in Clients : Len(pushed[c]) <= Capacity /\ Len(inbox[c]) <= Capacity
  /\ round \in Seq(Clients) \ {<<>>}
  /\ accepted \subseteq Events /\ due \subseteq accepted /\ lost \subseteq accepted
  /\ seen \in [Consumers -> SUBSET accepted]
  /\ twice \subseteq Consumers /\ late \subseteq Consumers

\* The parts are constructed and every consumer has subscribed; the charts
\* let no source publish before that.
Init ==
  /\ count = [s \in Sources |-> 0]
  /\ pc = [s \in Sources |-> "idle"] /\ using = [s \in Sources |-> None]
  /\ current = None /\ made = {}
  /\ applied = [s \in Sources |-> 0] /\ joined = [s \in Sources |-> 0]
  /\ pushed = [c \in Clients |-> <<>>] /\ inbox = [c \in Clients |-> <<>>]
  /\ round = <<"observed", "reconstructed">>
  /\ accepted = {} /\ due = {} /\ lost = {}
  /\ seen = [k \in Consumers |-> {}] /\ twice = {} /\ late = {}

------------------------------------------------------------------------------
(***************************************************************************)
(* Publishing.                                                             *)
(***************************************************************************)
\* _wildcard_subs: the first n reconstructors to connect.
First(n) == Range(SubSeq(Connected, 1, n))

Goto(s, from, to) == pc[s] = from /\ pc' = [pc EXCEPT ![s] = to]

\* Faulty variant of Push: the socket has no high-water mark.
PushAlways(c, e) ==
  /\ UNCHANGED <<inbox, lost, seen, twice, late>>
  /\ pushed' = [pushed EXCEPT ![c] = Append(@, e)]
  /\ accepted' = accepted \cup {e}
  /\ due' = IF c \notin Sources \/ e.src \in First(joined[c]) THEN due \cup {e} ELSE due

\* publish: a full PUSH socket drops the event, with a warning.
Push(c, e) ==
  /\ UNCHANGED <<inbox, lost, seen, twice, late>>
  /\ \/ /\ Len(pushed[c]) < Capacity
        /\ pushed' = [pushed EXCEPT ![c] = Append(@, e)]
        /\ accepted' = accepted \cup {e}
        /\ due' = IF c \notin Sources \/ e.src \in First(joined[c]) THEN due \cup {e} ELSE due
     \/ /\ Len(pushed[c]) = Capacity
        /\ UNCHANGED <<pushed, accepted, due>>

\* A source may publish to partition p.
MayPublish(s, p) ==
  /\ p \in Publishes[s]
  /\ FoldFunction(+, 0, count) + Cardinality({o \in Sources : pc[o] # "idle"}) < MaxEvents

\* Its next event goes to the PUSH socket of client c.
PushNext(s, p, c) ==
  /\ count' = [count EXCEPT ![s] = @ + 1]
  /\ Push(c, [src |-> s, n |-> count[s] + 1, partition |-> p])

\* add_event with a partition that is always there: observed events by the
\* source's thread, reconstructed ones by the monitor thread of its
\* reconstructor.  All threads share the client, and its lock.
PublishObserved(s) ==
  /\ pc[s] = "idle" /\ MayPublish(s, "observed")
  /\ PushNext(s, "observed", "observed")
  /\ UNCHANGED <<pc, using, round, streams>>

PublishReconstructed(s) ==
  /\ MayPublish(s, "reconstructed")
  /\ PushNext(s, "reconstructed", "reconstructed")
  /\ UNCHANGED <<pc, using, round, streams>>

\* add_event with partition observed.validated, in _get_client: the partition
\* is there, and this thread is to use whoever's client it is ...
Find(s) ==
  /\ current # None
  /\ Goto(s, "idle", "push") /\ MayPublish(s, "observed.validated")
  /\ using' = [using EXCEPT ![s] = current]
  /\ UNCHANGED <<count, round, streams, sockets, history>>

\* ... or it is missing, and another thread may come to the same conclusion ...
Miss(s) ==
  /\ current = None
  /\ Goto(s, "idle", "make") /\ MayPublish(s, "observed.validated")
  /\ UNCHANGED <<count, using, round, streams, sockets, history>>

\* ... before this one makes a client and puts it into the dictionary, over
\* the other's, maybe ...
Make(s) ==
  /\ Goto(s, "make", "apply")
  /\ current' = s /\ made' = made \cup {s}
  /\ UNCHANGED <<count, using, round, applied, joined, sockets, history>>

\* ... applies the wildcard subscriptions to it, one after the other ...
Apply(s) ==
  /\ pc[s] = "apply" /\ applied[s] < Len(Connected)
  /\ applied' = [applied EXCEPT ![s] = @ + 1]
  /\ UNCHANGED <<count, pc, using, round, current, made, joined, sockets, history>>

\* ... and returns the client that is in the dictionary by now.
Return(s) ==
  /\ Goto(s, "apply", "push")
  /\ applied[s] = Len(Connected)
  /\ using' = [using EXCEPT ![s] = current]
  /\ UNCHANGED <<count, round, streams, sockets, history>>

PushValidated(s) ==
  /\ Goto(s, "push", "idle")
  /\ PushNext(s, "observed.validated", using[s])
  /\ using' = [using EXCEPT ![s] = None]
  /\ UNCHANGED <<round, streams>>

\* A subscription reaches the relay.
Join(c) ==
  /\ c \in Sources
  /\ joined[c] < applied[c]
  /\ joined' = [joined EXCEPT ![c] = @ + 1]
  /\ UNCHANGED <<threads, current, made, applied, sockets, history>>

------------------------------------------------------------------------------
(***************************************************************************)
(* The relay, and the dispatch thread.                                     *)
(***************************************************************************)

\* Faulty variant of Subscribed: the subscriptions of the observed client do
\* not reach the partitions below it.
SubscribedExactly(c, e) ==
  IF c \in Sources THEN e.partition = "observed.validated" /\ e.src \in First(joined[c])
                   ELSE e.partition = c

\* Which SUB sockets the relay sends an event to.  The logger's subscription
\* to "observed.*" is the prefix "observed.", which the topics of validated
\* events begin with as well.
Subscribed(c, e) ==
  CASE c = "observed"      -> e.partition \in {"observed", "observed.validated"}
    [] c = "reconstructed" -> e.partition = "reconstructed"
    [] OTHER               -> e.partition = "observed.validated" /\ e.src \in First(joined[c])

\* One turn of the relay's loop.  A PUB socket drops silently what a
\* subscriber has no room for.
Relay(c) ==
  /\ pushed[c] # <<>>
  /\ LET e    == Head(pushed[c])
         to   == {d \in Clients : Subscribed(d, e)}
         full == {d \in to : Len(inbox[d]) = Capacity}
     IN  /\ inbox' = [d \in Clients |-> IF d \in to \ full THEN Append(inbox[d], e)
                                                            ELSE inbox[d]]
         /\ lost' = IF full = {} THEN lost ELSE lost \cup {e}
  /\ pushed' = [pushed EXCEPT ![c] = Tail(@)]
  /\ UNCHANGED <<threads, streams, accepted, due, seen, twice, late>>

\* Faulty variant of Clientele: the list of clients is taken once.
ClienteleOnce == <<"observed", "reconstructed">>

\* for client in list(self.partitions.values())
Clientele == <<"observed", "reconstructed">>
               \o (IF current = None THEN <<>> ELSE <<current>>)

\* Faulty variant of HandedTo: consumers are found by prefix, not by topic.
HandedToByPrefix(c, e) ==
  CASE c = "observed"      -> {"logger", e.src}
    [] c = "reconstructed" -> {"logger"}
    [] OTHER               -> {e.src} \cap First(applied[c])

\* The keys poll_once looks a topic up with: the topic itself, and "p.*" for
\* the client's own partition p.  The logger has the latter with the two first
\* clients, the reconstructor of s the topic of s with those for observed and
\* validated events.
HandedTo(c, e) ==
  CASE c = "observed"      -> {"logger"} \cup (IF e.partition = c THEN {e.src} ELSE {})
    [] c = "reconstructed" -> {"logger"}
    [] OTHER               -> {e.src} \cap First(applied[c])

\* poll_once: hand over what the socket holds, event by event ...
Handle ==
  /\ inbox[Head(round)] # <<>>
  /\ LET c  == Head(round)
         e  == Head(inbox[c])
         to == HandedTo(c, e)
     IN  /\ inbox' = [inbox EXCEPT ![c] = Tail(@)]
         /\ seen' = [k \in Consumers |-> IF k \in to THEN seen[k] \cup {e} ELSE seen[k]]
         /\ twice' = twice \cup {k \in to : e \in seen[k]}
         /\ late' = late \cup {k \in to : \E f \in seen[k] :
                      f.src = e.src /\ f.partition = e.partition /\ f.n > e.n}
  /\ UNCHANGED <<threads, streams, pushed, accepted, due, lost>>

\* ... until it is drained; then comes the next client, or the next round
\* over those there are by now.
Drained ==
  /\ inbox[Head(round)] = <<>>
  /\ round' = IF Len(round) > 1 THEN Tail(round) ELSE Clientele
  /\ UNCHANGED <<count, pc, using, streams, sockets, history>>

------------------------------------------------------------------------------
GetClient(s) == Make(s) \/ Apply(s) \/ Return(s)

Publish(s) == PublishObserved(s) \/ PublishReconstructed(s) \/ Find(s) \/ Miss(s)

Dispatch == Handle \/ Drained

Next ==
  \/ \E s \in Sources : Publish(s) \/ GetClient(s) \/ PushValidated(s)
  \/ \E c \in Clients : Join(c) \/ Relay(c)
  \/ Dispatch

Spec == Init /\ [][Next]_vars

(***************************************************************************)
(* A thread that is publishing goes on, the relay serves each of its PUSH  *)
(* peers in turn, and the dispatch thread loops.  Nobody has to publish.   *)
(***************************************************************************)
Fairness ==
  /\ \A s \in Sources : WF_vars(GetClient(s) \/ PushValidated(s))
  /\ \A c \in Clients : WF_vars(Relay(c))
  /\ WF_vars(Dispatch)

FairSpec == Spec /\ Fairness

------------------------------------------------------------------------------
(***************************************************************************)
(* Properties.                                                             *)
(***************************************************************************)
MadeOnce == Cardinality(made) <= 1

\* "Records all events in the event stream": an event a socket has taken gets
\* to the logger, whatever happens to the client it was published through,
\* unless a full socket loses it on the way.  Publishing comes to an end in
\* the model, so all of them are there at some time.
EveryEventIsLogged == <>[](accepted \subseteq seen["logger"] \cup lost)

\* ... and it gets there once, although validated events reach two clients.
\* A reconstructor is handed an event twice only if two threads made the
\* partition: the dispatch thread may have the replaced client in its list.
\* If one thread made it, the events of a source and a partition are handled
\* in the order they were published in.  No reconstructor is ever handed an
\* event of another source or a reconstructed one, which would teach its
\* predictor its own predictions.
OnceAndInOrder ==
  /\ twice \subseteq (IF MadeOnce THEN {} ELSE Sources)
  /\ MadeOnce => late = {}
  /\ \A r \in Sources : \A e \in seen[r] : e.src = r /\ e.partition # "reconstructed"

\* A reconstructor gets every event that is published to its subscription,
\* if only one thread made the partition: it does not judge such a slot silent.
EveryEventIsObserved ==
  <>[](MadeOnce => \A e \in due \ lost :
                     e.partition = "reconstructed" \/ e \in seen[e.src])

=============================================================================
