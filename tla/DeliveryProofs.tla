--------------------------- MODULE DeliveryProofs ---------------------------
(***************************************************************************)
(* Theorems about Delivery: for any sources, capacity and number of events *)
(* the logger gets an event once, a reconstructor as well unless two       *)
(* threads made the partition, in the order of publishing, and nothing is  *)
(* lost but by a full socket or to a client that nobody polls any more.    *)
(***************************************************************************)
EXTENDS Delivery, FiniteSetTheorems, TLAPS

\* MadeOnce, without counting.
OneOf(m) == \A a, b \in m : a = b

\* f is another event than e and, where order is promised, published before it.
Earlier(m, f, e) ==
  /\ f # e
  /\ OneOf(m) /\ f.src = e.src /\ f.partition = e.partition => f.n < e.n

Increasing(m, q) == \A i, j \in DOMAIN q : i < j => Earlier(m, q[i], q[j])

\* The partitions a PUSH socket takes, and a SUB socket gets.
PushedTo(c, e) == e.partition = IF c \in Sources THEN "observed.validated" ELSE c

SentTo(c, e) ==
  CASE c = "observed"      -> e.partition \in {"observed", "observed.validated"}
    [] c = "reconstructed" -> e.partition = "reconstructed"
    [] OTHER               -> e.partition = "observed.validated"

\* The consumers an event of client c may be handed to, now or later.
Destined(c, e) ==
  CASE c = "observed"      -> {"logger"} \cup (IF e.partition = c THEN {e.src} ELSE {})
    [] c = "reconstructed" -> {"logger"}
    [] OTHER               -> {e.src}

------------------------------------------------------------------------------
(***************************************************************************)
(* The inductive invariant.                                                *)
(***************************************************************************)

\* Only who has made a client has subscriptions to it, and only through such
\* a client does a validated event go.
Making ==
  /\ IsFiniteSet(made)
  /\ current = None <=> made = {}
  /\ current # None => current \in made
  /\ \A s \in Sources :
       /\ using[s] # None => using[s] \in made
       /\ pc[s] = "push" => using[s] # None
       /\ pc[s] = "apply" \/ applied[s] > 0 => s \in made
       /\ Range(pushed[s]) \cup Range(inbox[s]) # {} => s \in made

\* Events are where their partition belongs.
Sorted == \A c \in Clients :
  /\ \A e \in Range(pushed[c]) : PushedTo(c, e)
  /\ \A e \in Range(inbox[c]) : SentTo(c, e)

\* All events there are have been published.
Known ==
  /\ \A e \in accepted : e.n <= count[e.src]
  /\ \A c \in Clients : Range(pushed[c]) \cup Range(inbox[c]) \subseteq accepted

\* An event is in one PUSH socket at most, behind those published before it,
\* and everything that was relayed or handled is earlier than what was not.
Ordered ==
  /\ \A c \in Clients : Increasing(made, pushed[c]) /\ Increasing(made, inbox[c])
  /\ \A c, d \in Clients : c # d => Range(pushed[c]) \cap Range(pushed[d]) = {}
  /\ \A c, d \in Clients : \A e \in Range(pushed[c]), f \in Range(inbox[d]) : Earlier(made, f, e)
  /\ \A c \in Clients, k \in Consumers :
       \A e \in Range(pushed[c]), f \in seen[k] : Earlier(made, f, e)
  /\ \A c \in Clients : (c \in Sources => OneOf(made)) =>
       \A e \in Range(inbox[c]) : \A k \in Destined(c, e) : \A f \in seen[k] : Earlier(made, f, e)

\* What the history says about what was handed over.
Heard ==
  /\ twice \subseteq (IF OneOf(made) THEN {} ELSE Sources)
  /\ OneOf(made) => late = {}
  /\ \A r \in Sources : \A e \in seen[r] : e.src = r /\ e.partition # "reconstructed"

\* No event vanishes on its way to the logger, ...
Logged == \A e \in accepted :
  \/ e \in lost \cup seen["logger"]
  \/ \E c \in Clients : e \in Range(pushed[c])
  \/ e \in Range(inbox["observed"]) \cup Range(inbox["reconstructed"])

\* ... nor to the reconstructor that was subscribed when it was published.
Observed == \A e \in due : e.partition # "reconstructed" =>
  \/ e \in lost \cup seen[e.src]
  \/ \E c \in Clients : e \in Range(pushed[c]) /\ (c \in Sources => e.src \in First(joined[c]))
  \/ \E c \in Clients : e \in Range(inbox[c]) /\ e.src \in HandedTo(c, e)

IInv == TypeOK /\ Making /\ Sorted /\ Known /\ Ordered /\ Heard /\ Logged /\ Observed

------------------------------------------------------------------------------
(***************************************************************************)
(* Lemmas about the constants and the queues.                              *)
(***************************************************************************)
LEMMA Apart ==
  /\ "observed" \notin Sources /\ "reconstructed" \notin Sources
  /\ "logger" \notin Sources /\ None \notin Sources
  /\ Clients = {"observed", "reconstructed"} \cup Sources
  /\ Consumers = {"logger"} \cup Sources
BY DeliveryAssumption DEF Clients, Consumers, None

LEMMA AppendQueue ==
  ASSUME NEW q \in Seq(Events), NEW e \in Events
  PROVE  /\ Append(q, e) \in Seq(Events) /\ Len(Append(q, e)) = Len(q) + 1
         /\ Range(Append(q, e)) = Range(q) \cup {e}
<1>1. /\ DOMAIN Append(q, e) = 1..(Len(q) + 1) /\ DOMAIN q = 1..Len(q)
      /\ \A i \in 1..Len(q) : Append(q, e)[i] = q[i]
      /\ Append(q, e)[Len(q) + 1] = e
      /\ Len(q) \in Nat
  OBVIOUS
<1>2. Range(Append(q, e)) = Range(q) \cup {e}
  <2>1. \A i \in DOMAIN Append(q, e) : i \in DOMAIN q \/ i = Len(q) + 1
    BY <1>1
  <2>2. DOMAIN q \subseteq DOMAIN Append(q, e) /\ Len(q) + 1 \in DOMAIN Append(q, e)
    BY <1>1
  <2>. QED
    BY <1>1, <2>1, <2>2 DEF Range
<1>. QED
  BY <1>2

LEMMA AppendIncreasing ==
  ASSUME NEW m, NEW q \in Seq(Events), NEW e \in Events, Increasing(m, q),
         \A f \in Range(q) : Earlier(m, f, e)
  PROVE  Increasing(m, Append(q, e))
<1>1. /\ DOMAIN Append(q, e) = 1..(Len(q) + 1) /\ DOMAIN q = 1..Len(q)
      /\ \A i \in 1..Len(q) : Append(q, e)[i] = q[i]
      /\ Append(q, e)[Len(q) + 1] = e
      /\ Len(q) \in Nat
  OBVIOUS
<1> SUFFICES ASSUME NEW i \in DOMAIN Append(q, e), NEW j \in DOMAIN Append(q, e), i < j
             PROVE  Earlier(m, Append(q, e)[i], Append(q, e)[j])
  BY DEF Increasing
<1>2. i \in DOMAIN q /\ Append(q, e)[i] = q[i] /\ q[i] \in Range(q)
  BY <1>1 DEF Range
<1>3. CASE j = Len(q) + 1
  BY <1>1, <1>2, <1>3
<1>4. CASE j # Len(q) + 1
  <2>1. j \in DOMAIN q /\ Append(q, e)[j] = q[j]
    BY <1>1, <1>4
  <2>. QED
    BY <1>2, <2>1 DEF Increasing
<1>. QED
  BY <1>3, <1>4

LEMMA TailQueue ==
  ASSUME NEW q \in Seq(Events), q # <<>>
  PROVE  /\ Head(q) \in Events /\ Tail(q) \in Seq(Events) /\ Len(Tail(q)) = Len(q) - 1
         /\ Len(q) \in Nat
         /\ Range(q) = {Head(q)} \cup Range(Tail(q))
<1>1. /\ Head(q) = q[1] /\ DOMAIN q = 1..Len(q) /\ Len(q) \in Nat /\ Len(q) > 0
      /\ Tail(q) \in Seq(Events) /\ Len(Tail(q)) = Len(q) - 1
      /\ DOMAIN Tail(q) = 1..(Len(q) - 1)
      /\ \A i \in 1..(Len(q) - 1) : Tail(q)[i] = q[i + 1]
  OBVIOUS
<1>2. Range(q) = {Head(q)} \cup Range(Tail(q))
  <2>1. ASSUME NEW i \in DOMAIN q, i # 1
        PROVE  i - 1 \in DOMAIN Tail(q) /\ Tail(q)[i - 1] = q[i]
    BY <1>1, <2>1
  <2>2. \A i \in DOMAIN Tail(q) : i + 1 \in DOMAIN q /\ Tail(q)[i] = q[i + 1]
    BY <1>1
  <2>3. 1 \in DOMAIN q
    BY <1>1
  <2>. QED
    BY <1>1, <2>1, <2>2, <2>3 DEF Range
<1>. QED
  BY <1>1, <1>2

LEMMA TailIncreasing ==
  ASSUME NEW m, NEW q \in Seq(Events), q # <<>>, Increasing(m, q)
  PROVE  Increasing(m, Tail(q)) /\ \A g \in Range(Tail(q)) : Earlier(m, Head(q), g)
<1>1. /\ Head(q) = q[1] /\ DOMAIN q = 1..Len(q) /\ Len(q) \in Nat /\ Len(q) > 0
      /\ DOMAIN Tail(q) = 1..(Len(q) - 1)
      /\ \A i \in 1..(Len(q) - 1) : Tail(q)[i] = q[i + 1]
  OBVIOUS
<1>2. Increasing(m, Tail(q))
  <2> SUFFICES ASSUME NEW i \in DOMAIN Tail(q), NEW j \in DOMAIN Tail(q), i < j
               PROVE  Earlier(m, Tail(q)[i], Tail(q)[j])
    BY DEF Increasing
  <2>1. i + 1 \in DOMAIN q /\ j + 1 \in DOMAIN q /\ i + 1 < j + 1
    BY <1>1
  <2>. QED
    BY <1>1, <2>1 DEF Increasing
<1>3. ASSUME NEW i \in DOMAIN Tail(q)
      PROVE  Earlier(m, Head(q), Tail(q)[i])
  <2>1. 1 \in DOMAIN q /\ i + 1 \in DOMAIN q /\ 1 < i + 1
    BY <1>1
  <2>. QED
    BY <1>1, <2>1 DEF Increasing
<1>. QED
  BY <1>2, <1>3 DEF Range

LEMMA InQueue ==
  ASSUME NEW q \in Seq(Events)
  PROVE  Range(q) \subseteq Events /\ (q = <<>> <=> Range(q) = {})
<1>1. DOMAIN q = 1..Len(q) /\ Len(q) \in Nat /\ (q = <<>> <=> Len(q) = 0)
      /\ \A i \in DOMAIN q : q[i] \in Events
  OBVIOUS
<1>2. q # <<>> => 1 \in DOMAIN q
  BY <1>1
<1>3. q = <<>> => DOMAIN q = {}
  BY <1>1
<1>. QED
  BY <1>1, <1>2, <1>3 DEF Range

\* The subscriptions there are after n steps, and before them.
LEMMA FirstGrows ==
  ASSUME NEW m \in Nat, NEW n \in Nat, m <= n, n <= Len(Connected)
  PROVE  First(m) \subseteq First(n) /\ (First(m) # {} => m > 0)
<1>1. Connected \in Seq(Sources) /\ Len(Connected) \in Nat
  BY DeliveryAssumption DEF Sources
<1>2. ASSUME NEW k \in Nat, k <= Len(Connected)
      PROVE  First(k) = {Connected[i] : i \in 1..k}
  <2>1. /\ SubSeq(Connected, 1, k) \in Seq(Sources)
        /\ DOMAIN SubSeq(Connected, 1, k) = 1..k
        /\ \A i \in 1..k : SubSeq(Connected, 1, k)[i] = Connected[i]
    BY <1>1, <1>2
  <2>. QED
    BY <2>1 DEF First, Range
<1>3. First(m) = {Connected[i] : i \in 1..m}
  BY <1>1, <1>2
<1>4. First(n) = {Connected[i] : i \in 1..n}
  BY <1>1, <1>2
<1>5. 1..m \subseteq 1..n /\ (m = 0 => 1..m = {})
  OBVIOUS
<1>6. ASSUME NEW x \in First(m)
      PROVE  x \in First(n)
  <2>1. PICK i \in 1..m : x = Connected[i]
    BY <1>3
  <2>2. i \in 1..n
    BY <1>5, <2>1
  <2>. QED
    BY <1>4, <2>1, <2>2
<1>7. m = 0 => First(m) = {}
  <2> SUFFICES ASSUME m = 0, NEW x \in First(m) PROVE FALSE
    OBVIOUS
  <2>1. \E i \in 1..m : x = Connected[i]
    BY <1>3
  <2>. QED
    BY <1>5, <2>1
<1>8. m = 0 \/ m > 0
  OBVIOUS
<1>. QED
  BY <1>6, <1>7, <1>8, Zenon

LEMMA Counting ==
  ASSUME IsFiniteSet(made)
  PROVE  MadeOnce <=> OneOf(made)
<1>1. Cardinality(made) \in Nat /\ (Cardinality(made) = 0 <=> made = {})
      /\ (Cardinality(made) = 1 <=> \E x : made = {x})
  BY FS_CardinalityType, FS_EmptySet, FS_Singleton
<1>2. MadeOnce <=> (made = {} \/ \E x : made = {x})
  <2>1. \A n \in Nat : n <= 1 <=> n = 0 \/ n = 1
    OBVIOUS
  <2>2. MadeOnce <=> Cardinality(made) = 0 \/ Cardinality(made) = 1
    BY <1>1, <2>1 DEF MadeOnce
  <2>. QED
    BY <1>1, <2>2
<1>3. OneOf(made) <=> (made = {} \/ \E x : made = {x})
  BY DEF OneOf
<1>. QED
  BY <1>2, <1>3

LEMMA Weaker ==
  ASSUME NEW m, NEW n, m \subseteq n
  PROVE  /\ OneOf(n) => OneOf(m)
         /\ \A f, e : Earlier(m, f, e) => Earlier(n, f, e)
         /\ \A q : Increasing(m, q) => Increasing(n, q)
<1>1. OneOf(n) => OneOf(m)
  BY DEF OneOf
<1>2. \A f, e : Earlier(m, f, e) => Earlier(n, f, e)
  BY <1>1 DEF Earlier
<1>. QED
  BY <1>1, <1>2 DEF Increasing

------------------------------------------------------------------------------
LEMMA InitIInv == Init => IInv
<1> SUFFICES ASSUME Init PROVE IInv
  OBVIOUS
<1>0. <<>> \in Seq(Events)
  OBVIOUS
<1>1. <<>> \in Seq(Events) /\ Range(<<>>) = {} /\ Len(<<>>) = 0
  BY <1>0, InQueue
<1>2. /\ Len(Connected) \in Nat /\ Capacity \in Nat
      /\ <<"observed", "reconstructed">> \in Seq(Clients) \ {<<>>}
  BY DeliveryAssumption, Apart
<1>3. TypeOK
  BY <1>1, <1>2 DEF Init, TypeOK
<1>4. Making
  BY <1>1, FS_EmptySet, Apart DEF Init, Making
<1>5. Sorted /\ Known
  BY <1>1 DEF Init, Sorted, Known
<1>6. Ordered
  <2>1. Increasing(made, <<>>)
    BY DEF Increasing
  <2>. QED
    BY <1>1, <2>1 DEF Init, Ordered
<1>7. Heard /\ Logged /\ Observed
  BY Apart DEF Init, Heard, Logged, Observed
<1>. QED
  BY <1>3, <1>4, <1>5, <1>6, <1>7 DEF IInv

------------------------------------------------------------------------------
(***************************************************************************)
(* The steps that move no event: those of _get_client, and a subscription  *)
(* that reaches the relay.                                                 *)
(***************************************************************************)
LEMMA StreamKeeps ==
  ASSUME IInv, UNCHANGED <<count, sockets, history>>, TypeOK', Making', made \subseteq made',
         \A c \in Sources : /\ First(joined[c]) \subseteq First(joined'[c])
                            /\ First(applied[c]) \subseteq First(applied'[c])
  PROVE  IInv'
<1> USE DEF sockets, history
<1>1. Sorted' /\ Known' /\ Logged'
  BY DEF IInv, Sorted, Known, Logged
<1>2. /\ OneOf(made') => OneOf(made)
      /\ \A f, e : Earlier(made, f, e) => Earlier(made', f, e)
      /\ \A q : Increasing(made, q) => Increasing(made', q)
  BY Weaker
<1>3. Ordered'
  <2>1. \A c \in Clients : (Increasing(made, pushed[c]) /\ Increasing(made, inbox[c]))'
    BY <1>2 DEF IInv, Ordered
  <2>2. \A c, d \in Clients : \A e \in Range(pushed[c]), f \in Range(inbox[d]) :
          Earlier(made', f, e)
    BY <1>2 DEF IInv, Ordered
  <2>3. \A c \in Clients, k \in Consumers :
          \A e \in Range(pushed[c]), f \in seen[k] : Earlier(made', f, e)
    BY <1>2 DEF IInv, Ordered
  <2>4. \A c \in Clients : (c \in Sources => OneOf(made')) =>
          \A e \in Range(inbox[c]) : \A k \in Destined(c, e) : \A f \in seen[k] :
            Earlier(made', f, e)
    BY <1>2 DEF IInv, Ordered
  <2>. QED
    BY <2>1, <2>2, <2>3, <2>4 DEF IInv, Ordered
<1>4. Heard'
  BY <1>2 DEF IInv, Heard
<1>5. Observed'
  <2>1. \A c \in Clients : \A e : e.src \in HandedTo(c, e) => e.src \in HandedTo(c, e)'
    BY Apart DEF HandedTo
  <2>. QED
    BY <2>1 DEF IInv, Observed
<1>. QED
  BY <1>1, <1>3, <1>4, <1>5 DEF IInv

LEMMA FindKeeps ==
  ASSUME IInv, NEW s \in Sources, Find(s) \/ Miss(s)
  PROVE  IInv'
<1>1. /\ UNCHANGED <<count, current, made, applied, joined, pushed, inbox, round, history>>
      /\ \/ /\ pc' = [pc EXCEPT ![s] = "push"] /\ current # None
            /\ using' = [using EXCEPT ![s] = current]
         \/ pc' = [pc EXCEPT ![s] = "make"] /\ using' = using
  BY DEF Find, Miss, Goto, streams, sockets
<1>2. TypeOK'
  BY <1>1 DEF IInv, TypeOK, history
<1>3. Making'
  <2>0. current # None => current \in made
    BY DEF IInv, Making
  <2>1. \A t \in Sources : using'[t] # None => using'[t] \in made
    <3>1. \A t \in Sources : using'[t] = using[t] \/ using'[t] = current
      BY <1>1 DEF IInv, TypeOK
    <3>. QED
      BY <2>0, <3>1 DEF IInv, Making
  <2>2. \A t \in Sources : pc'[t] = "push" => using'[t] # None
    BY <1>1 DEF IInv, TypeOK, Making
  <2>3. \A t \in Sources : pc'[t] = "apply" => pc[t] = "apply"
    BY <1>1 DEF IInv, TypeOK
  <2>. QED
    BY <1>1, <2>1, <2>2, <2>3 DEF IInv, Making
<1>. QED
  BY <1>1, <1>2, <1>3, StreamKeeps DEF sockets

LEMMA MakeKeeps ==
  ASSUME IInv, NEW s \in Sources, Make(s)
  PROVE  IInv'
<1>1. /\ UNCHANGED <<count, using, round, applied, joined, pushed, inbox, history>>
      /\ pc' = [pc EXCEPT ![s] = "apply"] /\ current' = s /\ made' = made \cup {s}
  BY DEF Make, Goto, sockets
<1>2. TypeOK'
  BY <1>1 DEF IInv, TypeOK, history
<1>3. Making'
  <2>1. IsFiniteSet(made')
    BY <1>1, FS_AddElement DEF IInv, Making
  <2>2. s # None
    BY Apart
  <2>. QED
    BY <1>1, <2>1, <2>2 DEF IInv, TypeOK, Making
<1>. QED
  BY <1>1, <1>2, <1>3, StreamKeeps DEF sockets

LEMMA ApplyKeeps ==
  ASSUME IInv, NEW s \in Sources, Apply(s)
  PROVE  IInv'
<1>1. /\ UNCHANGED <<count, pc, using, round, current, made, joined, pushed, inbox, history>>
      /\ pc[s] = "apply" /\ applied[s] < Len(Connected)
      /\ applied' = [applied EXCEPT ![s] = @ + 1]
  BY DEF Apply, sockets
<1>2. /\ Len(Connected) \in Nat /\ applied[s] \in Nat /\ joined[s] \in Nat
      /\ joined[s] <= applied[s]
  BY DeliveryAssumption DEF IInv, TypeOK
<1>3. TypeOK'
  <2>1. applied' \in [Sources -> 0..Len(Connected)]
    BY <1>1, <1>2 DEF IInv, TypeOK
  <2>2. \A d \in Sources : joined'[d] <= applied'[d]
    BY <1>1, <1>2 DEF IInv, TypeOK
  <2>. QED
    BY <1>1, <2>1, <2>2 DEF IInv, TypeOK, history
<1>4. Making'
  BY <1>1 DEF IInv, TypeOK, Making
<1>5. First(applied[s]) \subseteq First(applied[s] + 1)
  BY <1>1, <1>2, FirstGrows
<1>6. \A d \in Sources : First(applied[d]) \subseteq First(applied'[d])
  BY <1>1, <1>5 DEF IInv, TypeOK
<1>. QED
  BY <1>1, <1>3, <1>4, <1>6, StreamKeeps DEF sockets

LEMMA ReturnKeeps ==
  ASSUME IInv, NEW s \in Sources, Return(s)
  PROVE  IInv'
<1>1. /\ UNCHANGED <<count, current, made, applied, joined, pushed, inbox, round, history>>
      /\ pc[s] = "apply" /\ pc' = [pc EXCEPT ![s] = "push"]
      /\ using' = [using EXCEPT ![s] = current]
  BY DEF Return, Goto, streams, sockets
<1>2. current # None /\ current \in made
  BY <1>1 DEF IInv, Making
<1>3. TypeOK'
  BY <1>1 DEF IInv, TypeOK, history
<1>4. Making'
  BY <1>1, <1>2 DEF IInv, TypeOK, Making
<1>. QED
  BY <1>1, <1>3, <1>4, StreamKeeps DEF sockets

LEMMA JoinKeeps ==
  ASSUME IInv, NEW c, Join(c)
  PROVE  IInv'
<1>1. /\ UNCHANGED <<count, pc, using, round, current, made, applied, pushed, inbox, history>>
      /\ c \in Sources /\ joined[c] < applied[c]
      /\ joined' = [joined EXCEPT ![c] = @ + 1]
  BY DEF Join, threads, sockets
<1>2. /\ Len(Connected) \in Nat /\ applied[c] \in Nat /\ joined[c] \in Nat
      /\ applied[c] <= Len(Connected)
  BY <1>1, DeliveryAssumption DEF IInv, TypeOK
<1>3. TypeOK'
  <2>1. joined' \in [Sources -> 0..Len(Connected)]
    BY <1>1, <1>2 DEF IInv, TypeOK
  <2>2. \A d \in Sources : joined'[d] <= applied'[d]
    BY <1>1, <1>2 DEF IInv, TypeOK
  <2>. QED
    BY <1>1, <2>1, <2>2 DEF IInv, TypeOK, history
<1>4. Making'
  BY <1>1 DEF IInv, TypeOK, Making
<1>5. First(joined[c]) \subseteq First(joined[c] + 1)
  BY <1>1, <1>2, FirstGrows
<1>6. \A d \in Sources : First(joined[d]) \subseteq First(joined'[d])
  BY <1>1, <1>5 DEF IInv, TypeOK
<1>. QED
  BY <1>1, <1>3, <1>4, <1>6, StreamKeeps DEF sockets

------------------------------------------------------------------------------
(***************************************************************************)
(* Publishing: whichever way an event takes, it is later than all others.  *)
(***************************************************************************)
LEMMA Latest ==
  ASSUME IInv, NEW s \in Sources, NEW p \in Partitions, NEW e,
         e = [src |-> s, n |-> count[s] + 1, partition |-> p]
  PROVE  /\ e \in Events /\ e \notin accepted
         /\ \A f \in accepted : Earlier(made, f, e)
<1>1. count[s] \in Nat /\ accepted \subseteq Events /\ \A f \in accepted : f.n <= count[f.src]
  BY DEF IInv, TypeOK, Known
<1>2. e \in Events /\ e.src = s /\ e.n = count[s] + 1
  BY <1>1 DEF Events
<1>3. ASSUME NEW f \in accepted
      PROVE  f # e /\ (f.src = e.src => f.n < e.n)
  <2>1. f.n \in Nat /\ f.n <= count[f.src]
    BY <1>1 DEF Events
  <2>. QED
    BY <1>1, <1>2, <2>1
<1>. QED
  BY <1>2, <1>3 DEF Earlier

LEMMA PushKeeps ==
  ASSUME IInv, NEW s \in Sources, NEW p \in Partitions, NEW c \in Clients, NEW e,
         e = [src |-> s, n |-> count[s] + 1, partition |-> p],
         PushedTo(c, e), c \in Sources => c \in made,
         count' = [count EXCEPT ![s] = @ + 1], Push(c, e), UNCHANGED <<streams, round>>,
         pc' \in [Sources -> {"idle", "make", "apply", "push"}],
         using' \in [Sources -> Sources \cup {None}],
         \A t \in Sources : /\ using'[t] \in {using[t], None}
                            /\ pc'[t] = "push" => using'[t] # None
                            /\ pc'[t] = "apply" => pc[t] = "apply"
  PROVE  IInv'
<1>1. /\ e \in Events /\ e \notin accepted
      /\ \A f \in accepted : Earlier(made, f, e)
  BY Latest
<1>2. /\ e.src = s /\ e.n = count[s] + 1 /\ count[s] \in Nat /\ e.partition = p
      /\ UNCHANGED <<current, made, applied, joined, round, inbox, lost, seen, twice, late>>
  BY DEF IInv, TypeOK, Push, streams
<1>3. count' \in [Sources -> Nat] /\ \A t \in Sources : count[t] <= count'[t]
  BY <1>2 DEF IInv, TypeOK
<1>4. \A d \in Clients : \A x : x.src \in HandedTo(d, x) => x.src \in HandedTo(d, x)'
  BY <1>2 DEF HandedTo
<1>5. \A f \in accepted : f.n <= count'[f.src]
  <2> SUFFICES ASSUME NEW f \in accepted PROVE f.n <= count'[f.src]
    OBVIOUS
  <2>1. f.src \in Sources /\ f.n \in Nat /\ f.n <= count[f.src]
    BY DEF IInv, TypeOK, Known, Events
  <2>2. count[f.src] \in Nat /\ count'[f.src] \in Nat /\ count[f.src] <= count'[f.src]
    BY <1>3, <2>1 DEF IInv, TypeOK
  <2>. QED
    BY <2>1, <2>2
<1>6. CASE UNCHANGED <<pushed, accepted, due>>
  <2>1. TypeOK'
    BY <1>2, <1>3, <1>6 DEF IInv, TypeOK
  <2>2. Making'
    BY <1>2, <1>6 DEF IInv, Making
  <2>3. Known'
    BY <1>2, <1>5, <1>6 DEF IInv, Known
  <2>4. Sorted' /\ Ordered' /\ Heard' /\ Logged'
    BY <1>2, <1>6 DEF IInv, Sorted, Ordered, Heard, Logged
  <2>5. Observed'
    BY <1>2, <1>4, <1>6 DEF IInv, Observed
  <2>. QED
    BY <2>1, <2>2, <2>3, <2>4, <2>5 DEF IInv
<1>7. CASE /\ Len(pushed[c]) < Capacity
           /\ pushed' = [pushed EXCEPT ![c] = Append(@, e)]
           /\ accepted' = accepted \cup {e}
           /\ due' = IF c \notin Sources \/ e.src \in First(joined[c])
                       THEN due \cup {e} ELSE due
  <2>0. pushed \in [Clients -> Seq(Events)] /\ inbox \in [Clients -> Seq(Events)]
    BY DEF IInv, TypeOK
  <2>1. /\ pushed'[c] \in Seq(Events) /\ Len(pushed'[c]) = Len(pushed[c]) + 1
        /\ Range(pushed'[c]) = Range(pushed[c]) \cup {e}
        /\ \A d \in Clients : d # c => pushed'[d] = pushed[d]
        /\ pushed[c] \in Seq(Events) /\ Len(pushed[c]) \in Nat /\ Capacity \in Nat
    BY <1>1, <1>7, <2>0, AppendQueue, DeliveryAssumption
  <2>2. \A d \in Clients : Range(pushed[d]) \subseteq Range(pushed'[d])
    BY <2>1
  <2>3. TypeOK'
    <3>1. pushed' \in [Clients -> Seq(Events)]
      BY <1>7, <2>0, <2>1
    <3>2. \A d \in Clients : Len(pushed'[d]) <= Capacity
      BY <1>7, <2>1 DEF IInv, TypeOK
    <3>3. /\ accepted' \subseteq Events /\ due' \subseteq accepted'
          /\ lost' \subseteq accepted' /\ seen' \in [Consumers -> SUBSET accepted']
      BY <1>1, <1>2, <1>7 DEF IInv, TypeOK
    <3>. QED
      BY <1>2, <1>3, <3>1, <3>2, <3>3 DEF IInv, TypeOK
  <2>4. Making'
    <3>1. \A t \in Sources : Range(pushed'[t]) \cup Range(inbox'[t]) # {} => t \in made
      BY <1>2, <2>1, Apart DEF IInv, Making
    <3>. QED
      BY <1>2, <3>1 DEF IInv, Making
  <2>5. Sorted'
    BY <1>2, <2>1 DEF IInv, Sorted
  <2>6. Known'
    <3>1. e.n <= count'[e.src]
      BY <1>2 DEF IInv, TypeOK
    <3>2. \A d \in Clients : Range(pushed'[d]) \cup Range(inbox'[d]) \subseteq accepted'
      BY <1>2, <1>7, <2>1 DEF IInv, Known
    <3>. QED
      BY <1>5, <1>7, <3>1, <3>2 DEF Known
  <2>7. Ordered'
    <3>0. /\ \A d \in Clients : Range(pushed[d]) \cup Range(inbox[d]) \subseteq accepted
          /\ \A k \in Consumers : seen[k] \subseteq accepted
      BY DEF IInv, Known, TypeOK
    <3>1. \A d \in Clients : Increasing(made, pushed'[d])
      <4>1. Increasing(made, pushed[c]) /\ \A f \in Range(pushed[c]) : Earlier(made, f, e)
        BY <1>1, <3>0 DEF IInv, Ordered
      <4>2. Increasing(made, pushed'[c])
        BY <1>1, <1>7, <2>0, <2>1, <4>1, AppendIncreasing
      <4>. QED
        BY <2>1, <4>2 DEF IInv, Ordered
    <3>2. \A d, b \in Clients : d # b => Range(pushed'[d]) \cap Range(pushed'[b]) = {}
      <4>1. \A d \in Clients : e \notin Range(pushed[d])
        BY <1>1, <3>0
      <4>2. \A d \in Clients : Range(pushed'[d]) = IF d = c THEN Range(pushed[d]) \cup {e}
                                                            ELSE Range(pushed[d])
        BY <2>1
      <4>. QED
        BY <4>1, <4>2 DEF IInv, Ordered
    <3>3. \A d, b \in Clients : \A x \in Range(pushed'[d]), f \in Range(inbox[b]) :
            Earlier(made, f, x)
      BY <1>1, <2>1, <3>0 DEF IInv, Ordered
    <3>4. \A d \in Clients, k \in Consumers : \A x \in Range(pushed'[d]), f \in seen[k] :
            Earlier(made, f, x)
      BY <1>1, <2>1, <3>0 DEF IInv, Ordered
    <3>. QED
      BY <1>2, <3>1, <3>2, <3>3, <3>4 DEF IInv, Ordered
  <2>8. Heard'
    BY <1>2 DEF IInv, Heard
  <2>9. Logged'
    <3>1. e \in Range(pushed'[c])
      BY <2>1
    <3>. QED
      BY <1>2, <1>7, <2>2, <3>1 DEF IInv, Logged
  <2>10. Observed'
    <3>1. e \in due' /\ e \notin due =>
            e \in Range(pushed'[c]) /\ (c \in Sources => e.src \in First(joined[c]))
      BY <1>7, <2>1
    <3>2. ASSUME NEW x \in due', x.partition # "reconstructed"
          PROVE  \/ x \in lost \cup seen[x.src]
                 \/ \E d \in Clients : x \in Range(pushed'[d]) /\ (d \in Sources => x.src \in First(joined[d]))
                 \/ \E d \in Clients : x \in Range(inbox[d]) /\ x.src \in HandedTo(d, x)
      <4>1. CASE x \in due
        BY <2>2, <3>2, <4>1 DEF IInv, Observed
      <4>2. CASE x \notin due
        BY <1>7, <3>1, <4>2
      <4>. QED
        BY <4>1, <4>2
    <3>. QED
      BY <1>2, <1>4, <3>2 DEF Observed
  <2>. QED
    BY <2>3, <2>4, <2>5, <2>6, <2>7, <2>8, <2>9, <2>10 DEF IInv
<1>. QED
  BY <1>6, <1>7 DEF Push

LEMMA PublishKeeps ==
  ASSUME IInv, NEW s \in Sources, PublishObserved(s) \/ PublishReconstructed(s)
  PROVE  IInv'
<1>1. UNCHANGED <<pc, using, round, streams>>
  BY DEF PublishObserved, PublishReconstructed
<1>2. PICK p \in {"observed", "reconstructed"} : PushNext(s, p, p)
  BY DEF PublishObserved, PublishReconstructed
<1>3. p \in Partitions /\ p \in Clients /\ p \notin Sources
  BY Apart DEF Partitions
<1> DEFINE e == [src |-> s, n |-> count[s] + 1, partition |-> p]
<1>4. PushedTo(p, e)
  BY <1>3 DEF PushedTo
<1>5. count' = [count EXCEPT ![s] = @ + 1] /\ Push(p, e)
  BY <1>2 DEF PushNext
<1>6. /\ pc' \in [Sources -> {"idle", "make", "apply", "push"}]
      /\ using' \in [Sources -> Sources \cup {None}]
      /\ \A t \in Sources : /\ using'[t] \in {using[t], None}
                            /\ pc'[t] = "push" => using'[t] # None
                            /\ pc'[t] = "apply" => pc[t] = "apply"
  BY <1>1 DEF IInv, TypeOK, Making
<1> HIDE DEF e
<1>. QED
  BY <1>1, <1>3, <1>4, <1>5, <1>6, PushKeeps DEF e

LEMMA PushValidatedKeeps ==
  ASSUME IInv, NEW s \in Sources, PushValidated(s)
  PROVE  IInv'
<1>1. /\ pc[s] = "push" /\ pc' = [pc EXCEPT ![s] = "idle"]
      /\ using' = [using EXCEPT ![s] = None] /\ UNCHANGED <<round, streams>>
      /\ PushNext(s, "observed.validated", using[s])
  BY DEF PushValidated, Goto
<1> DEFINE e == [src |-> s, n |-> count[s] + 1, partition |-> "observed.validated"]
<1>2. using[s] \in Sources /\ using[s] \in made /\ using[s] \in Clients
  BY <1>1, Apart DEF IInv, TypeOK, Making
<1>3. "observed.validated" \in Partitions /\ PushedTo(using[s], e)
  BY <1>2 DEF Partitions, PushedTo
<1>4. count' = [count EXCEPT ![s] = @ + 1] /\ Push(using[s], e)
  BY <1>1 DEF PushNext
<1>5. /\ pc' \in [Sources -> {"idle", "make", "apply", "push"}]
      /\ using' \in [Sources -> Sources \cup {None}]
  BY <1>1 DEF IInv, TypeOK
<1>6. \A t \in Sources : /\ using'[t] \in {using[t], None}
                         /\ pc'[t] = "push" => using'[t] # None
                         /\ pc'[t] = "apply" => pc[t] = "apply"
  BY <1>1 DEF IInv, TypeOK, Making
<1> HIDE DEF e
<1>. QED
  BY <1>1, <1>2, <1>3, <1>4, <1>5, <1>6, PushKeeps DEF e

------------------------------------------------------------------------------
(***************************************************************************)
(* The relay.                                                              *)
(***************************************************************************)

\* What the relay takes is earlier than all that is left to relay.
LEMMA NextIsEarliest ==
  ASSUME IInv, NEW c \in Clients, pushed[c] # <<>>,
         NEW b \in Clients, NEW g \in Range(pushed[b]),
         b = c => g \in Range(Tail(pushed[c]))
  PROVE  Earlier(made, Head(pushed[c]), g)
<1> DEFINE e == Head(pushed[c])
<1>0. pushed[c] \in Seq(Events)
  BY DEF IInv, TypeOK
<1>1. e \in Range(pushed[c]) /\ PushedTo(c, e) /\ PushedTo(b, g)
  BY <1>0, TailQueue DEF IInv, Sorted
<1>2. CASE b = c
  BY <1>0, <1>2, TailIncreasing DEF IInv, Ordered
<1>3. CASE b # c
  <2>1. e # g
    BY <1>1, <1>3 DEF IInv, Ordered
  <2>2. OneOf(made) => e.partition # g.partition
    <3> HIDE DEF e
    <3>1. c \in Sources => c \in made
      BY <1>1 DEF IInv, Making
    <3>2. b \in Sources => b \in made
      BY DEF IInv, Making
    <3>3. OneOf(made) => c \notin Sources \/ b \notin Sources
      BY <1>3, <3>1, <3>2 DEF OneOf
    <3>. QED
      BY <1>1, <1>3, <3>3, Apart DEF PushedTo
  <2>. QED
    BY <2>1, <2>2 DEF Earlier
<1>. QED
  BY <1>2, <1>3

LEMMA RelayKeeps ==
  ASSUME IInv, NEW c \in Clients, Relay(c)
  PROVE  IInv'
<1> DEFINE e    == Head(pushed[c])
           to   == {d \in Clients : Subscribed(d, e)}
           full == {d \in to : Len(inbox[d]) = Capacity}
<1>1. /\ pushed[c] # <<>> /\ pushed' = [pushed EXCEPT ![c] = Tail(@)]
      /\ inbox' = [d \in Clients |-> IF d \in to \ full THEN Append(inbox[d], e)
                                                       ELSE inbox[d]]
      /\ lost' = IF full = {} THEN lost ELSE lost \cup {e}
      /\ UNCHANGED <<count, pc, using, round, current, made, applied, joined,
                     accepted, due, seen, twice, late>>
  BY DEF Relay, threads, streams
<1>2. /\ pushed \in [Clients -> Seq(Events)] /\ inbox \in [Clients -> Seq(Events)]
      /\ Capacity \in Nat
  BY DeliveryAssumption DEF IInv, TypeOK
<1>3. /\ e \in Events /\ Range(pushed[c]) = {e} \cup Range(Tail(pushed[c]))
      /\ Tail(pushed[c]) \in Seq(Events) /\ Len(Tail(pushed[c])) <= Capacity
      /\ Increasing(made, Tail(pushed[c]))
  <2>1. pushed[c] \in Seq(Events) /\ Len(pushed[c]) <= Capacity /\ Increasing(made, pushed[c])
    BY DEF IInv, TypeOK, Ordered
  <2>2. /\ Len(Tail(pushed[c])) = Len(pushed[c]) - 1 /\ Len(pushed[c]) \in Nat
        /\ e \in Events /\ Range(pushed[c]) = {e} \cup Range(Tail(pushed[c]))
        /\ Tail(pushed[c]) \in Seq(Events)
    BY <1>1, <2>1, TailQueue
  <2>. QED
    BY <1>1, <1>2, <2>1, <2>2, TailIncreasing
<1>4. /\ e \in Range(pushed[c]) /\ e \in accepted /\ PushedTo(c, e)
  BY <1>3 DEF IInv, Known, Sorted
<1>5. /\ pushed'[c] = Tail(pushed[c])
      /\ \A b \in Clients : /\ b # c => pushed'[b] = pushed[b]
                            /\ Range(pushed'[b]) \subseteq Range(pushed[b])
                            /\ Range(pushed[b]) \subseteq Range(pushed'[b]) \cup
                                                          (IF b = c THEN {e} ELSE {})
  BY <1>1, <1>2, <1>3
<1>6. \A b \in Clients : \A g \in Range(pushed'[b]) : Earlier(made, e, g)
  BY <1>1, <1>5, NextIsEarliest
<1> HIDE DEF e
<1>7. \A d \in Clients : \/ d \notin to \ full /\ inbox'[d] = inbox[d]
                         \/ /\ d \in to \ full /\ inbox'[d] = Append(inbox[d], e)
                            /\ inbox'[d] \in Seq(Events)
                            /\ Len(inbox'[d]) = Len(inbox[d]) + 1
                            /\ Range(inbox'[d]) = Range(inbox[d]) \cup {e}
  <2> SUFFICES ASSUME NEW d \in Clients, d \in to \ full
               PROVE  /\ inbox'[d] = Append(inbox[d], e)
                      /\ inbox'[d] \in Seq(Events)
                      /\ Len(inbox'[d]) = Len(inbox[d]) + 1
                      /\ Range(inbox'[d]) = Range(inbox[d]) \cup {e}
    BY <1>1
  <2>1. inbox[d] \in Seq(Events) /\ inbox'[d] = Append(inbox[d], e)
    BY <1>1, <1>2
  <2>. QED
    BY <1>3, <2>1, AppendQueue
<1>8. \A d \in to \ full : SentTo(d, e) /\ (d \in Sources => d \in made)
  <2> SUFFICES ASSUME NEW d \in to \ full
               PROVE  SentTo(d, e) /\ (d \in Sources => d \in made)
    OBVIOUS
  <2>1. Subscribed(d, e)
    OBVIOUS
  <2>2. SentTo(d, e)
    BY <2>1 DEF Subscribed, SentTo
  <2>3. ASSUME d \in Sources PROVE d \in made
    <3>1. e.src \in First(joined[d])
      BY <2>1, <2>3, Apart DEF Subscribed
    <3>2. /\ joined[d] \in Nat /\ applied[d] \in Nat /\ Len(Connected) \in Nat
          /\ joined[d] <= Len(Connected) /\ joined[d] <= applied[d]
      BY <2>3, DeliveryAssumption DEF IInv, TypeOK
    <3>3. joined[d] > 0
      BY <3>1, <3>2, FirstGrows
    <3>4. applied[d] > 0
      BY <3>2, <3>3
    <3>. QED
      BY <2>3, <3>4 DEF IInv, Making
  <2>. QED
    BY <2>2, <2>3
<1>9. \A d \in Clients : Range(inbox[d]) \subseteq Range(inbox'[d])
  BY <1>7
<1>10. TypeOK'
  <2>1. pushed' \in [Clients -> Seq(Events)] /\ \A b \in Clients : Len(pushed'[b]) <= Capacity
    BY <1>1, <1>2, <1>3, <1>5 DEF IInv, TypeOK
  <2>2. inbox' \in [Clients -> Seq(Events)]
    <3>1. inbox' = [d \in Clients |-> inbox'[d]]
      BY <1>1
    <3>. QED
      BY <1>2, <1>7, <3>1
  <2>3. \A d \in Clients : Len(inbox'[d]) <= Capacity
    <3> SUFFICES ASSUME NEW d \in Clients PROVE Len(inbox'[d]) <= Capacity
      OBVIOUS
    <3>1. inbox[d] \in Seq(Events) /\ Len(inbox[d]) \in Nat /\ Len(inbox[d]) <= Capacity
      BY <1>2 DEF IInv, TypeOK
    <3>2. d \in to \ full => Len(inbox[d]) # Capacity
      OBVIOUS
    <3>. QED
      BY <1>2, <1>7, <3>1, <3>2
  <2>4. lost' \subseteq accepted
    BY <1>1, <1>4 DEF IInv, TypeOK
  <2>. QED
    BY <1>1, <2>1, <2>2, <2>3, <2>4 DEF IInv, TypeOK
<1>11. Making'
  <2>1. \A t \in Sources : Range(pushed'[t]) \cup Range(inbox'[t]) # {} => t \in made
    BY <1>5, <1>7, <1>8, Apart DEF IInv, Making
  <2>. QED
    BY <1>1, <2>1 DEF IInv, Making
<1>12. Sorted'
  BY <1>5, <1>7, <1>8 DEF IInv, Sorted
<1>13. Known'
  BY <1>1, <1>4, <1>5, <1>7 DEF IInv, Known
<1>14. Ordered'
  <2>1. \A d \in Clients : Increasing(made, pushed'[d])
    BY <1>3, <1>5 DEF IInv, Ordered
  <2>2. \A d \in Clients : Increasing(made, inbox'[d])
    <3>1. \A d \in Clients : /\ Increasing(made, inbox[d]) /\ inbox[d] \in Seq(Events)
                             /\ \A f \in Range(inbox[d]) : Earlier(made, f, e)
      BY <1>2, <1>4 DEF IInv, Ordered
    <3> SUFFICES ASSUME NEW d \in Clients PROVE Increasing(made, inbox'[d])
      OBVIOUS
    <3>2. inbox'[d] = inbox[d] \/ inbox'[d] = Append(inbox[d], e)
      BY <1>7
    <3>3. Increasing(made, Append(inbox[d], e))
      BY <1>3, <3>1, AppendIncreasing
    <3>. QED
      BY <3>1, <3>2, <3>3
  <2>3. \A d, b \in Clients : d # b => Range(pushed'[d]) \cap Range(pushed'[b]) = {}
    <3>1. \A d, b \in Clients : d # b => Range(pushed[d]) \cap Range(pushed[b]) = {}
      BY DEF IInv, Ordered
    <3>2. \A b \in Clients : Range(pushed'[b]) \subseteq Range(pushed[b])
      BY <1>5
    <3>. QED
      BY <3>1, <3>2
  <2>4. \A d, b \in Clients : \A x \in Range(pushed'[d]), f \in Range(inbox'[b]) :
          Earlier(made, f, x)
    <3> SUFFICES ASSUME NEW d \in Clients, NEW b \in Clients,
                        NEW x \in Range(pushed'[d]), NEW f \in Range(inbox'[b])
                 PROVE  Earlier(made, f, x)
      OBVIOUS
    <3>1. f \in Range(inbox[b]) \/ f = e
      BY <1>7
    <3>2. x \in Range(pushed[d])
      BY <1>5
    <3>. QED
      BY <1>6, <3>1, <3>2 DEF IInv, Ordered
  <2>5. \A d \in Clients, k \in Consumers : \A x \in Range(pushed'[d]), f \in seen[k] :
          Earlier(made, f, x)
    BY <1>5 DEF IInv, Ordered
  <2>6. \A d \in Clients : (d \in Sources => OneOf(made)) =>
          \A x \in Range(inbox'[d]) : \A k \in Destined(d, x) : \A f \in seen[k] :
            Earlier(made, f, x)
    <3> SUFFICES ASSUME NEW d \in Clients, d \in Sources => OneOf(made),
                        NEW x \in Range(inbox'[d]), NEW k \in Destined(d, x), NEW f \in seen[k]
                 PROVE  Earlier(made, f, x)
      OBVIOUS
    <3>0. x \in Range(inbox[d]) \/ x = e
      BY <1>7
    <3>1. CASE x \in Range(inbox[d])
      BY <3>1 DEF IInv, Ordered
    <3>2. CASE x = e
      <4>1. k \in Consumers
        BY <1>3, <3>2, Apart DEF Destined, Events
      <4>. QED
        BY <1>4, <3>2, <4>1 DEF IInv, Ordered
    <3>. QED
      BY <3>0, <3>1, <3>2
  <2>. QED
    BY <1>1, <2>1, <2>2, <2>3, <2>4, <2>5, <2>6 DEF Ordered
<1>15. Heard'
  BY <1>1 DEF IInv, Heard
<1>16. \A d \in to : e \in lost' \/ e \in Range(inbox'[d])
  BY <1>1, <1>7
<1>17. lost \subseteq lost'
  BY <1>1
<1>18. Logged'
  <2>1. e \in lost' \/ e \in Range(inbox'["observed"]) \cup Range(inbox'["reconstructed"])
    <3>1. Subscribed("observed", e) \/ Subscribed("reconstructed", e)
      BY <1>3 DEF Subscribed, Events, Partitions
    <3>. QED
      BY <1>16, <3>1, Apart
  <2>2. ASSUME NEW x \in accepted, x # e
        PROVE  \/ x \in lost' \cup seen["logger"]
               \/ \E d \in Clients : x \in Range(pushed'[d])
               \/ x \in Range(inbox'["observed"]) \cup Range(inbox'["reconstructed"])
    <3>1. \A d \in Clients : x \in Range(pushed[d]) => x \in Range(pushed'[d])
      BY <1>5, <2>2
    <3>2. /\ Range(inbox["observed"]) \subseteq Range(inbox'["observed"])
          /\ Range(inbox["reconstructed"]) \subseteq Range(inbox'["reconstructed"])
      BY <1>9, Apart
    <3>. QED
      BY <1>17, <3>1, <3>2 DEF IInv, Logged
  <2>. QED
    BY <1>1, <2>1, <2>2 DEF Logged
<1>19. Observed'
  <2>0. \A d \in Clients : \A x : x.src \in HandedTo(d, x) => x.src \in HandedTo(d, x)'
    BY <1>1 DEF HandedTo
  <2>1. ASSUME c \in Sources => e.src \in First(joined[c]), e.partition # "reconstructed"
        PROVE  Subscribed(c, e) /\ e.src \in HandedTo(c, e)
    <3>1. CASE c \in Sources
      <4>1. /\ joined[c] \in Nat /\ applied[c] \in Nat /\ Len(Connected) \in Nat
            /\ applied[c] <= Len(Connected) /\ joined[c] <= applied[c]
        BY <3>1, DeliveryAssumption DEF IInv, TypeOK
      <4>2. e.src \in First(applied[c])
        BY <2>1, <3>1, <4>1, FirstGrows
      <4>. QED
        BY <1>4, <2>1, <3>1, <4>2, Apart DEF Subscribed, HandedTo, PushedTo
    <3>2. CASE c \notin Sources
      <4>1. c = "observed" /\ e.partition = "observed"
        BY <1>4, <2>1, <3>2, Apart DEF PushedTo
      <4>. QED
        BY <4>1 DEF Subscribed, HandedTo
    <3>. QED
      BY <3>1, <3>2
  <2>2. ASSUME NEW x \in due, x.partition # "reconstructed"
        PROVE  \/ x \in lost' \cup seen[x.src]
               \/ \E d \in Clients : x \in Range(pushed'[d]) /\ (d \in Sources => x.src \in First(joined[d]))
               \/ \E d \in Clients : x \in Range(inbox'[d]) /\ x.src \in HandedTo(d, x)
    <3>1. CASE x \in lost \cup seen[x.src]
      BY <1>17, <3>1
    <3>2. CASE \E d \in Clients : x \in Range(inbox[d]) /\ x.src \in HandedTo(d, x)
      BY <1>9, <3>2
    <3>3. ASSUME NEW d \in Clients, x \in Range(pushed[d]),
                 d \in Sources => x.src \in First(joined[d])
          PROVE  \/ x \in lost'
                 \/ x \in Range(pushed'[d])
                 \/ x \in Range(inbox'[d]) /\ x.src \in HandedTo(d, x)
      <4>1. CASE d = c /\ x = e
        BY <1>16, <2>1, <2>2, <3>3, <4>1
      <4>2. CASE ~ (d = c /\ x = e)
        BY <1>5, <3>3, <4>2
      <4>. QED
        BY <4>1, <4>2
    <3>. QED
      BY <2>2, <3>1, <3>2, <3>3 DEF IInv, Observed
  <2>. QED
    BY <1>1, <2>0, <2>2 DEF Observed
<1>. QED
  BY <1>10, <1>11, <1>12, <1>13, <1>14, <1>15, <1>18, <1>19 DEF IInv

------------------------------------------------------------------------------
(***************************************************************************)
(* The dispatch thread.                                                    *)
(***************************************************************************)
LEMMA Addressees ==
  ASSUME NEW c \in Clients, NEW e \in Events
  PROVE  HandedTo(c, e) \subseteq Destined(c, e) /\ Destined(c, e) \subseteq Consumers
<1>1. e.src \in Consumers /\ "logger" \in Consumers
  BY Apart DEF Events
<1>. QED
  BY <1>1 DEF HandedTo, Destined

\* What is handed over is earlier than all that will be handed to the same
\* consumer, from whichever client: two clients have events of one kind for it
\* only if two threads made the partition.
LEMMA HandledIsEarliest ==
  ASSUME IInv, NEW c \in Clients, inbox[c] # <<>>,
         NEW d \in Clients, d \in Sources => OneOf(made),
         NEW x \in Range(inbox[d]), d = c => x \in Range(Tail(inbox[c])),
         NEW k \in Destined(d, x), k \in Destined(c, Head(inbox[c]))
  PROVE  Earlier(made, Head(inbox[c]), x)
<1> DEFINE e == Head(inbox[c])
<1>0. inbox[c] \in Seq(Events) /\ inbox[d] \in Seq(Events)
  BY DEF IInv, TypeOK
<1>1. e \in Range(inbox[c]) /\ e \in Events /\ x \in Events
  BY <1>0, TailQueue, InQueue
<1>2. CASE d = c
  BY <1>0, <1>2, TailIncreasing DEF IInv, Ordered
<1>3. CASE d # c
  <2> HIDE DEF e
  <2>1. c \in Sources => c \in made
    BY <1>1 DEF IInv, Making
  <2>2. d \in Sources => d \in made
    BY DEF IInv, Making
  <2>3. c \notin Sources \/ d \notin Sources
    BY <1>3, <2>1, <2>2 DEF OneOf
  <2>4. SentTo(c, e) /\ SentTo(d, x) /\ k \in Destined(c, e)
    BY <1>1 DEF IInv, Sorted, e
  <2>5. e.src \in Sources /\ x.src \in Sources
    BY <1>1 DEF Events
  <2>6. e.partition # x.partition
    BY <1>3, <2>3, <2>4, <2>5, Apart DEF SentTo, Destined
  <2>. QED
    BY <2>6 DEF Earlier, e
<1>. QED
  BY <1>2, <1>3

LEMMA HandleKeeps ==
  ASSUME IInv, Handle
  PROVE  IInv'
<1> DEFINE c  == Head(round)
           e  == Head(inbox[c])
           to == HandedTo(c, e)
<1>1. /\ inbox[c] # <<>> /\ inbox' = [inbox EXCEPT ![c] = Tail(@)]
      /\ seen' = [k \in Consumers |-> IF k \in to THEN seen[k] \cup {e} ELSE seen[k]]
      /\ twice' = twice \cup {k \in to : e \in seen[k]}
      /\ late' = late \cup {k \in to : \E f \in seen[k] :
                   f.src = e.src /\ f.partition = e.partition /\ f.n > e.n}
      /\ UNCHANGED <<count, pc, using, round, current, made, applied, joined,
                     pushed, accepted, due, lost>>
  BY DEF Handle, threads, streams
<1>2. /\ c \in Clients /\ inbox \in [Clients -> Seq(Events)]
      /\ seen \in [Consumers -> SUBSET accepted] /\ accepted \subseteq Events
  <2>1. round \in Seq(Clients) /\ round # <<>>
    BY DEF IInv, TypeOK
  <2>. QED
    BY <2>1 DEF IInv, TypeOK
<1>3. /\ e \in Events /\ Range(inbox[c]) = {e} \cup Range(Tail(inbox[c]))
      /\ Tail(inbox[c]) \in Seq(Events) /\ Len(Tail(inbox[c])) <= Capacity
      /\ Increasing(made, Tail(inbox[c]))
  <2>1. inbox[c] \in Seq(Events) /\ Len(inbox[c]) <= Capacity /\ Increasing(made, inbox[c])
    BY <1>2 DEF IInv, TypeOK, Ordered
  <2>2. /\ Len(Tail(inbox[c])) = Len(inbox[c]) - 1 /\ Len(inbox[c]) \in Nat
        /\ e \in Events /\ Range(inbox[c]) = {e} \cup Range(Tail(inbox[c]))
        /\ Tail(inbox[c]) \in Seq(Events)
    BY <1>1, <2>1, TailQueue
  <2>3. Capacity \in Nat
    BY DeliveryAssumption
  <2>. QED
    BY <1>1, <2>1, <2>2, <2>3, TailIncreasing
<1>4. e \in Range(inbox[c]) /\ e \in accepted /\ SentTo(c, e) /\ e.src \in Sources
  BY <1>2, <1>3 DEF IInv, Known, Sorted, Events
<1>5. /\ inbox'[c] = Tail(inbox[c])
      /\ \A d \in Clients : /\ d # c => inbox'[d] = inbox[d]
                            /\ Range(inbox'[d]) \subseteq Range(inbox[d])
                            /\ Range(inbox[d]) \subseteq Range(inbox'[d]) \cup
                                                         (IF d = c THEN {e} ELSE {})
  BY <1>1, <1>2, <1>3
<1>6. to \subseteq Destined(c, e) /\ to \subseteq Consumers
  BY <1>2, <1>3, Addressees
<1>7. \A d \in Clients : (d \in Sources => OneOf(made)) =>
        \A x \in Range(inbox'[d]) : \A k \in Destined(d, x) \cap to : Earlier(made, e, x)
  <2> SUFFICES ASSUME NEW d \in Clients, d \in Sources => OneOf(made),
                      NEW x \in Range(inbox'[d]), NEW k \in Destined(d, x), k \in to
               PROVE  Earlier(made, e, x)
    OBVIOUS
  <2>1. x \in Range(inbox[d]) /\ (d = c => x \in Range(Tail(inbox[c])))
    BY <1>5
  <2>2. k \in Destined(c, e)
    BY <1>6
  <2>. QED
    BY <1>1, <1>2, <2>1, <2>2, HandledIsEarliest
<1>8. \A d \in Clients : \A x : x.src \in HandedTo(d, x) => x.src \in HandedTo(d, x)'
  BY <1>1 DEF HandedTo
<1>9. (c \in Sources => OneOf(made)) => \A k \in to : \A f \in seen[k] : Earlier(made, f, e)
  BY <1>2, <1>4, <1>6 DEF IInv, Ordered
<1>10. c \in Sources => to \subseteq Sources
  BY <1>4, Apart DEF HandedTo
<1> HIDE DEF c, e, to
<1>11. \A k \in Consumers : /\ seen[k] \subseteq seen'[k]
                            /\ seen'[k] \subseteq seen[k] \cup (IF k \in to THEN {e} ELSE {})
                            /\ k \in to => e \in seen'[k]
  BY <1>1
<1>12. TypeOK'
  <2>1. inbox' \in [Clients -> Seq(Events)] /\ \A d \in Clients : Len(inbox'[d]) <= Capacity
    BY <1>1, <1>2, <1>3, <1>5 DEF IInv, TypeOK
  <2>2. seen' \in [Consumers -> SUBSET accepted]
    BY <1>1, <1>2, <1>4
  <2>3. twice' \subseteq Consumers /\ late' \subseteq Consumers
    BY <1>1, <1>6 DEF IInv, TypeOK
  <2>. QED
    BY <1>1, <2>1, <2>2, <2>3 DEF IInv, TypeOK
<1>13. Making'
  <2>1. \A t \in Sources : Range(pushed'[t]) \cup Range(inbox'[t]) # {} => t \in made
    BY <1>1, <1>5, Apart DEF IInv, Making
  <2>. QED
    BY <1>1, <2>1 DEF IInv, Making
<1>14. Sorted' /\ Known'
  BY <1>1, <1>5 DEF IInv, Sorted, Known
<1>15. Ordered'
  <2>1. \A d \in Clients : Increasing(made, pushed'[d]) /\ Increasing(made, inbox'[d])
    BY <1>1, <1>3, <1>5 DEF IInv, Ordered
  <2>2. \A d, b \in Clients : \A x \in Range(pushed[d]), f \in Range(inbox'[b]) :
          Earlier(made, f, x)
    BY <1>5 DEF IInv, Ordered
  <2>3. \A d \in Clients, k \in Consumers : \A x \in Range(pushed[d]), f \in seen'[k] :
          Earlier(made, f, x)
    <3> SUFFICES ASSUME NEW d \in Clients, NEW k \in Consumers,
                        NEW x \in Range(pushed[d]), NEW f \in seen'[k]
                 PROVE  Earlier(made, f, x)
      OBVIOUS
    <3>1. f \in seen[k] \/ f = e
      BY <1>11
    <3>. QED
      BY <1>2, <1>4, <3>1 DEF IInv, Ordered
  <2>4. \A d \in Clients : (d \in Sources => OneOf(made)) =>
          \A x \in Range(inbox'[d]) : \A k \in Destined(d, x) : \A f \in seen'[k] :
            Earlier(made, f, x)
    <3> SUFFICES ASSUME NEW d \in Clients, d \in Sources => OneOf(made),
                        NEW x \in Range(inbox'[d]), NEW k \in Destined(d, x), NEW f \in seen'[k]
                 PROVE  Earlier(made, f, x)
      OBVIOUS
    <3>1. x \in Range(inbox[d])
      BY <1>5
    <3>2. k \in Consumers
      BY <1>2, <3>1, InQueue, Addressees
    <3>3. f \in seen[k] \/ (f = e /\ k \in to)
      BY <1>11, <3>2
    <3>4. CASE f \in seen[k]
      BY <3>1, <3>4 DEF IInv, Ordered
    <3>5. CASE f = e /\ k \in to
      BY <1>7, <3>5
    <3>. QED
      BY <3>3, <3>4, <3>5
  <2>. QED
    BY <1>1, <2>1, <2>2, <2>3, <2>4 DEF IInv, Ordered
<1>16. Heard'
  <2>1. twice' \subseteq (IF OneOf(made) THEN {} ELSE Sources)
    <3>1. (c \in Sources => OneOf(made)) => \A k \in to : e \notin seen[k]
      BY <1>9 DEF Earlier
    <3>2. OneOf(made) => twice' = {}
      BY <1>1, <3>1 DEF IInv, Heard
    <3>3. twice' \subseteq Sources
      BY <1>1, <1>10, <3>1 DEF IInv, Heard
    <3>. QED
      BY <3>2, <3>3
  <2>2. OneOf(made) => late' = {}
    <3>1. ASSUME OneOf(made), NEW k \in to, NEW f \in seen[k],
                 f.src = e.src, f.partition = e.partition
          PROVE  ~ (f.n > e.n)
      <4>1. f \in Events
        BY <1>2, <1>6
      <4>2. f.n < e.n
        BY <1>9, <3>1 DEF Earlier
      <4>. QED
        BY <1>3, <4>1, <4>2 DEF Events
    <3>. QED
      BY <1>1, <3>1 DEF IInv, Heard
  <2>3. \A r \in Sources : \A x \in seen'[r] : x.src = r /\ x.partition # "reconstructed"
    <3> SUFFICES ASSUME NEW r \in Sources, NEW x \in seen'[r]
                 PROVE  x.src = r /\ x.partition # "reconstructed"
      OBVIOUS
    <3>1. x \in seen[r] \/ (x = e /\ r \in to)
      BY <1>11, Apart
    <3>2. r \in to => e.src = r /\ e.partition # "reconstructed"
      BY <1>2, <1>4, Apart DEF HandedTo, SentTo, to
    <3>. QED
      BY <3>1, <3>2 DEF IInv, Heard
  <2>. QED
    BY <1>1, <2>1, <2>2, <2>3 DEF Heard
<1>17. Logged'
  <2>1. c \in {"observed", "reconstructed"} => e \in seen'["logger"]
    <3>1. c \in {"observed", "reconstructed"} => "logger" \in to
      BY DEF HandedTo, to
    <3>. QED
      BY <1>11, <3>1, Apart
  <2>2. ASSUME NEW x \in Range(inbox["observed"]) \cup Range(inbox["reconstructed"])
        PROVE  \/ x \in seen'["logger"]
               \/ x \in Range(inbox'["observed"]) \cup Range(inbox'["reconstructed"])
    BY <1>5, <2>1, Apart
  <2>3. seen["logger"] \subseteq seen'["logger"]
    BY <1>11, Apart
  <2>. QED
    BY <1>1, <2>2, <2>3 DEF IInv, Logged
<1>18. Observed'
  <2> SUFFICES ASSUME NEW x \in due, x.partition # "reconstructed"
               PROVE  \/ x \in lost \cup seen'[x.src]
                      \/ \E d \in Clients : /\ x \in Range(pushed[d])
                                            /\ d \in Sources => x.src \in First(joined[d])
                      \/ \E d \in Clients : x \in Range(inbox'[d]) /\ x.src \in HandedTo(d, x)
    BY <1>1, <1>8 DEF Observed
  <2>1. x.src \in Consumers
    BY <1>2, Apart DEF IInv, TypeOK, Events
  <2>2. ASSUME NEW d \in Clients, x \in Range(inbox[d]), x.src \in HandedTo(d, x)
        PROVE  x \in Range(inbox'[d]) \/ x \in seen'[x.src]
    <3>1. CASE d = c /\ x = e
      BY <1>11, <2>1, <2>2, <3>1 DEF to
    <3>2. CASE ~ (d = c /\ x = e)
      BY <1>5, <2>2, <3>2
    <3>. QED
      BY <3>1, <3>2
  <2>3. seen[x.src] \subseteq seen'[x.src]
    BY <1>11, <2>1
  <2>. QED
    BY <2>2, <2>3 DEF IInv, Observed
<1>. QED
  BY <1>12, <1>13, <1>14, <1>15, <1>16, <1>17, <1>18 DEF IInv

LEMMA DrainedKeeps ==
  ASSUME IInv, Drained
  PROVE  IInv'
<1>1. /\ UNCHANGED <<count, pc, using, streams, pushed, inbox, history>>
      /\ round' = IF Len(round) > 1 THEN Tail(round) ELSE Clientele
  BY DEF Drained, sockets
<1>2. round \in Seq(Clients) /\ Len(round) \in Nat
  BY DEF IInv, TypeOK
<1>3. Clientele \in Seq(Clients) \ {<<>>}
  <2>1. /\ <<"observed", "reconstructed">> \in Seq(Clients)
        /\ Len(<<"observed", "reconstructed">>) = 2
    BY Apart
  <2>2. CASE current = None
    <3>1. Clientele = <<"observed", "reconstructed">> \o <<>>
      BY <2>2 DEF Clientele
    <3>. QED
      BY <2>1, <3>1
  <2>3. CASE current # None
    <3>1. current \in Clients
      BY <2>3, Apart DEF IInv, TypeOK
    <3>2. Clientele = <<"observed", "reconstructed">> \o <<current>>
      BY <2>3 DEF Clientele
    <3>. QED
      BY <2>1, <3>1, <3>2
  <2>. QED
    BY <2>2, <2>3
<1>4. ASSUME Len(round) > 1
      PROVE  Tail(round) \in Seq(Clients) \ {<<>>}
  <2>1. round # <<>>
    BY <1>2, <1>4
  <2>2. Tail(round) \in Seq(Clients) /\ Len(Tail(round)) = Len(round) - 1
    BY <1>2, <2>1
  <2>3. Len(Tail(round)) # 0 /\ Len(<<>>) = 0
    BY <1>2, <1>4, <2>2
  <2>4. Tail(round) # <<>>
    BY <2>3, Zenon
  <2>. QED
    BY <2>2, <2>4
<1>5. TypeOK'
  BY <1>1, <1>3, <1>4 DEF IInv, TypeOK, streams, history
<1>6. Making'
  BY <1>1 DEF IInv, Making, streams
<1>7. /\ made' = made
      /\ \A d \in Sources : /\ First(joined[d]) \subseteq First(joined'[d])
                            /\ First(applied[d]) \subseteq First(applied'[d])
  BY <1>1 DEF streams
<1>. QED
  BY <1>1, <1>5, <1>6, <1>7, StreamKeeps DEF sockets

LEMMA StutterKeeps ==
  ASSUME IInv, UNCHANGED vars
  PROVE  IInv'
<1>1. UNCHANGED <<count, pc, using, round, current, made, applied, joined, pushed, inbox,
                  accepted, due, lost, seen, twice, late>>
  BY DEF vars, threads, streams, sockets, history
<1>2. TypeOK' /\ Making' /\ Sorted' /\ Known' /\ Ordered' /\ Heard' /\ Logged'
  BY <1>1 DEF IInv, TypeOK, Making, Sorted, Known, Ordered, Heard, Logged
<1>3. Observed'
  BY <1>1 DEF IInv, Observed, HandedTo
<1>. QED
  BY <1>2, <1>3 DEF IInv

LEMMA StepIInv == IInv /\ [Next]_vars => IInv'
<1> SUFFICES ASSUME IInv, [Next]_vars PROVE IInv'
  OBVIOUS
<1>1. ASSUME NEW s \in Sources, Publish(s)
      PROVE  IInv'
  BY <1>1, PublishKeeps, FindKeeps DEF Publish
<1>2. ASSUME NEW s \in Sources, GetClient(s)
      PROVE  IInv'
  BY <1>2, MakeKeeps, ApplyKeeps, ReturnKeeps DEF GetClient
<1>3. ASSUME NEW s \in Sources, PushValidated(s)
      PROVE  IInv'
  BY <1>3, PushValidatedKeeps
<1>4. ASSUME NEW c \in Clients, Join(c)
      PROVE  IInv'
  BY <1>4, JoinKeeps
<1>5. ASSUME NEW c \in Clients, Relay(c)
      PROVE  IInv'
  BY <1>5, RelayKeeps
<1>6. CASE Dispatch
  BY <1>6, HandleKeeps, DrainedKeeps DEF Dispatch
<1>7. CASE UNCHANGED vars
  BY <1>7, StutterKeeps
<1>. QED
  BY <1>1, <1>2, <1>3, <1>4, <1>5, <1>6, <1>7 DEF Next

LEMMA Invariance == Spec => []IInv
BY InitIInv, StepIInv, PTL DEF Spec

------------------------------------------------------------------------------
(***************************************************************************)
(* What follows for the program.                                           *)
(***************************************************************************)

\* Every variable of EventStream, the relay and the dispatch thread keeps its
\* type, no socket exceeds its high-water mark, and the relay knows no more
\* subscriptions than were applied.
THEOREM DeliveryTyped == Spec => []TypeOK
BY Invariance, PTL DEF IInv

\* The logger is handed no event twice, a reconstructor only if two threads made
\* the partition of validated events; if one did, the events of a source and a
\* partition are handled in the order add_event took them.  A reconstructor is
\* handed validated and observed events of its own source only.
THEOREM HandedOnce == Spec => []OnceAndInOrder
<1>1. IInv => OnceAndInOrder
  <2> SUFFICES ASSUME IInv PROVE OnceAndInOrder
    OBVIOUS
  <2>1. MadeOnce <=> OneOf(made)
    BY Counting DEF IInv, Making
  <2>. QED
    BY <2>1 DEF IInv, Heard, OnceAndInOrder
<1>. QED
  BY <1>1, Invariance, PTL

\* All sockets are empty.
Quiet == \A c \in Clients : pushed[c] = <<>> /\ inbox[c] = <<>>

\* When the sockets are empty the logger has been handed every event that a
\* socket took and none lost, validated ones included, however many threads
\* made their partition: what EveryEventIsLogged has beyond this is that the
\* sockets do become empty.
THEOREM NoneVanishes == Spec => [](Quiet => accepted \subseteq seen["logger"] \cup lost)
<1>1. IInv => (Quiet => accepted \subseteq seen["logger"] \cup lost)
  <2> SUFFICES ASSUME IInv, Quiet, NEW e \in accepted
               PROVE  e \in seen["logger"] \cup lost
    OBVIOUS
  <2>1. \A c \in Clients : Range(pushed[c]) = {} /\ Range(inbox[c]) = {}
    BY InQueue DEF IInv, TypeOK, Quiet
  <2>. QED
    BY <2>1, Apart DEF IInv, Logged
<1>. QED
  BY <1>1, Invariance, PTL

\* When the sockets are empty every reconstructor has been handed the events of
\* its source that were published with its subscription in effect, but those
\* that were lost.  A slot whose event was published is not judged silent for
\* good, unless a client with the event is never polled.
THEOREM NoneMissed ==
  Spec => [](Quiet => \A e \in due \ lost : e.partition = "reconstructed" \/ e \in seen[e.src])
<1>1. IInv => (Quiet => \A e \in due \ lost :
                          e.partition = "reconstructed" \/ e \in seen[e.src])
  <2> SUFFICES ASSUME IInv, Quiet, NEW e \in due \ lost, e.partition # "reconstructed"
               PROVE  e \in seen[e.src]
    OBVIOUS
  <2>1. \A c \in Clients : Range(pushed[c]) = {} /\ Range(inbox[c]) = {}
    BY InQueue DEF IInv, TypeOK, Quiet
  <2>. QED
    BY <2>1 DEF IInv, Observed
<1>. QED
  BY <1>1, Invariance, PTL

\* ... which happens only if two threads made the partition: otherwise a client
\* that has events for the dispatch thread is among those the next round polls.
THEOREM AllPolled ==
  Spec => [](MadeOnce => \A c \in Clients : inbox[c] # <<>> => c \in Range(Clientele))
<1>1. IInv => (MadeOnce => \A c \in Clients : inbox[c] # <<>> => c \in Range(Clientele))
  <2> SUFFICES ASSUME IInv, MadeOnce, NEW c \in Clients, inbox[c] # <<>>
               PROVE  c \in Range(Clientele)
    OBVIOUS
  <2>1. OneOf(made)
    BY Counting DEF IInv, Making
  <2>2. c \in Sources => c = current
    <3>1. Range(inbox[c]) # {}
      BY InQueue DEF IInv, TypeOK
    <3>2. c \in Sources => c \in made
      BY <3>1 DEF IInv, Making
    <3>3. c \in made => current \in made
      BY DEF IInv, Making
    <3>. QED
      BY <2>1, <3>2, <3>3 DEF OneOf
  <2>3. CASE c \in Sources
    <3>1. Clientele = <<"observed", "reconstructed">> \o <<c>>
      BY <2>2, <2>3, Apart DEF Clientele
    <3>2. 3 \in DOMAIN Clientele /\ Clientele[3] = c
      BY <3>1
    <3>. QED
      BY <3>2 DEF Range
  <2>4. CASE c \notin Sources
    <3>1. c = "observed" \/ c = "reconstructed"
      BY <2>4, Apart
    <3>2. /\ 1 \in DOMAIN Clientele /\ Clientele[1] = "observed"
          /\ 2 \in DOMAIN Clientele /\ Clientele[2] = "reconstructed"
      <4>1. CASE current = None
        <5>1. Clientele = <<"observed", "reconstructed">> \o <<>>
          BY <4>1 DEF Clientele
        <5>. QED
          BY <5>1
      <4>2. CASE current # None
        <5>1. Clientele = <<"observed", "reconstructed">> \o <<current>>
          BY <4>2 DEF Clientele
        <5>. QED
          BY <5>1
      <4>. QED
        BY <4>1, <4>2
    <3>. QED
      BY <3>1, <3>2 DEF Range
  <2>. QED
    BY <2>3, <2>4
<1>. QED
  BY <1>1, Invariance, PTL

=============================================================================
