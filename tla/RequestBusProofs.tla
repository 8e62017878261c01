-------------------------- MODULE RequestBusProofs --------------------------
(***************************************************************************)
(* What is proved of sending over the request/response medium: for any     *)
(* peers, traffic, order of the endpoints, losses and timeouts.            *)
(***************************************************************************)
EXTENDS RequestBus, TLAPS

\* The same Send.
SameTry(c, d) == c.peer = d.peer /\ c.number = d.number /\ c.try = d.try

\* A request that waits to be dispatched: while no Send of its message has ended
\* without an answer it is the one its peer waits for, and if its message has been
\* taken it was by an earlier dispatch of this very request.
Expected(r) ==
    ~ timedOut[r.peer] =>
        /\ r.try = try[r.peer]
        /\ waiting[r.peer] /\ reply[r.peer] = <<>>
        /\ Message(r.peer) \in taken => Takers(r) # {}

RequestOK(r) ==
    /\ r.number \in 1 .. number[r.peer]
    /\ r.number = number[r.peer] =>
          /\ r.try <= try[r.peer] /\ r.envelope = current[r.peer]
          /\ Expected(r)
    /\ \A c \in calls : SameTry(c, r) => c.dispatch < r.dispatch

QueueOK == \A i \in 1 .. Len(queue) : RequestOK(queue[i])

QueueDistinct ==
    \A i, j \in 1 .. Len(queue) : SameTry(queue[i], queue[j]) => i = j

Calls == [peer : Peers, number : Nat, try : Nat, dispatch : Nat, endpoint : Schemas,
          type : UNION {Cases(e) : e \in Schemas}, envelope : Envelopes]

\* A call is for a message that was taken, and while no Send of it has ended
\* without an answer it was made for the latest.
CallOK(c) ==
    /\ [peer |-> c.peer, number |-> c.number] \in taken
    /\ c.number = number[c.peer] => c.try <= try[c.peer]
                                    /\ (~ timedOut[c.peer] => c.try = try[c.peer])

CallsOK == calls \subseteq Calls /\ \A c \in calls : CallOK(c)

CallsDistinct == \A c, d \in calls : SameTry(c, d) /\ c.dispatch = d.dispatch => c = d

TakenOK == \A m \in taken : m.number <= number[m.peer]

\* What a peer has been told, or is about to be.
PeerOK(p) ==
    /\ number[p] = 0 => outcome[p] /\ ~ waiting[p]
    /\ ~ waiting[p] => reply[p] = <<>>
    /\ reply[p] = <<TRUE>> => Message(p) \in taken
    /\ ~ waiting[p] /\ number[p] > 0 /\ outcome[p] => Message(p) \in taken
    /\ ~ timedOut[p] /\ Message(p) \in taken =>
          IF waiting[p] THEN reply[p] # <<FALSE>> ELSE outcome[p]

PeersOK == \A p \in Peers : PeerOK(p)

BusInv ==
    /\ TypeOK /\ QueueOK /\ QueueDistinct /\ CallsOK /\ CallsDistinct /\ TakenOK /\ PeersOK

\* An intact request with the peer's message waits to be dispatched.
OnItsWay(p) ==
    \E i \in 1 .. Len(queue) :
        queue[i].peer = p /\ queue[i].number = number[p] /\ queue[i].intact

\* Every Send of a message that was neither taken nor is on its way has met with
\* a fault of its own.
Losses ==
    \A p \in Peers :
        number[p] > 0 /\ current[p] \in BuiltEnvelopes
            /\ Message(p) \notin taken /\ ~ OnItsWay(p)
        => try[p] <= faults

-----------------------------------------------------------------------------
\* A sequence with one more element, and one without its first.
LEMMA AppendIs ==
    ASSUME NEW S, NEW s \in Seq(S), NEW e \in S
    PROVE  /\ Append(s, e) \in Seq(S)
           /\ Len(s) \in Nat /\ Len(Append(s, e)) = Len(s) + 1
           /\ \A i \in 1 .. Len(s) : Append(s, e)[i] = s[i]
           /\ Append(s, e)[Len(s) + 1] = e
  OBVIOUS

\* What a queue is without its first element.
LEMMA TailIs ==
    ASSUME NEW S, NEW s \in Seq(S), s # <<>>
    PROVE  /\ Len(s) \in Nat /\ 1 \in 1 .. Len(s) /\ Head(s) = s[1] /\ s[1] \in S
           /\ Tail(s) \in Seq(S) /\ Len(Tail(s)) = Len(s) - 1
           /\ \A i \in 1 .. Len(s) - 1 : Tail(s)[i] = s[i + 1] /\ i + 1 \in 1 .. Len(s)
  OBVIOUS

\* The three states of a reply.
LEMMA ReplyIs ==
    /\ <<>> # <<TRUE>> /\ <<>> # <<FALSE>> /\ <<TRUE>> # <<FALSE>>
    /\ \A b \in BOOLEAN : /\ <<b>> \in {<<TRUE>>, <<FALSE>>} /\ <<b>>[1] = b
                          /\ <<b>> = <<TRUE>> => b
                          /\ <<b>> = <<FALSE>> => ~ b
  <1>1. <<TRUE>>[1] = TRUE /\ <<FALSE>>[1] = FALSE
    OBVIOUS
  <1>2. \A b \in BOOLEAN : <<b>>[1] = b
    OBVIOUS
  <1>3. Len(<<>>) = 0 /\ Len(<<TRUE>>) = 1 /\ Len(<<FALSE>>) = 1
    OBVIOUS
  <1>4. <<>> # <<TRUE>> /\ <<>> # <<FALSE>>
    BY <1>3
  <1>5. <<TRUE>> # <<FALSE>>
    BY <1>1
  <1>6. \A b \in BOOLEAN : b = TRUE \/ b = FALSE
    OBVIOUS
  <1>7. \A b \in BOOLEAN : /\ <<b>> \in {<<TRUE>>, <<FALSE>>}
                           /\ <<b>> = <<TRUE>> => b
                           /\ <<b>> = <<FALSE>> => ~ b
    BY <1>1, <1>2, <1>6
  <1> QED BY <1>2, <1>4, <1>5, <1>7

\* Before the first Send nothing has been taken or told.
LEMMA InitBus == Init => BusInv
  <1> SUFFICES ASSUME Init PROVE BusInv
    OBVIOUS
  <1> USE DEF Init
  <1>1. NoEnvelope \in Envelopes
    BY DEF NoEnvelope, Envelopes
  <1>2. TypeOK
    BY <1>1, BusAssumption DEF TypeOK
  <1>3. QueueOK /\ QueueDistinct
    BY DEF QueueOK, QueueDistinct
  <1>4. CallsOK /\ CallsDistinct /\ TakenOK
    BY DEF CallsOK, CallsDistinct, TakenOK
  <1>5. PeersOK
    <2> SUFFICES ASSUME NEW p \in Peers PROVE PeerOK(p)
      BY DEF PeersOK
    <2>1. /\ number[p] = 0 /\ reply[p] = <<>> /\ Message(p) \notin taken
          /\ outcome[p] /\ ~ waiting[p]
      OBVIOUS
    <2> HIDE DEF Init
    <2> QED BY <2>1, ReplyIs DEF PeerOK
  <1> QED BY <1>2, <1>3, <1>4, <1>5 DEF BusInv

\* What a call of write_ does to the medium and its caller.
LEMMA TransmitIs ==
    ASSUME TypeOK, NEW p \in Peers, NEW n \in Nat, NEW k \in Nat, NEW envelope \in Envelopes,
           Transmit(p, n, k, envelope)
    PROVE  /\ queue' \in Seq(Requests) /\ Len(queue) \in Nat
           /\ Len(queue') \in {Len(queue), Len(queue) + 1}
           /\ \A i \in 1 .. Len(queue) : i \in 1 .. Len(queue') /\ queue'[i] = queue[i]
           /\ \A i \in 1 .. Len(queue') : i \notin 1 .. Len(queue) =>
                 /\ queue'[i].peer = p /\ queue'[i].number = n /\ queue'[i].try = k
                 /\ queue'[i].dispatch = 1 /\ queue'[i].envelope = envelope
                 /\ i = Len(queue) + 1 /\ waiting'[p]
           /\ \/ waiting' = [waiting EXCEPT ![p] = TRUE] /\ outcome' = outcome
              \/ waiting' = waiting /\ outcome' = [outcome EXCEPT ![p] = FALSE]
           /\ \/ /\ faults' = faults
                 /\ Len(queue) + 1 \in 1 .. Len(queue') /\ queue'[Len(queue) + 1].intact
              \/ faults' = faults + 1
           /\ faults' \in 0 .. MaxFaults /\ faults <= faults'
  <1> DEFINE request(intact) == [peer |-> p, number |-> n, try |-> k, dispatch |-> 1,
                                 envelope |-> envelope, intact |-> intact]
  <1>1. queue \in Seq(Requests) /\ faults \in 0 .. MaxFaults /\ MaxFaults \in Nat
    BY BusAssumption DEF TypeOK
  <1>2. ASSUME NEW b \in BOOLEAN
        PROVE  /\ request(b) \in Requests
               /\ request(b).peer = p /\ request(b).number = n /\ request(b).try = k
               /\ request(b).dispatch = 1 /\ request(b).envelope = envelope
               /\ request(b).intact = b
    BY <1>2 DEF Requests
  <1>3. \/ /\ queue' = Append(queue, request(TRUE))
           /\ waiting' = [waiting EXCEPT ![p] = TRUE]
           /\ UNCHANGED <<outcome, faults>>
        \/ /\ MayFault
           /\ queue' \in {queue, Append(queue, request(FALSE))}
           /\ waiting' = [waiting EXCEPT ![p] = TRUE]
           /\ UNCHANGED outcome
        \/ /\ MayFault
           /\ outcome' = [outcome EXCEPT ![p] = FALSE]
           /\ UNCHANGED <<queue, waiting>>
    BY DEF Transmit
  <1> HIDE DEF request
  <1>4. MayFault => faults' = faults + 1 /\ faults' \in 0 .. MaxFaults
    BY <1>1 DEF MayFault
  <1>5. waiting' = [waiting EXCEPT ![p] = TRUE] => waiting'[p]
    BY DEF TypeOK
  <1>6. CASE queue' = queue
    <2>1. ASSUME NEW b \in BOOLEAN
          PROVE  Append(queue, request(b)) # queue
      BY <1>1, <1>2, AppendIs
    <2>2. /\ MayFault
          /\ \/ waiting' = [waiting EXCEPT ![p] = TRUE] /\ outcome' = outcome
             \/ waiting' = waiting /\ outcome' = [outcome EXCEPT ![p] = FALSE]
      BY <1>3, <1>6, <2>1
    <2>3. Len(queue) \in Nat
      BY <1>1
    <2> QED BY <1>1, <1>4, <1>6, <2>2, <2>3
  <1>7. ASSUME NEW b \in BOOLEAN, queue' = Append(queue, request(b)),
               waiting' = [waiting EXCEPT ![p] = TRUE], outcome' = outcome,
               \/ b = TRUE /\ faults' = faults
               \/ MayFault
        PROVE  /\ queue' \in Seq(Requests) /\ Len(queue) \in Nat
               /\ Len(queue') = Len(queue) + 1
               /\ \A i \in 1 .. Len(queue) : i \in 1 .. Len(queue') /\ queue'[i] = queue[i]
               /\ \A i \in 1 .. Len(queue') : i \notin 1 .. Len(queue) =>
                     /\ queue'[i] = request(b)
                     /\ i = Len(queue) + 1 /\ waiting'[p]
               /\ \/ /\ faults' = faults
                     /\ Len(queue) + 1 \in 1 .. Len(queue')
                     /\ queue'[Len(queue) + 1].intact
                  \/ faults' = faults + 1
               /\ faults' \in 0 .. MaxFaults /\ faults <= faults'
    <2>1. /\ queue' \in Seq(Requests) /\ Len(queue) \in Nat
          /\ Len(queue') = Len(queue) + 1
          /\ \A i \in 1 .. Len(queue) : queue'[i] = queue[i]
          /\ queue'[Len(queue) + 1] = request(b)
      BY <1>1, <1>2, <1>7, AppendIs
    <2> QED BY <1>1, <1>2, <1>4, <1>5, <1>7, <2>1
  <1>8. CASE queue' # queue
    <2>1. PICK b \in BOOLEAN :
              /\ queue' = Append(queue, request(b))
              /\ waiting' = [waiting EXCEPT ![p] = TRUE] /\ outcome' = outcome
              /\ \/ b = TRUE /\ faults' = faults
                 \/ MayFault
      BY <1>3, <1>8
    <2> QED BY <1>2, <1>7, <2>1
  <1> QED BY <1>6, <1>8

\* The numbers of calls and of what was taken are not ahead of their peers.
LEMMA NumbersKnown ==
    ASSUME BusInv
    PROVE  /\ \A p \in Peers : number[p] \in Nat /\ try[p] \in Nat
           /\ \A m \in taken : m.peer \in Peers /\ m.number \in Nat /\ m.number <= number[m.peer]
           /\ \A c \in calls : /\ c.peer \in Peers /\ c.number \in Nat /\ c.try \in Nat
                               /\ c.dispatch \in Nat
                               /\ c.number <= number[c.peer]
           /\ \A i \in 1 .. Len(queue) :
                 /\ queue[i] \in Requests /\ queue[i].peer \in Peers
                 /\ queue[i].number \in Nat /\ queue[i].try \in Nat /\ queue[i].dispatch \in Nat
                 /\ queue[i].envelope \in Envelopes
                 /\ RequestOK(queue[i])
  <1>1. \A p \in Peers : number[p] \in Nat /\ try[p] \in Nat
    BY BusAssumption DEF BusInv, TypeOK
  <1>2. \A m \in taken : m.peer \in Peers /\ m.number \in Nat /\ m.number <= number[m.peer]
    BY DEF BusInv, TypeOK, TakenOK, Messages
  <1>3. \A c \in calls : /\ c.peer \in Peers /\ c.number \in Nat /\ c.try \in Nat
                         /\ c.dispatch \in Nat
                         /\ [peer |-> c.peer, number |-> c.number] \in taken
    BY DEF BusInv, CallsOK, CallOK, Calls
  <1>4. \A i \in 1 .. Len(queue) : queue[i] \in Requests
    BY DEF BusInv, TypeOK
  <1>5. \A r \in Requests : /\ r.peer \in Peers /\ r.number \in Nat /\ r.try \in Nat
                            /\ r.dispatch \in Nat /\ r.envelope \in Envelopes
    BY DEF Requests
  <1>6. \A i \in 1 .. Len(queue) : RequestOK(queue[i])
    BY DEF BusInv, QueueOK
  <1> QED BY <1>1, <1>2, <1>3, <1>4, <1>5, <1>6

\* A peer of whom nothing changes.
LEMMA PeerUntouched ==
    ASSUME BusInv, NEW p \in Peers, number'[p] = number[p], waiting'[p] = waiting[p],
           outcome'[p] = outcome[p], reply'[p] = reply[p], timedOut'[p] = timedOut[p],
           Message(p) \in taken' <=> Message(p) \in taken
    PROVE  PeerOK(p)'
  <1>1. PeerOK(p)
    BY DEF BusInv, PeersOK
  <1>2. Message(p)' = Message(p)
    BY DEF Message
  <1> QED BY <1>1, <1>2 DEF PeerOK

\* A handler is registered.
LEMMA RegisterBus ==
    ASSUME BusInv, NEW h \in Late, Register(h)
    PROVE  BusInv'
  <1>1. /\ UNCHANGED <<current, number, try, waiting, outcome, timedOut, reply, queue, faults,
                       taken, calls>>
        /\ handlers' = handlers \cup {h}
    BY DEF Register, peerVars
  <1>2. TypeOK'
    BY <1>1, BusAssumption DEF BusInv, TypeOK
  <1>3. QueueOK'
    BY <1>1 DEF BusInv, QueueOK, RequestOK, Expected, Message
  <1>4. QueueDistinct' /\ CallsOK' /\ CallsDistinct' /\ TakenOK'
    BY <1>1 DEF BusInv, QueueDistinct, CallsOK, CallOK, CallsDistinct, TakenOK
  <1>5. PeersOK'
    BY <1>1 DEF BusInv, PeersOK, PeerOK, Message
  <1> QED BY <1>2, <1>3, <1>4, <1>5 DEF BusInv

\* A peer begins a message: no request, call or answer of its has the new number.
LEMMA SendBus ==
    ASSUME BusInv, NEW p \in Peers, NEW envelope \in Traffic[p], Send(p, envelope)
    PROVE  BusInv'
  <1> DEFINE n == number[p] + 1
  <1>0. /\ Done(p) /\ ~ waiting[p]
        /\ Transmit(p, n, 1, envelope)
        /\ current' = [current EXCEPT ![p] = envelope]
        /\ number' = [number EXCEPT ![p] = n]
        /\ try' = [try EXCEPT ![p] = 1]
        /\ timedOut' = [timedOut EXCEPT ![p] = FALSE]
        /\ UNCHANGED <<reply, handlers, taken, calls>>
    BY DEF Send, Done
  <1>1. TypeOK /\ envelope \in Envelopes /\ n \in Nat /\ 1 \in Nat /\ number[p] \in Nat
    BY BusAssumption, NumbersKnown DEF BusInv
  <1>2. /\ queue' \in Seq(Requests) /\ Len(queue) \in Nat
        /\ Len(queue') \in {Len(queue), Len(queue) + 1}
        /\ \A i \in 1 .. Len(queue) : i \in 1 .. Len(queue') /\ queue'[i] = queue[i]
        /\ \A i \in 1 .. Len(queue') : i \notin 1 .. Len(queue) =>
              /\ queue'[i].peer = p /\ queue'[i].number = n /\ queue'[i].try = 1
              /\ queue'[i].dispatch = 1 /\ queue'[i].envelope = envelope
              /\ i = Len(queue) + 1 /\ waiting'[p]
        /\ \/ waiting' = [waiting EXCEPT ![p] = TRUE] /\ outcome' = outcome
           \/ waiting' = waiting /\ outcome' = [outcome EXCEPT ![p] = FALSE]
        /\ faults' \in 0 .. MaxFaults
    BY <1>0, <1>1, TransmitIs
  <1>3. /\ number'[p] = n /\ try'[p] = 1 /\ current'[p] = envelope /\ timedOut'[p] = FALSE
        /\ reply'[p] = <<>>
        /\ waiting'[p] = FALSE => outcome'[p] = FALSE
        /\ waiting'[p] \in BOOLEAN
    BY <1>0, <1>1, <1>2 DEF BusInv, TypeOK, PeersOK, PeerOK
  <1>4. \A q \in Peers \ {p} :
            /\ number'[q] = number[q] /\ try'[q] = try[q] /\ current'[q] = current[q]
            /\ timedOut'[q] = timedOut[q] /\ waiting'[q] = waiting[q]
            /\ outcome'[q] = outcome[q] /\ reply'[q] = reply[q]
    BY <1>0, <1>1, <1>2 DEF TypeOK
  <1> HIDE DEF n
  <1>5. [peer |-> p, number |-> n] \notin taken /\ n > number[p] /\ n >= 1
    BY <1>1, NumbersKnown DEF n
  <1>6. TypeOK'
    <2>1. 1 \in 0 .. MaxTries
      BY BusAssumption
    <2> QED BY <1>0, <1>1, <1>2, <2>1 DEF TypeOK
  <1>7. ASSUME NEW i \in 1 .. Len(queue)
        PROVE  RequestOK(queue[i])'
    <2> SUFFICES ASSUME NEW r, r = queue[i] PROVE RequestOK(r)'
      BY <1>2 DEF RequestOK, Expected, Message
    <2>1. r.peer \in Peers /\ r.number \in Nat /\ RequestOK(r)
      BY NumbersKnown
    <2>2. CASE r.peer = p
      BY <1>0, <1>1, <1>3, <1>5, <2>1, <2>2 DEF RequestOK
    <2>3. CASE r.peer # p
      BY <1>0, <1>4, <2>1, <2>3 DEF RequestOK, Expected, Message
    <2> QED BY <2>2, <2>3
  <1>8. QueueOK'
    <2> SUFFICES ASSUME NEW i \in 1 .. Len(queue'), NEW r, r = queue'[i] PROVE RequestOK(r)'
      BY DEF QueueOK, RequestOK, Expected, Message
    <2>1. CASE i \in 1 .. Len(queue)
      BY <1>2, <1>7, <2>1 DEF RequestOK, Expected, Message
    <2>2. CASE i \notin 1 .. Len(queue)
      <3>1. /\ r.peer = p /\ r.number = n /\ r.try = 1 /\ r.dispatch = 1
            /\ r.envelope = envelope /\ waiting'[p]
        BY <1>2, <2>2
      <3>2. \A c \in calls' : ~ SameTry(c, r)
        BY <1>0, <1>1, <1>5, <3>1, NumbersKnown DEF SameTry
      <3> QED BY <1>0, <1>1, <1>3, <1>5, <3>1, <3>2 DEF RequestOK, Expected, Message
    <2> QED BY <2>1, <2>2
  <1>9. QueueDistinct'
    <2> SUFFICES ASSUME NEW i \in 1 .. Len(queue'), NEW j \in 1 .. Len(queue'),
                        SameTry(queue'[i], queue'[j])
                 PROVE  i = j
      BY DEF QueueDistinct, SameTry
    <2>1. \A k \in 1 .. Len(queue) : queue[k].peer = p => queue[k].number # n
      BY <1>1, <1>5, NumbersKnown DEF RequestOK
    <2>2. CASE i \in 1 .. Len(queue) /\ j \in 1 .. Len(queue)
      BY <1>2, <2>2 DEF BusInv, QueueDistinct
    <2>3. CASE i \notin 1 .. Len(queue) /\ j \notin 1 .. Len(queue)
      BY <1>2, <2>3
    <2> QED BY <1>2, <2>1, <2>2, <2>3 DEF SameTry
  <1>10. CallsOK' /\ CallsDistinct' /\ TakenOK'
    <2>1. CallsDistinct' /\ calls' \subseteq Calls
      BY <1>0 DEF BusInv, CallsDistinct, SameTry, CallsOK
    <2>2. TakenOK'
      BY <1>0, <1>1, <1>3, <1>4, <1>5, NumbersKnown DEF TakenOK
    <2>3. ASSUME NEW c \in calls
          PROVE  CallOK(c)'
      <3>1. c.peer \in Peers /\ c.number <= number[c.peer] /\ c.number \in Nat /\ CallOK(c)
        BY NumbersKnown DEF BusInv, CallsOK
      <3>2. CASE c.peer = p
        BY <1>0, <1>1, <1>3, <1>5, <3>1, <3>2 DEF CallOK
      <3>3. CASE c.peer # p
        BY <1>0, <1>4, <3>1, <3>3 DEF CallOK
      <3> QED BY <3>2, <3>3
    <2> QED BY <1>0, <2>1, <2>2, <2>3 DEF CallsOK
  <1>11. PeersOK'
    <2> SUFFICES ASSUME NEW q \in Peers PROVE PeerOK(q)'
      BY DEF PeersOK
    <2>1. CASE q = p
      <3>1. Message(p)' \notin taken'
        BY <1>0, <1>3, <1>5 DEF Message
      <3>2. number'[p] # 0
        BY <1>1, <1>3, <1>5
      <3> QED BY <1>3, <2>1, <3>1, <3>2, ReplyIs DEF PeerOK
    <2>2. CASE q # p
      BY <1>0, <1>4, <2>2, PeerUntouched
    <2> QED BY <2>1, <2>2
  <1> QED BY <1>6, <1>8, <1>9, <1>10, <1>11 DEF BusInv

\* A peer tries again: no Send of the message is under way, and if none ended
\* without an answer nothing has come of the earlier ones.
LEMMA ResendBus ==
    ASSUME BusInv, NEW p \in Peers, Resend(p)
    PROVE  BusInv'
  <1> DEFINE k == try[p] + 1
  <1>0. /\ ~ waiting[p] /\ ~ outcome[p] /\ try[p] < MaxTries
        /\ Transmit(p, number[p], k, current[p])
        /\ try' = [try EXCEPT ![p] = k]
        /\ UNCHANGED <<current, number, timedOut, reply, handlers, taken, calls>>
    BY DEF Resend
  <1>1. TypeOK /\ current[p] \in Envelopes /\ k \in Nat /\ number[p] \in Nat /\ k \in 0 .. MaxTries
        /\ try[p] \in Nat
    <2>1. try[p] \in 0 .. MaxTries /\ MaxTries \in Nat /\ try[p] < MaxTries
      BY <1>0, BusAssumption DEF BusInv, TypeOK
    <2>2. TypeOK /\ current[p] \in Envelopes /\ number[p] \in Nat
      BY DEF BusInv, TypeOK
    <2> QED BY <2>1, <2>2
  <1>2. /\ queue' \in Seq(Requests) /\ Len(queue) \in Nat
        /\ Len(queue') \in {Len(queue), Len(queue) + 1}
        /\ \A i \in 1 .. Len(queue) : i \in 1 .. Len(queue') /\ queue'[i] = queue[i]
        /\ \A i \in 1 .. Len(queue') : i \notin 1 .. Len(queue) =>
              /\ queue'[i].peer = p /\ queue'[i].number = number[p] /\ queue'[i].try = k
              /\ queue'[i].dispatch = 1 /\ queue'[i].envelope = current[p]
              /\ i = Len(queue) + 1 /\ waiting'[p]
        /\ \/ waiting' = [waiting EXCEPT ![p] = TRUE] /\ outcome' = outcome
           \/ waiting' = waiting /\ outcome' = [outcome EXCEPT ![p] = FALSE]
        /\ faults' \in 0 .. MaxFaults
    BY <1>0, <1>1, TransmitIs
  <1>3. /\ PeerOK(p) /\ reply[p] = <<>> /\ number[p] >= 1
        /\ ~ timedOut[p] => Message(p) \notin taken
    <2>1. PeerOK(p) /\ number[p] \in Nat
      BY <1>1 DEF BusInv, PeersOK
    <2>2. number[p] # 0 /\ reply[p] = <<>>
      BY <1>0, <2>1 DEF PeerOK
    <2>3. ~ timedOut[p] => Message(p) \notin taken
      BY <1>0, <2>1 DEF PeerOK
    <2> QED BY <2>1, <2>2, <2>3
  <1>4. try'[p] = k /\ ~ outcome'[p]
    BY <1>0, <1>1, <1>2 DEF TypeOK
  <1>5. \A q \in Peers \ {p} : /\ try'[q] = try[q] /\ waiting'[q] = waiting[q]
                               /\ outcome'[q] = outcome[q]
    BY <1>0, <1>1, <1>2 DEF TypeOK
  <1>6. k > try[p]
    BY <1>1
  <1> HIDE DEF k
  <1>7. TypeOK'
    BY <1>0, <1>1, <1>2 DEF TypeOK
  <1>8. ASSUME NEW i \in 1 .. Len(queue), NEW r, r = queue[i]
        PROVE  RequestOK(r)'
    <2>1. r.peer \in Peers /\ r.number \in Nat /\ r.try \in Nat /\ RequestOK(r)
      BY <1>8, NumbersKnown
    <2>2. CASE r.peer = p
      <3>1. r.number = number[p] => timedOut[p] /\ r.try <= try[p]
        BY <1>0, <2>1, <2>2 DEF RequestOK, Expected
      <3>2. r.number = number[p] => r.try <= try'[p] /\ Expected(r)'
        BY <1>0, <1>1, <1>4, <1>6, <2>1, <2>2, <3>1 DEF Expected
      <3> QED BY <1>0, <2>1, <2>2, <3>2 DEF RequestOK
    <2>3. CASE r.peer # p
      BY <1>0, <1>5, <2>1, <2>3 DEF RequestOK, Expected, Message
    <2> QED BY <2>2, <2>3
  <1>9. QueueOK'
    <2> SUFFICES ASSUME NEW i \in 1 .. Len(queue'), NEW r, r = queue'[i] PROVE RequestOK(r)'
      BY DEF QueueOK, RequestOK, Expected, Message
    <2>1. CASE i \in 1 .. Len(queue)
      BY <1>2, <1>8, <2>1
    <2>2. CASE i \notin 1 .. Len(queue)
      <3>1. /\ r.peer = p /\ r.number = number[p] /\ r.try = k /\ r.dispatch = 1
            /\ r.envelope = current[p] /\ waiting'[p]
        BY <1>2, <2>2
      <3>2. \A c \in calls : ~ SameTry(c, r)
        <4> SUFFICES ASSUME NEW c \in calls, SameTry(c, r) PROVE FALSE
          OBVIOUS
        <4>1. c.try <= try[p] /\ c.try \in Nat
          BY <3>1, NumbersKnown DEF BusInv, CallsOK, CallOK, SameTry
        <4> QED BY <1>1, <1>6, <3>1, <4>1 DEF SameTry
      <3>3. Expected(r)'
        BY <1>0, <1>3, <1>4, <3>1 DEF Expected, Message
      <3>4. r.number \in 1 .. number'[r.peer] /\ r.try <= try'[r.peer]
            /\ r.envelope = current'[r.peer]
        BY <1>0, <1>1, <1>3, <1>4, <3>1
      <3> QED BY <1>0, <3>2, <3>3, <3>4 DEF RequestOK
    <2> QED BY <2>1, <2>2
  <1>10. QueueDistinct'
    <2> SUFFICES ASSUME NEW i \in 1 .. Len(queue'), NEW j \in 1 .. Len(queue'),
                        SameTry(queue'[i], queue'[j])
                 PROVE  i = j
      BY DEF QueueDistinct, SameTry
    <2>1. \A m \in 1 .. Len(queue) :
              queue[m].peer = p /\ queue[m].number = number[p] => queue[m].try # k
      BY <1>1, <1>6, NumbersKnown DEF RequestOK
    <2>2. CASE i \in 1 .. Len(queue) /\ j \in 1 .. Len(queue)
      BY <1>2, <2>2 DEF BusInv, QueueDistinct
    <2>3. CASE i \notin 1 .. Len(queue) /\ j \notin 1 .. Len(queue)
      BY <1>2, <2>3
    <2> QED BY <1>2, <2>1, <2>2, <2>3 DEF SameTry
  <1>11. CallsOK' /\ CallsDistinct' /\ TakenOK'
    <2>1. CallsDistinct' /\ calls' \subseteq Calls /\ TakenOK'
      BY <1>0 DEF BusInv, CallsDistinct, SameTry, CallsOK, TakenOK
    <2>2. ASSUME NEW c \in calls
          PROVE  CallOK(c)'
      <3>1. c.peer \in Peers /\ c.try \in Nat /\ CallOK(c)
        BY NumbersKnown DEF BusInv, CallsOK
      <3>2. CASE c.peer = p
        <4>1. c.number = number[p] => timedOut[p]
          BY <1>3, <3>1, <3>2 DEF CallOK, Message
        <4> QED BY <1>0, <1>1, <1>4, <1>6, <3>1, <3>2, <4>1 DEF CallOK
      <3>3. CASE c.peer # p
        BY <1>0, <1>5, <3>1, <3>3 DEF CallOK
      <3> QED BY <3>2, <3>3
    <2> QED BY <1>0, <2>1, <2>2 DEF CallsOK
  <1>12. PeersOK'
    <2> SUFFICES ASSUME NEW q \in Peers PROVE PeerOK(q)'
      BY DEF PeersOK
    <2>1. CASE q = p
      <3>1. Message(p)' = Message(p)
        BY <1>0 DEF Message
      <3>2. number'[p] # 0 /\ reply'[p] = <<>> /\ (~ timedOut'[p] => Message(p)' \notin taken')
        BY <1>0, <1>1, <1>3, <3>1
      <3> QED BY <1>4, <2>1, <3>2, ReplyIs DEF PeerOK
    <2>2. CASE q # p
      BY <1>0, <1>5, <2>2, PeerUntouched
    <2> QED BY <2>1, <2>2
  <1> QED BY <1>7, <1>9, <1>10, <1>11, <1>12 DEF BusInv

\* A wait ends, with the reply or without one.
LEMMA AnswerBus ==
    ASSUME BusInv, NEW p \in Peers, Answer(p) \/ Timeout(p)
    PROVE  BusInv'
  <1>0. /\ waiting[p] /\ waiting' = [waiting EXCEPT ![p] = FALSE]
        /\ reply' = [reply EXCEPT ![p] = <<>>]
        /\ UNCHANGED <<current, number, try, queue, handlers, faults, taken, calls>>
        /\ \/ /\ reply[p] # <<>> /\ timedOut' = timedOut
              /\ outcome' = [outcome EXCEPT ![p] = reply[p][1]]
           \/ /\ outcome' = [outcome EXCEPT ![p] = FALSE]
              /\ timedOut' = [timedOut EXCEPT ![p] = TRUE]
    BY DEF Answer, Timeout
  <1>1. TypeOK /\ PeerOK(p) /\ number[p] # 0
    BY <1>0 DEF BusInv, PeersOK, PeerOK
  <1>2. reply[p] # <<>> => reply[p][1] \in BOOLEAN /\ reply[p] = <<reply[p][1]>>
    <2>1. reply[p] \in {<<>>, <<TRUE>>, <<FALSE>>}
      BY <1>1 DEF TypeOK
    <2>2. <<TRUE>>[1] = TRUE /\ <<FALSE>>[1] = FALSE
      OBVIOUS
    <2> QED BY <2>1, <2>2
  <1>3. \A q \in Peers \ {p} : /\ waiting'[q] = waiting[q] /\ outcome'[q] = outcome[q]
                               /\ reply'[q] = reply[q] /\ timedOut'[q] = timedOut[q]
    BY <1>0, <1>1 DEF TypeOK
  <1>4. /\ waiting'[p] = FALSE /\ reply'[p] = <<>>
        /\ timedOut'[p] \/ (reply[p] # <<>> /\ timedOut'[p] = timedOut[p])
    BY <1>0, <1>1 DEF TypeOK
  <1>5. TypeOK'
    BY <1>0, <1>1, <1>2 DEF TypeOK
  <1>6. QueueOK'
    <2> SUFFICES ASSUME NEW i \in 1 .. Len(queue), NEW r, r = queue[i] PROVE RequestOK(r)'
      BY <1>0 DEF QueueOK, RequestOK, Expected, Message
    <2>1. r.peer \in Peers /\ RequestOK(r)
      BY NumbersKnown
    <2>2. r.number = number[r.peer] => Expected(r)'
      <3>1. CASE r.peer = p
        BY <1>4, <2>1, <3>1 DEF RequestOK, Expected
      <3>2. CASE r.peer # p
        BY <1>0, <1>3, <2>1, <3>2 DEF RequestOK, Expected, Message
      <3> QED BY <3>1, <3>2
    <2> QED BY <1>0, <2>1, <2>2 DEF RequestOK
  <1>7. QueueDistinct' /\ CallsDistinct' /\ TakenOK' /\ calls' \subseteq Calls
    BY <1>0 DEF BusInv, QueueDistinct, CallsDistinct, TakenOK, CallsOK
  <1>8. CallsOK'
    <2>1. ASSUME NEW c \in calls
          PROVE  CallOK(c)'
      <3>1. c.peer \in Peers /\ CallOK(c)
        BY NumbersKnown DEF BusInv, CallsOK
      <3>2. timedOut[c.peer] => timedOut'[c.peer]
        BY <1>3, <1>4, <3>1
      <3> QED BY <1>0, <3>1, <3>2 DEF CallOK
    <2> QED BY <1>0, <1>7, <2>1 DEF CallsOK
  <1>9. PeersOK'
    <2> SUFFICES ASSUME NEW q \in Peers PROVE PeerOK(q)'
      BY DEF PeersOK
    <2>1. CASE q = p
      <3>1. Message(p)' = Message(p) /\ taken' = taken /\ number'[p] # 0
        BY <1>0, <1>1 DEF Message
      <3>2. CASE timedOut'[p] /\ ~ outcome'[p]
        BY <1>4, <2>1, <3>1, <3>2, ReplyIs DEF PeerOK
      <3>3. CASE /\ reply[p] # <<>> /\ timedOut'[p] = timedOut[p]
                 /\ outcome'[p] = reply[p][1]
        <4>1. outcome'[p] => Message(p) \in taken
          BY <1>1, <1>2, <3>3 DEF PeerOK
        <4>2. ~ timedOut[p] /\ Message(p) \in taken => outcome'[p]
          BY <1>0, <1>1, <1>2, <3>3 DEF PeerOK
        <4> QED BY <1>4, <2>1, <3>1, <3>3, <4>1, <4>2, ReplyIs DEF PeerOK
      <3> QED BY <1>0, <1>1, <3>2, <3>3 DEF TypeOK
    <2>2. CASE q # p
      BY <1>0, <1>3, <2>2, PeerUntouched
    <2> QED BY <2>1, <2>2
  <1> QED BY <1>5, <1>6, <1>7, <1>8, <1>9 DEF BusInv

\* The call a dispatch makes.
CallFor(c, r) ==
    /\ c \in Calls /\ SameTry(c, r) /\ c.dispatch = r.dispatch
    /\ <<c.endpoint, c.type>> \in handlers
    /\ c.endpoint = c.envelope.identifier
    /\ c.type = TypeOf(c.envelope.identifier, c.envelope)
    /\ Takers(r) # {}

\* What a dispatch does: at most one call of a handler, of the message's own
\* schema and type, and the message is taken if any endpoint takes it.
LEMMA DispatchIs ==
    ASSUME BusInv, queue # <<>>, NEW r, r = Head(queue), Dispatch(r)
    PROVE  /\ r = queue[1] /\ 1 \in 1 .. Len(queue) /\ r \in Requests /\ RequestOK(r)
           /\ \A m \in taken : m \in taken'
           /\ \A m \in taken' : \/ m \in taken
                                \/ Takers(r) # {} /\ m = [peer |-> r.peer, number |-> r.number]
           /\ Takers(r) # {} => [peer |-> r.peer, number |-> r.number] \in taken'
           /\ \A c \in calls : c \in calls'
           /\ \A c \in calls' : c \in calls \/ CallFor(c, r)
           /\ \A c, d \in calls' : c \notin calls /\ d \notin calls => c = d
  <1>1. r = queue[1] /\ 1 \in 1 .. Len(queue)
    BY TailIs DEF BusInv, TypeOK
  <1>2. r \in Requests /\ RequestOK(r)
    BY <1>1, NumbersKnown
  <1>3. taken' = IF Takers(r) = {} THEN taken
                 ELSE taken \cup {[peer |-> r.peer, number |-> r.number]}
    BY DEF Dispatch
  <1>4. calls' = calls \cup CallsOf(r)
    BY DEF Dispatch
  <1> DEFINE e == Order[Min(Takers(r))]
             new == [peer |-> r.peer, number |-> r.number, try |-> r.try,
                     dispatch |-> r.dispatch, endpoint |-> e,
                     type |-> TypeOf(e, r.envelope), envelope |-> r.envelope]
  <1>5. \A c \in CallsOf(r) :
            c = new /\ Takers(r) # {} /\ CallsHandler(e, r.envelope, handlers)
    BY DEF CallsOf
  <1>6. ASSUME NEW c \in CallsOf(r)
        PROVE  CallFor(c, r)
    <2>1. c = new /\ Takers(r) # {} /\ CallsHandler(e, r.envelope, handlers)
      BY <1>5, <1>6
    <2> HIDE DEF e
    <2>2. e = r.envelope.identifier /\ <<e, TypeOf(e, r.envelope)>> \in handlers
      BY <2>1 DEF CallsHandler, HandleFrame, HasIdentifier
    <2>3. \E f \in Schemas : \E type \in Cases(f) : <<f, type>> = <<e, TypeOf(e, r.envelope)>>
      BY <2>2 DEF BusInv, TypeOK, Handlers
    <2>4. e \in Schemas /\ TypeOf(e, r.envelope) \in Cases(e)
      BY <2>3
    <2>5. c \in Calls
      <3>1. TypeOf(e, r.envelope) \in UNION {Cases(f) : f \in Schemas}
        BY <2>4
      <3>2. /\ r.peer \in Peers /\ r.number \in Nat /\ r.try \in Nat /\ r.dispatch \in Nat
            /\ r.envelope \in Envelopes
        BY <1>2 DEF Requests
      <3> QED BY <2>1, <2>4, <3>1, <3>2 DEF Calls
    <2> QED BY <2>1, <2>2, <2>5 DEF CallFor, SameTry
  <1> HIDE DEF e, new
  <1> QED BY <1>1, <1>2, <1>3, <1>4, <1>5, <1>6

\* After a dispatch the calls and what is taken are in order.
LEMMA DispatchCalls ==
    ASSUME BusInv, queue # <<>>, NEW r, r = Head(queue), Dispatch(r), UNCHANGED peerVars,
           UNCHANGED handlers
    PROVE  /\ CallsOK' /\ CallsDistinct' /\ TakenOK' /\ taken' \subseteq Messages
           /\ \A c \in calls' : <<c.endpoint, c.type>> \in handlers'
  <1>1. /\ r \in Requests /\ RequestOK(r)
        /\ \A m \in taken : m \in taken'
        /\ \A m \in taken' : \/ m \in taken
                             \/ Takers(r) # {} /\ m = [peer |-> r.peer, number |-> r.number]
        /\ Takers(r) # {} => [peer |-> r.peer, number |-> r.number] \in taken'
        /\ \A c \in calls' : c \in calls \/ CallFor(c, r)
        /\ \A c, d \in calls' : c \notin calls /\ d \notin calls => c = d
    BY DispatchIs
  <1>2. r.peer \in Peers /\ r.number \in Nat /\ r.try \in Nat /\ r.dispatch \in Nat
    BY <1>1 DEF Requests
  <1>3. UNCHANGED <<number, try, timedOut>>
    BY DEF peerVars
  <1>4. \A c \in calls' : <<c.endpoint, c.type>> \in handlers'
    BY <1>1 DEF BusInv, TypeOK, CallFor
  <1>5. calls' \subseteq Calls
    BY <1>1 DEF BusInv, CallsOK, CallFor
  <1>6. ASSUME NEW c \in calls'
        PROVE  CallOK(c)'
    <2>1. CASE c \in calls
      BY <1>1, <1>3, <2>1 DEF BusInv, CallsOK, CallOK
    <2>2. CASE c \notin calls
      <3>1. CallFor(c, r)
        BY <1>1, <2>2
      <3>2. /\ [peer |-> c.peer, number |-> c.number] \in taken'
            /\ c.peer = r.peer /\ c.number = r.number /\ c.try = r.try
        BY <1>1, <3>1 DEF CallFor, SameTry
      <3> QED BY <1>1, <1>3, <3>2 DEF CallOK, RequestOK, Expected
    <2> QED BY <2>1, <2>2
  <1>7. CallsDistinct'
    <2> SUFFICES ASSUME NEW c \in calls', NEW d \in calls', SameTry(c, d),
                        c.dispatch = d.dispatch
                 PROVE  c = d
      BY DEF CallsDistinct
    <2>1. \A b \in calls : SameTry(b, r) => b.dispatch # r.dispatch
      BY <1>1, <1>2, NumbersKnown DEF RequestOK
    <2>2. CASE c \in calls /\ d \in calls
      BY <2>2 DEF BusInv, CallsDistinct
    <2>3. CASE c \in calls /\ d \notin calls
      BY <1>1, <2>1, <2>3 DEF CallFor, SameTry
    <2>4. CASE c \notin calls /\ d \in calls
      BY <1>1, <2>1, <2>4 DEF CallFor, SameTry
    <2>5. CASE c \notin calls /\ d \notin calls
      BY <1>1, <2>5
    <2> QED BY <2>2, <2>3, <2>4, <2>5
  <1>8. TakenOK'
    <2>1. r.number <= number[r.peer]
      BY <1>1, <1>2, NumbersKnown DEF RequestOK
    <2> QED BY <1>1, <1>3, <2>1 DEF BusInv, TakenOK
  <1>9. taken' \subseteq Messages
    BY <1>1, <1>2 DEF BusInv, TypeOK, Messages
  <1> QED BY <1>4, <1>5, <1>6, <1>7, <1>8, <1>9 DEF CallsOK

\* The reply a dispatch makes, if it makes one.
Replied(r) ==
    IF Awaited(r) THEN reply' = [reply EXCEPT ![r.peer] = <<Offered(r)>>] ELSE reply' = reply

\* The other requests wait on as before.
LEMMA DispatchOthers ==
    ASSUME BusInv, queue # <<>>, NEW r, r = Head(queue), Dispatch(r), UNCHANGED peerVars,
           Replied(r) \/ reply' = reply,
           NEW i \in 2 .. Len(queue), NEW s, s = queue[i]
    PROVE  RequestOK(s)'
  <1>1. /\ r = queue[1] /\ 1 \in 1 .. Len(queue) /\ r \in Requests /\ RequestOK(r)
        /\ \A m \in taken' : \/ m \in taken
                             \/ Takers(r) # {} /\ m = [peer |-> r.peer, number |-> r.number]
        /\ \A c \in calls' : c \in calls \/ CallFor(c, r)
    BY DispatchIs
  <1>2. i \in 1 .. Len(queue) /\ i # 1
    <2>1. Len(queue) \in Nat
      BY TailIs DEF BusInv, TypeOK
    <2> QED BY <2>1
  <1>3. s.peer \in Peers /\ RequestOK(s) /\ ~ SameTry(s, r) /\ r.peer \in Peers
    BY <1>1, <1>2, NumbersKnown DEF BusInv, QueueDistinct, Requests
  <1>4. UNCHANGED <<current, number, try, waiting, timedOut>>
    BY DEF peerVars
  <1>5. \A c \in calls' : SameTry(c, s) => c.dispatch < s.dispatch
    BY <1>1, <1>3 DEF RequestOK, CallFor, SameTry
  <1>6. ASSUME s.number = number[s.peer], ~ timedOut[s.peer]
        PROVE  /\ s.try = try[s.peer]
               /\ waiting[s.peer] /\ reply'[s.peer] = <<>>
               /\ Message(s.peer) \in taken' => Takers(s) # {}
    <2>1. /\ s.try = try[s.peer] /\ waiting[s.peer] /\ reply[s.peer] = <<>>
          /\ Message(s.peer) \in taken => Takers(s) # {}
      BY <1>3, <1>6 DEF RequestOK, Expected
    <2>2. ~ (r.peer = s.peer /\ r.number = number[r.peer])
      BY <1>1, <1>3, <1>6, <2>1 DEF RequestOK, Expected, SameTry
    <2>3. reply'[s.peer] = reply[s.peer]
      <3>1. r.peer = s.peer => ~ Awaited(r)
        BY <2>2 DEF Awaited
      <3> QED BY <1>3, <3>1 DEF Replied, BusInv, TypeOK
    <2>4. Message(s.peer) \in taken' => Message(s.peer) \in taken
      BY <1>1, <2>2 DEF Message
    <2> QED BY <2>1, <2>3, <2>4
  <1>7. s.number = number[s.peer] => Expected(s)'
    BY <1>4, <1>6 DEF Expected, Message
  <1> QED BY <1>3, <1>4, <1>5, <1>7 DEF RequestOK

\* Nobody has been told, or will be, what is not so.
LEMMA DispatchPeers ==
    ASSUME BusInv, queue # <<>>, NEW r, r = Head(queue), Dispatch(r), UNCHANGED peerVars,
           Replied(r) \/ reply' = reply
    PROVE  PeersOK' /\ reply' \in [Peers -> {<<>>, <<TRUE>>, <<FALSE>>}]
  <1>1. /\ r \in Requests /\ RequestOK(r)
        /\ \A m \in taken : m \in taken'
        /\ \A m \in taken' : \/ m \in taken
                             \/ Takers(r) # {} /\ m = [peer |-> r.peer, number |-> r.number]
        /\ Takers(r) # {} => [peer |-> r.peer, number |-> r.number] \in taken'
    BY DispatchIs
  <1>2. r.peer \in Peers
    BY <1>1 DEF Requests
  <1>3. UNCHANGED <<number, try, waiting, timedOut, outcome>>
    BY DEF peerVars
  <1>4. Offered(r) \in BOOLEAN /\ (Offered(r) <=> Takers(r) # {})
    BY DEF Offered
  <1>5. reply' \in [Peers -> {<<>>, <<TRUE>>, <<FALSE>>}]
    BY <1>2, <1>4, ReplyIs DEF Replied, BusInv, TypeOK
  <1>6. ASSUME NEW q \in Peers
        PROVE  PeerOK(q)'
    <2>1. PeerOK(q) /\ Message(q)' = Message(q)
      BY <1>3 DEF BusInv, PeersOK, Message
    <2>2. CASE q = r.peer /\ Awaited(r) /\ Replied(r)
      <3>1. reply'[q] = <<Offered(r)>> /\ waiting[q] /\ number[q] = r.number
        BY <1>2, <2>2 DEF Awaited, Replied, BusInv, TypeOK
      <3>2. Message(q) = [peer |-> r.peer, number |-> r.number]
        BY <2>2, <3>1 DEF Message
      <3>3. reply'[q] = <<TRUE>> => Message(q) \in taken'
        BY <1>1, <1>4, <3>1, <3>2, ReplyIs
      <3>4. ~ timedOut[q] /\ Message(q) \in taken' => reply'[q] # <<FALSE>>
        <4>1. ~ timedOut[q] /\ Message(q) \in taken' => Takers(r) # {}
          BY <1>1, <2>2, <3>1, <3>2 DEF RequestOK, Expected
        <4> QED BY <1>4, <3>1, <4>1, ReplyIs
      <3>5. number[q] # 0
        BY <2>1, <3>1 DEF PeerOK
      <3> QED BY <1>3, <2>1, <3>1, <3>3, <3>4, <3>5 DEF PeerOK
    <2>3. CASE ~ (q = r.peer /\ Awaited(r) /\ Replied(r))
      <3>1. reply'[q] = reply[q]
        BY <1>2, <2>3 DEF Replied, BusInv, TypeOK
      <3>2. ~ timedOut[q] /\ Message(q) \in taken' /\ Message(q) \notin taken =>
                waiting[q] /\ reply[q] = <<>>
        BY <1>1 DEF RequestOK, Expected, Message
      <3>3. Message(q) \in taken => Message(q) \in taken'
        BY <1>1
      <3>4. number[q] = 0 => outcome[q] /\ ~ waiting[q]
        BY <2>1 DEF PeerOK
      <3>5. ~ timedOut[q] /\ Message(q) \in taken' =>
                IF waiting[q] THEN reply[q] # <<FALSE>> ELSE outcome[q]
        BY <2>1, <3>2, ReplyIs DEF PeerOK
      <3> QED BY <1>3, <2>1, <3>1, <3>3, <3>4, <3>5 DEF PeerOK
    <2> QED BY <2>2, <2>3
  <1> QED BY <1>5, <1>6 DEF PeersOK

\* The request is dispatched and gone.
LEMMA HandleBus ==
    ASSUME BusInv, HandleMessage
    PROVE  BusInv'
  <1> DEFINE r == Head(queue)
  <1>1. /\ queue # <<>> /\ Dispatch(r) /\ queue' = Tail(queue) /\ Replied(r)
        /\ UNCHANGED peerVars /\ UNCHANGED <<handlers, faults>>
    BY DEF HandleMessage, Replied
  <1> HIDE DEF r
  <1>2. PICK s : s = r /\ s = Head(queue) /\ Dispatch(s) /\ Replied(s)
    BY <1>1 DEF r
  <1>3. /\ CallsOK' /\ CallsDistinct' /\ TakenOK' /\ taken' \subseteq Messages
        /\ \A c \in calls' : <<c.endpoint, c.type>> \in handlers'
    BY <1>1, <1>2, DispatchCalls
  <1>4. PeersOK' /\ reply' \in [Peers -> {<<>>, <<TRUE>>, <<FALSE>>}]
    BY <1>1, <1>2, DispatchPeers
  <1>5. /\ Len(queue) \in Nat /\ queue' \in Seq(Requests) /\ Len(queue') = Len(queue) - 1
        /\ \A i \in 1 .. Len(queue) - 1 : queue'[i] = queue[i + 1] /\ i + 1 \in 1 .. Len(queue)
    BY <1>1, TailIs DEF BusInv, TypeOK
  <1>6. TypeOK'
    BY <1>1, <1>3, <1>4, <1>5 DEF BusInv, TypeOK, peerVars
  <1>7. QueueOK'
    <2> SUFFICES ASSUME NEW i \in 1 .. Len(queue'), NEW w, w = queue'[i] PROVE RequestOK(w)'
      BY DEF QueueOK, RequestOK, Expected, Message
    <2>1. i + 1 \in 2 .. Len(queue) /\ w = queue[i + 1]
      BY <1>5
    <2> QED BY <1>1, <1>2, <2>1, DispatchOthers
  <1>8. QueueDistinct'
    <2> SUFFICES ASSUME NEW i \in 1 .. Len(queue'), NEW j \in 1 .. Len(queue'),
                        SameTry(queue'[i], queue'[j])
                 PROVE  i = j
      BY DEF QueueDistinct, SameTry
    <2>1. i + 1 = j + 1
      BY <1>5 DEF BusInv, QueueDistinct
    <2> QED BY <2>1
  <1> QED BY <1>3, <1>4, <1>6, <1>7, <1>8 DEF BusInv

\* The request is dispatched and stays, to be dispatched once more.
LEMMA HandleAgainBus ==
    ASSUME BusInv, HandleMessageAgain
    PROVE  BusInv'
  <1> DEFINE r == Head(queue)
  <1>1. /\ queue # <<>> /\ Dispatch(r) /\ queue' = [queue EXCEPT ![1].dispatch = @ + 1]
        /\ reply' = reply /\ MayFault
        /\ UNCHANGED peerVars /\ UNCHANGED handlers
    BY DEF HandleMessageAgain
  <1> HIDE DEF r
  <1>2. PICK s : s = Head(queue) /\ Dispatch(s)
    BY <1>1 DEF r
  <1>3. /\ CallsOK' /\ CallsDistinct' /\ TakenOK' /\ taken' \subseteq Messages
        /\ \A c \in calls' : <<c.endpoint, c.type>> \in handlers'
    BY <1>1, <1>2, DispatchCalls
  <1>4. PeersOK' /\ reply' \in [Peers -> {<<>>, <<TRUE>>, <<FALSE>>}]
    BY <1>1, <1>2, DispatchPeers
  <1>5. /\ s = queue[1] /\ 1 \in 1 .. Len(queue) /\ s \in Requests /\ RequestOK(s)
        /\ \A m \in taken' : \/ m \in taken
                             \/ Takers(s) # {} /\ m = [peer |-> s.peer, number |-> s.number]
        /\ \A c \in calls' : c \in calls \/ CallFor(c, s)
    BY <1>1, <1>2, DispatchIs
  <1> DEFINE t == [s EXCEPT !.dispatch = @ + 1]
  <1>6. /\ t \in Requests /\ t.peer = s.peer /\ t.number = s.number /\ t.try = s.try
        /\ t.envelope = s.envelope /\ t.intact = s.intact /\ t.dispatch = s.dispatch + 1
        /\ s.dispatch \in Nat /\ s.peer \in Peers
    BY <1>5 DEF Requests
  <1>7. /\ queue' \in Seq(Requests) /\ Len(queue') = Len(queue) /\ Len(queue) \in Nat
        /\ queue'[1] = t /\ \A i \in 2 .. Len(queue) : queue'[i] = queue[i]
    <2>1. queue \in Seq(Requests)
      BY DEF BusInv, TypeOK
    <2>2. queue' = [queue EXCEPT ![1] = t]
      BY <1>1, <1>5
    <2> HIDE DEF t
    <2> QED BY <1>5, <1>6, <2>1, <2>2
  <1> HIDE DEF t
  <1>8. TypeOK'
    <2>1. faults' \in 0 .. MaxFaults
      BY <1>1, BusAssumption DEF MayFault, BusInv, TypeOK
    <2> QED BY <1>1, <1>3, <1>4, <1>7, <2>1 DEF BusInv, TypeOK, peerVars
  <1>9. UNCHANGED <<current, number, try, waiting, timedOut>>
    BY <1>1 DEF peerVars
  <1>10. RequestOK(t)'
    <2>1. \A c \in calls' : SameTry(c, t) => c.dispatch < t.dispatch
      <3> SUFFICES ASSUME NEW c \in calls', SameTry(c, s) PROVE c.dispatch < t.dispatch
        BY <1>6 DEF SameTry
      <3>1. c.dispatch \in Nat
        BY <1>3 DEF CallsOK, Calls
      <3>2. c.dispatch < s.dispatch \/ c.dispatch = s.dispatch
        <4>1. CASE c \in calls
          BY <1>5, <4>1 DEF RequestOK
        <4>2. CASE c \notin calls
          BY <1>5, <4>2 DEF CallFor
        <4> QED BY <4>1, <4>2
      <3> QED BY <1>6, <3>1, <3>2
    <2>2. Takers(t) = Takers(s)
      BY <1>6 DEF Takers, HandleIncoming
    <2>3. s.number = number[s.peer] => Expected(t)'
      BY <1>1, <1>5, <1>6, <1>9, <2>2 DEF RequestOK, Expected, Message
    <2> QED BY <1>5, <1>6, <1>9, <2>1, <2>3 DEF RequestOK
  <1>11. QueueOK'
    <2> SUFFICES ASSUME NEW i \in 1 .. Len(queue'), NEW w, w = queue'[i] PROVE RequestOK(w)'
      BY DEF QueueOK, RequestOK, Expected, Message
    <2>1. CASE i = 1
      BY <1>7, <1>10, <2>1
    <2>2. CASE i # 1
      <3>1. i \in 2 .. Len(queue) /\ w = queue[i]
        BY <1>7, <2>2
      <3> QED BY <1>1, <1>2, <3>1, DispatchOthers
    <2> QED BY <2>1, <2>2
  <1>12. QueueDistinct'
    <2> SUFFICES ASSUME NEW i \in 1 .. Len(queue'), NEW j \in 1 .. Len(queue'),
                        SameTry(queue'[i], queue'[j])
                 PROVE  i = j
      BY DEF QueueDistinct, SameTry
    <2>1. \A k \in 1 .. Len(queue) : SameTry(queue'[k], queue[k])
      BY <1>5, <1>6, <1>7 DEF SameTry
    <2>2. SameTry(queue[i], queue[j])
      BY <1>7, <2>1 DEF SameTry
    <2> QED BY <1>7, <2>2 DEF BusInv, QueueDistinct
  <1> QED BY <1>3, <1>4, <1>8, <1>11, <1>12 DEF BusInv

\* Every step keeps the requests, the calls and the answers consistent.
LEMMA NextBus == BusInv /\ [Next]_vars => BusInv'
  <1> SUFFICES ASSUME BusInv, [Next]_vars PROVE BusInv'
    OBVIOUS
  <1>1. CASE Finished \/ UNCHANGED vars
    <2>1. UNCHANGED <<current, number, try, waiting, outcome, timedOut, reply, queue, handlers,
                      faults, taken, calls>>
      BY <1>1 DEF Finished, vars, peerVars
    <2>2. TypeOK' /\ QueueOK' /\ QueueDistinct'
      BY <2>1 DEF BusInv, TypeOK, QueueOK, RequestOK, Expected, Message, QueueDistinct
    <2>3. CallsOK' /\ CallsDistinct' /\ TakenOK'
      BY <2>1 DEF BusInv, CallsOK, CallOK, CallsDistinct, TakenOK
    <2>4. PeersOK'
      BY <2>1, PeerUntouched DEF PeersOK
    <2> QED BY <2>2, <2>3, <2>4 DEF BusInv
  <1> QED
    BY <1>1, RegisterBus, SendBus, ResendBus, AnswerBus, HandleBus, HandleAgainBus DEF Next

\* BusInv is an invariant.
LEMMA BusInductive == Spec => []BusInv
  BY InitBus, NextBus, PTL DEF Spec

\* The types, and no handler is called that is not registered.
THEOREM Typing == Spec => []TypeOK
  <1>1. BusInv => TypeOK
    BY DEF BusInv
  <1> QED BY <1>1, BusInductive, PTL

\* The boolean Send returns can be relied on, whatever is lost, late or repeated.
THEOREM Answered == Spec => []AnswerTrue
  <1>1. BusInv => AnswerTrue
    BY DEF BusInv, PeersOK, PeerOK, AnswerTrue
  <1> QED BY <1>1, BusInductive, PTL

\* A message is handled twice only after a Send of it without an answer, or for
\* want of memory for the answer.
THEOREM Once == Spec => []HandledOnce
  <1>1. BusInv => HandledOnce
    <2> SUFFICES ASSUME BusInv, NEW c \in calls, NEW d \in calls,
                        c.peer = d.peer, c.number = d.number, c.number = number[c.peer],
                        ~ timedOut[c.peer], c.dispatch = 1, d.dispatch = 1
                 PROVE  c = d
      BY DEF HandledOnce
    <2>1. c.try = d.try
      BY DEF BusInv, CallsOK, CallOK
    <2> QED BY <2>1 DEF BusInv, CallsDistinct, SameTry
  <1> QED BY <1>1, BusInductive, PTL

\* A handler is called for messages of its own schema and type only, in whatever
\* order the receiver offers a frame to its endpoints.
THEOREM Own == Spec => []OwnHandler
  <1>1. Init => OwnHandler
    BY DEF Init, OwnHandler
  <1>2. BusInv /\ OwnHandler /\ [Next]_vars => OwnHandler'
    <2> SUFFICES ASSUME BusInv, OwnHandler, [Next]_vars PROVE OwnHandler'
      OBVIOUS
    <2>1. CASE UNCHANGED calls
      BY <2>1 DEF OwnHandler
    <2>2. CASE HandleMessage \/ HandleMessageAgain
      <3>1. PICK r : queue # <<>> /\ r = Head(queue) /\ Dispatch(r)
        BY <2>2 DEF HandleMessage, HandleMessageAgain
      <3>2. \A c \in calls' : c \in calls \/ CallFor(c, r)
        BY <3>1, DispatchIs
      <3> QED BY <3>2 DEF OwnHandler, CallFor
    <2> QED
      BY <2>1, <2>2 DEF Next, vars, Register, Send, Resend, Answer, Timeout, Finished
  <1> QED BY <1>1, <1>2, BusInductive, PTL DEF Spec

-----------------------------------------------------------------------------
(***************************************************************************)
(* Nothing a builder made is lost by a peer with more tries than there are *)
(* faults, if the receiver has the endpoints of what the peers send.       *)
(***************************************************************************)
HasEndpoint(envelope) == \E i \in DOMAIN Order : Order[i] = envelope.identifier

AllOffered ==
    \A p \in Peers : \A envelope \in Traffic[p] \cap BuiltEnvelopes : HasEndpoint(envelope)

\* A peer sends what its traffic is made of.
Sent == \A p \in Peers : number[p] > 0 => current[p] \in Traffic[p]

\* Every step keeps it.
LEMMA SentNext == BusInv /\ Sent /\ [Next]_vars => Sent'
  <1> SUFFICES ASSUME BusInv, Sent, [Next]_vars PROVE Sent'
    OBVIOUS
  <1>1. ASSUME NEW p \in Peers, NEW envelope \in Traffic[p], Send(p, envelope)
        PROVE  Sent'
    BY <1>1 DEF Send, Sent, BusInv, TypeOK
  <1>2. CASE UNCHANGED <<current, number>>
    BY <1>2 DEF Sent
  <1> QED
    BY <1>1, <1>2 DEF Next, vars, peerVars, Register, Resend, Answer, Timeout, HandleMessage,
       HandleMessageAgain, Finished

\* Every type that is built has a case in its endpoint's HandleFrame: an intact
\* request with a built message is taken.
LEMMA BuiltTaken ==
    ASSUME NEW r, r.intact, r.envelope \in BuiltEnvelopes, HasEndpoint(r.envelope)
    PROVE  Takers(r) # {}
  <1>0. PICK e \in Schemas : \E type \in BuiltTypes(e) : r.envelope = Built(e, type)
    BY DEF BuiltEnvelopes
  <1>1. PICK type \in BuiltTypes(e) : r.envelope = Built(e, type)
    BY <1>0
  <1> DEFINE n == CHOOSE m \in DOMAIN Union(e) : Union(e)[m] = type
  <1>2. n \in DOMAIN Union(e) /\ Union(e)[n] = type
    BY <1>1, BusAssumption
  <1> HIDE DEF n
  <1>3. /\ r.envelope.identifier = e /\ r.envelope.tag = n
        /\ r.envelope.body = TRUE /\ r.envelope.sound = TRUE
    BY <1>1 DEF Built, n
  <1>4. TypeOf(e, r.envelope) = type
    BY <1>2, <1>3 DEF TypeOf
  <1>5. type \in Cases(e)
    BY <1>1 DEF Schemas, BuiltTypes, MidiBuilt, PwmBuilt, OtaBuilt, LogBuilt,
                Cases, MidiCases, PwmCases, OtaCases, LogCases
  <1>6. HandleIncoming(e, r)
    BY <1>3, <1>4, <1>5 DEF HandleIncoming, HandleFrame, HasIdentifier, HasCase
  <1> QED BY <1>3, <1>6 DEF Takers, HasEndpoint

\* One more Send of a message, or the first: it is on its way or a fault was met.
LEMMA TransmitLosses ==
    ASSUME BusInv, NEW p \in Peers, NEW n \in Nat, NEW k \in Nat, NEW envelope \in Envelopes,
           Transmit(p, n, k, envelope),
           number' = [number EXCEPT ![p] = n], try' = [try EXCEPT ![p] = k],
           current' = [current EXCEPT ![p] = envelope], taken' = taken,
           Losses,
           envelope \in BuiltEnvelopes /\ Message(p)' \notin taken /\ ~ OnItsWay(p)'
                => k <= faults + 1
    PROVE  Losses'
  <1>1. /\ Len(queue) \in Nat
        /\ \A i \in 1 .. Len(queue) : i \in 1 .. Len(queue') /\ queue'[i] = queue[i]
        /\ \A i \in 1 .. Len(queue') : i \notin 1 .. Len(queue) =>
              /\ queue'[i].peer = p /\ queue'[i].number = n
              /\ i = Len(queue) + 1
        /\ \/ /\ faults' = faults
              /\ Len(queue) + 1 \in 1 .. Len(queue') /\ queue'[Len(queue) + 1].intact
           \/ faults' = faults + 1
        /\ faults' \in 0 .. MaxFaults /\ faults <= faults'
    BY TransmitIs DEF BusInv
  <1>2. /\ number'[p] = n /\ try'[p] = k /\ current'[p] = envelope
        /\ \A q \in Peers \ {p} : /\ number'[q] = number[q] /\ try'[q] = try[q]
                                  /\ current'[q] = current[q]
    BY DEF BusInv, TypeOK
  <1> SUFFICES ASSUME NEW q \in Peers, number'[q] > 0, current'[q] \in BuiltEnvelopes,
                      Message(q)' \notin taken, ~ OnItsWay(q)'
               PROVE  try'[q] <= faults'
    BY DEF Losses, BuiltEnvelopes
  <1>3. faults \in Nat /\ faults' \in Nat /\ \A y \in Peers : try[y] \in Nat
    BY <1>1, NumbersKnown, BusAssumption DEF BusInv, TypeOK
  <1>4. CASE q = p
    <2>1. faults' # faults
      <3> SUFFICES ASSUME faults' = faults PROVE OnItsWay(p)'
        BY <1>4
      <3> DEFINE j == Len(queue) + 1
      <3>1. j \in 1 .. Len(queue') /\ queue'[j].intact /\ j \notin 1 .. Len(queue)
        BY <1>1, <1>3
      <3>2. queue'[j].peer = p /\ queue'[j].number = number'[p]
        BY <1>1, <1>2, <3>1
      <3> QED BY <3>1, <3>2 DEF OnItsWay
    <2> QED BY <1>1, <1>2, <1>3, <1>4, <2>1
  <1>5. CASE q # p
    <2>1. ~ OnItsWay(q)
      BY <1>1, <1>2, <1>5 DEF OnItsWay
    <2>2. Message(q)' = Message(q)
      BY <1>2, <1>5 DEF Message
    <2>3. try[q] <= faults
      BY <1>2, <1>5, <2>1, <2>2 DEF Losses
    <2> QED BY <1>1, <1>2, <1>3, <1>5, <2>3
  <1> QED BY <1>4, <1>5

\* Every step counts its faults.
LEMMA LossesNext ==
    ASSUME AllOffered
    PROVE  BusInv /\ Sent /\ Losses /\ [Next]_vars => Losses'
  <1> SUFFICES ASSUME BusInv, Sent, Losses, [Next]_vars PROVE Losses'
    OBVIOUS
  <1>0. /\ \A y \in Peers : try[y] \in Nat /\ number[y] \in Nat
        /\ faults \in Nat /\ number \in [Peers -> Nat] /\ current \in [Peers -> Envelopes]
    BY NumbersKnown, BusAssumption DEF BusInv, TypeOK
  <1>1. ASSUME NEW p \in Peers, NEW envelope \in Traffic[p], Send(p, envelope)
        PROVE  Losses'
    <2>1. envelope \in Envelopes /\ number[p] + 1 \in Nat /\ 1 <= faults + 1
      BY <1>0, BusAssumption
    <2>2. /\ Transmit(p, number[p] + 1, 1, envelope)
          /\ current' = [current EXCEPT ![p] = envelope]
          /\ number' = [number EXCEPT ![p] = number[p] + 1]
          /\ try' = [try EXCEPT ![p] = 1] /\ taken' = taken
      BY <1>1 DEF Send
    <2> QED BY <2>1, <2>2, TransmitLosses
  <1>2. ASSUME NEW p \in Peers, Resend(p)
        PROVE  Losses'
    <2>1. /\ Transmit(p, number[p], try[p] + 1, current[p])
          /\ current' = [current EXCEPT ![p] = current[p]]
          /\ number' = [number EXCEPT ![p] = number[p]]
          /\ try' = [try EXCEPT ![p] = try[p] + 1] /\ taken' = taken
          /\ Message(p)' = Message(p) /\ number' = number
          /\ ~ waiting[p] /\ ~ outcome[p]
      BY <1>0, <1>2 DEF Resend, Message
    <2>2. current[p] \in Envelopes /\ try[p] + 1 \in Nat
      BY <1>0
    <2>3. OnItsWay(p) => OnItsWay(p)'
      <3>1. \A i \in 1 .. Len(queue) : i \in 1 .. Len(queue') /\ queue'[i] = queue[i]
        BY <1>0, <2>1, <2>2, TransmitIs DEF BusInv
      <3> QED BY <2>1, <3>1 DEF OnItsWay
    <2>4. number[p] # 0
      BY <2>1 DEF BusInv, PeersOK, PeerOK
    <2>5. current[p] \in BuiltEnvelopes /\ Message(p)' \notin taken /\ ~ OnItsWay(p)'
                => try[p] + 1 <= faults + 1
      BY <1>0, <2>1, <2>3, <2>4 DEF Losses
    <2> QED BY <1>0, <2>1, <2>2, <2>5, TransmitLosses
  <1>3. CASE HandleMessage \/ HandleMessageAgain
    <2>1. PICK r : queue # <<>> /\ r = Head(queue) /\ Dispatch(r)
      BY <1>3 DEF HandleMessage, HandleMessageAgain
    <2>2. UNCHANGED <<current, number, try>> /\ faults' \in Nat /\ faults <= faults'
      BY <1>0, <1>3 DEF HandleMessage, HandleMessageAgain, peerVars, MayFault
    <2>3. /\ r = queue[1] /\ 1 \in 1 .. Len(queue) /\ r \in Requests /\ RequestOK(r)
          /\ \A m \in taken : m \in taken'
          /\ Takers(r) # {} => [peer |-> r.peer, number |-> r.number] \in taken'
      BY <2>1, DispatchIs
    <2> SUFFICES ASSUME NEW q \in Peers, number[q] > 0, current[q] \in BuiltEnvelopes,
                        Message(q) \notin taken', ~ OnItsWay(q)'
                 PROVE  try[q] <= faults'
      BY <2>2 DEF Losses, BuiltEnvelopes, Message
    <2>4. ~ OnItsWay(q)
      <3> SUFFICES ASSUME NEW i \in 1 .. Len(queue), queue[i].peer = q,
                          queue[i].number = number[q], queue[i].intact
                   PROVE  FALSE
        BY DEF OnItsWay
      <3>1. CASE i = 1
        <4>1. r.envelope = current[q]
          BY <2>3, <3>1 DEF RequestOK
        <4>2. Takers(r) # {}
          BY <2>3, <3>1, <4>1, BuiltTaken DEF AllOffered, Sent
        <4> QED BY <2>3, <3>1, <4>2 DEF Message
      <3>2. CASE i # 1
        <4>1. queue \in Seq(Requests) /\ Len(queue) \in Nat
          BY <2>1, TailIs DEF BusInv, TypeOK
        <4>2. CASE HandleMessage
          <5>1. queue' = Tail(queue)
            BY <4>2 DEF HandleMessage
          <5>2. i - 1 \in 1 .. Len(queue') /\ queue'[i - 1] = queue[i]
            BY <2>1, <3>2, <4>1, <5>1
          <5> QED BY <2>2, <5>2 DEF OnItsWay
        <4>3. CASE HandleMessageAgain
          <5>1. queue' = [queue EXCEPT ![1].dispatch = @ + 1]
            BY <4>3 DEF HandleMessageAgain
          <5>2. i \in 1 .. Len(queue') /\ queue'[i] = queue[i]
            BY <3>2, <4>1, <5>1
          <5> QED BY <2>2, <5>2 DEF OnItsWay
        <4> QED BY <1>3, <4>2, <4>3
      <3> QED BY <3>1, <3>2
    <2>5. try[q] <= faults
      BY <2>3, <2>4 DEF Losses
    <2> QED BY <1>0, <2>2, <2>5
  <1>4. CASE UNCHANGED <<current, number, try, queue, faults, taken>>
    BY <1>4 DEF Losses, OnItsWay, Message
  <1>5. ASSUME NEW p \in Peers, Answer(p) \/ Timeout(p)
        PROVE  UNCHANGED <<current, number, try, queue, faults, taken>>
    BY <1>5 DEF Answer, Timeout
  <1>6. ASSUME NEW h \in Late, Register(h)
        PROVE  UNCHANGED <<current, number, try, queue, faults, taken>>
    BY <1>6 DEF Register, peerVars
  <1>7. CASE Finished \/ UNCHANGED vars
    BY <1>4, <1>7 DEF Finished, vars, peerVars
  <1> QED BY <1>1, <1>2, <1>3, <1>4, <1>5, <1>6, <1>7 DEF Next

\* With more tries than faults a message a builder made arrives.
THEOREM Delivered ==
    ASSUME AllOffered, MaxTries > MaxFaults
    PROVE  Spec => []Arrives
  <1>1. Init => Sent /\ Losses
    BY DEF Init, Sent, Losses
  <1>2. BusInv /\ Sent /\ Losses /\ [Next]_vars => Sent' /\ Losses'
    BY SentNext, LossesNext
  <1>3. BusInv /\ Losses => Arrives
    <2> SUFFICES ASSUME BusInv, Losses, NEW p \in Peers, Done(p), number[p] > 0,
                        current[p] \in BuiltEnvelopes, Message(p) \notin taken
                 PROVE  OnItsWay(p)
      BY DEF Arrives, OnItsWay
    <2>1. ~ waiting[p] /\ ~ outcome[p] /\ try[p] = MaxTries
      BY DEF Done, BusInv, PeersOK, PeerOK
    <2>2. faults \in 0 .. MaxFaults /\ MaxFaults \in Nat /\ MaxTries \in Nat
      BY BusAssumption DEF BusInv, TypeOK
    <2> QED BY <2>1, <2>2 DEF Losses
  <1> QED BY <1>1, <1>2, <1>3, BusInductive, PTL DEF Spec
=============================================================================
