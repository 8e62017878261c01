----------------------------- MODULE RequestBus -----------------------------
(***************************************************************************)
(* Programs that send messages over a request/response medium to a program *)
(* with several endpoints, as the D-Bus transport of the repository does   *)
(* it: write_ sends the frame as a request and blocks for the boolean in   *)
(* the reply, which is what HandleIncoming returned at the other end.      *)
(*                                                                         *)
(* The request may be lost or damaged, or not even leave, and the wait may *)
(* end before the reply has come, or before the request was looked at.  A  *)
(* peer whose Send returned false may send the message again; with a new   *)
(* sequence number, which nobody looks at.  A receiver that finds no       *)
(* memory for its reply has the request dispatched to it once more.        *)
(***************************************************************************)
EXTENDS Endpoint

CONSTANTS
    Peers,
    Traffic,      \* the envelopes each peer sends
    Order,        \* the receiver's endpoints, in the order it offers a frame to them
    Late,         \* the handlers registered after the start, <<endpoint, type>>
    MaxMessages,  \* bound: messages of a peer
    MaxTries,     \* bound: Sends of one message
    MaxFaults     \* bound: requests lost, damaged or not made, and replies not made

Handlers == UNION {{<<e, type>> : type \in Cases(e)} : e \in Schemas}

ASSUME BusAssumption ==
    /\ Traffic \in [Peers -> SUBSET Envelopes]
    /\ Order \in Seq(Schemas)
    /\ Late \subseteq Handlers
    /\ \A e \in Schemas : BuiltTypes(e) \subseteq {Union(e)[n] : n \in DOMAIN Union(e)}
    /\ MaxMessages \in [Peers -> Nat] /\ MaxTries \in Nat \ {0} /\ MaxFaults \in Nat

VARIABLES
    current,   \* the message each peer sends, or sent last
    number,    \* how many messages a peer has begun
    try,       \* how often Send was called for the current one
    waiting,   \* a peer is in Send, blocked for the reply
    reply,     \* the reply on its way to a waiting peer
    outcome,   \* what a peer's last Send returned
    queue,     \* the requests the receiving program has not dispatched
    handlers,  \* the handlers registered with its endpoints
    faults,    \* what has gone wrong so far
    timedOut,  \* history: a Send of the current message ended without a reply
    taken,     \* history: the messages some endpoint has accepted
    calls      \* history: the calls of handlers

peerVars == <<current, number, try, waiting, outcome, timedOut>>
vars == <<peerVars, reply, queue, handlers, faults, taken, calls>>

Messages == [peer : Peers, number : Nat]

Requests ==
    [peer : Peers, number : Nat, try : Nat, dispatch : Nat, envelope : Envelopes,
     intact : BOOLEAN]

NoEnvelope == [identifier |-> "none", tag |-> 0, body |-> FALSE, sound |-> FALSE]

Message(p) == [peer |-> p, number |-> number[p]]

Init ==
    /\ current = [p \in Peers |-> NoEnvelope]
    /\ number = [p \in Peers |-> 0]
    /\ try = [p \in Peers |-> 0]
    /\ waiting = [p \in Peers |-> FALSE]
    /\ reply = [p \in Peers |-> <<>>]
    /\ outcome = [p \in Peers |-> TRUE]
    /\ queue = <<>>
    /\ handlers = Handlers \ Late
    /\ faults = 0
    /\ timedOut = [p \in Peers |-> FALSE]
    /\ taken = {}
    /\ calls = {}

\* OnBegin, OnData, ...
Register(h) ==
    /\ h \in Late \ handlers
    /\ handlers' = handlers \cup {h}
    /\ UNCHANGED <<peerVars, reply, queue, faults, taken, calls>>

MayFault == faults < MaxFaults /\ faults' = faults + 1

\* write_ passes the frame on and blocks, unless it cannot make the request.
\* The medium may lose or damage it.
Transmit(p, n, k, envelope) ==
    LET request(intact) == [peer |-> p, number |-> n, try |-> k, dispatch |-> 1,
                            envelope |-> envelope, intact |-> intact] IN
    \/ /\ queue' = Append(queue, request(TRUE))
       /\ waiting' = [waiting EXCEPT ![p] = TRUE]
       /\ UNCHANGED <<outcome, faults>>
    \/ /\ MayFault
       /\ queue' \in {queue, Append(queue, request(FALSE))}
       /\ waiting' = [waiting EXCEPT ![p] = TRUE]
       /\ UNCHANGED outcome
    \/ /\ MayFault
       /\ outcome' = [outcome EXCEPT ![p] = FALSE]
       /\ UNCHANGED <<queue, waiting>>

\* A peer is done with a message when it is acknowledged or given up.
Done(p) == ~ waiting[p] /\ (outcome[p] \/ try[p] = MaxTries)

Send(p, envelope) ==
    /\ Done(p) /\ number[p] < MaxMessages[p]
    /\ current' = [current EXCEPT ![p] = envelope]
    /\ number' = [number EXCEPT ![p] = @ + 1]
    /\ try' = [try EXCEPT ![p] = 1]
    /\ timedOut' = [timedOut EXCEPT ![p] = FALSE]
    /\ Transmit(p, number[p] + 1, 1, envelope)
    /\ UNCHANGED <<reply, handlers, taken, calls>>

Resend(p) ==
    /\ ~ waiting[p] /\ ~ outcome[p] /\ try[p] < MaxTries
    /\ try' = [try EXCEPT ![p] = @ + 1]
    /\ Transmit(p, number[p], try[p] + 1, current[p])
    /\ UNCHANGED <<current, number, timedOut, reply, handlers, taken, calls>>

\* The endpoints that would take a frame, by their place in the order.
Takers(frame) == {i \in DOMAIN Order : HandleIncoming(Order[i], frame)}

\* Mutant: only the first endpoint is asked for its result.
OfferedFirstOnly(frame) == HandleIncoming(Order[1], frame)

\* What the receiver answers: the endpoints are asked in turn, until one has
\* taken the frame.
Offered(frame) == Takers(frame) # {}

\* The calls of handlers a request leads to.
CallsOf(request) ==
    LET e == Order[Min(Takers(request))] IN
    IF Takers(request) # {} /\ CallsHandler(e, request.envelope, handlers)
    THEN {[peer |-> request.peer, number |-> request.number, try |-> request.try,
           dispatch |-> request.dispatch, endpoint |-> e, type |-> TypeOf(e, request.envelope),
           envelope |-> request.envelope]}
    ELSE {}

\* The peer that waits for the answer to this request, if it still does.
Awaited(request) ==
    LET p == request.peer IN
    waiting[p] /\ number[p] = request.number /\ try[p] = request.try

\* The receiver offers the next request to its endpoints.
Dispatch(request) ==
    /\ calls' = calls \cup CallsOf(request)
    /\ taken' = IF Takers(request) = {} THEN taken
                ELSE taken \cup {[peer |-> request.peer, number |-> request.number]}

\* It dispatches a request and replies.
HandleMessage ==
    LET request == Head(queue) IN
    /\ queue # <<>>
    /\ Dispatch(request)
    /\ queue' = Tail(queue)
    /\ reply' = IF Awaited(request)
                THEN [reply EXCEPT ![request.peer] = <<Offered(request)>>]
                ELSE reply
    /\ UNCHANGED <<peerVars, handlers, faults>>

\* It finds no memory for the reply, with the request already dispatched: the
\* request goes back to where it was.
HandleMessageAgain ==
    /\ queue # <<>>
    /\ MayFault
    /\ Dispatch(Head(queue))
    /\ queue' = [queue EXCEPT ![1].dispatch = @ + 1]
    /\ UNCHANGED <<peerVars, reply, handlers>>

\* The reply ends the wait; Send returns what it says.
Answer(p) ==
    /\ waiting[p] /\ reply[p] # <<>>
    /\ outcome' = [outcome EXCEPT ![p] = reply[p][1]]
    /\ waiting' = [waiting EXCEPT ![p] = FALSE]
    /\ reply' = [reply EXCEPT ![p] = <<>>]
    /\ UNCHANGED <<current, number, try, timedOut, queue, handlers, faults, taken, calls>>

\* No reply in time: Send returns false.  A reply that comes later is dropped.
Timeout(p) ==
    /\ waiting[p]
    /\ outcome' = [outcome EXCEPT ![p] = FALSE]
    /\ waiting' = [waiting EXCEPT ![p] = FALSE]
    /\ reply' = [reply EXCEPT ![p] = <<>>]
    /\ timedOut' = [timedOut EXCEPT ![p] = TRUE]
    /\ UNCHANGED <<current, number, try, queue, handlers, faults, taken, calls>>

\* Every peer has sent its messages: the run is over.
Finished ==
    /\ \A p \in Peers : Done(p) /\ number[p] = MaxMessages[p]
    /\ queue = <<>> /\ Late \subseteq handlers
    /\ UNCHANGED vars

-----------------------------------------------------------------------------
Next ==
    \/ \E h \in Late : Register(h)
    \/ \E p \in Peers :
          \/ \E envelope \in Traffic[p] : Send(p, envelope)
          \/ Resend(p)
          \/ Answer(p)
          \/ Timeout(p)
    \/ HandleMessage \/ HandleMessageAgain
    \/ Finished

Spec == Init /\ [][Next]_vars

-----------------------------------------------------------------------------
(***************************************************************************)
(* Properties.                                                             *)
(***************************************************************************)

\* The values of the variables; no handler is called that is not registered.
TypeOK ==
    /\ current \in [Peers -> Envelopes]
    /\ number \in [Peers -> Nat]
    /\ try \in [Peers -> 0 .. MaxTries]
    /\ waiting \in [Peers -> BOOLEAN]
    /\ reply \in [Peers -> {<<>>, <<TRUE>>, <<FALSE>>}]
    /\ outcome \in [Peers -> BOOLEAN]
    /\ queue \in Seq(Requests)
    /\ handlers \subseteq Handlers
    /\ faults \in 0 .. MaxFaults
    /\ timedOut \in [Peers -> BOOLEAN]
    /\ taken \subseteq Messages
    /\ \A c \in calls : <<c.endpoint, c.type>> \in handlers

\* A handler is called for a message of its own schema and type only, whichever
\* endpoints of the program were offered the frame first.
OwnHandler ==
    \A c \in calls :
        /\ c.endpoint = c.envelope.identifier
        /\ c.type = TypeOf(c.envelope.identifier, c.envelope)

\* The boolean can be relied on: true means an endpoint has taken the message,
\* now or in an earlier Send of it; false in answer to every Send of it means
\* none has.
AnswerTrue ==
    \A p \in Peers : ~ waiting[p] /\ number[p] > 0 =>
        /\ outcome[p] => Message(p) \in taken
        /\ ~ outcome[p] /\ ~ timedOut[p] => Message(p) \notin taken

\* A message is handled twice only if a Send of it ended without an answer, or
\* for want of memory for the answer.
HandledOnce ==
    \A c, d \in calls :
        c.peer = d.peer /\ c.number = d.number /\ c.number = number[c.peer]
            /\ ~ timedOut[c.peer] /\ c.dispatch = 1 /\ d.dispatch = 1
            => c = d

\* A message a builder made is never lost by a peer that uses its tries (while
\* they are more than the requests that can be lost): when the peer is done with it,
\* it has been taken, or an intact request with it is still to be dispatched.
Arrives ==
    \A p \in Peers :
        Done(p) /\ number[p] > 0 /\ current[p] \in BuiltEnvelopes =>
            \/ Message(p) \in taken
            \/ \E i \in 1 .. Len(queue) :
                  /\ queue[i].peer = p /\ queue[i].number = number[p]
                  /\ queue[i].intact
=============================================================================
