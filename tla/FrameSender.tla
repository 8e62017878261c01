---------------------------- MODULE FrameSender ----------------------------
(***************************************************************************)
(* What a caller may take FrameTransport::Send for: it gives the payload   *)
(* the transport's next number, and then, at one moment before it returns, *)
(* the frame is either accepted by the transport's link or not, and Send   *)
(* returns which.  There are no buffers and no locks, and nothing that is  *)
(* accepted changes any more.                                              *)
(***************************************************************************)
EXTENDS Integers, Sequences

CONSTANTS
    Callers,
    Channels,       \* the transports
    Outputs,        \* the links
    OutputOf,       \* the link of each transport
    Messages,       \* payloads
    NextNumber(_)   \* the number after a number

VARIABLES
    next,      \* the number each transport gives next
    pending,   \* the frame a caller is sending: {} or the set of it
    accepted,  \* the frames each link has accepted, in order
    result     \* what a caller's last Send returned

vars == <<next, pending, accepted, result>>

Init ==
    /\ next = [x \in Channels |-> 1]
    /\ pending = [c \in Callers |-> {}]
    /\ accepted = [o \in Outputs |-> <<>>]
    /\ result = [c \in Callers |-> TRUE]

Call(c) ==
    /\ pending[c] = {}
    /\ \E x \in Channels, message \in Messages :
        /\ pending' = [pending EXCEPT ![c] =
                          {[transport |-> x, seq |-> next[x], payload |-> message]}]
        /\ next' = [next EXCEPT ![x] = NextNumber(@)]
    /\ UNCHANGED <<accepted, result>>

Accept(c) ==
    /\ \E frame \in pending[c] :
        accepted' = [accepted EXCEPT ![OutputOf[frame.transport]] = Append(@, frame)]
    /\ pending' = [pending EXCEPT ![c] = {}]
    /\ result' = [result EXCEPT ![c] = TRUE]
    /\ UNCHANGED next

\* The link, or a check before it, has refused; or there was nothing to send.
Refuse(c) ==
    /\ pending' = [pending EXCEPT ![c] = {}]
    /\ result' = [result EXCEPT ![c] = FALSE]
    /\ UNCHANGED <<next, accepted>>

Next == \E c \in Callers : Call(c) \/ Accept(c) \/ Refuse(c)

Spec == Init /\ [][Next]_vars
=============================================================================
