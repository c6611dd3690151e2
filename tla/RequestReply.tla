------------------------------ MODULE RequestReply ------------------------------
(***************************************************************************)
(* What the users of the IPC service are promised: a call comes back with  *)
(* an answer to the request it made, at most once, and the next call of    *)
(* the client starts afresh.  A kill switch is sent and not answered.      *)
(***************************************************************************)
EXTENDS Naturals, Sequences

CONSTANTS Clients, Requests

VARIABLE dialogue   \* what every client knows of its last call, [state, request, response]

\* the requests the service has to work on; anything else it has to refuse
WellFormed(request) ==
    \/ /\ request.variant = "route"
       /\ request.coordinates = 2
       /\ request.departure # request.arrival
       /\ Len(request.radii) \in {0, 2}
       /\ request.reasonable
    \/ request.variant = "tile" /\ request.reasonable

\* the answers a client may get to a request
Promise(request) ==
    IF request.variant = "kill_switch" THEN IF request.value THEN {} ELSE {"I am awake!"}
    ELSE IF request.variant \in {"none", "garbage"} THEN {"invalid request"}
    ELSE IF ~ WellFormed(request) THEN {"invalid parameters"}
    ELSE IF request.variant = "route" THEN {"route", "No Route"}
    ELSE {"tile"}

Idle(request, response) == [state |-> "idle", request |-> request, response |-> response]

Init == dialogue = [ c \in Clients |-> Idle({}, {}) ]

Call(c) ==
    /\ dialogue[c].state = "idle"
    /\ \E request \in Requests :
          dialogue' = [dialogue EXCEPT ![c] =
                          [ state    |-> IF Promise(request) = {} THEN "spent" ELSE "waiting",
                            request  |-> {request},
                            response |-> {} ]]

Return(c) ==
    /\ dialogue[c].state = "waiting"
    /\ \E request \in dialogue[c].request : \E response \in Promise(request) :
          dialogue' = [dialogue EXCEPT ![c] = Idle({request}, {response})]

Next == \E c \in Clients : Call(c) \/ Return(c)

Spec == Init /\ [][Next]_dialogue
================================================================================
