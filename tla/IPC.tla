---------------------------------- MODULE IPC ----------------------------------
(***************************************************************************)
(* ipc::Service::listen and the ipc::RequestHandlers that talk to it over  *)
(* 0MQ.  Every client owns one REQ socket, the service one REP socket.     *)
(* A message to the service is first in the pipe of the client's socket    *)
(* (unsent) and then in the one of the service's socket (received); what   *)
(* the service's socket holds is gone when that socket is destroyed.       *)
(*                                                                         *)
(* A request is a record [variant, ...] with the variants of the protocol  *)
(* buffer: "route", "tile", "kill_switch", and "none" for an empty         *)
(* message, "garbage" for one that does not parse.                         *)
(***************************************************************************)
EXTENDS Naturals, Sequences, FiniteSets

CONSTANTS
    Clients,
    Requests,        \* what the clients may ask
    SearchOutcomes,  \* what a search can end with: "route", "No Route", "crash"
    TileOutcomes,    \* and what making a tile can: "tile", "crash"
    MaxCalls,        \* bound on the calls of a client
    MaxStarts        \* bound on how often the service is started

ASSUME IPCAssumption ==
    /\ SearchOutcomes \subseteq {"route", "No Route", "crash"} /\ SearchOutcomes # {}
    /\ TileOutcomes \subseteq {"tile", "crash"} /\ TileOutcomes # {}
    /\ MaxCalls \in Nat
    /\ MaxStarts \in Nat

\* the fields the variants of the protocol buffer have
ASSUME RequestAssumption ==
    \A request \in Requests :
        \/ request.variant \in {"none", "garbage"}
        \/ request.variant = "kill_switch" /\ request.value \in BOOLEAN
        \/ request.variant = "tile" /\ request.reasonable \in BOOLEAN
        \/ /\ request.variant = "route" /\ request.radii \in Seq(Nat)
           /\ {request.departure, request.arrival, request.reasonable} \subseteq BOOLEAN

VARIABLES
    service,   \* "starting", "listening", "handling", "hung", "stopped" or "crashed"
    starts,    \* how often the service has been started
    current,   \* the client whose request is being handled, with the request
    unsent,    \* for every client, the message in the pipe of its socket
    received,  \* for every client, its message in the socket of the service
    reply,     \* for every client, the answer on its way back
    client     \* for every client [state, calls, request, response]

vars == << service, starts, current, unsent, received, reply, client >>

Nobody == [ c \in Clients |-> {} ]

Running == {"listening", "handling", "hung"}

-----------------------------------------------------------------------------
(* handle_request and what the service answers                              *)

\* the radius of the first coordinate, used for both of them
Radius(request) == IF request.radii = << >> THEN 1500 ELSE Head(request.radii)

\* mutant of Refused: a departure and an arrival at once are accepted
RefusedUnlessTimed(request) ==
    \/ request.coordinates # 2
    \/ ~ request.arrival /\ ~ request.departure
    \/ Len(request.radii) > 0 /\ Len(request.radii) # request.coordinates
    \/ ~ request.reasonable

Refused(request) ==
    \/ request.coordinates # 2
    \/ ~ request.arrival /\ ~ request.departure
    \/ request.arrival /\ request.departure
    \/ Len(request.radii) > 0 /\ Len(request.radii) # request.coordinates
    \/ ~ request.reasonable

\* service::Route: doubling a radius of zero never finds another stop, and only
\* a departure leads to a search
Routed(request) ==
    (IF Radius(request) = 0 THEN {"hang"} ELSE {})
    \cup (IF request.departure THEN SearchOutcomes ELSE {"No Route"})

\* mutant of Answers: the presence of the kill switch stops the service
AnswersByPresence(request) ==
    IF request.variant = "kill_switch" THEN {"break"}
    ELSE IF request.variant = "route"
    THEN IF Refused(request) THEN {"invalid parameters"} ELSE Routed(request)
    ELSE IF request.variant = "tile"
    THEN IF request.reasonable THEN TileOutcomes ELSE {"invalid parameters"}
    ELSE {"invalid request"}

Answers(request) ==
    IF request.variant = "kill_switch"
    THEN IF request.value THEN {"break"} ELSE {"I am awake!"}
    ELSE IF request.variant = "route"
    THEN IF Refused(request) THEN {"invalid parameters"} ELSE Routed(request)
    ELSE IF request.variant = "tile"
    THEN IF request.reasonable THEN TileOutcomes ELSE {"invalid parameters"}
    ELSE {"invalid request"}

-----------------------------------------------------------------------------

Init ==
    /\ service = "starting"
    /\ starts = 0
    /\ current = {}
    /\ unsent = Nobody
    /\ received = Nobody
    /\ reply = Nobody
    /\ client = [ c \in Clients |->
                    [state |-> "idle", calls |-> 0, request |-> {}, response |-> {}] ]

-----------------------------------------------------------------------------
(* RequestHandler                                                           *)

\* mutant of Call: send_shutdown sends the kill switch with its default value
CallAlive(c, request) ==
    /\ client[c].state = "idle"
    /\ client[c].calls < MaxCalls
    /\ unsent' = [unsent EXCEPT ![c] = { IF request.variant = "kill_switch"
                                        THEN [request EXCEPT !.value = FALSE]
                                        ELSE request }]
    /\ client' = [client EXCEPT ![c] =
                     [ state    |-> IF request.variant = "kill_switch" THEN "spent" ELSE "waiting",
                       calls    |-> @.calls + 1,
                       request  |-> {request},
                       response |-> {} ]]
    /\ UNCHANGED << service, starts, current, received, reply >>

\* do_request up to its recv, and send_shutdown, after which the socket waits
\* for an answer that nobody reads
Call(c, request) ==
    /\ client[c].state = "idle"
    /\ client[c].calls < MaxCalls
    /\ unsent' = [unsent EXCEPT ![c] = {request}]
    /\ client' = [client EXCEPT ![c] =
                     [ state    |-> IF request.variant = "kill_switch" /\ request.value
                                    THEN "spent" ELSE "waiting",
                       calls    |-> @.calls + 1,
                       request  |-> {request},
                       response |-> {} ]]
    /\ UNCHANGED << service, starts, current, received, reply >>

\* the recv of do_request
Return(c) ==
    /\ client[c].state = "waiting"
    /\ reply[c] # {}
    /\ client' = [client EXCEPT ![c] =
                     [ state    |-> "idle",
                       calls    |-> @.calls,
                       request  |-> @.request,
                       response |-> reply[c] ]]
    /\ reply' = [reply EXCEPT ![c] = {}]
    /\ UNCHANGED << service, starts, current, unsent, received >>

-----------------------------------------------------------------------------
(* 0MQ                                                                      *)

\* its threads run whatever the service does, as long as the socket is bound
Transmit(c) ==
    /\ service \in Running
    /\ unsent[c] # {}
    /\ received' = [received EXCEPT ![c] = unsent[c]]
    /\ unsent' = [unsent EXCEPT ![c] = {}]
    /\ UNCHANGED << service, starts, current, reply, client >>

-----------------------------------------------------------------------------
(* Service                                                                  *)

\* the constructor loads the data, listen binds the socket; a service that is
\* gone can be started again on the same address
Start ==
    /\ service \in {"starting", "stopped", "crashed"}
    /\ starts < MaxStarts
    /\ service' = "listening"
    /\ starts' = starts + 1
    /\ UNCHANGED << current, unsent, received, reply, client >>

\* mutant of Receive: the message stays in the socket
ReceiveAgain(c) ==
    /\ service = "listening"
    /\ received[c] # {}
    /\ service' = "handling"
    /\ current' = { [client |-> c, request |-> request] : request \in received[c] }
    /\ UNCHANGED << starts, unsent, received, reply, client >>

\* mutant of Receive: the socket is opened anew for every request
ReceiveAnew(c) ==
    /\ service = "listening"
    /\ received[c] # {}
    /\ service' = "handling"
    /\ current' = { [client |-> c, request |-> request] : request \in received[c] }
    /\ received' = Nobody
    /\ UNCHANGED << starts, unsent, reply, client >>

Receive(c) ==
    /\ service = "listening"
    /\ received[c] # {}
    /\ service' = "handling"
    /\ current' = { [client |-> c, request |-> request] : request \in received[c] }
    /\ received' = [received EXCEPT ![c] = {}]
    /\ UNCHANGED << starts, unsent, reply, client >>

\* mutant of Respond: the kill switch is answered like any other request
RespondToKill ==
    /\ service = "handling"
    /\ \E job \in current :
         \E answer \in Answers(job.request) \ {"hang", "crash"} :
            reply' = [reply EXCEPT ![job.client] = {answer}]
    /\ service' = "listening"
    /\ current' = {}
    /\ UNCHANGED << starts, unsent, received, client >>

\* mutant of Respond: an invalid request is dropped
RespondIfValid ==
    /\ service = "handling"
    /\ \E job \in current :
         \E answer \in Answers(job.request) \ {"break", "hang", "crash"} :
            reply' = [reply EXCEPT ![job.client] = {answer} \ {"invalid request"}]
    /\ service' = "listening"
    /\ current' = {}
    /\ UNCHANGED << starts, unsent, received, client >>

Respond ==
    /\ service = "handling"
    /\ \E job \in current :
         \E answer \in Answers(job.request) \ {"break", "hang", "crash"} :
            reply' = [reply EXCEPT ![job.client] = {answer}]
    /\ service' = "listening"
    /\ current' = {}
    /\ UNCHANGED << starts, unsent, received, client >>

\* the kill switch leaves the loop without an answer; the destructors of socket
\* and context drop what was received and send the answers that are on their way
Break ==
    /\ service = "handling"
    /\ \E job \in current : "break" \in Answers(job.request)
    /\ service' = "stopped"
    /\ current' = {}
    /\ received' = Nobody
    /\ UNCHANGED << starts, unsent, reply, client >>

Hang ==
    /\ service = "handling"
    /\ \E job \in current : "hang" \in Answers(job.request)
    /\ service' = "hung"
    /\ UNCHANGED << starts, current, unsent, received, reply, client >>

\* the process dies, with any of the answers that were on their way
Crash ==
    /\ service = "handling"
    /\ \E job \in current : "crash" \in Answers(job.request)
    /\ service' = "crashed"
    /\ current' = {}
    /\ received' = Nobody
    /\ \E lost \in SUBSET { c \in Clients : reply[c] # {} } :
          reply' = [ c \in Clients |-> IF c \in lost THEN {} ELSE reply[c] ]
    /\ UNCHANGED << starts, unsent, client >>

ServiceStep == Respond \/ Break \/ Hang \/ Crash

Next ==
    \/ Start \/ ServiceStep
    \/ \E c \in Clients :
          \/ \E request \in Requests : Call(c, request)
          \/ Return(c) \/ Transmit(c) \/ Receive(c)

Spec == Init /\ [][Next]_vars

(***************************************************************************)
(* Nobody has to call, and nothing but the scheduler decides about the     *)
(* rest: the threads run, and a REP socket takes the messages of its peers *)
(* in turns (fair queuing), so that no client waits behind the others      *)
(* forever.  A service that is gone is started again.                      *)
(***************************************************************************)
FairSpec ==
    /\ Spec
    /\ WF_vars(Start) /\ WF_vars(ServiceStep)
    /\ \A c \in Clients : WF_vars(Return(c)) /\ WF_vars(Transmit(c)) /\ SF_vars(Receive(c))

-----------------------------------------------------------------------------
(* Properties                                                               *)

AtMostOne(S) == \A x, y \in S : x = y

AnswerTexts ==
    {"invalid request", "invalid parameters", "I am awake!", "route", "No Route", "tile"}

\* Type correctness.
TypeOK ==
    /\ service \in Running \cup {"starting", "stopped", "crashed"}
    /\ starts \in 0 .. MaxStarts
    /\ current \subseteq [client : Clients, request : Requests] /\ AtMostOne(current)
    /\ unsent \in [Clients -> SUBSET Requests]
    /\ received \in [Clients -> SUBSET Requests]
    /\ reply \in [Clients -> SUBSET AnswerTexts]
    /\ client \in [Clients -> [ state    : {"idle", "waiting", "spent"},
                                calls    : 0 .. MaxCalls,
                                request  : SUBSET Requests,
                                response : SUBSET AnswerTexts ]]

\* where the one message of a client is
Places(c) ==
    (IF unsent[c] # {} THEN {"unsent"} ELSE {})
    \cup (IF received[c] # {} THEN {"received"} ELSE {})
    \cup (IF \E job \in current : job.client = c THEN {"current"} ELSE {})
    \cup (IF reply[c] # {} THEN {"reply"} ELSE {})

\* A request is in one place at a time: it is never answered twice, and nothing
\* of it is left when its client makes the next call.
OneInFlight ==
    \A c \in Clients :
        /\ AtMostOne(Places(c))
        /\ client[c].state = "idle" => Places(c) = {}
        /\ client[c].state = "spent" => Places(c) \subseteq {"unsent", "received", "current"}

\* As long as the first service runs, no request of a waiting client is lost.
NothingLost ==
    \A c \in Clients :
        client[c].state = "waiting" /\ Places(c) = {} => starts > 1 \/ service \notin Running

\* the clients whose kill switch is no longer on its way
KillsSpent == { c \in Clients : client[c].state = "spent" /\ Places(c) = {} }

\* A service stops by a kill switch alone, and every stop uses up a kill switch that no
\* earlier one has used. (service.hpp: "will not return until kill message is received")
OneKillOneStop ==
    [][ service # "stopped" /\ service' = "stopped" => ~ KillsSpent' \subseteq KillsSpent ]_vars

\* what a client knows of its last call, however often it has called
Dialogue ==
    [ c \in Clients |-> [ state    |-> client[c].state,
                          request  |-> client[c].request,
                          response |-> client[c].response ] ]

Promised == INSTANCE RequestReply
    WITH Clients <- Clients, Requests <- Requests, dialogue <- Dialogue

\* Every client sees the promised protocol, whatever the others do: the answer
\* it gets is one to its own request.
Implements == Promised!Spec

\* A request on its way is answered unless the service goes away or hangs in a search.
AnsweredUnlessGone ==
    \A c \in Clients :
        client[c].state = "waiting" /\ Places(c) # {}
            ~> client[c].state = "idle" \/ service \in {"stopped", "crashed", "hung"}

\* Every message is processed and answered.  (README.md: "It will process the
\* message and return an appropriate PBF response.")
EveryCallReturns == \A c \in Clients : client[c].state = "waiting" ~> client[c].state = "idle"

-----------------------------------------------------------------------------
(* The inductive invariant                                                  *)

Handled(c) == \E job \in current : job.client = c

IsKill(request) == request.variant = "kill_switch" /\ request.value

\* the four places of a message exclude each other
Apart(c) ==
    /\ unsent[c] # {} => received[c] = {} /\ ~ Handled(c) /\ reply[c] = {}
    /\ received[c] # {} => ~ Handled(c) /\ reply[c] = {}
    /\ Handled(c) => reply[c] = {}

\* a client that is idle has no message anywhere, and nothing answers a kill switch
StateFits(c) ==
    /\ client[c].state = "idle" =>
          unsent[c] = {} /\ received[c] = {} /\ ~ Handled(c) /\ reply[c] = {}
    /\ client[c].state = "spent" =>
          reply[c] = {} /\ \A request \in client[c].request : IsKill(request)
    /\ client[c].state = "waiting" =>
          /\ client[c].request # {}
          /\ \A request \in client[c].request : ~ IsKill(request)

\* wherever a request is, it is the one its client has made, and so is the answer
Faithful(c) ==
    /\ AtMostOne(client[c].request)
    /\ unsent[c] \subseteq client[c].request
    /\ received[c] \subseteq client[c].request
    /\ reply[c] # {} =>
          \E request \in client[c].request :
             \E answer \in Promised!Promise(request) : reply[c] = {answer}

JobsFaithful == \A job \in current : job.request \in client[job.client].request

ServiceFits ==
    /\ current # {} => service \in {"handling", "hung"}
    /\ service # "starting" => starts >= 1

\* what a waiting client has lost was lost with a service that is gone
LossExplained ==
    \A c \in Clients :
        /\ client[c].state = "waiting"
        /\ unsent[c] = {} /\ received[c] = {} /\ ~ Handled(c) /\ reply[c] = {}
        => starts > 1 \/ service \in {"stopped", "crashed"}

IPCInv ==
    /\ TypeOK
    /\ \A c \in Clients : Apart(c) /\ StateFits(c) /\ Faithful(c)
    /\ JobsFaithful
    /\ ServiceFits
    /\ LossExplained
================================================================================
