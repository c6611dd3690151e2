-------------------------------- MODULE Bindings --------------------------------
(***************************************************************************)
(* binding::Engine and its workers in a Node process.  Every call of the   *)
(* engine makes a worker with a RequestHandler of its own, which waits for *)
(* a thread of the libuv pool, blocks that thread in the IPC call, and     *)
(* goes back to the main loop for its callback and its destruction.        *)
(*                                                                         *)
(* The workers are the clients of the IPC module, with one call each.      *)
(***************************************************************************)
EXTENDS IPC, SequencesExt

CONSTANT PoolSize   \* the threads of the pool

ASSUME PoolAssumption == PoolSize \in Nat \ {0}

VARIABLES
    task,       \* for every worker, what it was made for
    queue,      \* the workers waiting for a thread
    busy,       \* the workers on a thread
    completed,  \* the workers waiting for the main loop
    loop,       \* the worker the main loop is destroying
    callback    \* for every worker how its callback was called: "none", "result", "error"

node == << task, queue, busy, completed, loop, callback >>

ipc == << service, starts, current, unsent, received, reply, client >>

bindings == << ipc, node >>

IsShutdown(request) == request.variant = "kill_switch"

-----------------------------------------------------------------------------

BindingsInit ==
    /\ Init
    /\ task = Nobody
    /\ queue = << >>
    /\ busy = {}
    /\ completed = << >>
    /\ loop = {}
    /\ callback = [ w \in Clients |-> "none" ]

\* adaptTileParameters and adaptRouteParameters throw on anything else, before
\* there is a worker; the wire carries the radius of both coordinates
Adapted(request) ==
    \/ /\ request.variant = "route"
       /\ request.coordinates = 2
       /\ request.departure # request.arrival
       /\ Len(request.radii) = 2
    \/ request.variant = "tile" /\ request.reasonable
    \/ request.variant = "kill_switch" /\ request.value

\* mutant of Request: a worker goes on to the next branch and is queued again
RequestTwice(w, request) ==
    /\ loop = {}
    /\ task[w] = {}
    /\ Adapted(request)
    /\ task' = [task EXCEPT ![w] = {request}]
    /\ queue' = queue \o << w, w >>
    /\ UNCHANGED << ipc, busy, completed, loop, callback >>

\* Engine::request and Engine::send_shutdown
Request(w, request) ==
    /\ loop = {}
    /\ task[w] = {}
    /\ Adapted(request)
    /\ task' = [task EXCEPT ![w] = {request}]
    /\ queue' = Append(queue, w)
    /\ UNCHANGED << ipc, busy, completed, loop, callback >>

\* a thread of the pool takes the next worker into TaskWorker::Execute
Execute(w) ==
    /\ Cardinality(busy) < PoolSize
    /\ queue # << >>
    /\ w = Head(queue)
    /\ \E request \in task[w] : Call(w, request)
    /\ queue' = Tail(queue)
    /\ busy' = busy \cup {w}
    /\ UNCHANGED << task, completed, loop, callback >>

\* the thread takes the next worker, this one waits for the main loop
Leave(w) ==
    /\ w \in busy
    /\ busy' = busy \ {w}
    /\ completed' = Append(completed, w)
    /\ UNCHANGED << task, queue, loop, callback >>

\* mutant of Executed: an error is thrown past the worker
ExecutedUnlessThrown(w) ==
    /\ Leave(w)
    /\ \E request \in task[w] :
          IF IsShutdown(request)
          THEN UNCHANGED ipc
          ELSE Return(w) /\ reply[w] = {request.variant}

\* a ShutdownWorker waits for nothing, a TaskWorker for the answer
Executed(w) ==
    /\ Leave(w)
    /\ \E request \in task[w] :
          IF IsShutdown(request) THEN UNCHANGED ipc ELSE Return(w)

\* the RequestHandler throws on an answer of another kind than the request
Outcome(request, response) ==
    IF IsShutdown(request) \/ response = {request.variant} THEN "result" ELSE "error"

\* mutant of Callback: a TaskWorker without a catch always has a result
CallbackResult ==
    /\ loop = {}
    /\ completed # << >>
    /\ callback' = [callback EXCEPT ![Head(completed)] = "result"]
    /\ loop' = {Head(completed)}
    /\ completed' = Tail(completed)
    /\ UNCHANGED << ipc, task, queue, busy >>

\* mutant of Callback: the next worker is taken before the last one is gone
CallbackAtOnce ==
    /\ completed # << >>
    /\ LET w == Head(completed)
       IN  /\ \E request \in task[w] :
                 callback' = [callback EXCEPT ![w] = Outcome(request, client[w].response)]
           /\ loop' = loop \cup {w}
    /\ completed' = Tail(completed)
    /\ UNCHANGED << ipc, task, queue, busy >>

\* HandleOKCallback or HandleErrorCallback on the main loop
Callback ==
    /\ loop = {}
    /\ completed # << >>
    /\ LET w == Head(completed)
       IN  /\ \E request \in task[w] :
                 callback' = [callback EXCEPT ![w] = Outcome(request, client[w].response)]
           /\ loop' = {w}
    /\ completed' = Tail(completed)
    /\ UNCHANGED << ipc, task, queue, busy >>

\* mutant of Destroy: the socket waits for an answer, not only for the sending
DestroyAnswered ==
    /\ \E w \in loop : client[w].response # {}
    /\ loop' = {}
    /\ UNCHANGED << ipc, task, queue, busy, completed, callback >>

\* the destructor of the RequestHandler: its context waits until the socket has
\* sent what is in its pipe
Destroy ==
    /\ \E w \in loop : unsent[w] = {}
    /\ loop' = {}
    /\ UNCHANGED << ipc, task, queue, busy, completed, callback >>

Outside ==
    /\ Start \/ ServiceStep \/ \E w \in Clients : Transmit(w) \/ Receive(w)
    /\ UNCHANGED node

BindingsNext ==
    \/ \E w \in Clients :
          \/ \E request \in Requests : Request(w, request)
          \/ Execute(w) \/ Executed(w)
    \/ Callback \/ Destroy
    \/ Outside

BindingsSpec == BindingsInit /\ [][BindingsNext]_bindings

\* The threads of the pool, the main loop and the service all keep running; the
\* pool hands out its workers in the order in which they came.
FairBindingsSpec ==
    /\ BindingsSpec
    /\ WF_bindings(Start /\ UNCHANGED node) /\ WF_bindings(ServiceStep /\ UNCHANGED node)
    /\ WF_bindings(Callback) /\ WF_bindings(Destroy)
    /\ \A w \in Clients :
          /\ WF_bindings(Transmit(w) /\ UNCHANGED node)
          /\ SF_bindings(Receive(w) /\ UNCHANGED node)
          /\ WF_bindings(Execute(w)) /\ WF_bindings(Executed(w))

-----------------------------------------------------------------------------
(* Properties                                                               *)

\* Type correctness.
BindingsTypeOK ==
    /\ TypeOK
    /\ task \in [Clients -> SUBSET Requests]
    /\ queue \in Seq(Clients) /\ completed \in Seq(Clients)
    /\ busy \subseteq Clients
    /\ loop \subseteq Clients /\ AtMostOne(loop)
    /\ callback \in [Clients -> {"none", "result", "error"}]

\* how far the call of a worker has come
Stages(w) ==
    (IF w \in Range(queue) THEN {"queued"} ELSE {})
    \cup (IF w \in busy THEN {"busy"} ELSE {})
    \cup (IF w \in Range(completed) THEN {"completed"} ELSE {})
    \cup (IF callback[w] # "none" THEN {"called"} ELSE {})

\* A worker is in one place at a time: its callback is called once, and only
\* after its thread has been given back.
OneStage ==
    /\ \A w \in Clients : AtMostOne(Stages(w)) /\ (Stages(w) = {} <=> task[w] = {})
    /\ IsInjective(queue) /\ IsInjective(completed)

\* A callback gets a result only for a request that deserves one, and the answer
\* it reports is the one to the parameters it was called with.
CallbackTruthful ==
    \A w \in Clients, request \in Requests :
        task[w] = {request} /\ callback[w] = "result" /\ ~ IsShutdown(request)
            => Promised!WellFormed(request) /\ client[w].response = {request.variant}

\* Every callback is called, however small the pool, unless the service goes away
\* or hangs.
EveryCallback ==
    \A w \in Clients :
        task[w] # {} ~> callback[w] # "none" \/ service \in {"stopped", "crashed", "hung"}

\* A shutdown gets its turn behind the requests before it and stops the service, unless
\* the service hangs in one of them.
ShutdownArrives ==
    (\E w \in Clients : \E request \in task[w] : IsShutdown(request))
        ~> service \in {"stopped", "hung"}

\* The main loop comes back from the destruction of a worker, unless its message
\* was not sent before the service stopped or hung.
LoopReturns ==
    loop # {} ~> \/ loop = {}
                 \/ service \in {"stopped", "hung"} /\ \E w \in loop : unsent[w] # {}
================================================================================
