----------------------------- MODULE BindingsProofs -----------------------------
(***************************************************************************)
(* The protocol between the service and its clients, for any set of        *)
(* clients and requests, any number of calls and of starts: a request is   *)
(* in one place at a time, what a client sees implements the promise, and  *)
(* every stop is due to a kill switch of its own.                          *)
(*                                                                         *)
(* The workers of a Node process are clients of this service, for any      *)
(* number of workers and any size of the pool, and every callback is       *)
(* called at most once with the truth.                                     *)
(***************************************************************************)
EXTENDS Bindings, SequenceTheorems, TLAPS

-----------------------------------------------------------------------------
(* What the service answers                                                 *)

\* What is refused is what the promise does not call well-formed.
LEMMA RefusedUnlessWellFormed ==
    ASSUME NEW request \in Requests, request.variant = "route"
    PROVE  Refused(request) <=> ~ Promised!WellFormed(request)
<1>1. /\ request.radii \in Seq(Nat)
      /\ request.departure \in BOOLEAN /\ request.arrival \in BOOLEAN
      /\ request.reasonable \in BOOLEAN
  BY RequestAssumption
<1>2. Len(request.radii) \in Nat
  BY <1>1
<1>3. request.departure # request.arrival
      <=> ~ (~ request.arrival /\ ~ request.departure) /\ ~ (request.arrival /\ request.departure)
  BY <1>1
<1>4. request.coordinates = 2 =>
        (Len(request.radii) \in {0, 2}
         <=> ~ (Len(request.radii) > 0 /\ Len(request.radii) # request.coordinates))
  BY <1>2
<1>5. Promised!WellFormed(request)
      <=> /\ request.coordinates = 2
          /\ request.departure # request.arrival
          /\ Len(request.radii) \in {0, 2}
          /\ request.reasonable
  BY DEF Promised!WellFormed
<1>6. Refused(request)
      <=> \/ request.coordinates # 2
          \/ ~ request.arrival /\ ~ request.departure
          \/ request.arrival /\ request.departure
          \/ Len(request.radii) > 0 /\ Len(request.radii) # request.coordinates
          \/ ~ request.reasonable
  BY DEF Refused
<1> QED
  BY <1>3, <1>4, <1>5, <1>6

\* Every answer that is sent is a promised one; a kill switch gets none.
LEMMA AnswersPromised ==
    ASSUME NEW request \in Requests, NEW answer \in Answers(request) \ {"break", "hang", "crash"}
    PROVE  /\ answer \in Promised!Promise(request)
           /\ answer \in AnswerTexts
           /\ ~ IsKill(request)
<1>1. CASE request.variant \in {"none", "garbage"}
  BY <1>1 DEF Answers, Promised!Promise, AnswerTexts, IsKill
<1>2. CASE request.variant = "kill_switch"
  BY <1>2, RequestAssumption DEF Answers, Promised!Promise, AnswerTexts, IsKill
<1>3. CASE request.variant = "tile"
  <2>1. request.reasonable \in BOOLEAN
    BY <1>3, RequestAssumption
  <2>2. Promised!WellFormed(request) <=> request.reasonable
    BY <1>3, <2>1 DEF Promised!WellFormed
  <2>3. answer \in IF request.reasonable THEN {"tile"} ELSE {"invalid parameters"}
    BY <1>3, IPCAssumption DEF Answers
  <2> QED
    BY <1>3, <2>1, <2>2, <2>3 DEF Promised!Promise, AnswerTexts, IsKill
<1>4. CASE request.variant = "route"
  <2>1. Promised!Promise(request)
        = IF Promised!WellFormed(request) THEN {"route", "No Route"} ELSE {"invalid parameters"}
    BY <1>4 DEF Promised!Promise
  <2>2. answer \in IF Refused(request) THEN {"invalid parameters"} ELSE Routed(request)
    BY <1>4 DEF Answers
  <2>3. answer \in Routed(request) => answer \in {"route", "No Route"}
    BY IPCAssumption DEF Routed
  <2> QED
    BY <1>4, <2>1, <2>2, <2>3, RefusedUnlessWellFormed DEF AnswerTexts, IsKill
<1> QED
  BY <1>1, <1>2, <1>3, <1>4, RequestAssumption

\* Nothing but a kill switch leaves the loop.
LEMMA BreakIsKill ==
    ASSUME NEW request \in Requests, "break" \in Answers(request)
    PROVE  IsKill(request)
<1>1. "break" \notin Routed(request)
  BY IPCAssumption DEF Routed
<1> QED
  BY <1>1, IPCAssumption, RequestAssumption DEF Answers, IsKill

\* The kill switch is what nothing is promised for.
LEMMA NothingForKill ==
    ASSUME NEW request \in Requests
    PROVE  Promised!Promise(request) = {} <=> IsKill(request)
  BY RequestAssumption DEF Promised!Promise, IsKill

-----------------------------------------------------------------------------
(* The invariant is kept by the clients and by 0MQ                          *)

LEMMA Bounds == MaxCalls \in Nat /\ MaxStarts \in Nat
  BY IPCAssumption

LEMMA Starts ==
    ASSUME IPCInv
    PROVE  starts \in Nat /\ starts <= MaxStarts /\ MaxStarts \in Nat
<1>1. starts \in 0 .. MaxStarts
  BY DEF IPCInv, TypeOK
<1> QED
  BY <1>1, Bounds

LEMMA InitIPC == Init => IPCInv
<1> SUFFICES ASSUME Init PROVE IPCInv
  OBVIOUS
<1>1. TypeOK
  BY Bounds DEF Init, TypeOK, Nobody, Running, AtMostOne
<1>2. \A c \in Clients : Apart(c) /\ StateFits(c) /\ Faithful(c)
  BY DEF Init, Nobody, Apart, StateFits, Faithful, Handled, AtMostOne
<1>3. JobsFaithful /\ ServiceFits /\ LossExplained
  BY DEF Init, JobsFaithful, ServiceFits, LossExplained
<1> QED
  BY <1>1, <1>2, <1>3 DEF IPCInv

LEMMA CallKeeps ==
    ASSUME IPCInv, NEW c \in Clients, NEW request \in Requests, Call(c, request)
    PROVE  IPCInv'
<1> USE DEF Call
<1>1. TypeOK'
  <2>1. client[c].calls \in 0 .. MaxCalls
    BY DEF IPCInv, TypeOK
  <2>2. client[c].calls + 1 \in 0 .. MaxCalls
    BY <2>1, Bounds
  <2> QED
    BY <2>2 DEF IPCInv, TypeOK, AtMostOne
<1>2. unsent[c] = {} /\ received[c] = {} /\ ~ Handled(c) /\ reply[c] = {}
  BY DEF IPCInv, StateFits
<1>3. ASSUME NEW d \in Clients
      PROVE  Apart(d)' /\ StateFits(d)' /\ Faithful(d)'
  <2>1. CASE d = c
    <3>1. /\ unsent'[c] = {request} /\ received'[c] = {} /\ reply'[c] = {}
          /\ client'[c].request = {request}
          /\ client'[c].state = IF IsKill(request) THEN "spent" ELSE "waiting"
          /\ Handled(c)' <=> Handled(c)
      BY <1>2 DEF IPCInv, TypeOK, Handled, IsKill
    <3> QED
      BY <2>1, <3>1, <1>2 DEF Apart, StateFits, Faithful, AtMostOne
  <2>2. CASE d # c
    <3>1. /\ unsent'[d] = unsent[d] /\ received'[d] = received[d] /\ reply'[d] = reply[d]
          /\ client'[d] = client[d]
          /\ Handled(d)' <=> Handled(d)
      BY <2>2 DEF IPCInv, TypeOK, Handled
    <3> QED
      BY <3>1 DEF IPCInv, Apart, StateFits, Faithful, AtMostOne
  <2> QED
    BY <2>1, <2>2
<1>4. JobsFaithful'
  <2>1. \A job \in current : job.client # c
    BY <1>2 DEF Handled
  <2> QED
    BY <2>1 DEF IPCInv, JobsFaithful, TypeOK
<1>5. ServiceFits'
  BY DEF IPCInv, ServiceFits
<1>6. LossExplained'
  <2>1. \A d \in Clients \ {c} : unsent'[d] = unsent[d] /\ client'[d] = client[d]
    BY DEF IPCInv, TypeOK
  <2>2. unsent'[c] # {}
    BY DEF IPCInv, TypeOK
  <2> QED
    BY <2>1, <2>2 DEF IPCInv, LossExplained, Handled
<1> QED
  BY <1>1, <1>3, <1>4, <1>5, <1>6 DEF IPCInv

LEMMA ReturnKeeps ==
    ASSUME IPCInv, NEW c \in Clients, Return(c)
    PROVE  IPCInv'
<1> USE DEF Return
<1>1. TypeOK'
  BY DEF IPCInv, TypeOK, AtMostOne
<1>2. unsent[c] = {} /\ received[c] = {} /\ ~ Handled(c)
  BY DEF IPCInv, Apart
<1>3. ASSUME NEW d \in Clients
      PROVE  Apart(d)' /\ StateFits(d)' /\ Faithful(d)'
  <2>1. CASE d = c
    <3>1. /\ unsent'[c] = {} /\ received'[c] = {} /\ reply'[c] = {}
          /\ client'[c].request = client[c].request
          /\ client'[c].state = "idle"
          /\ ~ Handled(c)'
      BY <1>2 DEF IPCInv, TypeOK, Handled
    <3> QED
      BY <2>1, <3>1 DEF IPCInv, Apart, StateFits, Faithful, AtMostOne
  <2>2. CASE d # c
    <3>1. /\ unsent'[d] = unsent[d] /\ received'[d] = received[d] /\ reply'[d] = reply[d]
          /\ client'[d] = client[d]
          /\ Handled(d)' <=> Handled(d)
      BY <2>2 DEF IPCInv, TypeOK, Handled
    <3> QED
      BY <3>1 DEF IPCInv, Apart, StateFits, Faithful, AtMostOne
  <2> QED
    BY <2>1, <2>2
<1>4. \A d \in Clients : client'[d].request = client[d].request
  BY DEF IPCInv, TypeOK
<1>5. JobsFaithful'
  BY <1>4 DEF IPCInv, JobsFaithful, TypeOK
<1>6. ServiceFits'
  BY DEF IPCInv, ServiceFits
<1>7. LossExplained'
  <2>1. \A d \in Clients \ {c} : reply'[d] = reply[d] /\ client'[d] = client[d]
    BY DEF IPCInv, TypeOK
  <2>2. client'[c].state = "idle"
    BY DEF IPCInv, TypeOK
  <2> QED
    BY <2>1, <2>2 DEF IPCInv, LossExplained, Handled
<1> QED
  BY <1>1, <1>3, <1>5, <1>6, <1>7 DEF IPCInv

LEMMA TransmitKeeps ==
    ASSUME IPCInv, NEW c \in Clients, Transmit(c)
    PROVE  IPCInv'
<1> USE DEF Transmit
<1>1. TypeOK'
  BY DEF IPCInv, TypeOK, AtMostOne
<1>2. /\ unsent[c] # {} /\ received[c] = {} /\ ~ Handled(c) /\ reply[c] = {}
      /\ unsent'[c] = {} /\ received'[c] = unsent[c]
  BY DEF IPCInv, Apart, TypeOK
<1>3. ASSUME NEW d \in Clients
      PROVE  Apart(d)' /\ StateFits(d)' /\ Faithful(d)'
  <2>1. CASE d = c
    BY <2>1, <1>2 DEF IPCInv, Apart, StateFits, Faithful, AtMostOne, Handled
  <2>2. CASE d # c
    <3>1. unsent'[d] = unsent[d] /\ received'[d] = received[d]
      BY <2>2 DEF IPCInv, TypeOK
    <3> QED
      BY <3>1 DEF IPCInv, Apart, StateFits, Faithful, AtMostOne, Handled
  <2> QED
    BY <2>1, <2>2
<1>4. JobsFaithful' /\ ServiceFits'
  BY DEF IPCInv, JobsFaithful, ServiceFits
<1>5. LossExplained'
  <2>1. \A d \in Clients \ {c} : unsent'[d] = unsent[d] /\ received'[d] = received[d]
    BY DEF IPCInv, TypeOK
  <2> QED
    BY <1>2, <2>1 DEF IPCInv, LossExplained, Handled
<1> QED
  BY <1>1, <1>3, <1>4, <1>5 DEF IPCInv

-----------------------------------------------------------------------------
(* The invariant is kept by the service                                     *)

LEMMA StartKeeps ==
    ASSUME IPCInv, Start
    PROVE  IPCInv'
<1> USE DEF Start
<1>1. TypeOK'
  <2>1. starts' \in 0 .. MaxStarts
    BY Starts
  <2> QED
    BY <2>1 DEF IPCInv, TypeOK, AtMostOne, Running
<1>2. \A c \in Clients : (Apart(c) /\ StateFits(c) /\ Faithful(c))'
  BY DEF IPCInv, Apart, StateFits, Faithful, Handled
<1>3. JobsFaithful'
  BY DEF IPCInv, JobsFaithful
<1>4. ServiceFits'
  <2>1. current = {}
    BY DEF IPCInv, ServiceFits
  <2>2. starts' >= 1
    BY Starts
  <2> QED
    BY <2>1, <2>2 DEF ServiceFits
<1>5. LossExplained'
  <2>1. service # "starting" => starts' > 1
    <3>1. service # "starting" => starts >= 1
      BY DEF IPCInv, ServiceFits
    <3> QED
      BY <3>1, Starts
  <2>2. starts > 1 => starts' > 1
    BY Starts
  <2> QED
    BY <2>1, <2>2 DEF IPCInv, LossExplained, Handled
<1> QED
  BY <1>1, <1>2, <1>3, <1>4, <1>5 DEF IPCInv

LEMMA ReceiveKeeps ==
    ASSUME IPCInv, NEW c \in Clients, Receive(c)
    PROVE  IPCInv'
<1> USE DEF Receive
<1>1. PICK request \in Requests : received[c] = {request}
  <2>1. PICK request \in Requests : request \in received[c]
    BY DEF IPCInv, TypeOK
  <2>2. \A other \in received[c] : other = request
    BY <2>1 DEF IPCInv, Faithful, AtMostOne
  <2> QED
    BY <2>1, <2>2
<1>2. /\ unsent[c] = {} /\ ~ Handled(c) /\ reply[c] = {}
      /\ received'[c] = {}
      /\ current' = { [client |-> c, request |-> request] }
  BY <1>1 DEF IPCInv, Apart, TypeOK
<1>3. current = {}
  BY DEF IPCInv, ServiceFits
<1>4. TypeOK'
  <2> DEFINE job == [client |-> c, request |-> request]
  <2>1. current' = {job} /\ job \in [client : Clients, request : Requests]
    BY <1>2
  <2> HIDE DEF job
  <2>2. (current \subseteq [client : Clients, request : Requests] /\ AtMostOne(current))'
    BY <2>1 DEF AtMostOne
  <2>3. received' \in [Clients -> SUBSET Requests]
    BY DEF IPCInv, TypeOK
  <2> QED
    BY <2>2, <2>3 DEF IPCInv, TypeOK, Running
<1>5. /\ Handled(c)'
      /\ \A d \in Clients \ {c} : ~ Handled(d) /\ ~ Handled(d)' /\ received'[d] = received[d]
  <2>1. \A d \in Clients : ~ Handled(d)
    BY <1>3 DEF Handled
  <2>2. \A d \in Clients : Handled(d)' <=> d = c
    <3> DEFINE job == [client |-> c, request |-> request]
    <3>1. current' = {job} /\ job.client = c
      BY <1>2
    <3> HIDE DEF job
    <3> QED
      BY <3>1 DEF Handled
  <2>3. \A d \in Clients \ {c} : received'[d] = received[d]
    BY DEF IPCInv, TypeOK
  <2> QED
    BY <2>1, <2>2, <2>3
<1>6. ASSUME NEW d \in Clients
      PROVE  Apart(d)' /\ StateFits(d)' /\ Faithful(d)'
  <2>1. CASE d = c
    BY <2>1, <1>1, <1>2, <1>5 DEF IPCInv, Apart, StateFits, Faithful, AtMostOne
  <2>2. CASE d # c
    BY <2>2, <1>5 DEF IPCInv, Apart, StateFits, Faithful, AtMostOne
  <2> QED
    BY <2>1, <2>2
<1>7. JobsFaithful'
  BY <1>1, <1>2 DEF IPCInv, Faithful, JobsFaithful
<1>8. ServiceFits'
  BY DEF IPCInv, ServiceFits
<1>9. LossExplained'
  BY <1>5 DEF IPCInv, LossExplained
<1> QED
  BY <1>4, <1>6, <1>7, <1>8, <1>9 DEF IPCInv

\* what is left of a job that is handled
LEMMA JobFacts ==
    ASSUME IPCInv, NEW job \in current
    PROVE  /\ job.client \in Clients /\ job.request \in Requests
           /\ client[job.client].request = {job.request}
           /\ unsent[job.client] = {} /\ received[job.client] = {} /\ reply[job.client] = {}
           /\ \A c \in Clients : Handled(c) <=> c = job.client
<1>1. job.client \in Clients /\ job.request \in Requests
  BY DEF IPCInv, TypeOK
<1>2. \A c \in Clients : Handled(c) <=> c = job.client
  BY DEF IPCInv, TypeOK, AtMostOne, Handled
<1>3. client[job.client].request = {job.request}
  BY <1>1 DEF IPCInv, JobsFaithful, Faithful, AtMostOne
<1> QED
  BY <1>1, <1>2, <1>3 DEF IPCInv, Apart

LEMMA RespondKeeps ==
    ASSUME IPCInv, Respond
    PROVE  IPCInv'
<1> USE DEF Respond
<1>1. PICK job \in current : \E answer \in Answers(job.request) \ {"break", "hang", "crash"} :
                                 reply' = [reply EXCEPT ![job.client] = {answer}]
  OBVIOUS
<1>2. PICK answer \in Answers(job.request) \ {"break", "hang", "crash"} :
         reply' = [reply EXCEPT ![job.client] = {answer}]
  BY <1>1
<1> DEFINE c == job.client
<1>3. /\ c \in Clients /\ job.request \in Requests
      /\ client[c].request = {job.request}
      /\ unsent[c] = {} /\ received[c] = {}
      /\ \A d \in Clients : Handled(d) <=> d = c
  BY JobFacts
<1>4. answer \in Promised!Promise(job.request) /\ answer \in AnswerTexts /\ ~ IsKill(job.request)
  BY <1>3, AnswersPromised
<1>5. /\ reply'[c] = {answer}
      /\ \A d \in Clients \ {c} : reply'[d] = reply[d]
      /\ \A d \in Clients : ~ Handled(d)'
  BY <1>2, <1>3 DEF IPCInv, TypeOK, Handled
<1> HIDE DEF c
<1>6. TypeOK'
  BY <1>2, <1>3, <1>4 DEF IPCInv, TypeOK, AtMostOne, Running, c
<1>7. client[c].state = "waiting"
  BY <1>3, <1>4 DEF IPCInv, TypeOK, StateFits
<1>8. ASSUME NEW d \in Clients
      PROVE  Apart(d)' /\ StateFits(d)' /\ Faithful(d)'
  <2>1. CASE d = c
    BY <2>1, <1>3, <1>4, <1>5, <1>7 DEF IPCInv, Apart, StateFits, Faithful, AtMostOne
  <2>2. CASE d # c
    BY <2>2, <1>3, <1>5 DEF IPCInv, Apart, StateFits, Faithful, AtMostOne
  <2> QED
    BY <2>1, <2>2
<1>9. JobsFaithful' /\ ServiceFits'
  BY DEF IPCInv, JobsFaithful, ServiceFits
<1>10. LossExplained'
  BY <1>3, <1>5 DEF IPCInv, LossExplained
<1> QED
  BY <1>6, <1>8, <1>9, <1>10 DEF IPCInv

LEMMA BreakKeeps ==
    ASSUME IPCInv, Break
    PROVE  IPCInv'
<1> USE DEF Break
<1>1. TypeOK'
  BY DEF IPCInv, TypeOK, AtMostOne, Running, Nobody
<1>2. \A c \in Clients : received'[c] = {} /\ ~ Handled(c)'
  BY DEF Nobody, Handled
<1>3. \A c \in Clients : (Apart(c) /\ StateFits(c) /\ Faithful(c))'
  BY <1>2 DEF IPCInv, Apart, StateFits, Faithful
<1>4. JobsFaithful' /\ ServiceFits' /\ LossExplained'
  BY DEF IPCInv, JobsFaithful, ServiceFits, LossExplained
<1> QED
  BY <1>1, <1>3, <1>4 DEF IPCInv

LEMMA HangKeeps ==
    ASSUME IPCInv, Hang
    PROVE  IPCInv'
<1> USE DEF Hang
<1>1. TypeOK'
  BY DEF IPCInv, TypeOK, AtMostOne, Running
<1>2. \A c \in Clients : (Apart(c) /\ StateFits(c) /\ Faithful(c))'
  BY DEF IPCInv, Apart, StateFits, Faithful, Handled
<1>3. JobsFaithful' /\ ServiceFits'
  BY DEF IPCInv, JobsFaithful, ServiceFits
<1>4. LossExplained'
  BY DEF IPCInv, LossExplained, Handled
<1> QED
  BY <1>1, <1>2, <1>3, <1>4 DEF IPCInv

LEMMA CrashKeeps ==
    ASSUME IPCInv, Crash
    PROVE  IPCInv'
<1> USE DEF Crash
<1>1. \A c \in Clients : reply'[c] = {} \/ reply'[c] = reply[c]
  OBVIOUS
<1>2. TypeOK'
  <2>1. \A c \in Clients : reply'[c] \subseteq AnswerTexts
    BY <1>1 DEF IPCInv, TypeOK
  <2>2. reply' = [ c \in Clients |-> reply'[c] ]
    OBVIOUS
  <2> QED
    BY <2>1, <2>2 DEF IPCInv, TypeOK, AtMostOne, Running, Nobody, AnswerTexts
<1>3. \A c \in Clients : received'[c] = {} /\ ~ Handled(c)'
  BY DEF Nobody, Handled
<1>4. \A c \in Clients : (Apart(c) /\ StateFits(c) /\ Faithful(c))'
  BY <1>1, <1>3 DEF IPCInv, Apart, StateFits, Faithful
<1>5. JobsFaithful' /\ ServiceFits' /\ LossExplained'
  BY DEF IPCInv, JobsFaithful, ServiceFits, LossExplained
<1> QED
  BY <1>2, <1>4, <1>5 DEF IPCInv

LEMMA NextKeeps == IPCInv /\ [Next]_vars => IPCInv'
<1> SUFFICES ASSUME IPCInv, [Next]_vars PROVE IPCInv'
  OBVIOUS
<1>1. CASE Start
  BY <1>1, StartKeeps
<1>2. CASE ServiceStep
  BY <1>2, RespondKeeps, BreakKeeps, HangKeeps, CrashKeeps DEF ServiceStep
<1>3. CASE \E c \in Clients : \E request \in Requests : Call(c, request)
  BY <1>3, CallKeeps
<1>4. CASE \E c \in Clients : Return(c) \/ Transmit(c) \/ Receive(c)
  BY <1>4, ReturnKeeps, TransmitKeeps, ReceiveKeeps
<1>5. CASE UNCHANGED vars
  <2> USE <1>5 DEF vars
  <2>1. TypeOK'
    BY DEF IPCInv, TypeOK, AtMostOne
  <2>2. \A c \in Clients : (Apart(c) /\ StateFits(c) /\ Faithful(c))'
    BY DEF IPCInv, Apart, StateFits, Faithful, Handled
  <2>3. JobsFaithful' /\ ServiceFits' /\ LossExplained'
    BY DEF IPCInv, JobsFaithful, ServiceFits, LossExplained, Handled
  <2> QED
    BY <2>1, <2>2, <2>3 DEF IPCInv
<1> QED
  BY <1>1, <1>2, <1>3, <1>4, <1>5 DEF Next

\* The state of the service and of its clients explain every message there is.
THEOREM IPCInvariant == Spec => []IPCInv
<1> QED
  BY InitIPC, NextKeeps, PTL DEF Spec
-----------------------------------------------------------------------------
(* What follows                                                             *)

\* The state of the service and of its clients has its type.
THEOREM TypeCorrect == Spec => []TypeOK
<1> QED
  BY IPCInvariant, PTL DEF IPCInv

\* No request of a client is in two places, and nothing is left of an old one when
\* the client calls again, whatever is sent, killed or crashes.
THEOREM InFlight == Spec => []OneInFlight
<1>1. IPCInv => OneInFlight
  <2> SUFFICES ASSUME IPCInv, NEW c \in Clients
               PROVE  /\ AtMostOne(Places(c))
                      /\ client[c].state = "idle" => Places(c) = {}
                      /\ client[c].state = "spent"
                            => Places(c) \subseteq {"unsent", "received", "current"}
    BY DEF OneInFlight
  <2>1. Apart(c) /\ StateFits(c)
    BY DEF IPCInv
  <2> QED
    BY <2>1 DEF Apart, StateFits, Handled, Places, AtMostOne
<1> QED
  BY <1>1, IPCInvariant, PTL

\* As long as the first service runs, no request is lost between its client and the
\* loop of listen.
THEOREM Kept == Spec => []NothingLost
<1>1. IPCInv => NothingLost
  <2> SUFFICES ASSUME IPCInv, NEW c \in Clients,
                      client[c].state = "waiting", Places(c) = {}
               PROVE  starts > 1 \/ service \notin Running
    BY DEF NothingLost
  <2>1. unsent[c] = {} /\ received[c] = {} /\ ~ Handled(c) /\ reply[c] = {}
    BY DEF Places, Handled
  <2> QED
    BY <2>1 DEF IPCInv, LossExplained, Running
<1> QED
  BY <1>1, IPCInvariant, PTL

\* Every stop of the service uses up a kill switch of its own.
THEOREM StopsAreKills == Spec => OneKillOneStop
<1>1. ASSUME IPCInv, [Next]_vars, service # "stopped", service' = "stopped"
      PROVE  ~ KillsSpent' \subseteq KillsSpent
  <2>1. Break
    BY <1>1 DEF vars, Next, Start, ServiceStep, Respond, Hang, Crash, Call, Return, Transmit,
                Receive
  <2>2. PICK job \in current : "break" \in Answers(job.request)
    BY <2>1 DEF Break
  <2> DEFINE c == job.client
  <2>3. /\ c \in Clients /\ job.request \in Requests
        /\ client[c].request = {job.request}
        /\ unsent[c] = {} /\ received[c] = {} /\ reply[c] = {} /\ Handled(c)
    BY <1>1, JobFacts
  <2>4. IsKill(job.request)
    BY <2>2, <2>3, BreakIsKill
  <2>5. client[c].state = "spent"
    BY <1>1, <2>3, <2>4 DEF IPCInv, TypeOK, StateFits
  <2> HIDE DEF c
  <2>6. Places(c) # {}
    BY <2>3 DEF Places, Handled
  <2>7. Places(c)' = {} /\ client'[c].state = "spent"
    BY <2>1, <2>3, <2>5 DEF Break, Places, Nobody
  <2> QED
    BY <2>3, <2>6, <2>7 DEF KillsSpent
<1> QED
  BY <1>1, IPCInvariant, PTL DEF Spec, OneKillOneStop

\* What a client sees is the promised protocol: it gets at most one answer to each
\* call, one that its own request deserves, and a kill switch gets none.
THEOREM ImplementsPromise == Spec => Implements
<1>1. Init => Promised!Init
  BY DEF Init, Promised!Init, Promised!Idle, Dialogue
<1>2. ASSUME IPCInv, [Next]_vars
      PROVE  [Promised!Next]_Dialogue
  <2> USE DEF Dialogue
  <2>1. ASSUME NEW c \in Clients, NEW request \in Requests, Call(c, request)
        PROVE  Promised!Call(c)
    <3>1. (request.variant = "kill_switch" /\ request.value) <=> Promised!Promise(request) = {}
      BY NothingForKill DEF IsKill
    <3> DEFINE asked == [ state    |-> IF Promised!Promise(request) = {} THEN "spent" ELSE "waiting",
                          request  |-> {request},
                          response |-> {} ]
    <3>2. /\ client'[c].state = asked.state /\ client'[c].request = asked.request
          /\ client'[c].response = asked.response
          /\ \A d \in Clients \ {c} : client'[d] = client[d]
      BY <1>2, <2>1, <3>1 DEF Call, IPCInv, TypeOK
    <3>3. Dialogue' = [ d \in Clients |-> IF d = c THEN asked ELSE Dialogue[d] ]
      BY <3>2
    <3>4. Dialogue' = [Dialogue EXCEPT ![c] = asked]
      BY <3>3
    <3>5. Dialogue[c].state = "idle"
      BY <2>1 DEF Call
    <3> QED
      BY <3>4, <3>5 DEF Promised!Call
  <2>2. ASSUME NEW c \in Clients, Return(c)
        PROVE  Promised!Return(c)
    <3>1. PICK request \in client[c].request :
             \E answer \in Promised!Promise(request) : reply[c] = {answer}
      BY <1>2, <2>2 DEF IPCInv, Faithful, Return
    <3>2. PICK answer \in Promised!Promise(request) : reply[c] = {answer}
      BY <3>1
    <3>3. client[c].request = {request}
      BY <1>2, <3>1 DEF IPCInv, Faithful, AtMostOne
    <3> DEFINE back == Promised!Idle({request}, {answer})
    <3>4. /\ client'[c].state = "idle" /\ client'[c].request = {request}
          /\ client'[c].response = {answer}
          /\ \A d \in Clients \ {c} : client'[d] = client[d]
      BY <1>2, <2>2, <3>2, <3>3 DEF Return, IPCInv, TypeOK
    <3>5. Dialogue' = [ d \in Clients |-> IF d = c THEN back ELSE Dialogue[d] ]
      BY <3>4 DEF Promised!Idle
    <3>6. Dialogue' = [Dialogue EXCEPT ![c] = back]
      BY <3>5
    <3>7. Dialogue[c].state = "waiting" /\ request \in Dialogue[c].request
      BY <2>2, <3>3 DEF Return
    <3> QED
      BY <3>2, <3>6, <3>7 DEF Promised!Return
  <2>3. CASE \E c \in Clients : Transmit(c) \/ Receive(c)
    BY <2>3 DEF Transmit, Receive
  <2>4. CASE Start \/ ServiceStep
    BY <2>4 DEF Start, ServiceStep, Respond, Break, Hang, Crash
  <2>5. CASE UNCHANGED vars
    BY <2>5 DEF vars
  <2> QED
    BY <1>2, <2>1, <2>2, <2>3, <2>4, <2>5 DEF Next, Promised!Next
<1> QED
  BY <1>1, <1>2, IPCInvariant, PTL DEF Spec, Implements, Promised!Spec

-----------------------------------------------------------------------------
(* Queues                                                                   *)

\* a worker that is appended is the only one that is new
LEMMA Appended ==
    ASSUME NEW S, NEW s \in Seq(S), NEW e \in S
    PROVE  /\ Append(s, e) \in Seq(S)
           /\ Range(Append(s, e)) = Range(s) \cup {e}
           /\ IsInjective(s) /\ e \notin Range(s) => IsInjective(Append(s, e))
<1> DEFINE t == Append(s, e)
<1>1. /\ t \in Seq(S)
      /\ DOMAIN s = 1 .. Len(s) /\ DOMAIN t = 1 .. Len(s) + 1 /\ Len(s) \in Nat
      /\ \A i \in 1 .. Len(s) : t[i] = s[i]
      /\ t[Len(s) + 1] = e
  OBVIOUS
<1> HIDE DEF t
<1>2. Range(t) \subseteq Range(s) \cup {e}
  BY <1>1 DEF Range
<1>3. Range(s) \cup {e} \subseteq Range(t)
  BY <1>1 DEF Range
<1>4. ASSUME IsInjective(s), e \notin Range(s), NEW i \in DOMAIN t, NEW j \in DOMAIN t, t[i] = t[j]
      PROVE  i = j
  BY <1>1, <1>4 DEF IsInjective, Range
<1> QED
  BY <1>1, <1>2, <1>3, <1>4 DEF IsInjective, t

\* the head is the only one that is gone
LEMMA Taken ==
    ASSUME NEW S, NEW s \in Seq(S), s # << >>, IsInjective(s)
    PROVE  /\ Tail(s) \in Seq(S)
           /\ Head(s) \in S /\ Head(s) \in Range(s)
           /\ Range(Tail(s)) = Range(s) \ {Head(s)}
           /\ IsInjective(Tail(s))
<1> DEFINE t == Tail(s)
<1>1. /\ t \in Seq(S) /\ Len(s) \in Nat \ {0} /\ Head(s) = s[1]
      /\ DOMAIN s = 1 .. Len(s) /\ DOMAIN t = 1 .. Len(s) - 1
      /\ \A i \in 1 .. Len(s) - 1 : t[i] = s[i + 1]
  OBVIOUS
<1> HIDE DEF t
<1>2. s[1] \in S /\ 1 \in DOMAIN s
  BY <1>1
<1>3. ASSUME NEW i \in DOMAIN t
      PROVE  t[i] \in Range(s) \ {s[1]}
  <2>1. i + 1 \in DOMAIN s /\ 1 \in DOMAIN s /\ t[i] = s[i + 1] /\ i + 1 # 1
    BY <1>1
  <2>2. s[i + 1] \in Range(s) /\ s[i + 1] # s[1]
    BY <2>1 DEF Range, IsInjective
  <2> QED
    BY <2>1, <2>2
<1>4. ASSUME NEW i \in DOMAIN s, s[i] # s[1]
      PROVE  s[i] \in Range(t)
  <2>1. i - 1 \in DOMAIN t /\ t[i - 1] = s[i]
    BY <1>1, <1>4
  <2> QED
    BY <2>1 DEF Range
<1>5. ASSUME NEW i \in DOMAIN t, NEW j \in DOMAIN t, t[i] = t[j]
      PROVE  i = j
  <2>1. i + 1 \in DOMAIN s /\ j + 1 \in DOMAIN s /\ s[i + 1] = s[j + 1] /\ i \in Nat /\ j \in Nat
    BY <1>1, <1>5
  <2>2. i + 1 = j + 1
    BY <2>1 DEF IsInjective
  <2> QED
    BY <2>1, <2>2
<1>6. Range(t) = Range(s) \ {s[1]}
  BY <1>3, <1>4 DEF Range
<1> QED
  BY <1>1, <1>2, <1>5, <1>6 DEF Range, IsInjective, t

-----------------------------------------------------------------------------
(* The inductive invariant                                                  *)

\* what the call of a worker has come to at the stage it is in
CallFits(w) ==
    \A request \in task[w] :
        /\ w \in busy => client[w].request = {request}
        /\ w \in Range(completed) \/ callback[w] # "none" =>
              IsShutdown(request)
              \/ \E answer \in Promised!Promise(request) : client[w].response = {answer}
        /\ callback[w] = "result" =>
              IsShutdown(request) \/ client[w].response = {request.variant}

BindingsInv ==
    /\ IPCInv
    /\ BindingsTypeOK
    /\ OneStage
    /\ \A w \in Clients : AtMostOne(task[w]) /\ CallFits(w)

\* the stages exclude each other
StageFits(w) ==
    /\ w \in Range(queue) =>
          w \notin busy /\ w \notin Range(completed) /\ callback[w] = "none"
    /\ w \in busy => w \notin Range(completed) /\ callback[w] = "none"
    /\ w \in Range(completed) => callback[w] = "none"
    /\ task[w] = {} <=> /\ w \notin Range(queue) /\ w \notin busy
                        /\ w \notin Range(completed) /\ callback[w] = "none"

LEMMA OneStageIsFit ==
    OneStage <=> (\A w \in Clients : StageFits(w)) /\ IsInjective(queue) /\ IsInjective(completed)
<1>1. ASSUME NEW w \in Clients
      PROVE  AtMostOne(Stages(w)) /\ (Stages(w) = {} <=> task[w] = {}) <=> StageFits(w)
  <2>1. AtMostOne(Stages(w))
        <=> /\ w \in Range(queue) =>
                  w \notin busy /\ w \notin Range(completed) /\ callback[w] = "none"
            /\ w \in busy => w \notin Range(completed) /\ callback[w] = "none"
            /\ w \in Range(completed) => callback[w] = "none"
    BY DEF AtMostOne, Stages
  <2>2. Stages(w) = {} <=> /\ w \notin Range(queue) /\ w \notin busy
                           /\ w \notin Range(completed) /\ callback[w] = "none"
    BY DEF Stages
  <2> QED
    BY <2>1, <2>2 DEF StageFits
<1> QED
  BY <1>1 DEF OneStage

LEMMA OneStageNext ==
    OneStage' <=> /\ \A w \in Clients : StageFits(w)'
                  /\ IsInjective(queue') /\ IsInjective(completed')
<1>1. (OneStage <=> /\ \A w \in Clients : StageFits(w)
                    /\ IsInjective(queue) /\ IsInjective(completed))'
  BY OneStageIsFit, PTL
<1> QED
  BY <1>1

LEMMA InitBindings == BindingsInit => BindingsInv
<1> SUFFICES ASSUME BindingsInit PROVE BindingsInv
  OBVIOUS
<1>1. IPCInv
  BY InitIPC DEF BindingsInit
<1>2. queue \in Seq(Clients) /\ completed \in Seq(Clients)
      /\ Range(queue) = {} /\ Range(completed) = {}
      /\ IsInjective(queue) /\ IsInjective(completed)
  BY DEF BindingsInit, Range, IsInjective
<1>3. BindingsTypeOK
  BY <1>1, <1>2 DEF BindingsInit, BindingsTypeOK, IPCInv, Nobody, AtMostOne
<1>4. \A w \in Clients : StageFits(w) /\ AtMostOne(task[w]) /\ CallFits(w)
  BY <1>2 DEF BindingsInit, StageFits, CallFits, AtMostOne, Nobody
<1> QED
  BY <1>1, <1>2, <1>3, <1>4, OneStageIsFit DEF BindingsInv

\* Whatever the workers do, the service and its clients take a step of theirs.
LEMMA StepOfIPC ==
    ASSUME BindingsInv, [BindingsNext]_bindings
    PROVE  [Next]_vars
<1>1. ASSUME NEW w \in Clients, NEW request \in Requests, Request(w, request)
      PROVE  UNCHANGED vars
  BY <1>1 DEF Request, ipc, vars
<1>2. ASSUME NEW w \in Clients, Execute(w)
      PROVE  Next
  <2>1. task[w] \subseteq Requests
    BY DEF BindingsInv, BindingsTypeOK
  <2> QED
    BY <1>2, <2>1 DEF Execute, Next
<1>3. ASSUME NEW w \in Clients, Executed(w)
      PROVE  [Next]_vars
  BY <1>3 DEF Executed, Next, ipc, vars
<1>4. CASE Callback \/ Destroy
  BY <1>4 DEF Callback, Destroy, ipc, vars
<1>5. CASE Outside
  BY <1>5 DEF Outside, Next
<1>6. CASE UNCHANGED bindings
  BY <1>6 DEF bindings, ipc, vars
<1> QED
  BY <1>1, <1>2, <1>3, <1>4, <1>5, <1>6 DEF BindingsNext

LEMMA RequestKeeps ==
    ASSUME BindingsInv, IPCInv', NEW w \in Clients, NEW request \in Requests, Request(w, request)
    PROVE  BindingsInv'
<1>1. StageFits(w) /\ task[w] = {} /\ IsInjective(queue) /\ IsInjective(completed)
  BY OneStageIsFit DEF BindingsInv, Request
<1>2. /\ queue' \in Seq(Clients) /\ Range(queue') = Range(queue) \cup {w}
      /\ IsInjective(queue')
  BY <1>1, Appended DEF Request, BindingsInv, BindingsTypeOK, StageFits
<1>3. /\ task'[w] = {request} /\ task' \in [Clients -> SUBSET Requests]
      /\ \A v \in Clients \ {w} : task'[v] = task[v]
  BY DEF Request, BindingsInv, BindingsTypeOK
<1>4. UNCHANGED << client, busy, completed, loop, callback >>
  BY DEF Request, ipc
<1>5. BindingsTypeOK'
  BY <1>2, <1>3, <1>4 DEF BindingsInv, BindingsTypeOK, IPCInv, AtMostOne
<1>6. ASSUME NEW v \in Clients
      PROVE  (StageFits(v) /\ AtMostOne(task[v]) /\ CallFits(v))'
  <2>1. StageFits(v) /\ AtMostOne(task[v]) /\ CallFits(v)
    BY OneStageIsFit DEF BindingsInv
  <2>2. StageFits(v)'
    BY <2>1, <1>1, <1>2, <1>3, <1>4 DEF StageFits
  <2>3. AtMostOne(task[v])'
    BY <2>1, <1>3 DEF AtMostOne
  <2>4. CallFits(v)'
    <3>1. CASE v = w
      BY <3>1, <1>1, <1>4 DEF StageFits, CallFits
    <3>2. CASE v # w
      BY <3>2, <2>1, <1>3, <1>4 DEF CallFits
    <3> QED
      BY <3>1, <3>2
  <2> QED
    BY <2>2, <2>3, <2>4
<1>7. OneStage'
  BY <1>1, <1>2, <1>4, <1>6, OneStageNext
<1> QED
  BY <1>5, <1>6, <1>7 DEF BindingsInv

LEMMA ExecuteKeeps ==
    ASSUME BindingsInv, IPCInv', NEW w \in Clients, Execute(w)
    PROVE  BindingsInv'
<1>1. w \in Range(queue) /\ IsInjective(queue) /\ IsInjective(completed)
      /\ queue' \in Seq(Clients) /\ Range(queue') = Range(queue) \ {w} /\ IsInjective(queue')
  BY OneStageIsFit, Taken DEF Execute, BindingsInv, BindingsTypeOK
<1>2. PICK request \in task[w] : Call(w, request)
  BY DEF Execute
<1>3. /\ client'[w].request = {request}
      /\ \A v \in Clients \ {w} : client'[v] = client[v]
  BY <1>2 DEF Call, BindingsInv, IPCInv, TypeOK
<1>4. busy' = busy \cup {w} /\ UNCHANGED << task, completed, loop, callback >>
  BY DEF Execute
<1>5. BindingsTypeOK'
  BY <1>1, <1>4 DEF BindingsInv, BindingsTypeOK, IPCInv, AtMostOne
<1>6. ASSUME NEW v \in Clients
      PROVE  (StageFits(v) /\ AtMostOne(task[v]) /\ CallFits(v))'
  <2>1. StageFits(v) /\ AtMostOne(task[v]) /\ CallFits(v)
    BY OneStageIsFit DEF BindingsInv
  <2>2. StageFits(v)'
    BY <2>1, <1>1, <1>4 DEF StageFits
  <2>3. AtMostOne(task[v])'
    BY <2>1, <1>4 DEF AtMostOne
  <2>4. CallFits(v)'
    <3>1. CASE v = w
      <4>1. \A other \in task[w] : other = request
        BY <3>1, <2>1 DEF AtMostOne
      <4> QED
        BY <3>1, <4>1, <2>1, <1>1, <1>3, <1>4 DEF StageFits, CallFits
    <3>2. CASE v # w
      BY <3>2, <2>1, <1>3, <1>4 DEF CallFits
    <3> QED
      BY <3>1, <3>2
  <2> QED
    BY <2>2, <2>3, <2>4
<1>7. OneStage'
  BY <1>1, <1>4, <1>6, OneStageNext
<1> QED
  BY <1>5, <1>6, <1>7 DEF BindingsInv

LEMMA ExecutedKeeps ==
    ASSUME BindingsInv, IPCInv', NEW w \in Clients, Executed(w)
    PROVE  BindingsInv'
<1>1. StageFits(w) /\ w \in busy /\ IsInjective(queue) /\ IsInjective(completed)
  BY OneStageIsFit DEF BindingsInv, Executed, Leave
<1>2. /\ completed' \in Seq(Clients) /\ Range(completed') = Range(completed) \cup {w}
      /\ IsInjective(completed')
  BY <1>1, Appended DEF Executed, Leave, BindingsInv, BindingsTypeOK, StageFits
<1>3. PICK request \in task[w] : IF IsShutdown(request) THEN UNCHANGED ipc ELSE Return(w)
  BY DEF Executed
<1>4. \A v \in Clients \ {w} : client'[v] = client[v]
  BY <1>3 DEF ipc, Return, BindingsInv, IPCInv, TypeOK
<1>5. IsShutdown(request)
      \/ \E answer \in Promised!Promise(request) : client'[w].response = {answer}
  <2>1. SUFFICES ASSUME ~ IsShutdown(request)
                 PROVE  \E answer \in Promised!Promise(request) : client'[w].response = {answer}
    OBVIOUS
  <2>2. client[w].request = {request}
    BY <1>1 DEF BindingsInv, CallFits
  <2>3. client'[w].response = reply[w] /\ reply[w] # {}
    BY <2>1, <1>3 DEF Return, BindingsInv, IPCInv, TypeOK
  <2> QED
    BY <2>2, <2>3 DEF BindingsInv, IPCInv, Faithful
<1>6. busy' = busy \ {w} /\ UNCHANGED << task, queue, loop, callback >>
  BY DEF Executed, Leave
<1>7. BindingsTypeOK'
  BY <1>2, <1>6 DEF BindingsInv, BindingsTypeOK, IPCInv, AtMostOne
<1>8. ASSUME NEW v \in Clients
      PROVE  (StageFits(v) /\ AtMostOne(task[v]) /\ CallFits(v))'
  <2>1. StageFits(v) /\ AtMostOne(task[v]) /\ CallFits(v)
    BY OneStageIsFit DEF BindingsInv
  <2>2. StageFits(v)'
    BY <2>1, <1>1, <1>2, <1>6 DEF StageFits
  <2>3. AtMostOne(task[v])'
    BY <2>1, <1>6 DEF AtMostOne
  <2>4. CallFits(v)'
    <3>1. CASE v = w
      <4>1. \A other \in task[w] : other = request
        BY <3>1, <2>1 DEF AtMostOne
      <4> QED
        BY <3>1, <4>1, <1>1, <1>5, <1>6 DEF StageFits, CallFits
    <3>2. CASE v # w
      BY <3>2, <2>1, <1>2, <1>4, <1>6 DEF CallFits
    <3> QED
      BY <3>1, <3>2
  <2> QED
    BY <2>2, <2>3, <2>4
<1>9. OneStage'
  BY <1>1, <1>2, <1>6, <1>8, OneStageNext
<1> QED
  BY <1>7, <1>8, <1>9 DEF BindingsInv

LEMMA CallbackKeeps ==
    ASSUME BindingsInv, IPCInv', Callback
    PROVE  BindingsInv'
<1> DEFINE w == Head(completed)
<1>1. /\ w \in Clients /\ w \in Range(completed) /\ IsInjective(queue) /\ IsInjective(completed)
      /\ completed' \in Seq(Clients) /\ Range(completed') = Range(completed) \ {w}
      /\ IsInjective(completed')
  BY OneStageIsFit, Taken DEF Callback, BindingsInv, BindingsTypeOK
<1>2. PICK request \in task[w] :
         callback' = [callback EXCEPT ![w] = Outcome(request, client[w].response)]
  BY DEF Callback
<1>3. /\ loop' = {w}
      /\ UNCHANGED << client, task, queue, busy >>
  BY DEF Callback, ipc
<1> HIDE DEF w
<1>4. Outcome(request, client[w].response) \in {"result", "error"}
  BY DEF Outcome
<1>5. /\ callback'[w] = Outcome(request, client[w].response)
      /\ \A v \in Clients \ {w} : callback'[v] = callback[v]
      /\ callback' \in [Clients -> {"none", "result", "error"}]
  BY <1>1, <1>2, <1>4 DEF BindingsInv, BindingsTypeOK
<1>6. BindingsTypeOK'
  BY <1>1, <1>3, <1>5 DEF BindingsInv, BindingsTypeOK, IPCInv, AtMostOne
<1>7. ASSUME NEW v \in Clients
      PROVE  (StageFits(v) /\ AtMostOne(task[v]) /\ CallFits(v))'
  <2>1. StageFits(v) /\ AtMostOne(task[v]) /\ CallFits(v)
    BY OneStageIsFit DEF BindingsInv
  <2>2. StageFits(v)'
    BY <2>1, <1>1, <1>3, <1>4, <1>5 DEF StageFits
  <2>3. AtMostOne(task[v])'
    BY <2>1, <1>3 DEF AtMostOne
  <2>4. CallFits(v)'
    <3>1. CASE v = w
      <4>1. \A other \in task[w] : other = request
        BY <3>1, <2>1 DEF AtMostOne
      <4>2. callback'[w] = "result" =>
               IsShutdown(request) \/ client[w].response = {request.variant}
        BY <1>5 DEF Outcome
      <4>3. w \notin busy
        BY <3>1, <2>1, <1>1 DEF StageFits
      <4> QED
        BY <3>1, <4>1, <4>2, <4>3, <2>1, <1>1, <1>3 DEF CallFits
    <3>2. CASE v # w
      BY <3>2, <2>1, <1>1, <1>3, <1>5 DEF CallFits
    <3> QED
      BY <3>1, <3>2
  <2> QED
    BY <2>2, <2>3, <2>4
<1>8. OneStage'
  BY <1>1, <1>3, <1>7, OneStageNext
<1> QED
  BY <1>6, <1>7, <1>8 DEF BindingsInv

LEMMA RestKeeps ==
    ASSUME BindingsInv, IPCInv',
           Destroy \/ Outside \/ UNCHANGED bindings
    PROVE  BindingsInv'
<1>1. /\ UNCHANGED << task, queue, busy, completed, callback >>
      /\ loop' \subseteq loop
  BY DEF Destroy, Outside, node, bindings
<1>2. UNCHANGED client
  <2>1. CASE Destroy \/ UNCHANGED bindings
    BY <2>1 DEF Destroy, bindings, ipc
  <2>2. CASE Outside
    BY <2>2 DEF Outside, Start, ServiceStep, Respond, Break, Hang, Crash, Transmit, Receive
  <2> QED
    BY <2>1, <2>2
<1>3. BindingsTypeOK'
  BY <1>1 DEF BindingsInv, BindingsTypeOK, IPCInv, AtMostOne
<1>4. OneStage'
  BY <1>1 DEF BindingsInv, OneStage, Stages, AtMostOne, Range, IsInjective
<1>5. \A w \in Clients : (AtMostOne(task[w]) /\ CallFits(w))'
  BY <1>1, <1>2 DEF BindingsInv, AtMostOne, CallFits, Range
<1> QED
  BY <1>3, <1>4, <1>5 DEF BindingsInv

LEMMA BindingsKeep == BindingsInv /\ [BindingsNext]_bindings => BindingsInv'
<1> SUFFICES ASSUME BindingsInv, [BindingsNext]_bindings PROVE BindingsInv'
  OBVIOUS
<1>1. IPCInv'
  BY StepOfIPC, NextKeeps DEF BindingsInv
<1> QED
  BY <1>1, RequestKeeps, ExecuteKeeps, ExecutedKeeps, CallbackKeeps, RestKeeps DEF BindingsNext

-----------------------------------------------------------------------------
(* What follows                                                             *)

\* Workers, threads and main loop are where the calls they have made explain.
THEOREM BindingsInvariant == BindingsSpec => []BindingsInv
<1> QED
  BY InitBindings, BindingsKeep, PTL DEF BindingsSpec

\* A process with its workers is a set of clients of the service: whatever is proved of
\* IPC holds of it, the promise to each of its calls included.
THEOREM Composition == BindingsSpec => Spec
<1>1. BindingsInit => Init
  BY DEF BindingsInit
<1>2. BindingsInv /\ [BindingsNext]_bindings => [Next]_vars
  BY StepOfIPC
<1> QED
  BY <1>1, <1>2, BindingsInvariant, PTL DEF BindingsSpec, Spec

\* The state of the process has its type.
THEOREM BindingsTypeCorrect == BindingsSpec => []BindingsTypeOK
<1> QED
  BY BindingsInvariant, PTL DEF BindingsInv

\* A worker is never in two places, so that its callback is called once at most and
\* never while a thread still works for it.
THEOREM Staged == BindingsSpec => []OneStage
<1> QED
  BY BindingsInvariant, PTL DEF BindingsInv

\* A callback that gets a result gets the one to its own, well-formed request.
THEOREM Truthful == BindingsSpec => []CallbackTruthful
<1>1. BindingsInv => CallbackTruthful
  <2> SUFFICES ASSUME BindingsInv, NEW w \in Clients, NEW request \in Requests,
                      task[w] = {request}, callback[w] = "result", ~ IsShutdown(request)
               PROVE  Promised!WellFormed(request) /\ client[w].response = {request.variant}
    BY DEF CallbackTruthful
  <2>1. client[w].response = {request.variant}
    BY DEF BindingsInv, CallFits
  <2>2. PICK answer \in Promised!Promise(request) : client[w].response = {answer}
    BY DEF BindingsInv, CallFits
  <2>3. request.variant \in Promised!Promise(request)
    BY <2>1, <2>2
  <2>4. Promised!WellFormed(request)
    BY <2>3, RequestAssumption DEF Promised!Promise, IsShutdown
  <2> QED
    BY <2>1, <2>4
<1> QED
  BY <1>1, BindingsInvariant, PTL
================================================================================
