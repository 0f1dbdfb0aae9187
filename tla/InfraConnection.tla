-------------------------- MODULE InfraConnection --------------------------
(***************************************************************************)
(* The server's store of connected infrastructures: one channel for each   *)
(* infrastructure whose subscriber has an InfraConnect subscription open.  *)
(* Requests to subscribers are sent to that channel, the UI's log requests *)
(* too; their answers come back by a mutation.  A mutex guards the store;  *)
(* the events that tell UIs of an infrastructure going online or offline   *)
(* are sent while holding it.                                              *)
(*                                                                         *)
(* A panic in a goroutine of its own ends the server, in a resolver the    *)
(* request.  Kube object and namespace requests are like log requests.     *)
(***************************************************************************)
EXTENDS Naturals, FiniteSets

CONSTANTS
    Infras,
    Conns,        \* calls of InfraConnect; one that is over may be made again
    NoConn,
    Dispatchers,  \* goroutines in SendRequestToSubscriber
    LogRequests,  \* UI subscriptions to getPodLog
    Observers,    \* UI subscriptions to getInfraEvents, of one project
    NoOne,
    Leavers,      \* the observers that close their subscription
    Timely,       \* whether the update after a disconnection is done before the subscriber
                  \* is connected again
    MaxSending,   \* bound: requests and log requests in progress at a time
    FaultKinds,   \* what may fail: "update", "panic"
    MaxFaults     \* bound: failed updates and panics that end the server

Senders == Dispatchers \cup LogRequests

ASSUME ConnectionAssumption == /\ NoConn \notin Conns /\ NoOne \notin Senders
                               /\ Dispatchers \cap LogRequests = {}
                               /\ Leavers \subseteq Observers /\ Timely \in BOOLEAN
                               /\ FaultKinds \subseteq {"update", "panic"}
                               /\ MaxFaults \in Nat /\ MaxSending \in Nat

VARIABLES
    connected,  \* ConnectedInfra: the connection of each infrastructure
    active,     \* is_active in the database
    conn,       \* the calls of InfraConnect, with their channels of one message
    mutex,      \* who holds the store's mutex across steps, an event's sender
    unsent,     \* the observers it has still to send to
    observer,   \* the channels in InfraEventPublish
    sender,     \* the goroutines that send to a connection
    asked,      \* the log requests a subscriber has read and not answered
    log,        \* ExperimentLog: the channels of log requests
    faults

store == <<connected, active>>
vars == <<connected, active, conn, mutex, unsent, observer, sender, asked, log, faults>>

\* resolver: InfraConnect itself; cleanup: the goroutine it starts; over: its context is
\* done; closed and full: its channel.
ConnType == [of : Infras \cup {NoConn},
             resolver : {"idle", "lock", "close", "activate", "announce", "sending", "returned"},
             cleanup : {"none", "sending", "delete", "deactivate", "done"},
             over : BOOLEAN, closed : BOOLEAN, full : Senders \cup {NoOne},
             other : Conns \cup {NoConn}]   \* the channel a refused call closes
Idle == [of |-> NoConn, resolver |-> "idle", cleanup |-> "none", over |-> FALSE,
         closed |-> FALSE, full |-> NoOne, other |-> NoConn]

Free == <<>>

TypeOK ==
    /\ connected \in [Infras -> Conns \cup {NoConn}]
    /\ active \in [Infras -> BOOLEAN]
    /\ conn \in [Conns -> ConnType]
    /\ mutex \in {Free} \cup (Conns \X {"resolver", "cleanup"})
    /\ unsent \subseteq Observers /\ (mutex = Free => unsent = {})
    /\ observer \in [Observers -> [state : {"none", "open", "left"}, full : BOOLEAN]]
    /\ sender \in [Senders -> [pc : {"idle", "called", "sending"},
                               infra : Infras \cup {NoConn}, to : Conns \cup {NoConn}]]
    /\ asked \subseteq LogRequests
    /\ log \in [LogRequests -> [listed : BOOLEAN, closed : BOOLEAN]]
    /\ faults \in 0 .. MaxFaults

NotSending == [pc |-> "idle", infra |-> NoConn, to |-> NoConn]
NoLog == [listed |-> FALSE, closed |-> FALSE]

Init ==
    /\ connected = [i \in Infras |-> NoConn] /\ active = [i \in Infras |-> FALSE]
    /\ conn = [c \in Conns |-> Idle]
    /\ mutex = Free /\ unsent = {}
    /\ observer = [o \in Observers |-> [state |-> "none", full |-> FALSE]]
    /\ sender = [s \in Senders |-> NotSending]
    /\ asked = {} /\ log = [q \in LogRequests |-> NoLog]
    /\ faults = 0

MayCall(s) == /\ sender[s].pc = "idle"
              /\ Cardinality({t \in Senders : sender[t].pc # "idle"}
                             \cup {q \in LogRequests : log[q].listed \/ q \in asked}) < MaxSending

Fault(kind) == kind \in FaultKinds /\ faults < MaxFaults /\ faults' = faults + 1

-----------------------------------------------------------------------------
(* InfraConnect *)

\* What a bug would do: a late second call marks the infrastructure inactive.
ForcedDisconnect_Inactive(c) ==
    /\ conn[c].resolver = "close"
    /\ active' = [active EXCEPT ![conn[c].of] = FALSE]
    /\ conn' = [conn EXCEPT ![c] = Idle, ![conn[c].other].closed = TRUE]
    /\ UNCHANGED <<connected, mutex, unsent, observer, sender, asked, log, faults>>

\* The resolver verifies the subscriber, a refusal changes nothing.
InfraConnect(c, i) ==
    /\ conn[c].resolver = "idle"
    /\ conn' = [conn EXCEPT ![c] = [Idle EXCEPT !.of = i, !.resolver = "lock"]]
    /\ UNCHANGED <<store, mutex, unsent, observer, sender, asked, log, faults>>

\* A second connection is refused, and the channel of the first one closed.
AlreadyConnected(c) ==
    /\ conn[c].resolver = "lock" /\ mutex = Free /\ connected[conn[c].of] # NoConn
    /\ conn' = [conn EXCEPT ![c].resolver = "close", ![c].other = connected[conn[c].of]]
    /\ UNCHANGED <<store, mutex, unsent, observer, sender, asked, log, faults>>

\* Closing a channel twice panics, in the resolver; the call ends either way.
ForcedDisconnect(c) ==
    /\ conn[c].resolver = "close"
    /\ conn' = [conn EXCEPT ![c] = Idle, ![conn[c].other].closed = TRUE]
    /\ UNCHANGED <<store, mutex, unsent, observer, sender, asked, log, faults>>

\* What a bug would do: the second connection takes the place of the first.
Registers_Replacing(c) ==
    /\ conn[c].resolver = "lock" /\ mutex = Free
    /\ connected' = [connected EXCEPT ![conn[c].of] = c]
    /\ conn' = [conn EXCEPT ![c].resolver = "activate"]
    /\ UNCHANGED <<active, mutex, unsent, observer, sender, asked, log, faults>>

Registers(c) ==
    /\ conn[c].resolver = "lock" /\ mutex = Free /\ connected[conn[c].of] = NoConn
    /\ Timely => \A d \in Conns : conn[d].of = conn[c].of => conn[d].cleanup # "deactivate"
    /\ connected' = [connected EXCEPT ![conn[c].of] = c]
    /\ conn' = [conn EXCEPT ![c].resolver = "activate"]
    /\ UNCHANGED <<active, mutex, unsent, observer, sender, asked, log, faults>>

\* A failed update is returned as an error: the subscription ends.
Activates(c) ==
    /\ conn[c].resolver = "activate"
    /\ \/ /\ active' = [active EXCEPT ![conn[c].of] = TRUE]
          /\ conn' = [conn EXCEPT ![c].resolver = "announce"]
          /\ UNCHANGED faults
       \/ /\ Fault("update")
          /\ conn' = [conn EXCEPT ![c].resolver = "returned", ![c].over = TRUE]
          /\ UNCHANGED active
    /\ UNCHANGED <<connected, mutex, unsent, observer, sender, asked, log>>

\* The context of a subscription is done when its websocket is lost, or when its channel
\* is found closed.
ContextDone(c) ==
    /\ conn[c].resolver \in {"activate", "announce", "sending", "returned"}
    /\ ~conn[c].over
    /\ conn' = [conn EXCEPT ![c].over = TRUE]
    /\ UNCHANGED <<store, mutex, unsent, observer, sender, asked, log, faults>>

-----------------------------------------------------------------------------
(* SendInfraEvent: the mutex is held until every observer's channel took the event *)

Broadcasts(c, part, from) ==
    /\ mutex = Free
    /\ mutex' = <<c, part>>
    /\ unsent' = {o \in Observers : observer[o].state # "none"}
    /\ conn' = [conn EXCEPT ![c] = from]
    /\ UNCHANGED <<store, observer, sender, asked, log, faults>>

AnnouncesLive(c) ==
    /\ conn[c].resolver = "announce"
    /\ Broadcasts(c, "resolver", [conn[c] EXCEPT !.resolver = "sending"])

\* What a bug would do: the context is looked at once, when the call has returned.
Disconnects_OnReturn(c) ==
    /\ conn[c].over /\ conn[c].cleanup = "none" /\ conn[c].resolver = "returned"
    /\ ~conn[c].closed
    /\ Broadcasts(c, "cleanup", [conn[c] EXCEPT !.cleanup = "sending"])

\* The goroutine that waits for the context.
Disconnects(c) ==
    /\ conn[c].over /\ conn[c].cleanup = "none"
    /\ Broadcasts(c, "cleanup", [conn[c] EXCEPT !.cleanup = "sending"])

SendInfraEvent(o) ==
    /\ o \in unsent /\ ~observer[o].full
    /\ observer' = [observer EXCEPT ![o].full = TRUE]
    /\ unsent' = unsent \ {o}
    /\ UNCHANGED <<store, conn, mutex, sender, asked, log, faults>>

\* What a bug would do: the mutex is released before the events are sent.
InfraEventSent_Early(c) ==
    /\ \/ mutex = <<c, "resolver">> /\ conn' = [conn EXCEPT ![c].resolver = "returned"]
       \/ mutex = <<c, "cleanup">> /\ conn' = [conn EXCEPT ![c].cleanup = "delete"]
    /\ mutex' = Free
    /\ UNCHANGED <<store, unsent, observer, sender, asked, log, faults>>

InfraEventSent(c) ==
    /\ unsent = {}
    /\ \/ mutex = <<c, "resolver">> /\ conn' = [conn EXCEPT ![c].resolver = "returned"]
       \/ mutex = <<c, "cleanup">> /\ conn' = [conn EXCEPT ![c].cleanup = "delete"]
    /\ mutex' = Free
    /\ UNCHANGED <<store, unsent, observer, sender, asked, log, faults>>

Deletes(c) ==
    /\ conn[c].cleanup = "delete" /\ mutex = Free
    /\ connected' = [connected EXCEPT ![conn[c].of] = NoConn]
    /\ conn' = [conn EXCEPT ![c].cleanup = "deactivate"]
    /\ UNCHANGED <<active, mutex, unsent, observer, sender, asked, log, faults>>

\* A failed update is logged.
Deactivates(c) ==
    /\ conn[c].cleanup = "deactivate"
    /\ \/ active' = [active EXCEPT ![conn[c].of] = FALSE] /\ UNCHANGED faults
       \/ Fault("update") /\ UNCHANGED active
    /\ conn' = [conn EXCEPT ![c].cleanup = "done"]
    /\ UNCHANGED <<connected, mutex, unsent, observer, sender, asked, log>>

\* A call whose resolver and cleanup are done, and whose channel nobody holds, is gone.
Gone(c) ==
    /\ conn[c].resolver = "returned" /\ conn[c].cleanup = "done"
    /\ \A d \in Conns : conn[d].other # c
    /\ \A s \in Senders : sender[s].to # c
    /\ conn' = [conn EXCEPT ![c] = Idle]
    /\ UNCHANGED <<store, mutex, unsent, observer, sender, asked, log, faults>>

-----------------------------------------------------------------------------
(* What is sent to a connection *)

\* gqlgen hands the channel's message to the websocket once the resolver has returned.
Delivers(c) ==
    /\ conn[c].resolver = "returned" /\ ~conn[c].over /\ conn[c].full # NoOne
    /\ asked' = asked \cup ({conn[c].full} \cap LogRequests)
    /\ conn' = [conn EXCEPT ![c].full = NoOne]
    /\ UNCHANGED <<store, mutex, unsent, observer, sender, log, faults>>

Sends(s) ==
    /\ sender[s].pc = "sending" /\ ~conn[sender[s].to].closed
    /\ conn[sender[s].to].full = NoOne
    /\ conn' = [conn EXCEPT ![sender[s].to].full = s]
    /\ sender' = [sender EXCEPT ![s] = NotSending]
    /\ UNCHANGED <<store, mutex, unsent, observer, asked, log, faults>>

\* SendRequestToSubscriber: look the connection up, send to it or give up after 15 s.
Calls(d, i) ==
    /\ MayCall(d)
    /\ sender' = [sender EXCEPT ![d] = [pc |-> "called", infra |-> i, to |-> NoConn]]
    /\ UNCHANGED <<store, conn, mutex, unsent, observer, asked, log, faults>>

LooksUp(d) ==
    /\ sender[d].pc = "called" /\ mutex = Free
    /\ LET c == connected[sender[d].infra]
       IN  sender' = [sender EXCEPT ![d] = IF c = NoConn THEN NotSending
                                           ELSE [@ EXCEPT !.pc = "sending", !.to = c]]
    /\ UNCHANGED <<store, conn, mutex, unsent, observer, asked, log, faults>>

\* The timer, or a panic on a closed channel in a resolver.
GivesUp(d) ==
    /\ sender[d].pc = "sending"
    /\ sender' = [sender EXCEPT ![d] = NotSending]
    /\ UNCHANGED <<store, conn, mutex, unsent, observer, asked, log, faults>>

\* GetPodLog lists the request; its goroutine GetLogs looks the connection up without
\* the mutex.
GetPodLog(q, i) ==
    /\ MayCall(q) /\ log[q] = NoLog /\ q \notin asked
    /\ \A c \in Conns : conn[c].full # q
    /\ mutex = Free
    /\ log' = [log EXCEPT ![q].listed = TRUE]
    /\ sender' = [sender EXCEPT ![q] = [pc |-> "called", infra |-> i, to |-> NoConn]]
    /\ UNCHANGED <<store, conn, mutex, unsent, observer, asked, faults>>

Answered(q) == [log EXCEPT ![q].closed = log[q].listed]

\* What a bug would do: a request that was sent on is answered for, too.
GetLogs_AlwaysAnswers(q) ==
    /\ sender[q].pc = "called"
    /\ LET c == connected[sender[q].infra]
       IN  /\ log' = Answered(q)
           /\ sender' = IF c = NoConn THEN [sender EXCEPT ![q] = NotSending]
                        ELSE [sender EXCEPT ![q].pc = "sending", ![q].to = c]
    /\ UNCHANGED <<store, conn, mutex, unsent, observer, asked, faults>>

\* An infrastructure that is not connected is answered for.  There is no timer here.
GetLogs(q) ==
    /\ sender[q].pc = "called"
    /\ LET c == connected[sender[q].infra]
       IN  IF c = NoConn
           THEN log' = Answered(q) /\ sender' = [sender EXCEPT ![q] = NotSending]
           ELSE sender' = [sender EXCEPT ![q].pc = "sending", ![q].to = c] /\ UNCHANGED log
    /\ UNCHANGED <<store, conn, mutex, unsent, observer, asked, faults>>

\* The subscriber's answer goes to the request's channel, if the UI is still there.
PodLog(q) ==
    /\ q \in asked
    /\ asked' = asked \ {q}
    /\ log' = Answered(q)
    /\ UNCHANGED <<store, conn, mutex, unsent, observer, sender, faults>>

CloseLogListener(q) ==
    /\ log[q].listed
    /\ log' = [log EXCEPT ![q] = NoLog]
    /\ UNCHANGED <<store, conn, mutex, unsent, observer, sender, asked, faults>>

\* Sending on a closed channel in a goroutine ends the server: its memory is lost, the
\* subscribers' websockets with it, and is_active stays what it was.
PanicEndsServer(s) ==
    /\ sender[s].pc = "sending" /\ conn[sender[s].to].closed
    /\ Fault("panic")
    /\ connected' = [i \in Infras |-> NoConn]
    /\ conn' = [c \in Conns |-> Idle]
    /\ mutex' = Free /\ unsent' = {}
    /\ observer' = [o \in Observers |-> [state |-> "none", full |-> FALSE]]
    /\ sender' = [t \in Senders |-> NotSending]
    /\ asked' = {} /\ log' = [q \in LogRequests |-> NoLog]
    /\ UNCHANGED active

-----------------------------------------------------------------------------
(* The UIs that watch the infrastructures of the project *)

GetInfraEvents(o) ==
    /\ observer[o].state = "none" /\ mutex = Free
    /\ observer' = [observer EXCEPT ![o].state = "open"]
    /\ UNCHANGED <<store, conn, mutex, unsent, sender, asked, log, faults>>

ReadsEvent(o) ==
    /\ observer[o].state = "open" /\ observer[o].full
    /\ observer' = [observer EXCEPT ![o].full = FALSE]
    /\ UNCHANGED <<store, conn, mutex, unsent, sender, asked, log, faults>>

\* Nothing takes the channel of a closed subscription out of InfraEventPublish.
Leaves(o) ==
    /\ o \in Leavers /\ observer[o].state = "open"
    /\ observer' = [observer EXCEPT ![o].state = "left"]
    /\ UNCHANGED <<store, conn, mutex, unsent, sender, asked, log, faults>>

-----------------------------------------------------------------------------
\* What the server does by itself.
ServerStep ==
    \/ \E c \in Conns : \/ AlreadyConnected(c) \/ ForcedDisconnect(c) \/ Registers(c)
                        \/ Activates(c) \/ AnnouncesLive(c) \/ Disconnects(c)
                        \/ InfraEventSent(c) \/ Deletes(c) \/ Deactivates(c) \/ Gone(c)
                        \/ Delivers(c)
    \/ \E s \in Senders : Sends(s) \/ PanicEndsServer(s)
    \/ \E d \in Dispatchers : LooksUp(d) \/ GivesUp(d)
    \/ \E q \in LogRequests : GetLogs(q)
    \/ \E o \in Observers : SendInfraEvent(o) \/ ReadsEvent(o)

Next ==
    \/ ServerStep
    \/ \E c \in Conns : ContextDone(c) \/ \E i \in Infras : InfraConnect(c, i)
    \/ \E d \in Dispatchers, i \in Infras : Calls(d, i)
    \/ \E q \in LogRequests : PodLog(q) \/ CloseLogListener(q) \/ \E i \in Infras : GetPodLog(q, i)
    \/ \E o \in Observers : GetInfraEvents(o) \/ Leaves(o)

Spec == Init /\ [][Next]_vars

\* Goroutines run; Go's mutex starves nobody, so a step that waits for it is taken if the
\* mutex is free again and again; a UI that has not left reads its events.
Fairness ==
    /\ \A c \in Conns : /\ SF_vars(AnnouncesLive(c) \/ Disconnects(c) \/ Deletes(c))
                        /\ WF_vars(InfraEventSent(c))
    /\ \A o \in Observers : WF_vars(SendInfraEvent(o)) /\ WF_vars(ReadsEvent(o))

LiveSpec == Spec /\ Fairness

DispatchSpec ==
    LiveSpec /\ \A d \in Dispatchers : SF_vars(LooksUp(d)) /\ WF_vars(GivesUp(d))

-----------------------------------------------------------------------------
(* The store knows every connection that is up, until its own cleanup: a second        *)
(* connection of the same infrastructure, or the late cleanup of an earlier one, never *)
(* takes its place, or requests would go to a websocket nobody reads while the         *)
(* subscriber waits on the other.                                                      *)
UpIsInStore ==
    \A c \in Conns :
        conn[c].resolver \in {"activate", "announce", "sending", "returned"}
        /\ conn[c].cleanup \in {"none", "sending", "delete"}
        => connected[conn[c].of] = c

(* An infrastructure with a connection that is up is shown as active, so that runs are *)
(* accepted for it: no update of an earlier connection comes late (Timely).            *)
UpIsActive ==
    \A c \in Conns :
        conn[c].resolver \in {"announce", "sending", "returned"}
        /\ conn[c].cleanup \in {"none", "sending", "delete"} /\ ~conn[c].over
        => active[conn[c].of]

(* A log request is answered once: by the server for an infrastructure that is not     *)
(* connected, or by the subscriber; an answer to a channel already closed would end    *)
(* the request that brings it in a panic.                                              *)
AnsweredOnce == \A q \in asked : ~log[q].closed

(* A dispatch ends, whatever other subscribers do: comment of SendRequestToSubscriber, *)
(* the send cannot wait forever.                                                       *)
DispatchEnds == \A d \in Dispatchers : sender[d].pc # "idle" ~> sender[d].pc = "idle"

(* A connection that was lost leaves the store, so that its subscriber, refused until  *)
(* then, can connect again; one UI that left its subscription to events is enough to   *)
(* prevent it, its channel is never taken out of InfraEventPublish.                    *)
LostLeavesStore ==
    \A c \in Conns : conn[c].over ~> \/ \A i \in Infras : connected[i] # c
                                     \/ \E o \in Observers : observer[o].state = "left"

=============================================================================
