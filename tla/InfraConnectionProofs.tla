------------------------ MODULE InfraConnectionProofs ------------------------
(***************************************************************************)
(* Proofs about InfraConnection, for any number of infrastructures, calls  *)
(* of InfraConnect, requests, observers and faults.                        *)
(*                                                                         *)
(* The argument: a cleanup deletes by infrastructure, not by connection,   *)
(* and is right because its own connection still holds the place: a second *)
(* call is refused while the place is taken, and only the cleanup frees    *)
(* it.  A log request is one token: with the goroutine that sends it, in a *)
(* connection's channel, or with the subscriber; an answer takes it away.  *)
(***************************************************************************)
EXTENDS InfraConnection, TLAPS

\* A connection that is registered, and one whose cleanup has not deleted it yet.
Up == {"activate", "announce", "sending", "returned"}
Present == {"none", "sending", "delete"}

Registered(c) == conn[c].resolver \in Up /\ conn[c].cleanup \in Present
Shown(c) == Registered(c) /\ conn[c].resolver # "activate" /\ ~conn[c].over
Owed(c) == conn[c].cleanup = "deactivate"

ConnInv(c) ==
    /\ conn[c].resolver # "idle" => conn[c].of \in Infras
    /\ conn[c].over \/ conn[c].cleanup # "none" => conn[c].resolver \in Up
    /\ mutex = <<c, "resolver">> => conn[c].resolver = "sending"
    /\ mutex = <<c, "cleanup">> => conn[c].cleanup = "sending"

\* While the update after a disconnection is owed, the infrastructure has no other
\* connection that is up.
NoneBeforeUpdate ==
    \A c, d \in Conns :
        /\ c # d /\ conn[c].of = conn[d].of
        /\ conn[d].cleanup = "deactivate" /\ conn[c].resolver \in Up
        => conn[c].cleanup \notin Present

\* Where a log request is, it is nowhere else, and it is not answered; what is sent is for
\* an infrastructure.
LogInv ==
    /\ \A s \in Senders : sender[s].pc # "idle" => sender[s].infra \in Infras
    /\ \A q \in LogRequests :
        /\ sender[q].pc # "idle" =>
               q \notin asked /\ ~log[q].closed /\ \A c \in Conns : conn[c].full # q
        /\ \A c \in Conns : conn[c].full = q =>
               q \notin asked /\ ~log[q].closed /\ \A d \in Conns \ {c} : conn[d].full # q
        /\ q \in asked => ~log[q].closed

Rest == (\A c \in Conns : ConnInv(c)) /\ UpIsInStore
Updates == Timely => NoneBeforeUpdate /\ UpIsActive
IInv == TypeOK /\ Rest /\ Updates /\ LogInv

-----------------------------------------------------------------------------
(* Lemmas on the parts of the invariant *)

\* UpIsActive and NoneBeforeUpdate in these terms.
LEMMA InTerms ==
  /\ UpIsInStore <=> \A c \in Conns : Registered(c) => connected[conn[c].of] = c
  /\ TypeOK => (UpIsActive <=> \A c \in Conns : Shown(c) => active[conn[c].of])
  /\ NoneBeforeUpdate <=> \A c, d \in Conns :
        c # d /\ conn[c].of = conn[d].of /\ Owed(d) => ~Registered(c)
<1>1. TypeOK => \A c \in Conns :
        conn[c].resolver \in {"announce", "sending", "returned"} <=>
            conn[c].resolver \in Up /\ conn[c].resolver # "activate"
  BY DEF Up
<1> QED
  BY <1>1 DEF UpIsInStore, UpIsActive, NoneBeforeUpdate, Registered, Shown, Owed, Up, Present

\* A step that registers and owes nothing new, and shows what is active.
LEMMA CalmKeeps ==
  ASSUME TypeOK, TypeOK', Rest, Updates, UNCHANGED connected,
         \A c \in Conns : ConnInv(c)',
         \A i \in Infras : active[i] => active'[i],
         \A c \in Conns : /\ Registered(c)' => Registered(c) /\ conn'[c].of = conn[c].of
                          /\ Shown(c)' => Shown(c) \/ active'[conn'[c].of]
                          /\ Owed(c)' => Owed(c) /\ conn'[c].of = conn[c].of
  PROVE  Rest' /\ Updates'
<1>1. UpIsInStore'
  BY InTerms DEF Rest, UpIsInStore, Registered, Up, Present
<1>2. Timely => UpIsActive'
  <2>1. \A c \in Conns : Shown(c)' => conn'[c].of = conn[c].of /\ conn'[c].of \in Infras
    BY DEF Shown, Registered, ConnInv, Up
  <2>2. Timely => \A c \in Conns : Shown(c) => active[conn[c].of]
    BY InTerms DEF Updates
  <2>3. Timely => \A c \in Conns : Shown(c)' => active'[conn'[c].of]
    BY <2>1, <2>2
  <2> QED
    BY <2>3 DEF UpIsActive, Shown, Registered, Up, Present
<1>3. Timely => NoneBeforeUpdate'
  BY InTerms DEF Updates, NoneBeforeUpdate, Owed, Registered, Up, Present
<1> QED
  BY <1>1, <1>2, <1>3 DEF Rest, Updates

\* The same, when is_active does not change either.
LEMMA QuietKeeps ==
  ASSUME TypeOK, TypeOK', Rest, Updates, UNCHANGED <<connected, active>>,
         \A c \in Conns : ConnInv(c)',
         \A c \in Conns : conn'[c].of = conn[c].of,
         \A c \in Conns : /\ Registered(c)' => Registered(c)
                          /\ Shown(c)' => Shown(c)
                          /\ Owed(c)' => Owed(c)
  PROVE  Rest' /\ Updates'
<1>1. \A i \in Infras : active[i] => active'[i]
  OBVIOUS
<1>2. \A c \in Conns : /\ Registered(c)' => Registered(c) /\ conn'[c].of = conn[c].of
                       /\ Shown(c)' => Shown(c) \/ active'[conn'[c].of]
                       /\ Owed(c)' => Owed(c) /\ conn'[c].of = conn[c].of
  OBVIOUS
<1> QED
  BY <1>1, <1>2, CalmKeeps

\* A step that moves no log request, but may empty channels.
LEMMA LogStays ==
  ASSUME LogInv, UNCHANGED <<sender, asked, log>>,
         \A c \in Conns : conn'[c].full \in {conn[c].full, NoOne}
  PROVE  LogInv'
<1>1. NoOne \notin LogRequests
  BY ConnectionAssumption DEF Senders
<1> QED
  BY <1>1 DEF LogInv

\* The part of the store, when only channels of connections and senders change.
LEMMA StoreStays ==
  ASSUME TypeOK, TypeOK', Rest, Updates, UNCHANGED <<connected, active, mutex>>,
         \A c \in Conns : /\ conn'[c].of = conn[c].of /\ conn'[c].resolver = conn[c].resolver
                          /\ conn'[c].cleanup = conn[c].cleanup /\ conn'[c].over = conn[c].over
  PROVE  Rest' /\ Updates'
<1>1. \A c \in Conns : ConnInv(c)'
  BY DEF Rest, ConnInv
<1> QED
  BY <1>1, CalmKeeps DEF Registered, Shown, Owed

\* The record of a call that is not made yet is well formed.
LEMMA IdleIsConn == Idle \in ConnType
BY ConnectionAssumption DEF Idle, ConnType

-----------------------------------------------------------------------------
(* InfraConnect *)

\* A step of one call that leaves the store and the senders alone.
LEMMA CallKeeps ==
  ASSUME IInv, UNCHANGED <<connected, active, mutex, unsent, observer, sender, asked, log>>,
         faults' \in 0 .. MaxFaults, conn' \in [Conns -> ConnType],
         NEW c \in Conns, mutex # <<c, "resolver">>, mutex # <<c, "cleanup">>,
         \A d \in Conns \ {c} : /\ conn'[d].of = conn[d].of /\ conn'[d].over = conn[d].over
                                /\ conn'[d].resolver = conn[d].resolver
                                /\ conn'[d].cleanup = conn[d].cleanup
                                /\ conn'[d].full = conn[d].full,
         conn'[c].full \in {conn[c].full, NoOne},
         conn'[c].resolver # "idle" => conn'[c].of \in Infras,
         conn'[c].over \/ conn'[c].cleanup # "none" => conn'[c].resolver \in Up,
         Registered(c)' => Registered(c) /\ conn'[c].of = conn[c].of,
         Shown(c)' => Shown(c),
         Owed(c)' => Owed(c) /\ conn'[c].of = conn[c].of
  PROVE  IInv'
<1>1. TypeOK /\ Rest /\ Updates /\ LogInv
  BY DEF IInv
<1>2. TypeOK'
  BY <1>1 DEF TypeOK
<1>3. LogInv'
  BY <1>1, LogStays
<1>4. \A d \in Conns : ConnInv(d)'
  <2>1. \A d \in Conns \ {c} : ConnInv(d)'
    BY <1>1 DEF Rest, ConnInv
  <2>2. ConnInv(c)'
    BY DEF ConnInv
  <2> QED
    BY <2>1, <2>2
<1>5. Rest' /\ Updates'
  BY <1>1, <1>2, <1>4, CalmKeeps DEF Registered, Shown, Owed
<1> QED
  BY <1>2, <1>3, <1>5 DEF IInv

\* A call begins, is refused, ends, or goes on to announce itself.
LEMMA CallStepsKeep ==
  ASSUME IInv, NEW c \in Conns,
         \/ \E i \in Infras : InfraConnect(c, i)
         \/ AlreadyConnected(c) \/ ForcedDisconnect(c) \/ Gone(c)
  PROVE  IInv'
<1>1. /\ TypeOK /\ ConnInv(c) /\ conn \in [Conns -> ConnType] /\ conn[c] \in ConnType
      /\ faults \in 0 .. MaxFaults
  BY DEF IInv, Rest, TypeOK
<1>2. /\ UNCHANGED <<connected, active, mutex, unsent, observer, sender, asked, log>>
      /\ faults' \in 0 .. MaxFaults
  BY <1>1 DEF InfraConnect, AlreadyConnected, ForcedDisconnect, Gone, store
<1>3. conn[c].resolver # "sending" /\ conn[c].cleanup # "sending"
  BY <1>1 DEF InfraConnect, AlreadyConnected, ForcedDisconnect, Gone, ConnInv, Up
<1>4. mutex # <<c, "resolver">> /\ mutex # <<c, "cleanup">>
  BY <1>1, <1>3 DEF ConnInv
<1> USE DEF Up, Present
<1>5. CASE \E i \in Infras : InfraConnect(c, i)
  <2>1. PICK i \in Infras : InfraConnect(c, i)
    BY <1>5
  <2> DEFINE new == [Idle EXCEPT !.of = i, !.resolver = "lock"]
  <2>2. /\ new \in ConnType /\ new.of = i /\ new.resolver = "lock" /\ new.cleanup = "none"
        /\ new.over = FALSE /\ new.full = NoOne
    BY IdleIsConn DEF Idle, ConnType
  <2>3. conn' = [conn EXCEPT ![c] = new]
    BY <2>1 DEF InfraConnect
  <2> HIDE DEF new
  <2>4. conn'[c] = new /\ \A d \in Conns \ {c} : conn'[d] = conn[d]
    BY <1>1, <2>3
  <2>5. conn' \in [Conns -> ConnType]
    BY <1>1, <2>2, <2>3
  <2>6. ~Registered(c)' /\ ~Owed(c)'
    BY <2>2, <2>4 DEF Registered, Owed
  <2> QED
    BY <1>2, <1>4, <2>2, <2>4, <2>5, <2>6, CallKeeps DEF Shown
<1>6. CASE AlreadyConnected(c)
  <2>1. /\ conn' = [conn EXCEPT ![c].resolver = "close", ![c].other = connected[conn[c].of]]
        /\ conn[c].resolver = "lock"
    BY <1>6 DEF AlreadyConnected
  <2>2. conn[c].of \in Infras /\ conn[c].cleanup = "none" /\ conn[c].over = FALSE
    BY <1>1, <2>1 DEF ConnInv, ConnType
  <2>3. connected[conn[c].of] \in Conns \cup {NoConn}
    BY <1>1, <2>2 DEF TypeOK
  <2>4. /\ conn' \in [Conns -> ConnType]
        /\ conn'[c].resolver = "close" /\ conn'[c].of = conn[c].of
        /\ conn'[c].cleanup = conn[c].cleanup /\ conn'[c].over = conn[c].over
        /\ conn'[c].full = conn[c].full
        /\ \A d \in Conns \ {c} : conn'[d] = conn[d]
    BY <1>1, <2>1, <2>3 DEF ConnType
  <2>5. ~Registered(c)' /\ ~Owed(c)'
    BY <2>2, <2>4 DEF Registered, Owed
  <2> QED
    BY <1>2, <1>4, <2>2, <2>4, <2>5, CallKeeps DEF Shown
<1>7. CASE ForcedDisconnect(c)
  <2> DEFINE e == conn[c].other
  <2>1. conn' = [conn EXCEPT ![c] = Idle, ![e].closed = TRUE]
    BY <1>7 DEF ForcedDisconnect
  <2>2. /\ conn'[c].resolver = "idle" /\ conn'[c].cleanup = "none"
        /\ conn'[c].over = FALSE /\ conn'[c].full = NoOne
    BY <1>1, <2>1 DEF Idle
  <2>3. \A d \in Conns \ {c} : /\ conn'[d].of = conn[d].of /\ conn'[d].over = conn[d].over
                               /\ conn'[d].resolver = conn[d].resolver
                               /\ conn'[d].cleanup = conn[d].cleanup
                               /\ conn'[d].full = conn[d].full
    BY <1>1, <2>1 DEF ConnType
  <2>4. conn' \in [Conns -> ConnType]
    <3> DEFINE mid == [conn EXCEPT ![c] = Idle]
    <3>1. mid \in [Conns -> ConnType]
      BY <1>1, IdleIsConn
    <3>2. conn' = [mid EXCEPT ![e].closed = TRUE]
      BY <2>1
    <3> HIDE DEF mid
    <3>3. CASE e \in Conns
      <4>1. [mid[e] EXCEPT !.closed = TRUE] \in ConnType
        <5>1. mid[e] \in ConnType
          BY <3>1, <3>3
        <5> QED
          BY <5>1 DEF ConnType
      <4> QED
        BY <3>1, <3>2, <3>3, <4>1
    <3>4. CASE e \notin Conns
      BY <3>1, <3>2, <3>4
    <3> QED
      BY <3>3, <3>4
  <2>5. ~Registered(c)' /\ ~Owed(c)'
    BY <2>2 DEF Registered, Owed
  <2> QED
    BY <1>2, <1>4, <2>2, <2>3, <2>4, <2>5, CallKeeps DEF Shown
<1>8. CASE Gone(c)
  <2>1. conn' = [conn EXCEPT ![c] = Idle]
    BY <1>8 DEF Gone
  <2>2. /\ conn' \in [Conns -> ConnType]
        /\ conn'[c] = Idle /\ \A d \in Conns \ {c} : conn'[d] = conn[d]
    BY <1>1, <2>1, IdleIsConn
  <2>3. ~Registered(c)' /\ ~Owed(c)'
    BY <2>2 DEF Registered, Owed, Idle
  <2> QED
    BY <1>2, <1>4, <2>2, <2>3, CallKeeps DEF Shown, Idle
<1> QED
  BY <1>5, <1>6, <1>7, <1>8

\* A call takes the place of its infrastructure.
LEMMA RegistersKeeps ==
  ASSUME IInv, NEW c \in Conns, Registers(c)
  PROVE  IInv'
<1>1. /\ TypeOK /\ Rest /\ Updates /\ LogInv /\ ConnInv(c)
      /\ conn \in [Conns -> ConnType] /\ conn[c] \in ConnType
  BY DEF IInv, Rest, TypeOK
<1> DEFINE i == conn[c].of
<1>2. /\ connected' = [connected EXCEPT ![i] = c]
      /\ conn' = [conn EXCEPT ![c].resolver = "activate"]
      /\ UNCHANGED <<active, mutex, unsent, observer, sender, asked, log, faults>>
      /\ conn[c].resolver = "lock" /\ connected[i] = NoConn
      /\ Timely => \A d \in Conns : conn[d].of = conn[c].of => conn[d].cleanup # "deactivate"
  BY DEF Registers
<1>3. /\ conn' \in [Conns -> ConnType]
      /\ conn'[c].resolver = "activate" /\ conn'[c].of = i
      /\ conn'[c].cleanup = conn[c].cleanup /\ conn'[c].over = conn[c].over
      /\ \A d \in Conns \ {c} : conn'[d] = conn[d]
      /\ \A d \in Conns : conn'[d].full = conn[d].full
  BY <1>1, <1>2 DEF ConnType
<1>4. i \in Infras /\ conn[c].cleanup = "none" /\ connected'[i] = c
      /\ \A j \in Infras \ {i} : connected'[j] = connected[j]
  BY <1>1, <1>2 DEF ConnInv, Up, TypeOK
<1>5. TypeOK'
  BY <1>1, <1>2, <1>3, <1>4 DEF TypeOK
<1>6. LogInv'
  BY <1>1, <1>2, <1>3, LogStays
<1>7. \A d \in Conns : ConnInv(d)'
  <2>1. \A d \in Conns \ {c} : ConnInv(d)'
    BY <1>1, <1>2, <1>3 DEF Rest, ConnInv
  <2>2. ConnInv(c)'
    BY <1>1, <1>2, <1>3, <1>4 DEF ConnInv, Up
  <2> QED
    BY <2>1, <2>2
<1>8. NoConn \notin Conns
  BY ConnectionAssumption
<1>9. \A d \in Conns : Registered(d) => conn[d].of # i /\ conn[d].of \in Infras
  <2>1. \A d \in Conns : Registered(d) => connected[conn[d].of] = d /\ conn[d].of \in Infras
    BY <1>1 DEF Rest, UpIsInStore, Registered, ConnInv, Up, Present
  <2> QED
    BY <1>2, <1>8, <2>1
<1>10. UpIsInStore'
  <2>1. \A d \in Conns \ {c} : Registered(d)' => connected'[conn'[d].of] = d
    <3>1. TAKE d \in Conns \ {c}
    <3>2. HAVE Registered(d)'
    <3>3. Registered(d) /\ conn'[d].of = conn[d].of
      BY <1>3, <3>2 DEF Registered
    <3>4. connected[conn[d].of] = d
      BY <1>1, <3>3 DEF Rest, UpIsInStore, Registered, Up, Present
    <3> QED
      BY <1>4, <1>9, <3>3, <3>4
  <2>2. Registered(c)' => connected'[conn'[c].of] = c
    BY <1>3, <1>4
  <2> QED
    BY <2>1, <2>2 DEF UpIsInStore, Registered, Up, Present
<1>11. Timely => UpIsActive'
  <2>1. \A d \in Conns : Shown(d)' => d # c /\ Shown(d) /\ conn'[d].of = conn[d].of
    BY <1>3 DEF Shown, Registered
  <2> QED
    BY <1>1, <1>2, <2>1 DEF Updates, UpIsActive, Shown, Registered, Up, Present
<1>12. Timely => NoneBeforeUpdate'
  BY <1>1, <1>2, <1>3, <1>4, <1>9 DEF Updates, NoneBeforeUpdate, Registered, Up, Present
<1> QED
  BY <1>5, <1>6, <1>7, <1>10, <1>11, <1>12 DEF IInv, Rest, Updates

\* The update of a call that has registered, done or failed.
LEMMA ActivatesKeeps ==
  ASSUME IInv, NEW c \in Conns, Activates(c)
  PROVE  IInv'
<1>1. /\ TypeOK /\ Rest /\ Updates /\ LogInv /\ ConnInv(c)
      /\ conn \in [Conns -> ConnType] /\ conn[c] \in ConnType
  BY DEF IInv, Rest, TypeOK
<1>2. /\ conn[c].resolver = "activate" /\ conn[c].of \in Infras
      /\ UNCHANGED <<connected, mutex, unsent, observer, sender, asked, log>>
      /\ mutex # <<c, "resolver">>
  BY <1>1 DEF Activates, ConnInv
<1>3. \E r \in {"announce", "returned"} :
        /\ conn'[c].resolver = r
        /\ r = "announce" => conn'[c].over = conn[c].over
        /\ r = "returned" => conn'[c].over = TRUE
        /\ \/ active' = [active EXCEPT ![conn[c].of] = TRUE] /\ r = "announce"
           \/ UNCHANGED active /\ r = "returned"
        /\ faults' \in 0 .. MaxFaults
        /\ conn' \in [Conns -> ConnType]
        /\ conn'[c].of = conn[c].of /\ conn'[c].cleanup = conn[c].cleanup
        /\ \A d \in Conns \ {c} : conn'[d] = conn[d]
        /\ \A d \in Conns : conn'[d].full = conn[d].full
  <2>1. CASE /\ active' = [active EXCEPT ![conn[c].of] = TRUE]
             /\ conn' = [conn EXCEPT ![c].resolver = "announce"] /\ UNCHANGED faults
    BY <1>1, <2>1 DEF ConnType, TypeOK
  <2>2. CASE /\ UNCHANGED active /\ Fault("update")
             /\ conn' = [conn EXCEPT ![c].resolver = "returned", ![c].over = TRUE]
    <3>1. faults' \in 0 .. MaxFaults
      BY <1>1, <2>2, ConnectionAssumption DEF Fault, TypeOK
    <3> QED
      BY <1>1, <2>2, <3>1 DEF ConnType
  <2> QED
    BY <2>1, <2>2 DEF Activates
<1>4. active' \in [Infras -> BOOLEAN] /\ \A i \in Infras : active[i] => active'[i]
  BY <1>1, <1>2, <1>3 DEF TypeOK
<1>5. TypeOK'
  BY <1>1, <1>2, <1>3, <1>4 DEF TypeOK
<1>6. LogInv'
  BY <1>1, <1>2, <1>3, LogStays
<1>7. \A d \in Conns : ConnInv(d)'
  <2>1. \A d \in Conns \ {c} : ConnInv(d)'
    BY <1>1, <1>2, <1>3 DEF Rest, ConnInv
  <2>2. ConnInv(c)'
    BY <1>1, <1>2, <1>3 DEF ConnInv, Up
  <2> QED
    BY <2>1, <2>2
<1>8. \A d \in Conns : /\ Registered(d)' => Registered(d) /\ conn'[d].of = conn[d].of
                       /\ Owed(d)' => Owed(d) /\ conn'[d].of = conn[d].of
  BY <1>2, <1>3 DEF Registered, Owed, Up
<1>9. \A d \in Conns \ {c} : Shown(d)' => Shown(d)
  BY <1>3 DEF Shown, Registered
<1>10. Shown(c)' => active'[conn'[c].of]
  BY <1>1, <1>2, <1>3 DEF Shown, TypeOK
<1>11. Rest' /\ Updates'
  BY <1>1, <1>2, <1>4, <1>5, <1>7, <1>8, <1>9, <1>10, CalmKeeps
<1> QED
  BY <1>5, <1>6, <1>11 DEF IInv

\* A subscription ends, or its client is handed the channel's message.
LEMMA ContextDoneKeeps ==
  ASSUME IInv, NEW c \in Conns, ContextDone(c)
  PROVE  IInv'
<1>1. /\ TypeOK /\ Rest /\ Updates /\ LogInv /\ ConnInv(c)
      /\ conn \in [Conns -> ConnType] /\ conn[c] \in ConnType
  BY DEF IInv, Rest, TypeOK
<1>2. /\ conn[c].resolver \in Up
      /\ conn' = [conn EXCEPT ![c].over = TRUE]
      /\ UNCHANGED <<connected, active, mutex, unsent, observer, sender, asked, log, faults>>
  BY DEF ContextDone, Up, store
<1>3. /\ conn' \in [Conns -> ConnType] /\ conn'[c].over = TRUE
      /\ \A d \in Conns : /\ conn'[d].of = conn[d].of /\ conn'[d].resolver = conn[d].resolver
                          /\ conn'[d].cleanup = conn[d].cleanup
                          /\ conn'[d].full = conn[d].full
                          /\ d # c => conn'[d].over = conn[d].over
  BY <1>1, <1>2 DEF ConnType
<1>4. TypeOK'
  BY <1>1, <1>2, <1>3 DEF TypeOK
<1>5. LogInv'
  BY <1>1, <1>2, <1>3, LogStays
<1>6. \A d \in Conns : ConnInv(d)'
  BY <1>1, <1>2, <1>3 DEF Rest, ConnInv
<1>7. \A d \in Conns : /\ Registered(d)' => Registered(d)
                       /\ Shown(d)' => Shown(d)
                       /\ Owed(d)' => Owed(d)
  BY <1>3 DEF Registered, Shown, Owed
<1>8. Rest' /\ Updates'
  BY <1>1, <1>2, <1>3, <1>4, <1>6, <1>7, QuietKeeps
<1> QED
  BY <1>4, <1>5, <1>8 DEF IInv

-----------------------------------------------------------------------------
(* SendInfraEvent *)

\* The mutex is taken for an event.
LEMMA BroadcastsKeep ==
  ASSUME IInv, NEW c \in Conns, AnnouncesLive(c) \/ Disconnects(c)
  PROVE  IInv'
<1>1. /\ TypeOK /\ Rest /\ Updates /\ LogInv /\ ConnInv(c)
      /\ conn \in [Conns -> ConnType] /\ conn[c] \in ConnType
  BY DEF IInv, Rest, TypeOK
<1>2. /\ UNCHANGED <<connected, active, observer, sender, asked, log, faults>>
      /\ unsent' = {o \in Observers : observer[o].state # "none"}
  BY DEF AnnouncesLive, Disconnects, Broadcasts, store
<1>3. \/ /\ mutex' = <<c, "resolver">> /\ conn[c].resolver = "announce"
         /\ conn' = [conn EXCEPT ![c] = [conn[c] EXCEPT !.resolver = "sending"]]
      \/ /\ mutex' = <<c, "cleanup">> /\ conn[c].over /\ conn[c].cleanup = "none"
         /\ conn' = [conn EXCEPT ![c] = [conn[c] EXCEPT !.cleanup = "sending"]]
  BY DEF AnnouncesLive, Disconnects, Broadcasts
<1>4. /\ conn' \in [Conns -> ConnType]
      /\ \A d \in Conns \ {c} : conn'[d] = conn[d]
      /\ \A d \in Conns : /\ conn'[d].full = conn[d].full /\ conn'[d].of = conn[d].of
                          /\ conn'[d].over = conn[d].over
  BY <1>1, <1>3 DEF ConnType
<1>5. \/ /\ mutex' = <<c, "resolver">> /\ conn[c].resolver = "announce"
         /\ conn'[c].resolver = "sending" /\ conn'[c].cleanup = conn[c].cleanup
      \/ /\ mutex' = <<c, "cleanup">> /\ conn[c].over /\ conn[c].cleanup = "none"
         /\ conn'[c].cleanup = "sending" /\ conn'[c].resolver = conn[c].resolver
  BY <1>1, <1>3 DEF ConnType
<1>6. TypeOK'
  <2>1. mutex' \in Conns \X {"resolver", "cleanup"} /\ mutex' # Free
    BY <1>5 DEF Free
  <2> QED
    BY <1>1, <1>2, <1>4, <2>1 DEF TypeOK
<1>7. LogInv'
  BY <1>1, <1>2, <1>4, LogStays
<1>8. \A d \in Conns : ConnInv(d)'
  <2>1. \A d \in Conns \ {c} : ConnInv(d)'
    BY <1>1, <1>4, <1>5 DEF Rest, ConnInv
  <2>2. ConnInv(c)'
    BY <1>1, <1>4, <1>5 DEF ConnInv, Up
  <2> QED
    BY <2>1, <2>2
<1>9. \A d \in Conns : /\ Registered(d)' => Registered(d)
                       /\ Shown(d)' => Shown(d)
                       /\ Owed(d)' => Owed(d)
  BY <1>1, <1>4, <1>5 DEF Registered, Shown, Owed, Up, Present, ConnInv
<1>10. Rest' /\ Updates'
  BY <1>1, <1>2, <1>4, <1>6, <1>8, <1>9, QuietKeeps
<1> QED
  BY <1>6, <1>7, <1>10 DEF IInv

\* The last observer has been told: the mutex is released.
LEMMA InfraEventSentKeeps ==
  ASSUME IInv, NEW c \in Conns, InfraEventSent(c)
  PROVE  IInv'
<1>1. /\ TypeOK /\ Rest /\ Updates /\ LogInv /\ ConnInv(c)
      /\ conn \in [Conns -> ConnType] /\ conn[c] \in ConnType
  BY DEF IInv, Rest, TypeOK
<1>2. /\ UNCHANGED <<connected, active, unsent, observer, sender, asked, log, faults>>
      /\ mutex' = Free
      /\ unsent = {}
  BY DEF InfraEventSent, store
<1>3. \/ /\ mutex = <<c, "resolver">>
         /\ conn' = [conn EXCEPT ![c].resolver = "returned"]
      \/ /\ mutex = <<c, "cleanup">>
         /\ conn' = [conn EXCEPT ![c].cleanup = "delete"]
  BY DEF InfraEventSent
<1>4. /\ conn' \in [Conns -> ConnType]
      /\ \A d \in Conns \ {c} : conn'[d] = conn[d]
      /\ \A d \in Conns : /\ conn'[d].full = conn[d].full /\ conn'[d].of = conn[d].of
                          /\ conn'[d].over = conn[d].over
  BY <1>1, <1>3 DEF ConnType
<1>5. \/ /\ conn[c].resolver = "sending"
         /\ conn'[c].resolver = "returned" /\ conn'[c].cleanup = conn[c].cleanup
      \/ /\ conn[c].cleanup = "sending"
         /\ conn'[c].cleanup = "delete" /\ conn'[c].resolver = conn[c].resolver
  BY <1>1, <1>3 DEF ConnType, ConnInv
<1>6. TypeOK'
  BY <1>1, <1>2, <1>4 DEF TypeOK
<1>7. LogInv'
  BY <1>1, <1>2, <1>4, LogStays
<1>8. \A d \in Conns : ConnInv(d)'
  <2>1. \A d \in Conns \ {c} : ConnInv(d)'
    BY <1>1, <1>2, <1>4 DEF Rest, ConnInv, Free
  <2>2. ConnInv(c)'
    BY <1>1, <1>2, <1>4, <1>5 DEF ConnInv, Up, Free
  <2> QED
    BY <2>1, <2>2
<1>9. \A d \in Conns : /\ Registered(d)' => Registered(d)
                       /\ Shown(d)' => Shown(d)
                       /\ Owed(d)' => Owed(d)
  BY <1>1, <1>4, <1>5 DEF Registered, Shown, Owed, Up, Present, ConnInv
<1>10. Rest' /\ Updates'
  BY <1>1, <1>2, <1>4, <1>6, <1>8, <1>9, QuietKeeps
<1> QED
  BY <1>6, <1>7, <1>10 DEF IInv

-----------------------------------------------------------------------------
(* The cleanup *)

\* The place is its own connection's: no other of the infrastructure is registered.
LEMMA DeletesKeeps ==
  ASSUME IInv, NEW c \in Conns, Deletes(c)
  PROVE  IInv'
<1>1. /\ TypeOK /\ Rest /\ Updates /\ LogInv /\ ConnInv(c)
      /\ conn \in [Conns -> ConnType] /\ conn[c] \in ConnType
  BY DEF IInv, Rest, TypeOK
<1> DEFINE i == conn[c].of
<1>2. /\ connected' = [connected EXCEPT ![i] = NoConn]
      /\ conn' = [conn EXCEPT ![c].cleanup = "deactivate"]
      /\ UNCHANGED <<active, mutex, unsent, observer, sender, asked, log, faults>>
      /\ conn[c].cleanup = "delete"
  BY DEF Deletes
<1>3. /\ conn' \in [Conns -> ConnType]
      /\ conn'[c].cleanup = "deactivate" /\ conn'[c].resolver = conn[c].resolver
      /\ \A d \in Conns \ {c} : conn'[d] = conn[d]
      /\ \A d \in Conns : /\ conn'[d].full = conn[d].full /\ conn'[d].of = conn[d].of
                          /\ conn'[d].over = conn[d].over
  BY <1>1, <1>2 DEF ConnType
<1>4. conn[c].resolver \in Up /\ i \in Infras
  BY <1>1, <1>2 DEF ConnInv, Up
<1>5. connected'[i] = NoConn /\ \A j \in Infras \ {i} : connected'[j] = connected[j]
  BY <1>1, <1>2, <1>4 DEF TypeOK
<1>6. TypeOK'
  BY <1>1, <1>2, <1>3, <1>5 DEF TypeOK
<1>7. LogInv'
  BY <1>1, <1>2, <1>3, LogStays
<1>8. \A d \in Conns : ConnInv(d)'
  <2>1. \A d \in Conns \ {c} : ConnInv(d)'
    BY <1>1, <1>2, <1>3 DEF Rest, ConnInv
  <2>2. ConnInv(c)'
    BY <1>1, <1>2, <1>3, <1>4 DEF ConnInv, Up
  <2> QED
    BY <2>1, <2>2
<1>9. connected[i] = c
  BY <1>1, <1>2, <1>4, InTerms DEF Rest, Registered, Present
<1>10. \A d \in Conns : Registered(d)' => d # c /\ Registered(d)
  BY <1>3 DEF Registered, Present
<1>11. \A d \in Conns \ {c} : Registered(d) =>
          /\ conn[d].of # i /\ conn[d].of \in Infras /\ connected[conn[d].of] = d
  BY <1>1, <1>9, InTerms DEF Rest, Registered, ConnInv, Up
<1>12. UpIsInStore'
  <2>1. \A d \in Conns : Registered(d)' => connected'[conn'[d].of] = d
    BY <1>3, <1>5, <1>10, <1>11
  <2> QED
    BY <2>1 DEF UpIsInStore, Registered, Up, Present
<1>13. Timely => UpIsActive'
  <2>1. \A d \in Conns : Shown(d)' => Shown(d) /\ conn'[d].of = conn[d].of
    BY <1>3, <1>10 DEF Shown, Registered
  <2>2. Timely => \A d \in Conns : Shown(d) => active[conn[d].of]
    BY <1>1, InTerms DEF Updates
  <2>3. Timely => \A d \in Conns : Shown(d)' => active'[conn'[d].of]
    BY <1>2, <2>1, <2>2
  <2> QED
    BY <2>3 DEF UpIsActive, Shown, Registered, Up, Present
<1>14. Timely => NoneBeforeUpdate'
  <2>1. \A d \in Conns \ {c} : Owed(d)' => Owed(d)
    BY <1>3 DEF Owed
  <2>2. Timely => \A d, e \in Conns :
          d # e /\ conn[d].of = conn[e].of /\ Owed(e) => ~Registered(d)
    BY <1>1, InTerms DEF Updates
  <2>3. Timely => \A d, e \in Conns :
          d # e /\ conn'[d].of = conn'[e].of /\ Owed(e)' => ~Registered(d)'
    BY <1>3, <1>10, <1>11, <2>1, <2>2
  <2> QED
    BY <2>3 DEF NoneBeforeUpdate, Owed, Registered, Up, Present
<1> QED
  BY <1>6, <1>7, <1>8, <1>12, <1>13, <1>14 DEF IInv, Rest, Updates

\* The update after a disconnection, done or failed: nothing that is up is shown inactive.
LEMMA DeactivatesKeeps ==
  ASSUME IInv, NEW c \in Conns, Deactivates(c)
  PROVE  IInv'
<1>1. /\ TypeOK /\ Rest /\ Updates /\ LogInv /\ ConnInv(c)
      /\ conn \in [Conns -> ConnType] /\ conn[c] \in ConnType
  BY DEF IInv, Rest, TypeOK
<1>2. /\ conn' = [conn EXCEPT ![c].cleanup = "done"]
      /\ UNCHANGED <<connected, mutex, unsent, observer, sender, asked, log>>
      /\ conn[c].cleanup = "deactivate"
  BY DEF Deactivates
<1>3. /\ conn' \in [Conns -> ConnType]
      /\ conn'[c].cleanup = "done" /\ conn'[c].resolver = conn[c].resolver
      /\ \A d \in Conns \ {c} : conn'[d] = conn[d]
      /\ \A d \in Conns : /\ conn'[d].full = conn[d].full /\ conn'[d].of = conn[d].of
                          /\ conn'[d].over = conn[d].over
  BY <1>1, <1>2 DEF ConnType
<1>4. conn[c].resolver \in Up /\ conn[c].of \in Infras
  BY <1>1, <1>2 DEF ConnInv, Up
<1>5. /\ active' \in [Infras -> BOOLEAN] /\ faults' \in 0 .. MaxFaults
      /\ \A j \in Infras \ {conn[c].of} : active'[j] = active[j]
  <2>1. CASE active' = [active EXCEPT ![conn[c].of] = FALSE] /\ UNCHANGED faults
    BY <1>1, <1>4, <2>1 DEF TypeOK
  <2>2. CASE Fault("update") /\ UNCHANGED active
    BY <1>1, <2>2, ConnectionAssumption DEF Fault, TypeOK
  <2> QED
    BY <2>1, <2>2 DEF Deactivates
<1>6. TypeOK'
  BY <1>1, <1>2, <1>3, <1>5 DEF TypeOK
<1>7. LogInv'
  BY <1>1, <1>2, <1>3, LogStays
<1>8. \A d \in Conns : ConnInv(d)'
  <2>1. \A d \in Conns \ {c} : ConnInv(d)'
    BY <1>1, <1>2, <1>3 DEF Rest, ConnInv
  <2>2. ConnInv(c)'
    BY <1>1, <1>2, <1>3, <1>4 DEF ConnInv, Up
  <2> QED
    BY <2>1, <2>2
<1>9. \A d \in Conns : /\ Registered(d)' => d # c /\ Registered(d)
                       /\ Owed(d)' => d # c /\ Owed(d)
  BY <1>3 DEF Registered, Owed, Present
<1>10. UpIsInStore'
  <2>1. \A d \in Conns : Registered(d)' => connected'[conn'[d].of] = d
    BY <1>1, <1>2, <1>3, <1>9, InTerms DEF Rest
  <2> QED
    BY <2>1 DEF UpIsInStore, Registered, Up, Present
<1>11. Timely => \A d, e \in Conns :
          d # e /\ conn[d].of = conn[e].of /\ Owed(e) => ~Registered(d)
  BY <1>1, InTerms DEF Updates
<1>12. Timely => UpIsActive'
  <2>1. Timely => \A d \in Conns : Registered(d)' =>
            /\ conn'[d].of = conn[d].of /\ conn[d].of # conn[c].of /\ conn[d].of \in Infras
    <3>1. Owed(c)
      BY <1>2 DEF Owed
    <3>2. \A d \in Conns : Registered(d) => conn[d].of \in Infras
      BY <1>1 DEF Registered, Rest, ConnInv, Up
    <3> QED
      BY <1>3, <1>9, <1>11, <3>1, <3>2
  <2>2. \A d \in Conns : Shown(d)' => Shown(d) /\ Registered(d)'
    BY <1>3, <1>9 DEF Shown, Registered
  <2>3. Timely => \A d \in Conns : Shown(d) => active[conn[d].of]
    BY <1>1, InTerms DEF Updates
  <2>4. Timely => \A d \in Conns : Shown(d)' => active'[conn'[d].of]
    BY <1>5, <2>1, <2>2, <2>3
  <2> QED
    BY <2>4 DEF UpIsActive, Shown, Registered, Up, Present
<1>13. Timely => NoneBeforeUpdate'
  <2>1. Timely => \A d, e \in Conns :
          d # e /\ conn'[d].of = conn'[e].of /\ Owed(e)' => ~Registered(d)'
    BY <1>3, <1>9, <1>11
  <2> QED
    BY <2>1 DEF NoneBeforeUpdate, Owed, Registered, Up, Present
<1> QED
  BY <1>6, <1>7, <1>8, <1>10, <1>12, <1>13 DEF IInv, Rest, Updates

-----------------------------------------------------------------------------
(* What is sent to a connection *)

\* A connection's client is handed the message; a log request is then with the subscriber.
LEMMA DeliversKeeps ==
  ASSUME IInv, NEW c \in Conns, Delivers(c)
  PROVE  IInv'
<1>1. /\ TypeOK /\ Rest /\ Updates /\ LogInv
      /\ conn \in [Conns -> ConnType] /\ conn[c] \in ConnType
  BY DEF IInv, TypeOK
<1>2. /\ asked' = asked \cup ({conn[c].full} \cap LogRequests)
      /\ conn' = [conn EXCEPT ![c].full = NoOne]
      /\ UNCHANGED <<connected, active, mutex, unsent, observer, sender, log, faults>>
  BY DEF Delivers, store
<1>3. /\ conn' \in [Conns -> ConnType] /\ conn'[c].full = NoOne
      /\ \A d \in Conns \ {c} : conn'[d] = conn[d]
      /\ \A d \in Conns : /\ conn'[d].of = conn[d].of /\ conn'[d].resolver = conn[d].resolver
                          /\ conn'[d].cleanup = conn[d].cleanup
                          /\ conn'[d].over = conn[d].over
  BY <1>1, <1>2 DEF ConnType
<1>4. TypeOK'
  BY <1>1, <1>2, <1>3 DEF TypeOK
<1>5. Rest' /\ Updates'
  BY <1>1, <1>2, <1>3, <1>4, StoreStays
<1>6. NoOne \notin LogRequests
  BY ConnectionAssumption DEF Senders
<1>7. LogInv'
  BY <1>1, <1>2, <1>3, <1>6 DEF LogInv
<1> QED
  BY <1>4, <1>5, <1>7 DEF IInv

\* A goroutine puts its request into a channel.
LEMMA SendsKeeps ==
  ASSUME IInv, NEW s \in Senders, Sends(s)
  PROVE  IInv'
<1>1. /\ TypeOK /\ Rest /\ Updates /\ LogInv
      /\ conn \in [Conns -> ConnType]
      /\ sender \in [Senders -> [pc : {"idle", "called", "sending"},
                                 infra : Infras \cup {NoConn}, to : Conns \cup {NoConn}]]
  BY DEF IInv, TypeOK
<1> DEFINE c == sender[s].to
<1>2. /\ sender[s].pc = "sending" /\ conn[c].full = NoOne
      /\ conn' = [conn EXCEPT ![c].full = s]
      /\ sender' = [sender EXCEPT ![s] = NotSending]
      /\ UNCHANGED <<connected, active, mutex, unsent, observer, asked, log, faults>>
  BY DEF Sends, store
<1>3. /\ conn' \in [Conns -> ConnType]
      /\ \A d \in Conns : /\ conn'[d].of = conn[d].of /\ conn'[d].resolver = conn[d].resolver
                          /\ conn'[d].cleanup = conn[d].cleanup
                          /\ conn'[d].over = conn[d].over
      /\ \A d \in Conns \ {c} : conn'[d].full = conn[d].full
      /\ c \in Conns => conn'[c].full = s
  <2> HIDE DEF c
  <2>1. CASE c \in Conns
    <3>1. conn[c] \in ConnType
      BY <1>1, <2>1
    <3>2. [conn[c] EXCEPT !.full = s] \in ConnType
      BY <3>1 DEF ConnType
    <3>3. conn' \in [Conns -> ConnType]
      BY <1>1, <1>2, <2>1, <3>2
    <3> QED
      BY <1>1, <1>2, <2>1, <3>1, <3>3 DEF ConnType
  <2>2. CASE c \notin Conns
    <3>1. conn' = conn
      BY <1>1, <1>2, <2>2
    <3> QED
      BY <1>1, <2>2, <3>1
  <2> QED
    BY <2>1, <2>2
<1>4. NotSending \in [pc : {"idle", "called", "sending"},
                      infra : Infras \cup {NoConn}, to : Conns \cup {NoConn}]
  BY DEF NotSending
<1>5. /\ sender'[s].pc = "idle" /\ \A t \in Senders \ {s} : sender'[t] = sender[t]
      /\ sender' \in [Senders -> [pc : {"idle", "called", "sending"},
                                 infra : Infras \cup {NoConn}, to : Conns \cup {NoConn}]]
  BY <1>1, <1>2, <1>4 DEF NotSending
<1>6. TypeOK'
  BY <1>1, <1>2, <1>3, <1>5 DEF TypeOK
<1>7. Rest' /\ Updates'
  BY <1>1, <1>2, <1>3, <1>6, StoreStays
<1>8. NoOne \notin LogRequests /\ LogRequests \subseteq Senders
  BY ConnectionAssumption DEF Senders
<1>9. LogInv'
  BY <1>1, <1>2, <1>3, <1>5, <1>8 DEF LogInv
<1> QED
  BY <1>6, <1>7, <1>9 DEF IInv

\* A step of one goroutine that sends, and of a log request's channel, leaves the store alone.
LEMMA SenderKeeps ==
  ASSUME IInv, UNCHANGED <<connected, active, conn, mutex, unsent, observer, faults>>,
         sender' \in [Senders -> [pc : {"idle", "called", "sending"},
                                  infra : Infras \cup {NoConn}, to : Conns \cup {NoConn}]],
         asked' \subseteq LogRequests,
         log' \in [LogRequests -> [listed : BOOLEAN, closed : BOOLEAN]],
         LogInv'
  PROVE  IInv'
<1>1. TypeOK /\ Rest /\ Updates
  BY DEF IInv
<1>2. TypeOK'
  BY <1>1 DEF TypeOK
<1>3. Rest' /\ Updates'
  BY <1>1, <1>2, StoreStays
<1> QED
  BY <1>2, <1>3 DEF IInv

\* SendRequestToSubscriber: its goroutines are no log requests.
LEMMA DispatchKeeps ==
  ASSUME IInv, NEW d \in Dispatchers,
         (\E i \in Infras : Calls(d, i)) \/ LooksUp(d) \/ GivesUp(d)
  PROVE  IInv'
<1>1. /\ TypeOK /\ LogInv
      /\ sender \in [Senders -> [pc : {"idle", "called", "sending"},
                                 infra : Infras \cup {NoConn}, to : Conns \cup {NoConn}]]
      /\ log \in [LogRequests -> [listed : BOOLEAN, closed : BOOLEAN]]
      /\ asked \subseteq LogRequests
  BY DEF IInv, TypeOK
<1>2. UNCHANGED <<connected, active, conn, mutex, unsent, observer, asked, log, faults>>
  BY DEF Calls, LooksUp, GivesUp, store
<1>3. d \in Senders /\ LogRequests \subseteq Senders /\ d \notin LogRequests
  BY ConnectionAssumption DEF Senders
<1>4. \E v \in [pc : {"idle", "called", "sending"},
                infra : Infras \cup {NoConn}, to : Conns \cup {NoConn}] :
          /\ sender' = [sender EXCEPT ![d] = v]
          /\ v.pc # "idle" => v.infra \in Infras
  <2> DEFINE Good(v) == /\ v \in [pc : {"idle", "called", "sending"},
                                  infra : Infras \cup {NoConn}, to : Conns \cup {NoConn}]
                        /\ v.pc # "idle" => v.infra \in Infras
  <2>1. Good(NotSending)
    BY DEF NotSending
  <2>2. CASE \E i \in Infras : Calls(d, i)
    <3>1. PICK i \in Infras : Calls(d, i)
      BY <2>2
    <3> DEFINE v == [pc |-> "called", infra |-> i, to |-> NoConn]
    <3>2. Good(v) /\ sender' = [sender EXCEPT ![d] = v]
      BY <3>1 DEF Calls
    <3> HIDE DEF v
    <3> QED
      BY <3>2
  <2>3. CASE LooksUp(d)
    <3> DEFINE c == connected[sender[d].infra]
    <3>1. CASE c = NoConn
      <4>1. sender' = [sender EXCEPT ![d] = NotSending]
        BY <2>3, <3>1 DEF LooksUp
      <4> QED
        BY <2>1, <4>1
    <3>2. CASE c # NoConn
      <4> DEFINE v == [sender[d] EXCEPT !.pc = "sending", !.to = c]
      <4>1. sender' = [sender EXCEPT ![d] = v]
        BY <1>1, <1>3, <2>3, <3>2 DEF LooksUp
      <4>2. sender[d].infra \in Infras
        BY <1>1, <1>3, <2>3 DEF LooksUp, LogInv
      <4>3. c \in Conns \cup {NoConn}
        BY <1>1, <4>2 DEF TypeOK
      <4>4. Good(v)
        BY <1>1, <1>3, <4>2, <4>3
      <4> HIDE DEF v
      <4> QED
        BY <4>1, <4>4
    <3> QED
      BY <3>1, <3>2
  <2>4. CASE GivesUp(d)
    BY <2>4, <2>1 DEF GivesUp
  <2> QED
    BY <2>2, <2>3, <2>4
<1>5. /\ sender' \in [Senders -> [pc : {"idle", "called", "sending"},
                                  infra : Infras \cup {NoConn}, to : Conns \cup {NoConn}]]
      /\ \A t \in Senders \ {d} : sender'[t] = sender[t]
      /\ sender'[d].pc # "idle" => sender'[d].infra \in Infras
  BY <1>1, <1>3, <1>4
<1>6. LogInv'
  BY <1>1, <1>2, <1>3, <1>5 DEF LogInv
<1> QED
  BY <1>1, <1>2, <1>5, <1>6, SenderKeeps

-----------------------------------------------------------------------------
(* Log requests *)

\* GetPodLog lists a request that is nowhere and that is not answered.
LEMMA GetPodLogKeeps ==
  ASSUME IInv, NEW q \in LogRequests, NEW i \in Infras, GetPodLog(q, i)
  PROVE  IInv'
<1>1. /\ TypeOK /\ LogInv
      /\ sender \in [Senders -> [pc : {"idle", "called", "sending"},
                                 infra : Infras \cup {NoConn}, to : Conns \cup {NoConn}]]
      /\ log \in [LogRequests -> [listed : BOOLEAN, closed : BOOLEAN]]
      /\ asked \subseteq LogRequests /\ q \in Senders
  BY DEF IInv, TypeOK, Senders
<1> DEFINE v == [pc |-> "called", infra |-> i, to |-> NoConn]
<1>2. /\ UNCHANGED <<connected, active, conn, mutex, unsent, observer, asked, faults>>
      /\ log[q] = NoLog /\ q \notin asked /\ \A c \in Conns : conn[c].full # q
      /\ log' = [log EXCEPT ![q].listed = TRUE]
      /\ sender' = [sender EXCEPT ![q] = v]
  BY DEF GetPodLog, store
<1>3. /\ v \in [pc : {"idle", "called", "sending"},
                infra : Infras \cup {NoConn}, to : Conns \cup {NoConn}]
      /\ v.infra = i
  OBVIOUS
<1> HIDE DEF v
<1>4. /\ sender' \in [Senders -> [pc : {"idle", "called", "sending"},
                                  infra : Infras \cup {NoConn}, to : Conns \cup {NoConn}]]
      /\ sender'[q].infra = i /\ \A s \in Senders \ {q} : sender'[s] = sender[s]
  BY <1>1, <1>2, <1>3
<1>5. /\ log' \in [LogRequests -> [listed : BOOLEAN, closed : BOOLEAN]]
      /\ log'[q].closed = FALSE /\ \A r \in LogRequests \ {q} : log'[r] = log[r]
  <2>1. log[q].closed = FALSE
    BY <1>2 DEF NoLog
  <2> QED
    BY <1>1, <1>2, <2>1
<1>6. LogInv'
  <2>1. LogRequests \subseteq Senders
    BY DEF Senders
  <2> QED
    BY <1>1, <1>2, <1>4, <1>5, <2>1 DEF LogInv
<1> QED
  BY <1>1, <1>2, <1>4, <1>5, <1>6, SenderKeeps

\* GetLogs answers for an infrastructure that is not connected, or goes on to send.
LEMMA GetLogsKeeps ==
  ASSUME IInv, NEW q \in LogRequests, GetLogs(q)
  PROVE  IInv'
<1> DEFINE R == [pc : {"idle", "called", "sending"},
                 infra : Infras \cup {NoConn}, to : Conns \cup {NoConn}]
           c == connected[sender[q].infra]
<1>1. /\ TypeOK /\ LogInv /\ sender \in [Senders -> R]
      /\ log \in [LogRequests -> [listed : BOOLEAN, closed : BOOLEAN]]
      /\ asked \subseteq LogRequests /\ q \in Senders /\ LogRequests \subseteq Senders
  BY DEF IInv, TypeOK, Senders
<1>2. /\ UNCHANGED <<connected, active, conn, mutex, unsent, observer, asked, faults>>
      /\ sender[q].pc = "called"
  BY DEF GetLogs, store
<1>3. c \in Conns \cup {NoConn} /\ sender[q].infra \in Infras
  BY <1>1, <1>2 DEF LogInv, TypeOK
<1>4. CASE c = NoConn
  <2>1. log' = Answered(q) /\ sender' = [sender EXCEPT ![q] = NotSending]
    BY <1>4 DEF GetLogs
  <2>2. /\ sender' \in [Senders -> R] /\ sender'[q].pc = "idle"
        /\ \A s \in Senders \ {q} : sender'[s] = sender[s]
    BY <1>1, <2>1 DEF NotSending
  <2>3. /\ log' \in [LogRequests -> [listed : BOOLEAN, closed : BOOLEAN]]
        /\ \A r \in LogRequests \ {q} : log'[r] = log[r]
    BY <1>1, <2>1 DEF Answered
  <2>4. q \notin asked /\ \A d \in Conns : conn[d].full # q
    BY <1>1, <1>2 DEF LogInv
  <2>5. LogInv'
    BY <1>1, <1>2, <2>2, <2>3, <2>4 DEF LogInv
  <2> QED
    BY <1>1, <1>2, <2>2, <2>3, <2>5, SenderKeeps
<1>5. CASE c # NoConn
  <2> DEFINE v == [sender[q] EXCEPT !.pc = "sending", !.to = c]
  <2>1. sender' = [sender EXCEPT ![q].pc = "sending", ![q].to = c] /\ UNCHANGED log
    BY <1>5 DEF GetLogs
  <2>2. v \in R /\ v.infra = sender[q].infra
    BY <1>1, <1>3
  <2>3. sender' = [sender EXCEPT ![q] = v]
    BY <1>1, <2>1
  <2> HIDE DEF v
  <2>4. /\ sender' \in [Senders -> R] /\ sender'[q].infra = sender[q].infra
        /\ \A s \in Senders \ {q} : sender'[s] = sender[s]
    BY <1>1, <2>2, <2>3
  <2>5. LogInv'
    BY <1>1, <1>2, <2>1, <2>4 DEF LogInv
  <2> QED
    BY <1>1, <1>2, <2>1, <2>4, <2>5, SenderKeeps
<1> QED
  BY <1>4, <1>5

\* The subscriber's answer takes the request away; a UI that leaves takes its channel.
LEMMA AnswersKeep ==
  ASSUME IInv, NEW q \in LogRequests, PodLog(q) \/ CloseLogListener(q)
  PROVE  IInv'
<1>1. /\ TypeOK /\ LogInv
      /\ sender \in [Senders -> [pc : {"idle", "called", "sending"},
                                 infra : Infras \cup {NoConn}, to : Conns \cup {NoConn}]]
      /\ log \in [LogRequests -> [listed : BOOLEAN, closed : BOOLEAN]]
      /\ asked \subseteq LogRequests /\ LogRequests \subseteq Senders
  BY DEF IInv, TypeOK, Senders
<1>2. UNCHANGED <<connected, active, conn, mutex, unsent, observer, sender, faults>>
  BY DEF PodLog, CloseLogListener, store
<1>3. CASE PodLog(q)
  <2>1. q \in asked /\ asked' = asked \ {q} /\ log' = Answered(q)
    BY <1>3 DEF PodLog
  <2>2. /\ log' \in [LogRequests -> [listed : BOOLEAN, closed : BOOLEAN]]
        /\ \A r \in LogRequests \ {q} : log'[r] = log[r]
    BY <1>1, <2>1 DEF Answered
  <2>3. LogInv'
    BY <1>1, <1>2, <2>1, <2>2 DEF LogInv
  <2> QED
    BY <1>1, <1>2, <2>1, <2>2, <2>3, SenderKeeps
<1>4. CASE CloseLogListener(q)
  <2>1. log' = [log EXCEPT ![q] = NoLog] /\ UNCHANGED asked
    BY <1>4 DEF CloseLogListener
  <2>2. /\ log' \in [LogRequests -> [listed : BOOLEAN, closed : BOOLEAN]]
        /\ log'[q].closed = FALSE /\ \A r \in LogRequests \ {q} : log'[r] = log[r]
    BY <1>1, <2>1 DEF NoLog
  <2>3. LogInv'
    BY <1>1, <1>2, <2>1, <2>2 DEF LogInv
  <2> QED
    BY <1>1, <1>2, <2>1, <2>2, <2>3, SenderKeeps
<1> QED
  BY <1>3, <1>4

-----------------------------------------------------------------------------
(* The end of the server, and its observers *)

\* Everything but the database is as at the start.
Fresh ==
    /\ connected = [i \in Infras |-> NoConn] /\ active \in [Infras -> BOOLEAN]
    /\ conn = [c \in Conns |-> Idle] /\ mutex = Free /\ unsent = {}
    /\ observer = [o \in Observers |-> [state |-> "none", full |-> FALSE]]
    /\ sender = [t \in Senders |-> NotSending]
    /\ asked = {} /\ log = [q \in LogRequests |-> NoLog] /\ faults \in 0 .. MaxFaults

\* A server that has just started.
LEMMA FreshHolds == Fresh => IInv
<1> SUFFICES ASSUME Fresh PROVE IInv
  OBVIOUS
<1> USE DEF Fresh
<1>1. TypeOK
  <2>1. conn \in [Conns -> ConnType]
    BY IdleIsConn
  <2>2. sender \in [Senders -> [pc : {"idle", "called", "sending"},
                               infra : Infras \cup {NoConn}, to : Conns \cup {NoConn}]]
    BY DEF NotSending
  <2>3. log \in [LogRequests -> [listed : BOOLEAN, closed : BOOLEAN]]
    BY DEF NoLog
  <2> QED
    BY <2>1, <2>2, <2>3 DEF TypeOK
<1>2. \A c \in Conns : /\ conn[c].resolver = "idle" /\ conn[c].cleanup = "none"
                       /\ conn[c].over = FALSE /\ conn[c].full = NoOne
  BY DEF Idle
<1>3. \A c \in Conns : ConnInv(c)
  BY <1>2 DEF ConnInv, Free
<1>4. UpIsInStore /\ UpIsActive /\ NoneBeforeUpdate
  BY <1>2 DEF UpIsInStore, UpIsActive, NoneBeforeUpdate
<1>5. LogInv
  <2>1. NoOne \notin LogRequests
    BY ConnectionAssumption DEF Senders
  <2>2. \A s \in Senders : sender[s].pc = "idle"
    BY DEF NotSending
  <2>3. LogRequests \subseteq Senders
    BY DEF Senders
  <2> QED
    BY <1>2, <2>1, <2>2, <2>3 DEF LogInv
<1> QED
  BY <1>1, <1>3, <1>4, <1>5 DEF IInv, Rest, Updates

\* A panic of a goroutine: a new server starts with what the database holds.
LEMMA PanicKeeps ==
  ASSUME IInv, NEW s \in Senders, PanicEndsServer(s)
  PROVE  IInv'
<1>1. TypeOK
  BY DEF IInv
<1>2. faults' \in 0 .. MaxFaults
  BY <1>1, ConnectionAssumption DEF PanicEndsServer, Fault, TypeOK
<1>3. Fresh'
  BY <1>1, <1>2 DEF PanicEndsServer, TypeOK, Fresh
<1>4. Fresh' => IInv'
  BY FreshHolds, PTL
<1> QED
  BY <1>3, <1>4

\* What UIs do concerns their channels only.
LEMMA ObserversKeep ==
  ASSUME IInv, NEW o \in Observers,
         SendInfraEvent(o) \/ GetInfraEvents(o) \/ ReadsEvent(o) \/ Leaves(o)
  PROVE  IInv'
<1>1. TypeOK /\ Rest /\ Updates /\ LogInv
  BY DEF IInv
<1>2. UNCHANGED <<connected, active, conn, mutex, sender, asked, log, faults>>
  BY DEF SendInfraEvent, GetInfraEvents, ReadsEvent, Leaves, store
<1>3. /\ unsent' \subseteq unsent
      /\ observer' \in [Observers -> [state : {"none", "open", "left"}, full : BOOLEAN]]
  <2> DEFINE O == [state : {"none", "open", "left"}, full : BOOLEAN]
  <2>1. observer \in [Observers -> O] /\ observer[o] \in O
    BY <1>1 DEF TypeOK
  <2>2. CASE SendInfraEvent(o)
    BY <2>1, <2>2 DEF SendInfraEvent
  <2>3. CASE GetInfraEvents(o)
    BY <2>1, <2>3 DEF GetInfraEvents
  <2>4. CASE ReadsEvent(o)
    BY <2>1, <2>4 DEF ReadsEvent
  <2>5. CASE Leaves(o)
    BY <2>1, <2>5 DEF Leaves
  <2> QED
    BY <2>2, <2>3, <2>4, <2>5
<1>4. TypeOK'
  BY <1>1, <1>2, <1>3 DEF TypeOK
<1>5. Rest' /\ Updates'
  BY <1>1, <1>2, <1>4, StoreStays
<1>6. LogInv'
  BY <1>1, <1>2, LogStays
<1> QED
  BY <1>4, <1>5, <1>6 DEF IInv

-----------------------------------------------------------------------------
\* A stuttering step.
LEMMA StutterKeeps == ASSUME IInv, UNCHANGED vars PROVE IInv'
<1>1. UNCHANGED <<connected, active, conn, mutex, unsent, observer, sender, asked, log, faults>>
  BY DEF vars
<1>2. TypeOK /\ Rest /\ Updates /\ LogInv
  BY DEF IInv
<1>3. TypeOK'
  BY <1>1, <1>2 DEF TypeOK
<1>4. Rest' /\ Updates'
  BY <1>1, <1>2, <1>3, StoreStays
<1>5. LogInv'
  BY <1>1, <1>2, LogStays
<1> QED
  BY <1>3, <1>4, <1>5 DEF IInv

\* The invariant is inductive.
LEMMA Inductive == Spec => []IInv
<1>1. Init => IInv
  <2>1. Init => Fresh
    BY ConnectionAssumption DEF Init, Fresh
  <2> QED
    BY <2>1, FreshHolds
<1>2. IInv /\ [Next]_vars => IInv'
  <2> SUFFICES ASSUME IInv, [Next]_vars PROVE IInv'
    OBVIOUS
  <2>1. CASE \E c \in Conns :
              \/ AlreadyConnected(c) \/ ForcedDisconnect(c) \/ Gone(c)
              \/ \E i \in Infras : InfraConnect(c, i)
    BY <2>1, CallStepsKeep
  <2>2. CASE \E c \in Conns : \/ Registers(c) \/ Activates(c) \/ ContextDone(c)
                             \/ Deletes(c) \/ Deactivates(c)
    BY <2>2, RegistersKeeps, ActivatesKeeps, ContextDoneKeeps, DeletesKeeps, DeactivatesKeeps
  <2>3. CASE \E c \in Conns : AnnouncesLive(c) \/ Disconnects(c) \/ InfraEventSent(c)
    BY <2>3, BroadcastsKeep, InfraEventSentKeeps
  <2>4. CASE \/ \E c \in Conns : Delivers(c)
             \/ \E s \in Senders : Sends(s) \/ PanicEndsServer(s)
    BY <2>4, DeliversKeeps, SendsKeeps, PanicKeeps
  <2>5. CASE \E d \in Dispatchers :
              (\E i \in Infras : Calls(d, i)) \/ LooksUp(d) \/ GivesUp(d)
    BY <2>5, DispatchKeeps
  <2>6. CASE \E q \in LogRequests : \/ GetLogs(q) \/ PodLog(q) \/ CloseLogListener(q)
                                   \/ \E i \in Infras : GetPodLog(q, i)
    BY <2>6, GetLogsKeeps, AnswersKeep, GetPodLogKeeps
  <2>7. CASE \E o \in Observers :
              SendInfraEvent(o) \/ GetInfraEvents(o) \/ ReadsEvent(o) \/ Leaves(o)
    BY <2>7, ObserversKeep
  <2>8. CASE UNCHANGED vars
    BY <2>8, StutterKeeps
  <2> QED
    BY <2>1, <2>2, <2>3, <2>4, <2>5, <2>6, <2>7, <2>8 DEF Next, ServerStep
<1> QED
  BY <1>1, <1>2, PTL DEF Spec

(* Every state of the store, the connections, their channels and the log requests is   *)
(* one of its type, whatever is lost, fails or ends.                                   *)
THEOREM Typing == Spec => []TypeOK
<1>1. IInv => TypeOK
  BY DEF IInv
<1> QED
  BY <1>1, Inductive, PTL

(* InfraConnect and its cleanup: a connection that is registered keeps its place in    *)
(* ConnectedInfra until its own cleanup, though cleanups delete by infrastructure and  *)
(* second calls come at any time.                                                      *)
THEOREM StoreKnowsWhatIsUp == Spec => []UpIsInStore
<1>1. IInv => UpIsInStore
  BY DEF IInv, Rest
<1> QED
  BY <1>1, Inductive, PTL

(* With timely updates, no update of an earlier connection marks an infrastructure     *)
(* inactive that has one that is up.                                                   *)
THEOREM UpIsShownActive == ASSUME Timely PROVE Spec => []UpIsActive
<1>1. IInv => UpIsActive
  BY DEF IInv, Updates
<1> QED
  BY <1>1, Inductive, PTL

(* GetLogs and PodLog: of the server's answer for an infrastructure that is away and   *)
(* the subscriber's, a log request gets one; none comes to a channel already closed.   *)
THEOREM OneAnswer == Spec => []AnsweredOnce
<1>1. IInv => AnsweredOnce
  <2>1. TypeOK => asked \subseteq LogRequests
    BY DEF TypeOK
  <2> QED
    BY <2>1 DEF IInv, LogInv, AnsweredOnce
<1> QED
  BY <1>1, Inductive, PTL
==============================================================================
