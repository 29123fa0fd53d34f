-------------------------- MODULE ShellLink_proofs --------------------------
(***************************************************************************)
(* Proofs about ShellLink: types, who has the controller role, that no     *)
(* change is missed and every invocation is accounted for, and that the    *)
(* compositor's half implements ControllerRole, for any number of daemons  *)
(* and watchers and any bounds.                                            *)
(***************************************************************************)
EXTENDS ShellLink, SequenceTheorems, FiniteSetTheorems, TLAPS

\* TypeOK conjunct by conjunct, for the conjuncts the role depends on.
RoleTypes ==
    /\ controller \in SUBSET Daemons
    /\ fallback \in BOOLEAN
    /\ pending \in SUBSET [serial : Serials, controller : Daemons]
    /\ nextSerial \in Serials
    /\ generation \in Generations
    /\ connected \in SUBSET Daemons

SocketTypes ==
    /\ up \in [Daemons -> Seq(Requests)]
    /\ down \in [Daemons -> Seq(Events)]

ProcessTypes ==
    /\ daemon \in [Daemons -> Processes]
    /\ watch \in [Watchers -> Waits]
    /\ stops \in 0..StopMax

LEMMA TypeParts == TypeOK <=> RoleTypes /\ SocketTypes /\ ProcessTypes
  BY DEF TypeOK, RoleTypes, SocketTypes, ProcessTypes

\* Two facts about FIFO channels.
LEMMA SocketAppend ==
    ASSUME NEW S, NEW q \in Seq(S), NEW m \in S
    PROVE  Append(q, m) \in Seq(S)
  OBVIOUS

LEMMA SocketTail ==
    ASSUME NEW S, NEW q \in Seq(S), q # <<>>
    PROVE  Head(q) \in S /\ Tail(q) \in Seq(S)
  OBVIOUS

LEMMA SuccType ==
    ASSUME NEW max \in Nat \ {0}, NEW n \in 1..max
    PROVE  Succ(n, max) \in 1..max
  BY DEF Succ

LEMMA DeliveredType ==
    ASSUME SocketTypes, NEW d \in Daemons, NEW m \in Events
    PROVE  Delivered(d, m) \in Seq(Events)
  BY SocketAppend DEF Delivered, SocketTypes

LEMMA SendType ==
    ASSUME SocketTypes, NEW d \in Daemons, NEW m \in Events, Send(d, m)
    PROVE  down' \in [Daemons -> Seq(Events)]
  <1>1. Delivered(d, m) \in Seq(Events)
    BY DeliveredType
  <1> QED
    BY <1>1 DEF Send, SocketTypes

LEMMA ReadsType ==
    ASSUME SocketTypes, NEW d \in Daemons, NEW type, Reads(d, type)
    PROVE  /\ up' \in [Daemons -> Seq(Requests)]
           /\ Head(up[d]) \in Requests
           /\ Head(up[d]).type = type
  <1>1. up[d] \in Seq(Requests) /\ up[d] # <<>>
    BY DEF Reads, SocketTypes
  <1>2. Tail(up[d]) \in Seq(Requests) /\ Head(up[d]) \in Requests
    BY <1>1, SocketTail
  <1> QED
    BY <1>2 DEF Reads, SocketTypes

LEMMA DispatchesType ==
    ASSUME SocketTypes, NEW d \in Daemons, NEW type, Dispatches(d, type)
    PROVE  /\ down' \in [Daemons -> Seq(Events)]
           /\ Head(down[d]) \in Events
           /\ Head(down[d]).type = type
  <1>1. down[d] \in Seq(Events) /\ down[d] # <<>>
    BY DEF Dispatches, SocketTypes
  <1>2. Tail(down[d]) \in Seq(Events) /\ Head(down[d]) \in Events
    BY <1>1, SocketTail
  <1> QED
    BY <1>2 DEF Dispatches, SocketTypes

\* The messages that are sent are messages of their socket.
LEMMA MessageTypes ==
    /\ \A g \in Generations : Msg("changed", g) \in Events /\ Msg("snapshot", g) \in Events
    /\ \A s \in Serials : Msg("invoke", s) \in Events /\ Msg("result", s) \in Requests
    /\ Request("granted") \in Events /\ Request("refused") \in Events
    /\ Request("bind") \in Requests /\ Request("get_state") \in Requests
    /\ Request("claim") \in Requests /\ Request("release") \in Requests
  BY DEF Msg, Request, Events, Requests

LEMMA LoseControllerType ==
    ASSUME RoleTypes, NEW d \in Daemons, LoseController(d)
    PROVE  /\ controller' \in SUBSET Daemons
           /\ fallback' \in BOOLEAN
           /\ pending' \in SUBSET [serial : Serials, controller : Daemons]
  <1>1. TRUE \in BOOLEAN
    OBVIOUS
  <1> QED
    BY <1>1 DEF LoseController, RoleTypes

LEMMA CoreReadsType ==
    ASSUME LinkAssumption, TypeOK, NEW d \in Daemons, CoreReads(d)
    PROVE  TypeOK'
  <1>1. RoleTypes /\ SocketTypes /\ ProcessTypes
    BY TypeParts
  <1>2. /\ generation \in Generations
        /\ connected \in SUBSET Daemons
        /\ controller \in SUBSET Daemons
        /\ fallback \in BOOLEAN
        /\ pending \in SUBSET [serial : Serials, controller : Daemons]
        /\ nextSerial \in Serials
    BY <1>1 DEF RoleTypes
  <1>a. TRUE \in BOOLEAN /\ FALSE \in BOOLEAN
    OBVIOUS
  <1>3. CASE Bind(d)
    <2>1. Reads(d, "bind")
      BY <1>3 DEF Bind
    <2>2. up' \in [Daemons -> Seq(Requests)]
      BY <2>1, <1>1, ReadsType
    <2>3. ProcessTypes'
      BY <2>1, <1>1 DEF Reads, ProcessTypes
    <2>4. RoleTypes'
      BY <1>2, <1>3 DEF Bind, RoleTypes
    <2>5. SocketTypes'
      BY <1>1, <2>2, <1>3 DEF Bind, SocketTypes
    <2> QED
      BY <2>3, <2>4, <2>5, TypeParts DEF TypeOK, RoleTypes, SocketTypes, ProcessTypes
  <1>4. CASE GetState(d)
    <2>1. Reads(d, "get_state") /\ Send(d, Msg("snapshot", generation)) /\ UNCHANGED coreVars
      BY <1>4 DEF GetState
    <2>2. up' \in [Daemons -> Seq(Requests)]
      BY <2>1, <1>1, ReadsType
    <2>3. ProcessTypes'
      BY <2>1, <1>1 DEF Reads, ProcessTypes
    <2>4. RoleTypes'
      BY <1>2, <2>1 DEF coreVars, RoleTypes
    <2>5. down' \in [Daemons -> Seq(Events)]
      BY <1>1, <1>2, <2>1, SendType, MessageTypes
    <2> QED
      BY <2>2, <2>3, <2>4, <2>5 DEF TypeOK, RoleTypes, ProcessTypes
  <1>5. CASE ClaimController(d)
    <2>1. Reads(d, "claim")
      BY <1>5 DEF ClaimController
    <2>2. up' \in [Daemons -> Seq(Requests)]
      BY <2>1, <1>1, ReadsType
    <2>3. ProcessTypes'
      BY <2>1, <1>1 DEF Reads, ProcessTypes
    <2>4. RoleTypes'
      BY <1>a, <1>2, <1>5 DEF ClaimController, RoleTypes
    <2>5. Send(d, Request("granted")) \/ Send(d, Request("refused"))
      BY <1>5 DEF ClaimController
    <2>6. down' \in [Daemons -> Seq(Events)]
      BY <1>1, <2>5, SendType, MessageTypes
    <2> QED
      BY <2>2, <2>3, <2>4, <2>6 DEF TypeOK, RoleTypes, ProcessTypes
  <1>6. CASE ReleaseController(d)
    <2>1. Reads(d, "release") /\ LoseController(d)
      BY <1>6 DEF ReleaseController
    <2>2. up' \in [Daemons -> Seq(Requests)]
      BY <2>1, <1>1, ReadsType
    <2>3. ProcessTypes'
      BY <2>1, <1>1 DEF Reads, ProcessTypes
    <2>4. RoleTypes'
      BY <1>1, <1>2, <2>1, <1>6, LoseControllerType DEF ReleaseController, RoleTypes
    <2>5. down' \in [Daemons -> Seq(Events)]
      BY <1>1, <1>6 DEF ReleaseController, SocketTypes
    <2> QED
      BY <2>2, <2>3, <2>4, <2>5 DEF TypeOK, RoleTypes, ProcessTypes
  <1>7. CASE ControllerResult(d)
    <2>1. Reads(d, "result")
      BY <1>7 DEF ControllerResult
    <2>2. up' \in [Daemons -> Seq(Requests)]
      BY <2>1, <1>1, ReadsType
    <2>3. ProcessTypes'
      BY <2>1, <1>1 DEF Reads, ProcessTypes
    <2>4. RoleTypes'
      BY <1>2, <1>7 DEF ControllerResult, RoleTypes
    <2>5. down' \in [Daemons -> Seq(Events)]
      BY <1>1, <1>7 DEF ControllerResult, SocketTypes
    <2> QED
      BY <2>2, <2>3, <2>4, <2>5 DEF TypeOK, RoleTypes, ProcessTypes
  <1> QED
    BY <1>3, <1>4, <1>5, <1>6, <1>7 DEF CoreReads

\* Steps of the compositor that no request causes.
LEMMA CoreActsType ==
    ASSUME LinkAssumption, TypeOK, NEW d \in Daemons,
           MarkChanged \/ ProtocolInvoke(d) \/ Disconnect(d)
    PROVE  TypeOK'
  <1>1. RoleTypes /\ SocketTypes /\ ProcessTypes
    BY TypeParts
  <1>2. CASE MarkChanged
    <2>1. generation' \in Generations
      BY <1>1, <1>2, SuccType DEF MarkChanged, RoleTypes, Generations, LinkAssumption
    <2>2. \A e \in Daemons : Delivered(e, Msg("changed", generation')) \in Seq(Events)
      BY <1>1, <2>1, DeliveredType, MessageTypes
    <2>3. \A e \in Daemons : down[e] \in Seq(Events)
      BY <1>1 DEF SocketTypes
    <2>4. down' \in [Daemons -> Seq(Events)]
      BY <1>2, <2>2, <2>3 DEF MarkChanged
    <2>5. RoleTypes'
      BY <1>1, <1>2, <2>1 DEF MarkChanged, RoleTypes
    <2>6. ProcessTypes' /\ up' \in [Daemons -> Seq(Requests)]
      BY <1>1, <1>2 DEF MarkChanged, ProcessTypes, SocketTypes
    <2> QED
      BY <2>4, <2>5, <2>6 DEF TypeOK, RoleTypes, ProcessTypes
  <1>3. CASE ProtocolInvoke(d)
    <2>1. nextSerial' \in Serials
      BY <1>1, <1>3, SuccType DEF ProtocolInvoke, RoleTypes, Serials, LinkAssumption
    <2>2. nextSerial \in Serials /\ pending \in SUBSET [serial : Serials, controller : Daemons]
      BY <1>1 DEF RoleTypes
    <2>3. CASE Pending(nextSerial) = {}
      <3>1. Send(d, Msg("invoke", nextSerial))
        BY <1>3, <2>3 DEF ProtocolInvoke
      <3>2. down' \in [Daemons -> Seq(Events)]
        BY <1>1, <2>2, <3>1, SendType, MessageTypes
      <3>3. pending' = pending \cup {[serial |-> nextSerial, controller |-> d]}
        BY <1>3, <2>3 DEF ProtocolInvoke
      <3>4. pending' \in SUBSET [serial : Serials, controller : Daemons]
        BY <2>2, <3>3
      <3> QED
        BY <1>1, <1>3, <2>1, <3>2, <3>4
           DEF ProtocolInvoke, TypeOK, RoleTypes, SocketTypes, ProcessTypes
    <2>4. CASE Pending(nextSerial) # {}
      BY <1>1, <1>3, <2>1, <2>4
         DEF ProtocolInvoke, TypeOK, RoleTypes, SocketTypes, ProcessTypes
    <2> QED
      BY <2>3, <2>4
  <1>4. CASE Disconnect(d)
    <2>1. LoseController(d)
      BY <1>4 DEF Disconnect
    <2>2. RoleTypes'
      BY <1>1, <1>4, <2>1, LoseControllerType DEF Disconnect, RoleTypes
    <2>3. SocketTypes'
      BY <1>1, <1>4 DEF Disconnect, SocketTypes
    <2>4. ProcessTypes'
      BY <1>1, <1>4 DEF Disconnect, ProcessTypes
    <2> QED
      BY <2>2, <2>3, <2>4 DEF TypeOK, RoleTypes, SocketTypes, ProcessTypes
  <1> QED
    BY <1>2, <1>3, <1>4

\* The ways a daemon's record is updated.
LEMMA ProcessUpdates ==
    ASSUME ProcessTypes, NEW d \in Daemons
    PROVE  /\ \A n \in 0..GenMax, b \in BOOLEAN :
                 [daemon[d] EXCEPT !.snap = n, !.outstanding = b] \in Processes
           /\ \A r \in {"granted", "refused"} : [daemon[d] EXCEPT !.claim = r] \in Processes
           /\ Later(daemon[d].latest, Head(down[d]).n) \in 0..GenMax
                => [daemon[d] EXCEPT !.latest = Later(daemon[d].latest, Head(down[d]).n),
                                     !.outstanding = TRUE] \in Processes
           /\ [daemon[d] EXCEPT !.proc = "running"] \in Processes
  BY DEF ProcessTypes, Processes

LEMMA DispatchTypes ==
    ASSUME LinkAssumption, TypeOK, NEW d \in Daemons, DaemonDispatches(d)
    PROVE  TypeOK'
  <1>1. RoleTypes /\ SocketTypes /\ ProcessTypes
    BY TypeParts
  <1>2. up[d] \in Seq(Requests)
    BY <1>1 DEF SocketTypes
  <1>3. Append(up[d], Request("get_state")) \in Seq(Requests)
    BY <1>2, SocketAppend, MessageTypes
  <1>4. Generations \subseteq 0..GenMax /\ 0 \in 0..GenMax
    BY DEF Generations, LinkAssumption
  <1>a. TRUE \in BOOLEAN /\ FALSE \in BOOLEAN
    OBVIOUS
  <1>5. ASSUME UNCHANGED <<coreVars, stops>> PROVE RoleTypes' /\ stops' \in 0..StopMax
    BY <1>1, <1>5 DEF coreVars, RoleTypes, ProcessTypes
  <1>6. CASE HandleChanged(d)
    <2>1. Dispatches(d, "changed")
      BY <1>6 DEF HandleChanged
    <2>2. down' \in [Daemons -> Seq(Events)] /\ Head(down[d]).n \in Generations
      BY <1>1, <2>1, DispatchesType DEF Events
    <2>3. up' \in [Daemons -> Seq(Requests)]
      BY <1>1, <1>3, <1>6 DEF HandleChanged, SocketTypes
    <2>4. Later(daemon[d].latest, Head(down[d]).n) \in 0..GenMax
      BY <1>1, <1>4, <2>2 DEF Later, ProcessTypes, Processes
    <2>5. daemon' \in [Daemons -> Processes]
      <3> DEFINE r == [daemon[d] EXCEPT !.latest = Later(daemon[d].latest, Head(down[d]).n),
                                        !.outstanding = TRUE]
      <3>1. r \in Processes
        BY <1>1, <1>a, <2>4, ProcessUpdates
      <3>2. daemon' = [daemon EXCEPT ![d] = r]
        BY <1>6 DEF HandleChanged
      <3>3. daemon \in [Daemons -> Processes]
        BY <1>1 DEF ProcessTypes
      <3> HIDE DEF r
      <3> QED
        BY <3>1, <3>2, <3>3
    <2>6. ProcessTypes'
      BY <1>1, <1>5, <1>6, <2>1, <2>5 DEF HandleChanged, Dispatches, ProcessTypes
    <2> QED
      BY <1>5, <2>1, <2>2, <2>3, <2>6 DEF Dispatches, TypeOK, RoleTypes, ProcessTypes
  <1>7. CASE HandleStateEnd(d)
    <2> DEFINE g == Head(down[d]).n
               again == daemon[d].latest > g
    <2>1. Dispatches(d, "snapshot")
      BY <1>7 DEF HandleStateEnd
    <2>2. down' \in [Daemons -> Seq(Events)] /\ g \in Generations
      BY <1>1, <2>1, DispatchesType DEF Events
    <2>3. up' \in [Daemons -> Seq(Requests)]
      BY <1>1, <1>3, <1>7 DEF HandleStateEnd, SocketTypes
    <2>4. again \in BOOLEAN /\ g \in 0..GenMax
      <3>1. g \in 0..GenMax
        BY <1>4, <2>2
      <3>2. again \in BOOLEAN
        BY <1>1, <3>1 DEF ProcessTypes, Processes, LinkAssumption
      <3> QED
        BY <3>1, <3>2
    <2>6. daemon' \in [Daemons -> Processes]
      <3> HIDE DEF g, again
      <3>1. [daemon[d] EXCEPT !.snap = g, !.outstanding = again] \in Processes
        BY <1>1, <2>4, ProcessUpdates
      <3>2. daemon' = [daemon EXCEPT ![d] = [@ EXCEPT !.snap = g, !.outstanding = again]]
        BY <1>7 DEF HandleStateEnd, g, again
      <3> QED
        BY <1>1, <3>1, <3>2 DEF ProcessTypes
    <2>7. Notify(g)
      BY <1>7 DEF HandleStateEnd
    <2>8. watch' \in [Watchers -> Waits]
      <3> HIDE DEF g
      <3>1. FALSE \in BOOLEAN
        OBVIOUS
      <3>2. \A w \in Watchers : watch'[w] \in Waits
        BY <1>1, <2>4, <2>7, <3>1 DEF Notify, ProcessTypes, Waits
      <3>3. watch' = [w \in Watchers |-> watch'[w]]
        BY <2>7 DEF Notify
      <3> QED
        BY <3>2, <3>3
    <2> QED
      BY <1>5, <2>1, <2>2, <2>3, <2>6, <2>8 DEF Dispatches, TypeOK, RoleTypes, ProcessTypes
  <1>8. CASE HandleClaimResult(d)
    <2>1. PICK r \in {"granted", "refused"} :
              Dispatches(d, r) /\ daemon' = [daemon EXCEPT ![d] = [@ EXCEPT !.claim = r]]
      BY <1>8 DEF HandleClaimResult
    <2>2. down' \in [Daemons -> Seq(Events)]
      BY <1>1, <2>1, DispatchesType
    <2>4. [daemon[d] EXCEPT !.claim = r] \in Processes
      BY <1>1, ProcessUpdates
    <2>3. ProcessTypes'
      BY <1>1, <1>5, <1>8, <2>1, <2>4 DEF HandleClaimResult, Dispatches, ProcessTypes
    <2> QED
      BY <1>1, <1>5, <1>8, <2>1, <2>2, <2>3
         DEF HandleClaimResult, Dispatches, TypeOK, RoleTypes, SocketTypes, ProcessTypes
  <1>9. CASE HandleControllerInvoke(d)
    <2>1. Dispatches(d, "invoke")
      BY <1>9 DEF HandleControllerInvoke
    <2>2. down' \in [Daemons -> Seq(Events)] /\ Head(down[d]).n \in Serials
      BY <1>1, <2>1, DispatchesType DEF Events
    <2>3. Append(up[d], Msg("result", Head(down[d]).n)) \in Seq(Requests)
      BY <1>2, <2>2, SocketAppend, MessageTypes
    <2>4. up' \in [Daemons -> Seq(Requests)]
      BY <1>1, <1>9, <2>3 DEF HandleControllerInvoke, SocketTypes
    <2>5. ProcessTypes'
      BY <1>1, <1>5, <1>9, <2>1 DEF HandleControllerInvoke, Dispatches, ProcessTypes
    <2> QED
      BY <1>5, <2>1, <2>2, <2>4, <2>5 DEF Dispatches, TypeOK, RoleTypes, ProcessTypes
  <1> QED
    BY <1>6, <1>7, <1>8, <1>9 DEF DaemonDispatches

LEMMA EndsType ==
    ASSUME LinkAssumption, SocketTypes, ProcessTypes, NEW d \in Daemons, Ends(d)
    PROVE  /\ daemon' \in [Daemons -> Processes]
           /\ watch' \in [Watchers -> Waits]
           /\ down' \in [Daemons -> Seq(Events)]
  <1>1. FALSE \in BOOLEAN /\ 0 \in 0..GenMax
    BY DEF LinkAssumption
  <1>2. Off \in Processes
    BY <1>1 DEF Off, Processes
  <1>3. daemon' \in [Daemons -> Processes]
    BY <1>2 DEF Ends, ProcessTypes
  <1>4. \A w \in Watchers : watch'[w] \in Waits
    BY <1>1 DEF Ends, ProcessTypes, Waits
  <1>5. watch' = [w \in Watchers |-> watch'[w]]
    BY DEF Ends
  <1>6. <<>> \in Seq(Events)
    OBVIOUS
  <1> QED
    BY <1>3, <1>4, <1>5, <1>6 DEF Ends, SocketTypes

\* Steps of the processes that no message causes.
LEMMA ProcessActsType ==
    ASSUME LinkAssumption, TypeOK, NEW d \in Daemons,
           Start(d) \/ DaemonReady(d) \/ StartupRefused(d) \/ Stop(d) \/ Crash(d)
    PROVE  TypeOK'
  <1>1. RoleTypes /\ SocketTypes /\ ProcessTypes
    BY TypeParts
  <1>2. ASSUME UNCHANGED coreVars PROVE RoleTypes'
    BY <1>1, <1>2 DEF coreVars, RoleTypes
  <1>3. ASSUME stops < StopMax, stops' = stops + 1 PROVE stops' \in 0..StopMax
    BY <1>1, <1>3 DEF ProcessTypes, LinkAssumption
  <1>4. CASE Start(d)
    <2>1. FALSE \in BOOLEAN /\ TRUE \in BOOLEAN /\ 0 \in 0..GenMax
      BY DEF LinkAssumption
    <2> DEFINE r == [Off EXCEPT !.proc = "starting", !.outstanding = TRUE]
    <2>2. r \in Processes
      BY <2>1 DEF Off, Processes
    <2>3. Hello \in Seq(Requests)
      BY MessageTypes DEF Hello
    <2>4. daemon' = [daemon EXCEPT ![d] = r] /\ up' = [up EXCEPT ![d] = Hello]
      BY <1>4 DEF Start
    <2> HIDE DEF r
    <2>5. daemon' \in [Daemons -> Processes] /\ up' \in [Daemons -> Seq(Requests)]
      BY <1>1, <2>2, <2>3, <2>4 DEF ProcessTypes, SocketTypes
    <2> QED
      BY <1>1, <1>2, <1>4, <2>5
         DEF Start, TypeOK, RoleTypes, SocketTypes, ProcessTypes
  <1>5. CASE DaemonReady(d)
    <2> DEFINE r == [daemon[d] EXCEPT !.proc = "running"]
    <2>1. r \in Processes
      BY <1>1, ProcessUpdates
    <2>2. daemon' = [daemon EXCEPT ![d] = r]
      BY <1>5 DEF DaemonReady
    <2> HIDE DEF r
    <2>3. daemon' \in [Daemons -> Processes]
      BY <1>1, <2>1, <2>2 DEF ProcessTypes
    <2> QED
      BY <1>1, <1>2, <1>5, <2>3
         DEF DaemonReady, TypeOK, RoleTypes, SocketTypes, ProcessTypes
  <1>6. CASE StartupRefused(d)
    BY <1>1, <1>2, <1>6, EndsType
       DEF StartupRefused, TypeOK, RoleTypes, SocketTypes, ProcessTypes
  <1>7. CASE Stop(d)
    <2>1. up[d] \in Seq(Requests)
      BY <1>1 DEF SocketTypes
    <2>2. Append(up[d], Request("release")) \in Seq(Requests)
      BY <2>1, SocketAppend, MessageTypes
    <2>3. up' \in [Daemons -> Seq(Requests)]
      BY <1>1, <1>7, <2>2 DEF Stop, SocketTypes
    <2> QED
      BY <1>1, <1>2, <1>3, <1>7, <2>3, EndsType
         DEF Stop, TypeOK, RoleTypes
  <1>8. CASE Crash(d)
    BY <1>1, <1>2, <1>3, <1>8, EndsType
       DEF Crash, TypeOK, RoleTypes, SocketTypes
  <1> QED
    BY <1>4, <1>5, <1>6, <1>7, <1>8

LEMMA WatcherActsType ==
    ASSUME LinkAssumption, TypeOK, NEW w \in Watchers,
           WatchRefused(w) \/ \E d \in Daemons : WatchState(w, d)
    PROVE  TypeOK'
  <1>1. RoleTypes /\ SocketTypes /\ ProcessTypes
    BY TypeParts
  <1>2. FALSE \in BOOLEAN /\ TRUE \in BOOLEAN /\ 0 \in 0..GenMax
    BY DEF LinkAssumption
  <1>3. watch[w] \in Waits
    BY <1>1 DEF ProcessTypes
  <1>4. CASE WatchRefused(w)
    <2>1. watch' \in [Watchers -> Waits]
      BY <1>1, <1>2, <1>3, <1>4 DEF WatchRefused, ProcessTypes, Waits
    <2> QED
      BY <1>1, <1>4, <2>1
         DEF WatchRefused, coreVars, TypeOK, RoleTypes, SocketTypes, ProcessTypes
  <1>5. ASSUME NEW d \in Daemons, WatchState(w, d) PROVE TypeOK'
    <2>1. daemon[d].snap \in 0..GenMax
      BY <1>1 DEF ProcessTypes, Processes
    <2>2. [waiting |-> FALSE, after |-> daemon[d].snap] \in Waits
      BY <1>2, <2>1 DEF Waits
    <2>3. [watch[w] EXCEPT !.waiting = TRUE] \in Waits
      BY <1>2, <1>3 DEF Waits
    <2>4. watch' \in [Watchers -> Waits]
      BY <1>1, <1>5, <2>2, <2>3 DEF WatchState, ProcessTypes
    <2> QED
      BY <1>1, <1>5, <2>4
         DEF WatchState, coreVars, TypeOK, RoleTypes, SocketTypes, ProcessTypes
  <1> QED
    BY <1>4, <1>5

LEMMA InitType == ASSUME LinkAssumption PROVE Init => TypeOK
  <1>1. FALSE \in BOOLEAN /\ TRUE \in BOOLEAN /\ 0 \in 0..GenMax /\ 0 \in 0..StopMax
        /\ 1 \in 1..GenMax /\ 1 \in 1..SerialMax
    BY DEF LinkAssumption
  <1>2. Off \in Processes
    BY <1>1 DEF Off, Processes
  <1>3. [waiting |-> FALSE, after |-> 0] \in Waits
    BY <1>1 DEF Waits
  <1> QED
    BY <1>1, <1>2, <1>3 DEF Init, TypeOK, Generations, Serials

LEMMA NextType == ASSUME LinkAssumption, TypeOK, [Next]_vars PROVE TypeOK'
  <1>1. CASE UNCHANGED vars
    BY <1>1 DEF vars, coreVars, TypeOK
  <1>2. CASE Next
    <2>1. CASE MarkChanged /\ Daemons = {}
      BY <2>1 DEF MarkChanged, TypeOK, Generations, Succ, LinkAssumption
    <2>2. CASE MarkChanged /\ Daemons # {}
      BY <2>2, CoreActsType
    <2> QED
      BY <1>2, <2>1, <2>2, CoreReadsType, CoreActsType, DispatchTypes, ProcessActsType,
         WatcherActsType DEF Next
  <1> QED
    BY <1>1, <1>2

\* Every variable keeps its type: the generation and the serial stay within
\* their width, and only messages of the protocol are on the sockets.
THEOREM TypeCorrect == Spec => []TypeOK
  <1>1. Init => TypeOK
    BY LinkAssumption, InitType
  <1>2. TypeOK /\ [Next]_vars => TypeOK'
    BY LinkAssumption, NextType
  <1> QED
    BY <1>1, <1>2, PTL DEF Spec

-----------------------------------------------------------------------------
(* What a socket holds.                                                    *)

LEMMA ContainsEmpty == ASSUME NEW t PROVE ~Contains(<<>>, t)
  BY DEF Contains

LEMMA ContainsAppend ==
    ASSUME NEW S, NEW q \in Seq(S), NEW m \in S, NEW t
    PROVE  Contains(Append(q, m), t) <=> Contains(q, t) \/ m.type = t
  <1> DEFINE r == Append(q, m)
  <1>1. Len(r) = Len(q) + 1 /\ r[Len(q) + 1] = m /\ Len(q) \in Nat
    OBVIOUS
  <1>2. \A i \in 1..Len(q) : r[i] = q[i]
    OBVIOUS
  <1> HIDE DEF r
  <1>3. \A i \in 1..Len(r) : i \in 1..Len(q) \/ i = Len(q) + 1
    BY <1>1
  <1>4. Len(q) + 1 \in 1..Len(r) /\ 1..Len(q) \subseteq 1..Len(r)
    BY <1>1
  <1>5. Contains(r, t) <=> Contains(q, t) \/ m.type = t
    BY <1>1, <1>2, <1>3, <1>4 DEF Contains
  <1> QED
    BY <1>5 DEF r

LEMMA TailAt ==
    ASSUME NEW S, NEW q \in Seq(S), q # <<>>
    PROVE  /\ Len(Tail(q)) = Len(q) - 1
           /\ Len(q) \in Nat \ {0}
           /\ \A i \in 1..(Len(q) - 1) : Tail(q)[i] = q[i + 1]
           /\ Head(q) = q[1]
  OBVIOUS

LEMMA ContainsTail ==
    ASSUME NEW S, NEW q \in Seq(S), q # <<>>, NEW t
    PROVE  /\ Contains(Tail(q), t) => Contains(q, t)
           /\ Head(q).type = t => Contains(q, t)
           /\ Contains(q, t) => Contains(Tail(q), t) \/ Head(q).type = t
  <1>1. \A i \in 1..Len(Tail(q)) : i + 1 \in 1..Len(q) /\ Tail(q)[i] = q[i + 1]
    BY TailAt
  <1>2. 1 \in 1..Len(q) /\ Head(q) = q[1]
    BY TailAt
  <1>3. \A i \in 1..Len(q) : i = 1 \/ (i - 1 \in 1..Len(Tail(q)) /\ Tail(q)[i - 1] = q[i])
    BY TailAt
  <1> QED
    BY <1>1, <1>2, <1>3 DEF Contains

\* A snapshot that no change follows on the socket is of the present generation.
Fresh(q, g) ==
    \A i \in 1..Len(q) :
        /\ q[i].type = "snapshot"
        /\ \A j \in 1..Len(q) : j > i => q[j].type # "changed"
        => q[i].n = g

LEMMA FreshEmpty == ASSUME NEW g PROVE Fresh(<<>>, g)
  BY DEF Fresh

LEMMA FreshAppend ==
    ASSUME NEW S, NEW q \in Seq(S), NEW m \in S, NEW g,
           \/ m.type = "changed"
           \/ Fresh(q, g) /\ m.type = "snapshot" /\ m.n = g
           \/ Fresh(q, g) /\ m.type \notin {"snapshot", "changed"}
    PROVE  Fresh(Append(q, m), g)
  <1> DEFINE r == Append(q, m)
  <1>1. Len(r) = Len(q) + 1 /\ r[Len(q) + 1] = m /\ Len(q) \in Nat
    OBVIOUS
  <1>2. \A i \in 1..Len(q) : r[i] = q[i]
    OBVIOUS
  <1> HIDE DEF r
  <1> SUFFICES ASSUME NEW i \in 1..Len(r), r[i].type = "snapshot",
                      \A j \in 1..Len(r) : j > i => r[j].type # "changed"
               PROVE  r[i].n = g
    BY DEF Fresh, r
  <1>3. CASE i = Len(q) + 1
    BY <1>1, <1>3
  <1>4. CASE i # Len(q) + 1
    <2>1. i \in 1..Len(q) /\ Len(q) + 1 \in 1..Len(r) /\ Len(q) + 1 > i
      BY <1>1, <1>4
    <2>2. m.type # "changed"
      BY <1>1, <2>1
    <2>3. \A j \in 1..Len(q) : j > i => q[j].type # "changed"
      BY <1>1, <1>2
    <2> QED
      BY <1>2, <2>1, <2>2, <2>3 DEF Fresh
  <1> QED
    BY <1>3, <1>4

LEMMA FreshTail ==
    ASSUME NEW S, NEW q \in Seq(S), q # <<>>, NEW g, Fresh(q, g)
    PROVE  /\ Fresh(Tail(q), g)
           /\ Head(q).type = "snapshot" /\ ~Contains(Tail(q), "changed") => Head(q).n = g
  <1> DEFINE r == Tail(q)
  <1>1. /\ Len(r) = Len(q) - 1
        /\ Len(q) \in Nat \ {0}
        /\ \A i \in 1..(Len(q) - 1) : r[i] = q[i + 1]
        /\ Head(q) = q[1]
    BY TailAt
  <1> HIDE DEF r
  <1>2. \A j \in 1..Len(q) : j > 1 => j - 1 \in 1..Len(r) /\ r[j - 1] = q[j]
    BY <1>1
  <1>3. ASSUME NEW i \in 1..Len(r), r[i].type = "snapshot",
               \A j \in 1..Len(r) : j > i => r[j].type # "changed"
        PROVE  r[i].n = g
    <2>1. i + 1 \in 1..Len(q) /\ r[i] = q[i + 1]
      BY <1>1
    <2>2. ASSUME NEW j \in 1..Len(q), j > i + 1 PROVE q[j].type # "changed"
      <3>1. j - 1 \in 1..Len(r) /\ j - 1 > i /\ r[j - 1] = q[j]
        BY <1>1, <1>2, <2>2
      <3> QED
        BY <1>3, <3>1
    <2> QED
      BY <1>3, <2>1, <2>2 DEF Fresh
  <1>4. ASSUME Head(q).type = "snapshot", ~Contains(r, "changed") PROVE Head(q).n = g
    <2>1. 1 \in 1..Len(q)
      BY <1>1
    <2>2. \A j \in 1..Len(q) : j > 1 => q[j].type # "changed"
      BY <1>2, <1>4 DEF Contains
    <2> QED
      BY <1>1, <1>4, <2>1, <2>2 DEF Fresh
  <1> QED
    BY <1>3, <1>4 DEF Fresh, r

-----------------------------------------------------------------------------
(* The inductive invariant.                                                *)

\* Role and recovery panel go together, and nothing is open without a controller.
RoleInv ==
    /\ fallback <=> controller = {}
    /\ \A c, e \in controller : c = e
    /\ \A p \in pending : p.controller \in controller
    /\ controller \subseteq connected

\* One daemon and its two sockets.
Dead(d) == daemon[d].proc = "off" => daemon[d] = Off /\ down[d] = <<>>
Leaving(d) == Contains(up[d], "release") => daemon[d].proc = "off"
Believes(d) ==
    daemon[d].claim = "granted" \/ Contains(down[d], "granted") => d \in controller
Unbound(d) ==
    d \notin connected =>
        /\ down[d] = <<>>
        /\ up[d] \in {<<>>, Hello}
        /\ daemon[d].proc # "off" =>
              /\ up[d] = Hello
              /\ daemon[d].outstanding
              /\ daemon[d].proc = "starting"
              /\ daemon[d].claim = "none"
InStep(d) == daemon[d].proc # "off" => Fresh(down[d], generation)
Shows(d) ==
    daemon[d].proc # "off" /\ ~daemon[d].outstanding /\ ~Contains(down[d], "changed")
        => daemon[d].snap = generation

LinkOK(d) ==
    Dead(d) /\ Leaving(d) /\ Believes(d) /\ Unbound(d) /\ InStep(d) /\ Shows(d)

LinkInv == \A d \in Daemons : LinkOK(d)

Inv == TypeOK /\ RoleInv /\ LinkInv

LEMMA HelloIs ==
    /\ Hello # <<>>
    /\ Head(Hello).type = "bind"
    /\ ~Contains(Hello, "release")
  BY DEF Hello, Contains, Request, Msg

\* A daemon none of whose state or sockets changes, and that does not lose what
\* it believes, stays in order.
LEMMA LinkFrame ==
    ASSUME NEW d, LinkOK(d), down'[d] = down[d], up'[d] = up[d], daemon'[d] = daemon[d],
           generation' = generation, d \in connected' <=> d \in connected,
           d \in controller => d \in controller'
    PROVE  LinkOK(d)'
  BY DEF LinkOK, Dead, Leaving, Believes, Unbound, InStep, Shows

\* Only a connection that has bound sends anything but its first request.
LEMMA ReaderBound ==
    ASSUME NEW d \in Daemons, LinkOK(d), NEW type, Reads(d, type), type # "bind"
    PROVE  d \in connected
  <1>1. SUFFICES ASSUME d \notin connected PROVE FALSE
    OBVIOUS
  <1>2. up[d] = Hello
    BY <1>1 DEF LinkOK, Unbound, Reads
  <1> QED
    BY <1>2, HelloIs DEF Reads

LEMMA InitInv == ASSUME LinkAssumption PROVE Init => Inv
  <1> SUFFICES ASSUME Init PROVE Inv
    OBVIOUS
  <1>1. TypeOK
    BY InitType
  <1>2. RoleInv
    BY DEF Init, RoleInv
  <1>3. ASSUME NEW d \in Daemons PROVE LinkOK(d)
    <2>1. down[d] = <<>> /\ up[d] = <<>> /\ daemon[d] = Off /\ d \notin connected
      BY DEF Init
    <2>2. ~Contains(down[d], "granted") /\ ~Contains(up[d], "release")
      BY <2>1, ContainsEmpty
    <2> QED
      BY <2>1, <2>2 DEF LinkOK, Dead, Leaving, Believes, Unbound, InStep, Shows, Off
  <1> QED
    BY <1>1, <1>2, <1>3 DEF Inv, LinkInv

\* What LoseController does to the role.
LEMMA LoseControllerInv ==
    ASSUME TypeOK, RoleInv, NEW d \in Daemons, LoseController(d),
           \/ connected' = connected
           \/ connected' = connected \ {d}
    PROVE  /\ RoleInv'
           /\ controller' = controller \ {d}
           /\ d \in controller => pending' = {}
  <1>1. controller' = controller \ {d}
    BY DEF LoseController
  <1>2. CASE d \in controller
    <2>1. controller = {d}
      BY <1>2 DEF RoleInv
    <2>2. pending' = {} /\ fallback' = TRUE
      BY <1>2, <2>1 DEF LoseController, RoleInv
    <2> QED
      BY <1>1, <1>2, <2>1, <2>2 DEF RoleInv
  <1>3. CASE d \notin controller
    BY <1>1, <1>3 DEF LoseController, RoleInv
  <1> QED
    BY <1>1, <1>2, <1>3

\* One event more for a daemon that is bound.
LEMMA SentInv ==
    ASSUME TypeOK, NEW d \in Daemons, LinkOK(d), d \in connected,
           NEW m \in Events, m.type # "changed", m.type = "snapshot" => m.n = generation,
           down'[d] = Delivered(d, m),
           Contains(up'[d], "release") => Contains(up[d], "release"),
           daemon'[d] = daemon[d], generation' = generation, d \in connected',
           d \in controller \/ m.type = "granted" => d \in controller'
    PROVE  LinkOK(d)'
  <1>1. CASE daemon[d].proc = "off"
    <2>1. down'[d] = <<>> /\ daemon[d] = Off
      BY <1>1 DEF LinkOK, Dead, Delivered
    <2>2. ~Contains(down'[d], "granted")
      BY <2>1, ContainsEmpty
    <2> QED
      BY <1>1, <2>1, <2>2
         DEF LinkOK, Dead, Leaving, Believes, Unbound, InStep, Shows, Off
  <1>2. CASE daemon[d].proc # "off"
    <2>1. down'[d] = Append(down[d], m) /\ down[d] \in Seq(Events)
      BY <1>2 DEF Delivered, TypeOK
    <2>2. Fresh(down[d], generation)
      BY <1>2 DEF LinkOK, InStep
    <2>3. Fresh(down'[d], generation)
      BY <2>1, <2>2, FreshAppend
    <2>4. /\ Contains(down'[d], "granted") <=> Contains(down[d], "granted") \/ m.type = "granted"
          /\ Contains(down'[d], "changed") <=> Contains(down[d], "changed")
      BY <2>1, ContainsAppend
    <2> QED
      BY <1>2, <2>3, <2>4
         DEF LinkOK, Dead, Leaving, Believes, Unbound, InStep, Shows
  <1> QED
    BY <1>1, <1>2

\* Reading a request leaves fewer of them.
LEMMA ReadLess ==
    ASSUME TypeOK, NEW d \in Daemons, NEW type, Reads(d, type), NEW t
    PROVE  /\ Contains(up'[d], t) => Contains(up[d], t)
           /\ Contains(up[d], type)
           /\ \A e \in Daemons : e # d => up'[e] = up[e]
           /\ daemon' = daemon
  <1>1. up[d] \in Seq(Requests) /\ up[d] # <<>> /\ Head(up[d]).type = type
    BY DEF Reads, TypeOK
  <1>2. up'[d] = Tail(up[d]) /\ \A e \in Daemons : e # d => up'[e] = up[e]
    BY DEF Reads, TypeOK
  <1> QED
    BY <1>1, <1>2, ContainsTail DEF Reads

LEMMA CoreReadsInv ==
    ASSUME LinkAssumption, Inv, NEW d \in Daemons, CoreReads(d)
    PROVE  RoleInv' /\ LinkInv'
  <1>1. TypeOK /\ RoleInv /\ \A e \in Daemons : LinkOK(e)
    BY DEF Inv, LinkInv
  <1>2. LinkOK(d)
    BY <1>1
  <1>3. CASE Bind(d)
    <2>1. Reads(d, "bind") /\ connected' = connected \cup {d}
      BY <1>3 DEF Bind
    <2>2. RoleInv'
      BY <1>1, <1>3 DEF Bind, RoleInv
    <2>3. LinkOK(d)'
      <3>1. Contains(up'[d], "release") => Contains(up[d], "release")
        BY <1>1, <2>1, ReadLess
      <3> QED
        BY <1>2, <1>3, <2>1, <3>1
           DEF Bind, Reads, LinkOK, Dead, Leaving, Believes, Unbound, InStep, Shows
    <2>4. ASSUME NEW e \in Daemons, e # d PROVE LinkOK(e)'
      BY <1>1, <1>3, <2>1, <2>4, ReadLess, LinkFrame DEF Bind
    <2> QED
      BY <2>2, <2>3, <2>4 DEF LinkInv
  <1>4. CASE GetState(d)
    <2> DEFINE m == Msg("snapshot", generation)
    <2>1. Reads(d, "get_state") /\ Send(d, m) /\ UNCHANGED coreVars
      BY <1>4 DEF GetState
    <2>2. d \in connected
      BY <1>2, <2>1, ReaderBound
    <2>3. RoleInv'
      BY <1>1, <2>1 DEF coreVars, RoleInv
    <2>4. m \in Events /\ m.type = "snapshot" /\ m.n = generation
      BY <1>1, MessageTypes DEF TypeOK, Msg
    <2>5. down'[d] = Delivered(d, m) /\ \A e \in Daemons : e # d => down'[e] = down[e]
      BY <1>1, <2>1 DEF Send, TypeOK
    <2> HIDE DEF m
    <2>6. Contains(up'[d], "release") => Contains(up[d], "release")
      BY <1>1, <2>1, ReadLess
    <2>7. daemon' = daemon /\ \A e \in Daemons : e # d => up'[e] = up[e]
      BY <1>1, <2>1, ReadLess
    <2>8. LinkOK(d)'
      BY <1>1, <1>2, <2>1, <2>2, <2>4, <2>5, <2>6, <2>7, SentInv DEF coreVars
    <2>9. ASSUME NEW e \in Daemons, e # d PROVE LinkOK(e)'
      BY <1>1, <2>1, <2>5, <2>7, <2>9, LinkFrame DEF coreVars
    <2> QED
      BY <2>3, <2>8, <2>9 DEF LinkInv
  <1>5. CASE ClaimController(d)
    <2>1. Reads(d, "claim")
      BY <1>5 DEF ClaimController
    <2>2. d \in connected
      BY <1>2, <2>1, ReaderBound
    <2>3. RoleInv'
      BY <1>1, <1>5, <2>2 DEF ClaimController, RoleInv
    <2>4. \A e \in Daemons : e \in controller => e \in controller'
      BY <1>5 DEF ClaimController
    <2>5. PICK m \in {Request("granted"), Request("refused")} :
              Send(d, m) /\ (m.type = "granted" => d \in controller')
      BY <1>5 DEF ClaimController, Request, Msg
    <2>6. m \in Events /\ m.type \in {"granted", "refused"}
      BY MessageTypes DEF Request, Msg
    <2>7. down'[d] = Delivered(d, m) /\ \A e \in Daemons : e # d => down'[e] = down[e]
      BY <1>1, <2>5 DEF Send, TypeOK
    <2>8. Contains(up'[d], "release") => Contains(up[d], "release")
      BY <1>1, <2>1, ReadLess
    <2>9. daemon' = daemon /\ \A e \in Daemons : e # d => up'[e] = up[e]
      BY <1>1, <2>1, ReadLess
    <2>10. generation' = generation /\ connected' = connected
      BY <1>5 DEF ClaimController
    <2>11. LinkOK(d)'
      BY <1>1, <1>2, <2>2, <2>4, <2>5, <2>6, <2>7, <2>8, <2>9, <2>10, SentInv
    <2>12. ASSUME NEW e \in Daemons, e # d PROVE LinkOK(e)'
      BY <1>1, <2>4, <2>7, <2>9, <2>10, <2>12, LinkFrame
    <2> QED
      BY <2>3, <2>11, <2>12 DEF LinkInv
  <1>6. CASE ReleaseController(d)
    <2>1. Reads(d, "release") /\ LoseController(d)
      BY <1>6 DEF ReleaseController
    <2>2. /\ connected' = connected
          /\ generation' = generation
          /\ down' = down
      BY <1>6 DEF ReleaseController
    <2>3. RoleInv' /\ controller' = controller \ {d}
      BY <1>1, <2>1, <2>2, LoseControllerInv
    <2>4. Contains(up[d], "release") /\ daemon' = daemon
          /\ \A e \in Daemons : e # d => up'[e] = up[e]
      BY <1>1, <2>1, ReadLess
    <2>5. d \in connected
      BY <1>2, <2>1, ReaderBound
    <2>6. daemon[d] = Off /\ down[d] = <<>> /\ ~Contains(down[d], "granted")
      BY <1>2, <2>4, ContainsEmpty DEF LinkOK, Leaving, Dead
    <2>7. LinkOK(d)'
      BY <2>2, <2>4, <2>5, <2>6
         DEF LinkOK, Dead, Leaving, Believes, Unbound, InStep, Shows, Off
    <2>8. ASSUME NEW e \in Daemons, e # d PROVE LinkOK(e)'
      BY <1>1, <2>2, <2>3, <2>4, <2>8, LinkFrame
    <2> QED
      BY <2>3, <2>7, <2>8 DEF LinkInv
  <1>7. CASE ControllerResult(d)
    <2>1. Reads(d, "result")
      BY <1>7 DEF ControllerResult
    <2>2. d \in connected
      BY <1>2, <2>1, ReaderBound
    <2>3. RoleInv'
      BY <1>1, <1>7 DEF ControllerResult, RoleInv
    <2>4. Contains(up'[d], "release") => Contains(up[d], "release")
      BY <1>1, <2>1, ReadLess
    <2>5. daemon' = daemon /\ \A e \in Daemons : e # d => up'[e] = up[e]
      BY <1>1, <2>1, ReadLess
    <2>6. UNCHANGED <<generation, connected, controller, down>>
      BY <1>7 DEF ControllerResult
    <2>7. LinkOK(d)'
      BY <1>2, <2>2, <2>4, <2>5, <2>6
         DEF LinkOK, Dead, Leaving, Believes, Unbound, InStep, Shows
    <2>8. ASSUME NEW e \in Daemons, e # d PROVE LinkOK(e)'
      BY <1>1, <2>5, <2>6, <2>8, LinkFrame
    <2> QED
      BY <2>3, <2>7, <2>8 DEF LinkInv
  <1> QED
    BY <1>3, <1>4, <1>5, <1>6, <1>7 DEF CoreReads

LEMMA MarkChangedInv ==
    ASSUME LinkAssumption, Inv, MarkChanged
    PROVE  RoleInv' /\ LinkInv'
  <1>1. TypeOK /\ RoleInv /\ \A e \in Daemons : LinkOK(e)
    BY DEF Inv, LinkInv
  <1> DEFINE m == Msg("changed", generation')
  <1>2. /\ \A e \in Daemons : down'[e] = IF e \in connected THEN Delivered(e, m) ELSE down[e]
        /\ UNCHANGED <<connected, controller, fallback, pending, up, daemon>>
    BY DEF MarkChanged
  <1>3. m \in Events /\ m.type = "changed"
    <2>1. generation' \in Generations
      BY <1>1, SuccType DEF MarkChanged, TypeOK, Generations, LinkAssumption
    <2> QED
      BY <2>1, MessageTypes DEF Msg
  <1> HIDE DEF m
  <1>4. ASSUME NEW d \in Daemons PROVE LinkOK(d)'
    <2>1. LinkOK(d)
      BY <1>1
    <2>2. CASE d \notin connected
      <3>1. down'[d] = <<>> /\ down[d] = <<>>
        BY <1>2, <2>1, <2>2 DEF LinkOK, Unbound
      <3>2. Fresh(down'[d], generation')
        BY <3>1, FreshEmpty
      <3> QED
        BY <1>2, <2>1, <2>2, <3>1, <3>2
           DEF LinkOK, Dead, Leaving, Believes, Unbound, InStep, Shows
    <2>3. CASE d \in connected /\ daemon[d].proc = "off"
      <3>1. down'[d] = down[d] /\ daemon[d] = Off
        BY <1>2, <2>1, <2>3 DEF Delivered, LinkOK, Dead
      <3> QED
        BY <1>2, <2>1, <2>3, <3>1
           DEF LinkOK, Dead, Leaving, Believes, Unbound, InStep, Shows, Off
    <2>4. CASE d \in connected /\ daemon[d].proc # "off"
      <3>1. down'[d] = Append(down[d], m) /\ down[d] \in Seq(Events)
        BY <1>1, <1>2, <2>4 DEF Delivered, TypeOK
      <3>2. Fresh(down'[d], generation')
        BY <1>3, <3>1, FreshAppend
      <3>3. /\ Contains(down'[d], "granted") <=> Contains(down[d], "granted")
            /\ Contains(down'[d], "changed")
        BY <1>3, <3>1, ContainsAppend
      <3> QED
        BY <1>2, <2>1, <2>4, <3>2, <3>3
           DEF LinkOK, Dead, Leaving, Believes, Unbound, InStep, Shows
    <2> QED
      BY <2>2, <2>3, <2>4
  <1> QED
    BY <1>1, <1>2, <1>4 DEF RoleInv, LinkInv

LEMMA CoreActsInv ==
    ASSUME LinkAssumption, Inv, NEW d \in Daemons, ProtocolInvoke(d) \/ Disconnect(d)
    PROVE  RoleInv' /\ LinkInv'
  <1>1. TypeOK /\ RoleInv /\ \A e \in Daemons : LinkOK(e)
    BY DEF Inv, LinkInv
  <1>2. LinkOK(d)
    BY <1>1
  <1>3. CASE ProtocolInvoke(d)
    <2>1. UNCHANGED <<generation, connected, controller, fallback, up, daemon>>
      BY <1>3 DEF ProtocolInvoke
    <2>2. d \in controller /\ d \in connected
      BY <1>1, <1>3 DEF ProtocolInvoke, RoleInv
    <2>3. RoleInv'
      BY <1>1, <1>3, <2>1, <2>2 DEF ProtocolInvoke, RoleInv
    <2>4. CASE UNCHANGED down
      BY <1>1, <2>1, <2>3, <2>4, LinkFrame DEF LinkInv
    <2>5. CASE Send(d, Msg("invoke", nextSerial))
      <3> DEFINE m == Msg("invoke", nextSerial)
      <3>1. m \in Events /\ m.type = "invoke"
        BY <1>1, MessageTypes DEF TypeOK, Msg
      <3>2. down'[d] = Delivered(d, m) /\ \A e \in Daemons : e # d => down'[e] = down[e]
        BY <1>1, <2>5 DEF Send, TypeOK
      <3> HIDE DEF m
      <3>3. LinkOK(d)'
        BY <1>1, <1>2, <2>1, <2>2, <3>1, <3>2, SentInv
      <3>4. ASSUME NEW e \in Daemons, e # d PROVE LinkOK(e)'
        BY <1>1, <2>1, <3>2, <3>4, LinkFrame
      <3> QED
        BY <2>3, <3>3, <3>4 DEF LinkInv
    <2> QED
      BY <1>3, <2>4, <2>5 DEF ProtocolInvoke
  <1>4. CASE Disconnect(d)
    <2>1. /\ LoseController(d)
          /\ connected' = connected \ {d}
          /\ daemon[d].proc = "off"
          /\ UNCHANGED <<generation, down, daemon>>
      BY <1>4 DEF Disconnect
    <2>2. RoleInv' /\ controller' = controller \ {d}
      BY <1>1, <2>1, LoseControllerInv
    <2>3. up'[d] = <<>> /\ \A e \in Daemons : e # d => up'[e] = up[e]
      BY <1>1, <1>4 DEF Disconnect, TypeOK
    <2>4. daemon[d] = Off /\ down[d] = <<>> /\ ~Contains(down[d], "granted")
          /\ ~Contains(up'[d], "release")
      BY <1>2, <2>1, <2>3, ContainsEmpty DEF LinkOK, Dead
    <2>5. LinkOK(d)'
      BY <2>1, <2>3, <2>4
         DEF LinkOK, Dead, Leaving, Believes, Unbound, InStep, Shows, Off
    <2>6. ASSUME NEW e \in Daemons, e # d PROVE LinkOK(e)'
      BY <1>1, <2>1, <2>2, <2>3, <2>6, LinkFrame
    <2> QED
      BY <2>2, <2>5, <2>6 DEF LinkInv
  <1> QED
    BY <1>3, <1>4

\* Dispatching an event leaves fewer of them, and only a bound daemon has any.
LEMMA DispatchLess ==
    ASSUME TypeOK, NEW d \in Daemons, LinkOK(d), NEW type, Dispatches(d, type)
    PROVE  /\ \A t : Contains(down'[d], t) => Contains(down[d], t)
           /\ \A t : Contains(down[d], t) => Contains(down'[d], t) \/ t = type
           /\ Contains(down[d], type)
           /\ \A e \in Daemons : e # d => down'[e] = down[e]
           /\ d \in connected
           /\ Fresh(down'[d], generation)
           /\ type = "snapshot" /\ ~Contains(down'[d], "changed")
                => Head(down[d]).n = generation
  <1>1. down[d] \in Seq(Events) /\ down[d] # <<>> /\ Head(down[d]).type = type
    BY DEF Dispatches, TypeOK
  <1>2. down'[d] = Tail(down[d]) /\ \A e \in Daemons : e # d => down'[e] = down[e]
    BY DEF Dispatches, TypeOK
  <1>3. daemon[d].proc # "off"
    BY DEF Dispatches
  <1>4. d \in connected
    BY <1>1 DEF LinkOK, Unbound
  <1>5. Fresh(down[d], generation)
    BY <1>3 DEF LinkOK, InStep
  <1> QED
    BY <1>1, <1>2, <1>4, <1>5, ContainsTail, FreshTail

LEMMA DispatchInv ==
    ASSUME LinkAssumption, Inv, NEW d \in Daemons, DaemonDispatches(d)
    PROVE  RoleInv' /\ LinkInv'
  <1>1. TypeOK /\ RoleInv /\ \A e \in Daemons : LinkOK(e)
    BY DEF Inv, LinkInv
  <1>2. LinkOK(d) /\ up[d] \in Seq(Requests)
    BY <1>1 DEF TypeOK
  <1>3. UNCHANGED coreVars /\ daemon[d].proc # "off"
    BY DEF DaemonDispatches, HandleChanged, HandleStateEnd, HandleClaimResult,
           HandleControllerInvoke, Dispatches
  <1>4. RoleInv'
    BY <1>1, <1>3 DEF coreVars, RoleInv
  <1>5. ASSUME NEW m \in Requests, m.type # "release", up'[d] \in {up[d], Append(up[d], m)}
        PROVE  Contains(up'[d], "release") => Contains(up[d], "release")
    BY <1>2, <1>5, ContainsAppend, ZenonT(60)
  <1>6. Request("get_state") \in Requests /\ Request("get_state").type # "release"
    BY MessageTypes DEF Request, Msg
  <1>7. ASSUME \A e \in Daemons : e # d =>
                   up'[e] = up[e] /\ down'[e] = down[e] /\ daemon'[e] = daemon[e],
               LinkOK(d)'
        PROVE  LinkInv'
    BY <1>1, <1>3, <1>7, LinkFrame DEF coreVars, LinkInv
  <1>8. CASE HandleChanged(d)
    <2>1. Dispatches(d, "changed")
      BY <1>8 DEF HandleChanged
    <2>2. /\ daemon'[d].outstanding
          /\ daemon'[d].proc = daemon[d].proc
          /\ daemon'[d].claim = daemon[d].claim
          /\ \A e \in Daemons : e # d => daemon'[e] = daemon[e]
      BY <1>1, <1>8 DEF HandleChanged, TypeOK, Processes
    <2>3. /\ up'[d] \in {up[d], Append(up[d], Request("get_state"))}
          /\ \A e \in Daemons : e # d => up'[e] = up[e]
      BY <1>1, <1>8 DEF HandleChanged, TypeOK
    <2>4. Contains(up'[d], "release") => Contains(up[d], "release")
      BY <1>5, <1>6, <2>3
    <2>5. LinkOK(d)'
      BY <1>1, <1>2, <1>3, <2>1, <2>2, <2>4, DispatchLess
         DEF coreVars, LinkOK, Dead, Leaving, Believes, Unbound, InStep, Shows
    <2> QED
      BY <1>1, <1>2, <1>4, <1>7, <2>1, <2>2, <2>3, <2>5, DispatchLess
  <1>9. CASE HandleStateEnd(d)
    <2> DEFINE g == Head(down[d]).n
               again == daemon[d].latest > g
    <2>1. Dispatches(d, "snapshot")
      BY <1>9 DEF HandleStateEnd
    <2>2. /\ daemon'[d].snap = g
          /\ daemon'[d].proc = daemon[d].proc
          /\ daemon'[d].claim = daemon[d].claim
          /\ \A e \in Daemons : e # d => daemon'[e] = daemon[e]
      BY <1>1, <1>9 DEF HandleStateEnd, TypeOK, Processes
    <2>3. /\ up'[d] \in {up[d], Append(up[d], Request("get_state"))}
          /\ \A e \in Daemons : e # d => up'[e] = up[e]
      BY <1>1, <1>9 DEF HandleStateEnd, TypeOK
    <2>4. Contains(up'[d], "release") => Contains(up[d], "release")
      BY <1>5, <1>6, <2>3
    <2>5. LinkOK(d)'
      BY <1>1, <1>2, <1>3, <2>1, <2>2, <2>4, DispatchLess
         DEF coreVars, LinkOK, Dead, Leaving, Believes, Unbound, InStep, Shows
    <2> QED
      BY <1>1, <1>2, <1>4, <1>7, <2>1, <2>2, <2>3, <2>5, DispatchLess
  <1>10. CASE HandleClaimResult(d)
    <2>1. PICK r \in {"granted", "refused"} :
              Dispatches(d, r) /\ daemon' = [daemon EXCEPT ![d] = [@ EXCEPT !.claim = r]]
      BY <1>10 DEF HandleClaimResult
    <2>2. /\ daemon'[d].claim = r
          /\ daemon'[d].proc = daemon[d].proc
          /\ daemon'[d].snap = daemon[d].snap
          /\ daemon'[d].outstanding = daemon[d].outstanding
          /\ \A e \in Daemons : e # d => daemon'[e] = daemon[e]
      BY <1>1, <2>1 DEF TypeOK, Processes
    <2>3. up' = up
      BY <1>10 DEF HandleClaimResult
    <2>4. r = "granted" => d \in controller
      BY <1>1, <1>2, <2>1, DispatchLess DEF LinkOK, Believes
    <2>5. LinkOK(d)'
      BY <1>1, <1>2, <1>3, <2>1, <2>2, <2>3, <2>4, DispatchLess
         DEF coreVars, LinkOK, Dead, Leaving, Believes, Unbound, InStep, Shows
    <2> QED
      BY <1>1, <1>2, <1>4, <1>7, <2>1, <2>2, <2>3, <2>5, DispatchLess
  <1>11. CASE HandleControllerInvoke(d)
    <2> DEFINE m == Msg("result", Head(down[d]).n)
    <2>1. Dispatches(d, "invoke")
      BY <1>11 DEF HandleControllerInvoke
    <2>2. m \in Requests /\ m.type # "release"
      <3>1. SocketTypes
        BY <1>1, TypeParts
      <3>2. Head(down[d]).n \in Serials
        BY <2>1, <3>1, DispatchesType DEF Events
      <3> QED
        BY <3>2, MessageTypes DEF Msg
    <2>3. up'[d] = Append(up[d], m) /\ \A e \in Daemons : e # d => up'[e] = up[e]
      BY <1>1, <1>11 DEF HandleControllerInvoke, TypeOK
    <2>4. daemon' = daemon
      BY <1>11 DEF HandleControllerInvoke
    <2> HIDE DEF m
    <2>5. Contains(up'[d], "release") => Contains(up[d], "release")
      BY <1>5, <2>2, <2>3
    <2>6. LinkOK(d)'
      BY <1>1, <1>2, <1>3, <2>1, <2>4, <2>5, DispatchLess
         DEF coreVars, LinkOK, Dead, Leaving, Believes, Unbound, InStep, Shows
    <2> QED
      BY <1>1, <1>2, <1>4, <1>7, <2>1, <2>3, <2>4, <2>6, DispatchLess
  <1> QED
    BY <1>8, <1>9, <1>10, <1>11 DEF DaemonDispatches

\* A process that ends leaves its connection and its role behind.
LEMMA EndsInv ==
    ASSUME LinkAssumption, Inv, NEW d \in Daemons, Ends(d), UNCHANGED coreVars,
           d \in connected \/ up'[d] \in {<<>>, Hello},
           \A e \in Daemons : e # d => up'[e] = up[e]
    PROVE  RoleInv' /\ LinkInv'
  <1>1. TypeOK /\ RoleInv /\ \A e \in Daemons : LinkOK(e)
    BY DEF Inv, LinkInv
  <1>2. RoleInv'
    BY <1>1 DEF coreVars, RoleInv
  <1>3. daemon'[d] = Off /\ down'[d] = <<>> /\ ~Contains(down'[d], "granted")
    BY <1>1, ContainsEmpty DEF Ends, TypeOK
  <1>4. LinkOK(d)'
    BY <1>3 DEF coreVars, LinkOK, Dead, Leaving, Believes, Unbound, InStep, Shows, Off
  <1>5. ASSUME NEW e \in Daemons, e # d PROVE LinkOK(e)'
    <2>1. daemon'[e] = daemon[e] /\ down'[e] = down[e]
      BY <1>1, <1>5 DEF Ends, TypeOK
    <2> QED
      BY <1>1, <1>5, <2>1, LinkFrame DEF coreVars
  <1> QED
    BY <1>2, <1>4, <1>5 DEF LinkInv

LEMMA ProcessActsInv ==
    ASSUME LinkAssumption, Inv, NEW d \in Daemons,
           Start(d) \/ DaemonReady(d) \/ StartupRefused(d) \/ Stop(d) \/ Crash(d)
    PROVE  RoleInv' /\ LinkInv'
  <1>1. TypeOK /\ RoleInv /\ \A e \in Daemons : LinkOK(e)
    BY DEF Inv, LinkInv
  <1>2. LinkOK(d)
    BY <1>1
  <1>3. ASSUME UNCHANGED coreVars PROVE RoleInv'
    BY <1>1, <1>3 DEF coreVars, RoleInv
  <1>4. CASE Start(d)
    <2>1. UNCHANGED coreVars /\ down' = down /\ d \notin connected
      BY <1>4 DEF Start
    <2>2. /\ daemon'[d] = [Off EXCEPT !.proc = "starting", !.outstanding = TRUE]
          /\ up'[d] = Hello
          /\ \A e \in Daemons : e # d => daemon'[e] = daemon[e] /\ up'[e] = up[e]
      BY <1>1, <1>4 DEF Start, TypeOK
    <2>3. down[d] = <<>> /\ ~Contains(down[d], "granted") /\ Fresh(down[d], generation)
      BY <1>2, <2>1, ContainsEmpty, FreshEmpty DEF LinkOK, Unbound
    <2>4. LinkOK(d)'
      BY <2>1, <2>2, <2>3, HelloIs
         DEF coreVars, LinkOK, Dead, Leaving, Believes, Unbound, InStep, Shows, Off
    <2>5. ASSUME NEW e \in Daemons, e # d PROVE LinkOK(e)'
      BY <1>1, <2>1, <2>2, <2>5, LinkFrame DEF coreVars
    <2> QED
      BY <1>3, <2>1, <2>4, <2>5 DEF LinkInv
  <1>5. CASE DaemonReady(d)
    <2>1. /\ UNCHANGED <<coreVars, up, down>>
          /\ daemon[d].proc = "starting"
          /\ daemon[d].claim = "granted"
      BY <1>5 DEF DaemonReady, StartupEnds
    <2>2. /\ daemon'[d].proc = "running"
          /\ daemon'[d].claim = daemon[d].claim
          /\ daemon'[d].snap = daemon[d].snap
          /\ daemon'[d].outstanding = daemon[d].outstanding
          /\ \A e \in Daemons : e # d => daemon'[e] = daemon[e]
      BY <1>1, <1>5 DEF DaemonReady, TypeOK, Processes
    <2>3. LinkOK(d)'
      BY <1>2, <2>1, <2>2
         DEF coreVars, LinkOK, Dead, Leaving, Believes, Unbound, InStep, Shows
    <2>4. ASSUME NEW e \in Daemons, e # d PROVE LinkOK(e)'
      BY <1>1, <2>1, <2>2, <2>4, LinkFrame DEF coreVars
    <2> QED
      BY <1>3, <2>1, <2>3, <2>4 DEF LinkInv
  <1>6. CASE StartupRefused(d) \/ Crash(d)
    <2>1. Ends(d) /\ UNCHANGED <<coreVars, up>>
      BY <1>6 DEF StartupRefused, Crash
    <2>2. d \in connected \/ up[d] \in {<<>>, Hello}
      BY <1>2 DEF LinkOK, Unbound
    <2> QED
      BY <2>1, <2>2, EndsInv
  <1>7. CASE Stop(d)
    <2>1. Ends(d) /\ UNCHANGED coreVars /\ daemon[d].proc = "running"
      BY <1>7 DEF Stop
    <2>2. d \in connected
      BY <1>2, <2>1 DEF LinkOK, Unbound
    <2>3. \A e \in Daemons : e # d => up'[e] = up[e]
      BY <1>1, <1>7 DEF Stop, TypeOK
    <2> QED
      BY <2>1, <2>2, <2>3, EndsInv
  <1> QED
    BY <1>4, <1>5, <1>6, <1>7

LEMMA NextInv == ASSUME LinkAssumption, Inv, [Next]_vars PROVE Inv'
  <1>1. TypeOK'
    BY NextType DEF Inv
  <1>2. ASSUME UNCHANGED <<coreVars, up, down, daemon>> PROVE RoleInv' /\ LinkInv'
    BY <1>2, LinkFrame DEF coreVars, Inv, RoleInv, LinkInv
  <1>3. CASE UNCHANGED vars
    BY <1>1, <1>2, <1>3 DEF vars, Inv
  <1>4. ASSUME NEW w \in Watchers, WatchRefused(w) \/ \E d \in Daemons : WatchState(w, d)
        PROVE  RoleInv' /\ LinkInv'
    BY <1>2, <1>4 DEF WatchRefused, WatchState
  <1>5. CASE Next
    BY <1>1, <1>4, <1>5, CoreReadsInv, MarkChangedInv, CoreActsInv, DispatchInv,
       ProcessActsInv DEF Next, Inv
  <1> QED
    BY <1>3, <1>5

\* The inductive invariant holds.
THEOREM Invariance == Spec => []Inv
  <1>1. Init => Inv
    BY LinkAssumption, InitInv
  <1>2. Inv /\ [Next]_vars => Inv'
    BY LinkAssumption, NextInv
  <1> QED
    BY <1>1, <1>2, PTL DEF Spec

\* A daemon that has been granted the role has it: neither a later claim nor the
\* end of another connection takes it away while the process lives.
THEOREM OwnerIsController == Spec => []OwnershipAgrees
  <1>1. Inv => OwnershipAgrees
    BY DEF Inv, RoleInv, LinkInv, LinkOK, Believes, OwnershipAgrees, TypeOK
  <1> QED
    BY <1>1, Invariance, PTL

\* No change is lost: a daemon that waits for nothing shows the present state,
\* past the wrap of the generation too.
THEOREM ShowsPresent == Spec => []NoLostChange
  <1>1. Inv => NoLostChange
    BY DEF Inv, LinkInv, LinkOK, Shows, NoLostChange
  <1> QED
    BY <1>1, Invariance, PTL

-----------------------------------------------------------------------------
(* Every invocation has one message under way.                             *)

Never(q, m) == \A i \in 1..Len(q) : q[i] # m
Once(q, m) ==
    \E i \in 1..Len(q) : q[i] = m /\ \A j \in 1..Len(q) : q[j] = m => j = i

\* Two queues hold the messages of a type alike.
Alike(q, r, type) ==
    \A s \in Serials :
        /\ Never(q, Msg(type, s)) <=> Never(r, Msg(type, s))
        /\ Once(q, Msg(type, s)) <=> Once(r, Msg(type, s))

LEMMA MsgIs ==
    ASSUME NEW t, NEW n
    PROVE  /\ Msg(t, n).type = t /\ Msg(t, n).n = n
           /\ \A u, k : Msg(t, n) = Msg(u, k) => t = u /\ n = k
  BY DEF Msg

LEMMA CountEmpty ==
    ASSUME NEW m
    PROVE  Never(<<>>, m)
  BY DEF Never

LEMMA CountAppend ==
    ASSUME NEW S, NEW q \in Seq(S), NEW m \in S, NEW n
    PROVE  /\ m # n => /\ Never(Append(q, m), n) <=> Never(q, n)
                       /\ Once(Append(q, m), n) <=> Once(q, n)
           /\ Never(q, m) => Once(Append(q, m), m)
  <1> DEFINE r == Append(q, m)
  <1>1. Len(r) = Len(q) + 1 /\ r[Len(q) + 1] = m /\ Len(q) \in Nat
    OBVIOUS
  <1>2. \A i \in 1..Len(q) : r[i] = q[i]
    OBVIOUS
  <1> HIDE DEF r
  <1>3. \A i \in 1..Len(r) : i \in 1..Len(q) \/ i = Len(q) + 1
    BY <1>1
  <1>4. Len(q) + 1 \in 1..Len(r) /\ Len(q) + 1 \notin 1..Len(q) /\ 1..Len(q) \subseteq 1..Len(r)
    BY <1>1
  <1>5. m # n => /\ Never(r, n) <=> Never(q, n)
                 /\ Once(r, n) <=> Once(q, n)
    BY <1>1, <1>2, <1>3, <1>4 DEF Never, Once
  <1>6. Never(q, m) => Once(r, m)
    BY <1>1, <1>2, <1>3, <1>4 DEF Never, Once
  <1> QED
    BY <1>5, <1>6 DEF r

LEMMA CountTail ==
    ASSUME NEW S, NEW q \in Seq(S), q # <<>>, NEW n
    PROVE  /\ Head(q) # n => /\ Never(Tail(q), n) <=> Never(q, n)
                             /\ Once(Tail(q), n) <=> Once(q, n)
           /\ Head(q) = n => ~Never(q, n) /\ (Once(q, n) => Never(Tail(q), n))
  <1> DEFINE r == Tail(q)
  <1>1. /\ Len(r) = Len(q) - 1
        /\ Len(q) \in Nat \ {0}
        /\ \A i \in 1..(Len(q) - 1) : r[i] = q[i + 1]
        /\ Head(q) = q[1]
    BY TailAt
  <1> HIDE DEF r
  <1>2. \A i \in 1..Len(r) : i + 1 \in 1..Len(q) /\ i + 1 # 1 /\ r[i] = q[i + 1]
    BY <1>1
  <1>3. \A i \in 1..Len(q) : i = 1 \/ (i - 1 \in 1..Len(r) /\ r[i - 1] = q[i])
    BY <1>1
  <1>4. 1 \in 1..Len(q)
    BY <1>1
  <1>5. ASSUME Head(q) # n PROVE Never(r, n) <=> Never(q, n)
    BY <1>1, <1>2, <1>3, <1>4, <1>5 DEF Never
  <1>6. ASSUME Head(q) # n, Once(q, n) PROVE Once(r, n)
    <2>1. PICK i \in 1..Len(q) : q[i] = n /\ \A j \in 1..Len(q) : q[j] = n => j = i
      BY <1>6 DEF Once
    <2>2. i - 1 \in 1..Len(r) /\ r[i - 1] = n
      BY <1>1, <1>3, <1>6, <2>1
    <2>3. ASSUME NEW j \in 1..Len(r), r[j] = n PROVE j = i - 1
      BY <1>2, <2>1, <2>3
    <2> QED
      BY <2>2, <2>3 DEF Once
  <1>7. ASSUME Head(q) # n, Once(r, n) PROVE Once(q, n)
    <2>1. PICK i \in 1..Len(r) : r[i] = n /\ \A j \in 1..Len(r) : r[j] = n => j = i
      BY <1>7 DEF Once
    <2>2. i + 1 \in 1..Len(q) /\ q[i + 1] = n
      BY <1>2, <2>1
    <2>3. ASSUME NEW j \in 1..Len(q), q[j] = n PROVE j = i + 1
      <3>1. j - 1 \in 1..Len(r) /\ r[j - 1] = n
        BY <1>1, <1>3, <1>7, <2>3
      <3> QED
        BY <2>1, <3>1
    <2> QED
      BY <2>2, <2>3 DEF Once
  <1>8. ASSUME Head(q) = n, Once(q, n) PROVE Never(r, n)
    <2>1. \A j \in 1..Len(q) : q[j] = n => j = 1
      BY <1>1, <1>4, <1>8 DEF Once
    <2> QED
      BY <1>2, <2>1 DEF Never
  <1>9. Head(q) = n => ~Never(q, n)
    BY <1>1, <1>4 DEF Never
  <1> QED
    BY <1>5, <1>6, <1>7, <1>8, <1>9 DEF r

LEMMA AlikeSame == ASSUME NEW q, NEW t PROVE Alike(q, q, t)
  BY DEF Alike

LEMMA AlikeAppend ==
    ASSUME NEW S, NEW q \in Seq(S), NEW m \in S, NEW t, m.type # t
    PROVE  Alike(q, Append(q, m), t)
  <1>1. \A s \in Serials : m # Msg(t, s)
    BY MsgIs
  <1> QED
    BY <1>1, CountAppend DEF Alike

LEMMA AlikeTail ==
    ASSUME NEW S, NEW q \in Seq(S), q # <<>>, NEW t, Head(q).type # t
    PROVE  Alike(q, Tail(q), t)
  <1>1. \A s \in Serials : Head(q) # Msg(t, s)
    BY MsgIs
  <1> QED
    BY <1>1, CountTail DEF Alike

\* The serials the compositor waits on a daemon for.
OpenAt(d) == {s \in Serials : [serial |-> s, controller |-> d] \in pending}

\* A serial that is open is under way once, either way; another one is not.
UnderWay(s, d) ==
    \/ Once(down[d], Msg("invoke", s)) /\ Never(up[d], Msg("result", s))
    \/ Never(down[d], Msg("invoke", s)) /\ Once(up[d], Msg("result", s))
Nowhere(s, d) == Never(down[d], Msg("invoke", s)) /\ Never(up[d], Msg("result", s))

Accounted(d) ==
    daemon[d].proc # "off" =>
        \A s \in Serials : IF s \in OpenAt(d) THEN UnderWay(s, d) ELSE Nowhere(s, d)
AccountInv == \A d \in Daemons : Accounted(d)

LEMMA AccountFrame ==
    ASSUME NEW d, Accounted(d), daemon[d].proc # "off",
           Alike(down[d], down'[d], "invoke"), Alike(up[d], up'[d], "result"),
           OpenAt(d)' = OpenAt(d)
    PROVE  Accounted(d)'
  BY DEF Accounted, UnderWay, Nowhere, Alike

\* A daemon none of whose messages move.
LEMMA AccountStill ==
    ASSUME NEW d, Accounted(d), down'[d] = down[d], up'[d] = up[d],
           daemon'[d].proc = "off" \/ daemon[d].proc # "off",
           OpenAt(d)' = OpenAt(d)
    PROVE  Accounted(d)'
  BY DEF Accounted, UnderWay, Nowhere

\* The messages of one read.
LEMMA ReadHead ==
    ASSUME TypeOK, NEW d \in Daemons, NEW type, Reads(d, type)
    PROVE  /\ up[d] \in Seq(Requests) /\ up[d] # <<>> /\ Head(up[d]).type = type
           /\ up'[d] = Tail(up[d])
           /\ \A e \in Daemons : e # d => up'[e] = up[e]
           /\ daemon' = daemon
  BY DEF Reads, TypeOK

LEMMA DispatchHead ==
    ASSUME TypeOK, NEW d \in Daemons, NEW type, Dispatches(d, type)
    PROVE  /\ down[d] \in Seq(Events) /\ down[d] # <<>> /\ Head(down[d]).type = type
           /\ down'[d] = Tail(down[d])
           /\ \A e \in Daemons : e # d => down'[e] = down[e]
           /\ daemon[d].proc # "off"
           /\ UNCHANGED coreVars
  BY DEF Dispatches, TypeOK

\* What is sent to a daemon alike, whether it is there or not.
LEMMA DeliveredAlike ==
    ASSUME TypeOK, NEW d \in Daemons, NEW m \in Events, NEW t, m.type # t
    PROVE  Alike(down[d], Delivered(d, m), t)
  <1>1. down[d] \in Seq(Events)
    BY DEF TypeOK
  <1> QED
    BY <1>1, AlikeSame, AlikeAppend DEF Delivered

LEMMA CoreReadsAccount ==
    ASSUME LinkAssumption, Inv, AccountInv, NEW d \in Daemons, CoreReads(d)
    PROVE  AccountInv'
  <1>1. TypeOK /\ RoleInv /\ LinkOK(d) /\ \A e \in Daemons : Accounted(e)
    BY DEF Inv, LinkInv, AccountInv
  <1>2. ASSUME NEW type, type # "result", Reads(d, type),
               \A e \in Daemons : Alike(down[e], down'[e], "invoke"),
               pending' = pending
        PROVE  AccountInv'
    <2>1. \A e \in Daemons : OpenAt(e)' = OpenAt(e)
      BY <1>2 DEF OpenAt
    <2>2. \A e \in Daemons : Alike(up[e], up'[e], "result")
      BY <1>1, <1>2, ReadHead, AlikeTail, AlikeSame
    <2>3. ASSUME NEW e \in Daemons PROVE Accounted(e)'
      <3>1. CASE daemon[e].proc = "off"
        BY <1>1, <1>2, <3>1, ReadHead DEF Accounted
      <3>2. CASE daemon[e].proc # "off"
        BY <1>1, <1>2, <2>1, <2>2, <3>2, AccountFrame
      <3> QED
        BY <3>1, <3>2
    <2> QED
      BY <2>3 DEF AccountInv
  <1>3. ASSUME NEW m \in Events, m.type # "invoke", Send(d, m)
        PROVE  \A e \in Daemons : Alike(down[e], down'[e], "invoke")
    <2>1. down'[d] = Delivered(d, m) /\ \A e \in Daemons : e # d => down'[e] = down[e]
      BY <1>1, <1>3 DEF Send, TypeOK
    <2> QED
      BY <1>1, <1>3, <2>1, DeliveredAlike, AlikeSame
  <1>4. CASE Bind(d)
    <2>1. Reads(d, "bind") /\ down' = down /\ pending' = pending
      BY <1>4 DEF Bind
    <2> QED
      BY <1>2, <2>1, AlikeSame
  <1>5. CASE GetState(d)
    <2>1. Reads(d, "get_state") /\ Send(d, Msg("snapshot", generation)) /\ pending' = pending
      BY <1>5 DEF GetState, coreVars
    <2>2. Msg("snapshot", generation) \in Events /\ Msg("snapshot", generation).type # "invoke"
      BY <1>1, MessageTypes, MsgIs DEF TypeOK
    <2> QED
      BY <1>2, <1>3, <2>1, <2>2
  <1>6. CASE ClaimController(d)
    <2>1. Reads(d, "claim") /\ pending' = pending
      BY <1>6 DEF ClaimController
    <2>2. PICK m \in {Request("granted"), Request("refused")} : Send(d, m)
      BY <1>6 DEF ClaimController
    <2>3. m \in Events /\ m.type # "invoke"
      BY <2>2, MessageTypes DEF Request, Msg
    <2> QED
      BY <1>2, <1>3, <2>1, <2>2, <2>3
  <1>7. CASE ReleaseController(d)
    <2>1. Reads(d, "release") /\ LoseController(d) /\ down' = down
      BY <1>7 DEF ReleaseController
    <2>2. /\ \A e \in Daemons : e # d => up'[e] = up[e]
          /\ daemon' = daemon
      BY <1>1, <2>1, ReadHead
    <2>3. daemon[d].proc = "off"
      BY <1>1, <2>1, ReadLess DEF LinkOK, Leaving
    <2>4. \A e \in Daemons : e # d => OpenAt(e)' = OpenAt(e)
      BY <2>1 DEF OpenAt, LoseController
    <2>5. \A e \in Daemons : e # d => Accounted(e)'
      <3>1. SUFFICES ASSUME NEW e \in Daemons, e # d, daemon[e].proc # "off"
                     PROVE  Accounted(e)'
        BY <2>2 DEF Accounted
      <3> QED
        BY <1>1, <2>1, <2>2, <2>4, <3>1, AccountStill
    <2>6. Accounted(d)'
      BY <2>2, <2>3 DEF Accounted
    <2> QED
      BY <2>5, <2>6 DEF AccountInv
  <1>8. CASE ControllerResult(d)
    <2>1. Reads(d, "result") /\ down' = down
      BY <1>8 DEF ControllerResult
    <2>2. /\ up[d] \in Seq(Requests) /\ up[d] # <<>> /\ Head(up[d]).type = "result"
          /\ up'[d] = Tail(up[d])
          /\ \A e \in Daemons : e # d => up'[e] = up[e]
          /\ daemon' = daemon
      BY <1>1, <2>1, ReadHead
    <2>3. PICK s \in Serials : Head(up[d]) = Msg("result", s) /\ s = Head(up[d]).n
      <3>1. Head(up[d]) \in Requests
        BY <2>2, SocketTail
      <3> QED
        BY <2>2, <3>1 DEF Requests, Msg
    <2> DEFINE p == [serial |-> s, controller |-> d]
    <2>0. pending' = IF d \in controller THEN pending \ {p} ELSE pending
      BY <1>8, <2>3 DEF ControllerResult
    <2>4. ASSUME NEW e \in Daemons, e # d PROVE Accounted(e)'
      <3>1. \A t \in Serials : [serial |-> t, controller |-> e] # p
        BY <2>4
      <3>2. OpenAt(e)' = OpenAt(e)
        BY <2>0, <3>1 DEF OpenAt
      <3> QED
        BY <1>1, <2>1, <2>2, <2>4, <3>2, AccountStill DEF Accounted
    <2>5. ASSUME daemon[d].proc # "off" PROVE Accounted(d)'
      <3>1. ~Never(up[d], Msg("result", s)) /\
            (Once(up[d], Msg("result", s)) => Never(up'[d], Msg("result", s)))
        BY <2>2, <2>3, CountTail
      <3>2. s \in OpenAt(d) /\ UnderWay(s, d)
        BY <1>1, <2>3, <2>5, <3>1 DEF Accounted, Nowhere
      <3>3. Nowhere(s, d)'
        BY <2>1, <3>1, <3>2 DEF UnderWay, Nowhere
      <3>4. d \in controller
        BY <1>1, <3>2 DEF OpenAt, RoleInv
      <3>5. \A t \in Serials : t # s => [serial |-> t, controller |-> d] # p
        OBVIOUS
      <3>6. OpenAt(d)' = OpenAt(d) \ {s}
        BY <2>0, <2>3, <3>4, <3>5 DEF OpenAt
      <3>7. ASSUME NEW t \in Serials, t # s
            PROVE  IF t \in OpenAt(d)' THEN UnderWay(t, d)' ELSE Nowhere(t, d)'
        <4>1. Head(up[d]) # Msg("result", t)
          BY <2>3, <3>7, MsgIs
        <4>2. /\ Never(up'[d], Msg("result", t)) <=> Never(up[d], Msg("result", t))
              /\ Once(up'[d], Msg("result", t)) <=> Once(up[d], Msg("result", t))
          BY <2>2, <4>1, CountTail
        <4>3. t \in OpenAt(d)' <=> t \in OpenAt(d)
          BY <3>6, <3>7
        <4>4. IF t \in OpenAt(d) THEN UnderWay(t, d) ELSE Nowhere(t, d)
          BY <1>1, <2>5 DEF Accounted
        <4> QED
          BY <2>1, <4>2, <4>3, <4>4 DEF UnderWay, Nowhere
      <3>8. s \notin OpenAt(d)'
        BY <3>6
      <3> QED
        BY <3>3, <3>7, <3>8 DEF Accounted
    <2>6. daemon[d].proc = "off" => Accounted(d)'
      BY <2>2 DEF Accounted
    <2> QED
      BY <2>4, <2>5, <2>6 DEF AccountInv
  <1> QED
    BY <1>4, <1>5, <1>6, <1>7, <1>8 DEF CoreReads

LEMMA CoreActsAccount ==
    ASSUME LinkAssumption, Inv, AccountInv, NEW d \in Daemons,
           ProtocolInvoke(d) \/ Disconnect(d)
    PROVE  AccountInv'
  <1>1. TypeOK /\ RoleInv /\ LinkOK(d) /\ \A e \in Daemons : Accounted(e)
    BY DEF Inv, LinkInv, AccountInv
  <1>2. CASE ProtocolInvoke(d) /\ Pending(nextSerial) = {}
    <2>0. PICK s \in Serials : s = nextSerial
      BY <1>1 DEF TypeOK
    <2> DEFINE p == [serial |-> s, controller |-> d]
    <2>1. /\ pending' = pending \cup {p}
          /\ Send(d, Msg("invoke", s))
          /\ UNCHANGED <<up, daemon>>
      BY <1>2, <2>0 DEF ProtocolInvoke
    <2>2. s \in Serials /\ Msg("invoke", s) \in Events
      BY <1>1, MessageTypes DEF TypeOK
    <2>3. /\ down'[d] = Delivered(d, Msg("invoke", s))
          /\ \A e \in Daemons : e # d => down'[e] = down[e]
      BY <1>1, <2>1 DEF Send, TypeOK
    <2>4. s \notin OpenAt(d)
      BY <1>2, <2>0 DEF OpenAt, Pending
    <2>5. ASSUME NEW e \in Daemons, e # d PROVE Accounted(e)'
      <3>1. \A t \in Serials : [serial |-> t, controller |-> e] # p
        BY <2>5
      <3>2. OpenAt(e)' = OpenAt(e)
        BY <2>1, <3>1 DEF OpenAt
      <3> QED
        BY <1>1, <2>1, <2>3, <2>5, <3>2, AccountStill DEF Accounted
    <2>6. ASSUME daemon[d].proc # "off" PROVE Accounted(d)'
      <3>1. down[d] \in Seq(Events) /\ down'[d] = Append(down[d], Msg("invoke", s))
        BY <1>1, <2>3, <2>6 DEF Delivered, TypeOK
      <3>2. Nowhere(s, d)
        BY <1>1, <2>2, <2>4, <2>6 DEF Accounted
      <3>3. UnderWay(s, d)'
        BY <2>1, <2>2, <3>1, <3>2, CountAppend DEF UnderWay, Nowhere
      <3>4. \A t \in Serials : t # s => [serial |-> t, controller |-> d] # p
        OBVIOUS
      <3>5. OpenAt(d)' = OpenAt(d) \cup {s}
        BY <2>1, <2>2, <3>4 DEF OpenAt
      <3>6. ASSUME NEW t \in Serials, t # s
            PROVE  IF t \in OpenAt(d)' THEN UnderWay(t, d)' ELSE Nowhere(t, d)'
        <4>1. Msg("invoke", s) # Msg("invoke", t)
          BY <3>6, MsgIs
        <4>2. /\ Never(down'[d], Msg("invoke", t)) <=> Never(down[d], Msg("invoke", t))
              /\ Once(down'[d], Msg("invoke", t)) <=> Once(down[d], Msg("invoke", t))
          BY <2>2, <3>1, <4>1, CountAppend
        <4>3. t \in OpenAt(d)' <=> t \in OpenAt(d)
          BY <3>5, <3>6
        <4>4. IF t \in OpenAt(d) THEN UnderWay(t, d) ELSE Nowhere(t, d)
          BY <1>1, <2>6 DEF Accounted
        <4> QED
          BY <2>1, <4>2, <4>3, <4>4 DEF UnderWay, Nowhere
      <3>7. s \in OpenAt(d)'
        BY <3>5
      <3> QED
        BY <3>3, <3>6, <3>7 DEF Accounted
    <2>7. daemon[d].proc = "off" => Accounted(d)'
      BY <2>1 DEF Accounted
    <2> QED
      BY <2>5, <2>6, <2>7 DEF AccountInv
  <1>3. CASE ProtocolInvoke(d) /\ Pending(nextSerial) # {}
    <2>1. UNCHANGED <<pending, down, up, daemon>>
      BY <1>3 DEF ProtocolInvoke
    <2> QED
      BY <1>1, <2>1 DEF AccountInv, Accounted, OpenAt, UnderWay, Nowhere
  <1>4. CASE Disconnect(d)
    <2>1. /\ LoseController(d) /\ daemon[d].proc = "off"
          /\ UNCHANGED <<down, daemon>>
          /\ \A e \in Daemons : e # d => up'[e] = up[e]
      BY <1>1, <1>4 DEF Disconnect, TypeOK
    <2>2. \A e \in Daemons : e # d => OpenAt(e)' = OpenAt(e)
      BY <2>1 DEF OpenAt, LoseController
    <2>3. ASSUME NEW e \in Daemons, e # d PROVE Accounted(e)'
      BY <1>1, <2>1, <2>2, <2>3, AccountStill DEF Accounted
    <2>4. Accounted(d)'
      BY <2>1 DEF Accounted
    <2> QED
      BY <2>3, <2>4 DEF AccountInv
  <1> QED
    BY <1>2, <1>3, <1>4

LEMMA MarkChangedAccount ==
    ASSUME LinkAssumption, Inv, AccountInv, MarkChanged
    PROVE  AccountInv'
  <1> DEFINE m == Msg("changed", generation')
  <1>1. TypeOK /\ \A e \in Daemons : Accounted(e)
    BY DEF Inv, AccountInv
  <1>2. /\ \A e \in Daemons : down'[e] = IF e \in connected THEN Delivered(e, m) ELSE down[e]
        /\ UNCHANGED <<pending, up, daemon>>
    BY DEF MarkChanged
  <1>3. m \in Events /\ m.type # "invoke"
    <2>1. generation' \in Generations
      BY <1>1, SuccType DEF MarkChanged, TypeOK, Generations, LinkAssumption
    <2> QED
      BY <2>1, MessageTypes DEF Msg
  <1> HIDE DEF m
  <1>4. \A e \in Daemons : Alike(down[e], down'[e], "invoke") /\ OpenAt(e)' = OpenAt(e)
    BY <1>1, <1>2, <1>3, DeliveredAlike, AlikeSame DEF OpenAt
  <1>5. ASSUME NEW e \in Daemons PROVE Accounted(e)'
    BY <1>1, <1>2, <1>4, AlikeSame, AccountFrame DEF Accounted
  <1> QED
    BY <1>5 DEF AccountInv

LEMMA DispatchAccount ==
    ASSUME LinkAssumption, Inv, AccountInv, NEW d \in Daemons, DaemonDispatches(d)
    PROVE  AccountInv'
  <1>1. TypeOK /\ up[d] \in Seq(Requests) /\ \A e \in Daemons : Accounted(e)
    BY DEF Inv, AccountInv, TypeOK
  <1>2. \A e \in Daemons : OpenAt(e)' = OpenAt(e)
    BY DEF DaemonDispatches, HandleChanged, HandleStateEnd, HandleClaimResult,
           HandleControllerInvoke, Dispatches, coreVars, OpenAt
  <1>3. ASSUME \A e \in Daemons : e # d =>
                   up'[e] = up[e] /\ down'[e] = down[e] /\ daemon'[e] = daemon[e],
               Accounted(d)'
        PROVE  AccountInv'
    BY <1>1, <1>2, <1>3, AccountStill DEF AccountInv, Accounted
  <1>4. Request("get_state") \in Requests /\ Request("get_state").type # "result"
    BY MessageTypes DEF Request, Msg
  <1>5. ASSUME NEW type, type # "invoke", Dispatches(d, type),
               up'[d] \in {up[d], Append(up[d], Request("get_state"))}
        PROVE  Accounted(d)'
    <2>1. Alike(down[d], down'[d], "invoke")
      BY <1>1, <1>5, DispatchHead, AlikeTail
    <2>2. Alike(up[d], up'[d], "result")
      BY <1>1, <1>4, <1>5, AlikeAppend, AlikeSame
    <2> QED
      BY <1>1, <1>2, <1>5, <2>1, <2>2, DispatchHead, AccountFrame
  <1>6. CASE HandleChanged(d)
    <2>1. /\ Dispatches(d, "changed")
          /\ up'[d] \in {up[d], Append(up[d], Request("get_state"))}
          /\ \A e \in Daemons : e # d => up'[e] = up[e] /\ daemon'[e] = daemon[e]
      BY <1>1, <1>6 DEF HandleChanged, TypeOK
    <2> QED
      BY <1>1, <1>3, <1>5, <2>1, DispatchHead
  <1>7. CASE HandleStateEnd(d)
    <2>1. /\ Dispatches(d, "snapshot")
          /\ up'[d] \in {up[d], Append(up[d], Request("get_state"))}
          /\ \A e \in Daemons : e # d => up'[e] = up[e] /\ daemon'[e] = daemon[e]
      BY <1>1, <1>7 DEF HandleStateEnd, TypeOK
    <2> QED
      BY <1>1, <1>3, <1>5, <2>1, DispatchHead
  <1>8. CASE HandleClaimResult(d)
    <2>1. PICK r \in {"granted", "refused"} :
              Dispatches(d, r) /\ daemon' = [daemon EXCEPT ![d] = [@ EXCEPT !.claim = r]]
      BY <1>8 DEF HandleClaimResult
    <2>2. up' = up /\ \A e \in Daemons : e # d => daemon'[e] = daemon[e]
      BY <1>1, <1>8, <2>1 DEF HandleClaimResult, TypeOK
    <2> QED
      BY <1>1, <1>3, <1>5, <2>1, <2>2, DispatchHead
  <1>9. CASE HandleControllerInvoke(d)
    <2>1. /\ Dispatches(d, "invoke") /\ daemon' = daemon
          /\ up'[d] = Append(up[d], Msg("result", Head(down[d]).n))
          /\ \A e \in Daemons : e # d => up'[e] = up[e]
      BY <1>1, <1>9 DEF HandleControllerInvoke, TypeOK
    <2>2. /\ down[d] \in Seq(Events) /\ down[d] # <<>> /\ Head(down[d]).type = "invoke"
          /\ down'[d] = Tail(down[d])
          /\ \A e \in Daemons : e # d => down'[e] = down[e]
          /\ daemon[d].proc # "off"
      BY <1>1, <2>1, DispatchHead
    <2>3. PICK s \in Serials : Head(down[d]) = Msg("invoke", s)
      <3>1. Head(down[d]) \in Events
        BY <2>2, SocketTail
      <3> QED
        BY <2>2, <3>1 DEF Events, Msg
    <2>4. Msg("result", s) \in Requests /\ up'[d] = Append(up[d], Msg("result", s))
      BY <2>1, <2>3, MessageTypes, MsgIs
    <2>5. ~Never(down[d], Msg("invoke", s)) /\
          (Once(down[d], Msg("invoke", s)) => Never(down'[d], Msg("invoke", s)))
      BY <2>2, <2>3, CountTail
    <2>6. s \in OpenAt(d) /\ UnderWay(s, d)
      BY <1>1, <2>2, <2>3, <2>5 DEF Accounted, Nowhere
    <2>7. UnderWay(s, d)'
      BY <1>1, <2>1, <2>4, <2>5, <2>6, CountAppend DEF UnderWay
    <2>8. ASSUME NEW t \in Serials, t # s
          PROVE  IF t \in OpenAt(d)' THEN UnderWay(t, d)' ELSE Nowhere(t, d)'
      <3>1. Msg("invoke", s) # Msg("invoke", t) /\ Msg("result", s) # Msg("result", t)
        BY <2>8, MsgIs
      <3>2. /\ Never(down'[d], Msg("invoke", t)) <=> Never(down[d], Msg("invoke", t))
            /\ Once(down'[d], Msg("invoke", t)) <=> Once(down[d], Msg("invoke", t))
        BY <2>2, <2>3, <3>1, CountTail
      <3>3. /\ Never(up'[d], Msg("result", t)) <=> Never(up[d], Msg("result", t))
            /\ Once(up'[d], Msg("result", t)) <=> Once(up[d], Msg("result", t))
        BY <1>1, <2>1, <2>4, <3>1, CountAppend
      <3>4. IF t \in OpenAt(d) THEN UnderWay(t, d) ELSE Nowhere(t, d)
        BY <1>1, <2>2 DEF Accounted
      <3> QED
        BY <1>2, <3>2, <3>3, <3>4 DEF UnderWay, Nowhere
    <2>9. Accounted(d)'
      BY <1>2, <2>6, <2>7, <2>8 DEF Accounted
    <2> QED
      BY <1>3, <2>1, <2>2, <2>9
  <1> QED
    BY <1>6, <1>7, <1>8, <1>9 DEF DaemonDispatches

\* Processes come without a message of an earlier life and go with theirs.
LEMMA ProcessActsAccount ==
    ASSUME LinkAssumption, Inv, AccountInv, NEW d \in Daemons,
           Start(d) \/ DaemonReady(d) \/ StartupRefused(d) \/ Stop(d) \/ Crash(d)
    PROVE  AccountInv'
  <1>1. TypeOK /\ RoleInv /\ LinkOK(d) /\ \A e \in Daemons : Accounted(e)
    BY DEF Inv, LinkInv, AccountInv
  <1>2. UNCHANGED coreVars /\ \A e \in Daemons : OpenAt(e)' = OpenAt(e)
    BY DEF Start, DaemonReady, StartupRefused, Stop, Crash, coreVars, OpenAt
  <1>3. ASSUME NEW e \in Daemons, e # d PROVE Accounted(e)'
    <2>1. up'[e] = up[e] /\ down'[e] = down[e] /\ daemon'[e] = daemon[e]
      BY <1>1, <1>3 DEF Start, DaemonReady, StartupRefused, Stop, Crash, Ends, TypeOK
    <2> QED
      BY <1>1, <1>2, <2>1, AccountStill DEF Accounted
  <1>4. CASE Start(d)
    <2>1. down'[d] = <<>> /\ up'[d] = Hello
      BY <1>1, <1>4 DEF Start, TypeOK, LinkOK, Unbound
    <2>2. OpenAt(d)' = {}
      BY <1>1, <1>2, <1>4 DEF Start, RoleInv, OpenAt
    <2>3. \A s : Never(<<>>, Msg("invoke", s)) /\ Never(Hello, Msg("result", s))
      BY DEF Never, Hello, Request, Msg
    <2>4. Accounted(d)'
      BY <2>1, <2>2, <2>3 DEF Accounted, Nowhere
    <2> QED
      BY <1>3, <2>4 DEF AccountInv
  <1>5. CASE DaemonReady(d)
    <2>1. UNCHANGED <<up, down>> /\ daemon[d].proc # "off"
      BY <1>5 DEF DaemonReady, StartupEnds
    <2> QED
      BY <1>1, <1>2, <1>3, <2>1, AccountStill DEF AccountInv
  <1>6. CASE StartupRefused(d) \/ Stop(d) \/ Crash(d)
    <2>1. daemon'[d].proc = "off"
      BY <1>1, <1>6 DEF StartupRefused, Stop, Crash, Ends, TypeOK, Off
    <2> QED
      BY <1>3, <2>1 DEF AccountInv, Accounted
  <1> QED
    BY <1>4, <1>5, <1>6

LEMMA NextAccount == ASSUME LinkAssumption, Inv, AccountInv, [Next]_vars PROVE AccountInv'
  <1>1. ASSUME UNCHANGED <<pending, up, down, daemon>> PROVE AccountInv'
    BY <1>1 DEF AccountInv, Accounted, OpenAt, UnderWay, Nowhere
  <1>2. CASE UNCHANGED vars
    BY <1>1, <1>2 DEF vars, coreVars
  <1>3. ASSUME NEW w \in Watchers, WatchRefused(w) \/ \E d \in Daemons : WatchState(w, d)
        PROVE  AccountInv'
    BY <1>1, <1>3 DEF WatchRefused, WatchState, coreVars
  <1>4. CASE Next
    BY <1>3, <1>4, CoreReadsAccount, MarkChangedAccount, CoreActsAccount, DispatchAccount,
       ProcessActsAccount DEF Next
  <1> QED
    BY <1>2, <1>4

\* What is under way is one message.
LEMMA UnderWayIsOne ==
    ASSUME NEW s, NEW d, UnderWay(s, d)
    PROVE  Cardinality(InFlight(s, d)) = 1
  <1>1. ASSUME NEW i \in 1..Len(down[d]), down[d][i] = Msg("invoke", s),
               \A j \in 1..Len(down[d]) : down[d][j] = Msg("invoke", s) => j = i,
               Never(up[d], Msg("result", s))
        PROVE  InFlight(s, d) = {<<"down", i>>}
    BY <1>1 DEF InFlight, Never
  <1>2. ASSUME NEW i \in 1..Len(up[d]), up[d][i] = Msg("result", s),
               \A j \in 1..Len(up[d]) : up[d][j] = Msg("result", s) => j = i,
               Never(down[d], Msg("invoke", s))
        PROVE  InFlight(s, d) = {<<"up", i>>}
    BY <1>2 DEF InFlight, Never
  <1>3. \E x : InFlight(s, d) = {x}
    BY <1>1, <1>2 DEF UnderWay, Once
  <1> QED
    BY <1>3, FS_Singleton

\* Every invocation is accounted for: while its controller lives, exactly one
\* message under way will settle it, whatever serials were used before.
THEOREM EveryInvocationAccounted == Spec => []InvocationsAccounted
  <1>1. Init => AccountInv
    BY DEF Init, AccountInv, Accounted, Off
  <1>2. Inv /\ AccountInv /\ [Next]_vars => AccountInv'
    BY LinkAssumption, NextAccount
  <1>3. Inv /\ AccountInv => InvocationsAccounted
    <2> SUFFICES ASSUME Inv, AccountInv, NEW p \in pending
                 PROVE  /\ controller = {p.controller}
                        /\ daemon[p.controller].proc # "off" =>
                              Cardinality(InFlight(p.serial, p.controller)) = 1
      BY DEF InvocationsAccounted
    <2>1. p.serial \in Serials /\ p.controller \in Daemons
          /\ p = [serial |-> p.serial, controller |-> p.controller]
      BY DEF Inv, TypeOK
    <2>2. controller = {p.controller}
      BY DEF Inv, RoleInv
    <2>3. p.serial \in OpenAt(p.controller)
      BY <2>1 DEF OpenAt
    <2>4. daemon[p.controller].proc # "off" => UnderWay(p.serial, p.controller)
      BY <2>1, <2>3 DEF AccountInv, Accounted
    <2> QED
      BY <2>2, <2>4, UnderWayIsOne
  <1> QED
    BY <1>1, <1>2, <1>3, Invariance, PTL DEF Spec

-----------------------------------------------------------------------------
(* The watchers.                                                           *)

Alive(d) == daemon[d].proc # "off"
OneAlive == \A d, e \in Daemons : Alive(d) /\ Alive(e) => d = e
\* Who is kept waiting has seen at least what the daemon shows.
WaitersSeen ==
    \A w \in Watchers : watch[w].waiting =>
        \E d \in Daemons : daemon[d].proc = "running" /\ daemon[d].snap <= watch[w].after
\* A daemon that has no state yet is starting, and has asked for one.
FirstSnapshot ==
    \A d \in Daemons : Alive(d) /\ daemon[d].snap = 0 =>
        daemon[d].proc = "starting" /\ daemon[d].outstanding

WaitInv == OneAlive /\ WaitersSeen /\ FirstSnapshot

\* The numbers that are compared.
LEMMA Numbers ==
    ASSUME LinkAssumption, TypeOK
    PROVE  /\ generation \in Nat \ {0}
           /\ \A d \in Daemons : daemon[d].snap \in Nat
           /\ \A w \in Watchers : watch[w].after \in Nat
           /\ \A d \in Daemons : down[d] \in Seq(Events)
  BY DEF TypeOK, Processes, Waits, Generations, LinkAssumption

LEMMA EventNumbers == ASSUME LinkAssumption PROVE \A m \in Events : m.n \in Nat
  BY DEF Events, Generations, Serials, LinkAssumption

\* Neither the compositor nor most of what a daemon reads touches what a
\* watcher compares.
LEMMA WaitFrame ==
    ASSUME WaitInv, watch' = watch,
           \A d \in Daemons : /\ daemon'[d].proc = daemon[d].proc
                              /\ daemon'[d].snap = daemon[d].snap
                              /\ daemon[d].outstanding => daemon'[d].outstanding
    PROVE  WaitInv'
  BY DEF WaitInv, OneAlive, WaitersSeen, FirstSnapshot, Alive

\* What HandleStateEnd does to a daemon and the watchers.
LEMMA StateEnd ==
    ASSUME LinkAssumption, TypeOK, NEW d \in Daemons, HandleStateEnd(d)
    PROVE  \E g \in Nat \ {0} :
              /\ down[d] # <<>> /\ Head(down[d]).type = "snapshot" /\ Head(down[d]).n = g
              /\ down'[d] = Tail(down[d])
              /\ \A e \in Daemons : e # d => down'[e] = down[e]
              /\ Alive(d)
              /\ daemon'[d].snap = g
              /\ \A e \in Daemons : daemon'[e].proc = daemon[e].proc
              /\ \A e \in Daemons : e # d => daemon'[e] = daemon[e]
              /\ \A w \in Watchers :
                    watch'[w] = IF watch[w].waiting /\ g > watch[w].after
                                THEN [waiting |-> FALSE, after |-> g] ELSE watch[w]
              /\ generation' = generation
  <1>1. Dispatches(d, "snapshot") /\ Notify(Head(down[d]).n)
    BY DEF HandleStateEnd
  <1>2. /\ down[d] \in Seq(Events) /\ down[d] # <<>> /\ Head(down[d]).type = "snapshot"
        /\ down'[d] = Tail(down[d])
        /\ \A e \in Daemons : e # d => down'[e] = down[e]
        /\ Alive(d)
        /\ generation' = generation
    BY <1>1, DispatchHead DEF Alive, coreVars
  <1>3. Head(down[d]) \in Events
    BY <1>2, SocketTail
  <1>4. PICK g \in Nat \ {0} : g = Head(down[d]).n
    BY <1>2, <1>3 DEF Events, Generations, LinkAssumption
  <1>5. /\ daemon'[d].snap = g
        /\ \A e \in Daemons : daemon'[e].proc = daemon[e].proc
        /\ \A e \in Daemons : e # d => daemon'[e] = daemon[e]
    BY <1>4 DEF HandleStateEnd, TypeOK, Processes
  <1>6. \A w \in Watchers :
            watch'[w] = IF watch[w].waiting /\ g > watch[w].after
                        THEN [waiting |-> FALSE, after |-> g] ELSE watch[w]
    BY <1>1, <1>4 DEF Notify, Woken
  <1> QED
    BY <1>2, <1>4, <1>5, <1>6

\* What the end of a process does.
LEMMA EndsIs ==
    ASSUME TypeOK, NEW d \in Daemons, StartupRefused(d) \/ Stop(d) \/ Crash(d)
    PROVE  /\ daemon'[d].proc = "off"
           /\ \A e \in Daemons : e # d => daemon'[e] = daemon[e] /\ down'[e] = down[e]
           /\ \A w \in Watchers : watch'[w] = IF watch[w].waiting
                                              THEN [waiting |-> FALSE, after |-> 0]
                                              ELSE watch[w]
           /\ generation' = generation
  <1>1. Ends(d) /\ generation' = generation
    BY DEF StartupRefused, Stop, Crash, coreVars
  <1>2. \A w \in Watchers : watch'[w] = IF watch[w].waiting
                                       THEN [waiting |-> FALSE, after |-> 0]
                                       ELSE watch[w]
    BY <1>1 DEF Ends
  <1>3. /\ daemon'[d].proc = "off"
        /\ \A e \in Daemons : e # d => daemon'[e] = daemon[e] /\ down'[e] = down[e]
    BY <1>1 DEF Ends, Off, TypeOK
  <1> QED
    BY <1>1, <1>2, <1>3

LEMMA StartIs ==
    ASSUME TypeOK, NEW d \in Daemons, Start(d)
    PROVE  /\ \A e \in Daemons : ~Alive(e)
           /\ d \notin connected
           /\ daemon'[d].proc = "starting" /\ daemon'[d].outstanding /\ daemon'[d].snap = 0
           /\ \A e \in Daemons : e # d => daemon'[e] = daemon[e]
           /\ UNCHANGED <<generation, down, watch>>
  BY DEF Start, Alive, Off, TypeOK, coreVars

LEMMA ReadyIs ==
    ASSUME TypeOK, NEW d \in Daemons, DaemonReady(d)
    PROVE  /\ daemon[d].proc = "starting" /\ ~daemon[d].outstanding
           /\ daemon'[d].proc = "running" /\ daemon'[d].snap = daemon[d].snap
           /\ \A e \in Daemons : e # d => daemon'[e] = daemon[e]
           /\ UNCHANGED <<generation, down, watch>>
  BY DEF DaemonReady, StartupEnds, TypeOK, Processes, coreVars

\* What the other dispatches leave alone.
LEMMA OtherDispatches ==
    ASSUME TypeOK, NEW d \in Daemons,
           HandleChanged(d) \/ HandleClaimResult(d) \/ HandleControllerInvoke(d)
    PROVE  /\ \A e \in Daemons : /\ daemon'[e].proc = daemon[e].proc
                                 /\ daemon'[e].snap = daemon[e].snap
                                 /\ daemon[e].outstanding => daemon'[e].outstanding
           /\ down[d] # <<>> /\ down'[d] = Tail(down[d])
           /\ \A e \in Daemons : e # d => down'[e] = down[e]
           /\ UNCHANGED <<generation, watch>>
  <1>1. \E type : Dispatches(d, type)
    BY DEF HandleChanged, HandleClaimResult, HandleControllerInvoke
  <1>2. /\ down[d] # <<>> /\ down'[d] = Tail(down[d])
        /\ \A e \in Daemons : e # d => down'[e] = down[e]
        /\ generation' = generation
    BY <1>1, DispatchHead DEF coreVars
  <1>3. \A e \in Daemons : /\ daemon'[e].proc = daemon[e].proc
                           /\ daemon'[e].snap = daemon[e].snap
                           /\ daemon[e].outstanding => daemon'[e].outstanding
    <2>1. CASE HandleChanged(d)
      BY <2>1 DEF HandleChanged, TypeOK, Processes
    <2>2. CASE HandleClaimResult(d)
      BY <2>2 DEF HandleClaimResult, TypeOK, Processes
    <2>3. CASE HandleControllerInvoke(d)
      BY <2>3 DEF HandleControllerInvoke
    <2> QED
      BY <2>1, <2>2, <2>3
  <1> QED
    BY <1>2, <1>3 DEF HandleChanged, HandleClaimResult, HandleControllerInvoke

LEMMA WatcherActs ==
    ASSUME TypeOK, NEW w \in Watchers,
           WatchRefused(w) \/ \E d \in Daemons : WatchState(w, d)
    PROVE  /\ UNCHANGED <<generation, down, daemon>>
           /\ \A v \in Watchers : v # w => watch'[v] = watch[v]
           /\ \/ /\ ~watch'[w].waiting /\ watch'[w].after = 0
              \/ \E d \in Daemons :
                    /\ daemon[d].proc = "running"
                    /\ ~watch[w].waiting
                    /\ IF daemon[d].snap > watch[w].after
                       THEN watch'[w] = [waiting |-> FALSE, after |-> daemon[d].snap]
                       ELSE watch'[w].after = watch[w].after
  <1>1. watch[w] = [waiting |-> watch[w].waiting, after |-> watch[w].after]
    BY DEF TypeOK, Waits
  <1>2. CASE WatchRefused(w)
    BY <1>1, <1>2 DEF WatchRefused, coreVars, TypeOK
  <1>3. ASSUME NEW d \in Daemons, WatchState(w, d)
        PROVE  /\ UNCHANGED <<generation, down, daemon>>
               /\ \A v \in Watchers : v # w => watch'[v] = watch[v]
               /\ daemon[d].proc = "running"
               /\ ~watch[w].waiting
               /\ IF daemon[d].snap > watch[w].after
                  THEN watch'[w] = [waiting |-> FALSE, after |-> daemon[d].snap]
                  ELSE watch'[w].after = watch[w].after
    BY <1>1, <1>3 DEF WatchState, coreVars, TypeOK
  <1> QED
    BY <1>2, <1>3

LEMMA CoreLeaves ==
    ASSUME NEW d \in Daemons,
           CoreReads(d) \/ ProtocolInvoke(d) \/ Disconnect(d) \/ MarkChanged
    PROVE  UNCHANGED <<daemon, watch>>
  BY DEF CoreReads, Bind, GetState, ClaimController, ReleaseController, ControllerResult,
         Reads, ProtocolInvoke, Disconnect, MarkChanged

LEMMA NextWait ==
    ASSUME LinkAssumption, TypeOK, TypeOK', WaitInv, [Next]_vars
    PROVE  WaitInv'
  <1>1. ASSUME UNCHANGED <<daemon, watch>> PROVE WaitInv'
    BY <1>1, WaitFrame
  <1>2. ASSUME NEW d \in Daemons, HandleStateEnd(d) PROVE WaitInv'
    <2>1. PICK g \in Nat \ {0} :
              /\ down[d] # <<>> /\ Head(down[d]).type = "snapshot" /\ Head(down[d]).n = g
              /\ down'[d] = Tail(down[d])
              /\ \A e \in Daemons : e # d => down'[e] = down[e]
              /\ Alive(d)
              /\ daemon'[d].snap = g
              /\ \A e \in Daemons : daemon'[e].proc = daemon[e].proc
              /\ \A e \in Daemons : e # d => daemon'[e] = daemon[e]
              /\ \A w \in Watchers :
                    watch'[w] = IF watch[w].waiting /\ g > watch[w].after
                                THEN [waiting |-> FALSE, after |-> g] ELSE watch[w]
              /\ generation' = generation
      BY <1>2, StateEnd, Zenon
    <2>2. OneAlive' /\ FirstSnapshot'
      BY <2>1 DEF WaitInv, OneAlive, FirstSnapshot, Alive
    <2>3. ASSUME NEW w \in Watchers, watch'[w].waiting
          PROVE  daemon'[d].proc = "running" /\ daemon'[d].snap <= watch'[w].after
      <3>1. watch'[w] = watch[w] /\ watch[w].waiting /\ ~(g > watch[w].after)
        BY <2>1, <2>3
      <3>2. daemon[d].proc = "running"
        BY <2>1, <3>1 DEF WaitInv, OneAlive, WaitersSeen, Alive
      <3> QED
        BY <2>1, <3>1, <3>2, Numbers
    <2> QED
      BY <2>2, <2>3 DEF WaitInv, WaitersSeen
  <1>3. ASSUME NEW d \in Daemons, Start(d) PROVE WaitInv'
    <2>1. \A w \in Watchers : ~watch'[w].waiting
      BY <1>3, StartIs DEF WaitInv, WaitersSeen, Alive
    <2> QED
      BY <1>3, <2>1, StartIs DEF WaitInv, OneAlive, WaitersSeen, FirstSnapshot, Alive
  <1>4. ASSUME NEW d \in Daemons, DaemonReady(d) PROVE WaitInv'
    BY <1>4, ReadyIs DEF WaitInv, OneAlive, WaitersSeen, FirstSnapshot, Alive
  <1>5. ASSUME NEW d \in Daemons, StartupRefused(d) \/ Stop(d) \/ Crash(d) PROVE WaitInv'
    <2>1. \A w \in Watchers : ~watch'[w].waiting
      BY <1>5, EndsIs
    <2> QED
      BY <1>5, <2>1, EndsIs DEF WaitInv, OneAlive, WaitersSeen, FirstSnapshot, Alive
  <1>6. ASSUME NEW w \in Watchers, WatchRefused(w) \/ \E d \in Daemons : WatchState(w, d)
        PROVE  WaitInv'
    <2>1. daemon' = daemon /\ \A v \in Watchers : v # w => watch'[v] = watch[v]
      BY <1>6, WatcherActs
    <2>2. ASSUME watch'[w].waiting
          PROVE  \E d \in Daemons : daemon[d].proc = "running" /\ daemon[d].snap <= watch'[w].after
      <3>1. PICK d \in Daemons :
                /\ daemon[d].proc = "running"
                /\ IF daemon[d].snap > watch[w].after
                   THEN watch'[w] = [waiting |-> FALSE, after |-> daemon[d].snap]
                   ELSE watch'[w].after = watch[w].after
        BY <1>6, <2>2, WatcherActs
      <3>2. ~(daemon[d].snap > watch[w].after) /\ watch'[w].after = watch[w].after
        BY <2>2, <3>1
      <3>3. daemon[d].snap <= watch'[w].after
        BY <3>2, Numbers
      <3> QED
        BY <3>1, <3>3
    <2> QED
      BY <2>1, <2>2 DEF WaitInv, OneAlive, WaitersSeen, FirstSnapshot, Alive
  <1>7. ASSUME NEW d \in Daemons,
               HandleChanged(d) \/ HandleClaimResult(d) \/ HandleControllerInvoke(d)
        PROVE  WaitInv'
    BY <1>7, OtherDispatches, WaitFrame
  <1>8. CASE UNCHANGED vars
    BY <1>1, <1>8 DEF vars
  <1>9. CASE MarkChanged
    BY <1>1, <1>9 DEF MarkChanged
  <1> QED
    BY <1>1, <1>2, <1>3, <1>4, <1>5, <1>6, <1>7, <1>8, <1>9, CoreLeaves
       DEF Next, DaemonDispatches

\* What holds past the wrap of the generation too: a watcher that is kept
\* waiting has been told of nothing older than what the daemon shows.
SeenBeforeWaiting ==
    \A w \in Watchers, d \in Daemons :
        watch[w].waiting /\ daemon[d].proc = "running" => daemon[d].snap <= watch[w].after

LEMMA InitWait == Init => WaitInv
  BY DEF Init, WaitInv, OneAlive, WaitersSeen, FirstSnapshot, Alive, Off

\* A watcher is kept waiting only when it has seen at least what the daemon
\* shows, past the wrap of the generation too (watch_state, state_waiters_notify).
THEOREM WaitersHaveSeen == Spec => []SeenBeforeWaiting
  <1>1. TypeOK /\ TypeOK' /\ WaitInv /\ [Next]_vars => WaitInv'
    BY LinkAssumption, NextWait
  <1>2. WaitInv => SeenBeforeWaiting
    BY DEF WaitInv, OneAlive, WaitersSeen, Alive, SeenBeforeWaiting
  <1> QED
    BY <1>1, <1>2, InitWait, TypeCorrect, PTL DEF Spec

\* The snapshots on a socket: none older than n, in order, none after g.
From(q, n) == \A i \in 1..Len(q) : q[i].type = "snapshot" => n <= q[i].n
Rising(q, g) ==
    \A i \in 1..Len(q) : q[i].type = "snapshot" =>
        /\ q[i].n <= g
        /\ \A j \in 1..Len(q) : i < j /\ q[j].type = "snapshot" => q[i].n <= q[j].n

LEMMA RisingEmpty == ASSUME NEW g, NEW n PROVE Rising(<<>>, g) /\ From(<<>>, n)
  BY DEF Rising, From

LEMMA RisingGrows ==
    ASSUME NEW q, NEW g \in Nat, NEW h \in Nat, g <= h, Rising(q, g),
           \A i \in 1..Len(q) : q[i].n \in Nat
    PROVE  Rising(q, h)
  BY DEF Rising

LEMMA RisingAppend ==
    ASSUME NEW S, NEW q \in Seq(S), NEW m \in S, NEW g \in Nat, NEW n \in Nat,
           Rising(q, g), From(q, n), n <= g, m.type = "snapshot" => m.n = g
    PROVE  Rising(Append(q, m), g) /\ From(Append(q, m), n)
  <1> DEFINE r == Append(q, m)
  <1>1. Len(r) = Len(q) + 1 /\ r[Len(q) + 1] = m /\ Len(q) \in Nat
    OBVIOUS
  <1>2. \A i \in 1..Len(q) : r[i] = q[i]
    OBVIOUS
  <1> HIDE DEF r
  <1>3. \A i \in 1..Len(r) : i \in 1..Len(q) \/ (i = Len(q) + 1 /\ r[i] = m)
    BY <1>1
  <1>4. From(r, n)
    BY <1>2, <1>3 DEF From
  <1>5. ASSUME NEW i \in 1..Len(r), r[i].type = "snapshot" PROVE r[i].n <= g
    BY <1>2, <1>3, <1>5 DEF Rising
  <1>6. ASSUME NEW i \in 1..Len(r), NEW j \in 1..Len(r), i < j,
               r[i].type = "snapshot", r[j].type = "snapshot"
        PROVE  r[i].n <= r[j].n
    <2>1. i \in 1..Len(q)
      BY <1>1, <1>6
    <2>2. CASE j \in 1..Len(q)
      BY <1>2, <1>6, <2>1, <2>2 DEF Rising
    <2>3. CASE j \notin 1..Len(q)
      BY <1>3, <1>5, <1>6, <2>3
    <2> QED
      BY <2>2, <2>3
  <1> QED
    BY <1>4, <1>5, <1>6 DEF Rising, r

LEMMA RisingTail ==
    ASSUME NEW S, NEW q \in Seq(S), q # <<>>, NEW g, NEW n, Rising(q, g), From(q, n)
    PROVE  /\ Rising(Tail(q), g) /\ From(Tail(q), n)
           /\ Head(q).type = "snapshot" =>
                 n <= Head(q).n /\ Head(q).n <= g /\ From(Tail(q), Head(q).n)
  <1> DEFINE r == Tail(q)
  <1>1. /\ Len(r) = Len(q) - 1
        /\ Len(q) \in Nat \ {0}
        /\ \A i \in 1..(Len(q) - 1) : r[i] = q[i + 1]
        /\ Head(q) = q[1]
    BY TailAt
  <1> HIDE DEF r
  <1>2. \A i \in 1..Len(r) : i + 1 \in 1..Len(q) /\ 1 < i + 1 /\ r[i] = q[i + 1]
    BY <1>1
  <1>3. 1 \in 1..Len(q)
    BY <1>1
  <1>4. From(r, n)
    BY <1>2 DEF From
  <1>5. ASSUME NEW i \in 1..Len(r), r[i].type = "snapshot"
        PROVE  /\ r[i].n <= g
               /\ \A j \in 1..Len(r) : i < j /\ r[j].type = "snapshot" => r[i].n <= r[j].n
    <2>1. \A j \in 1..Len(r) : i < j => i + 1 < j + 1
      BY <1>1
    <2> QED
      BY <1>2, <1>5, <2>1 DEF Rising
  <1>6. ASSUME Head(q).type = "snapshot"
        PROVE  n <= Head(q).n /\ Head(q).n <= g /\ From(r, Head(q).n)
    BY <1>1, <1>2, <1>3, <1>6 DEF Rising, From
  <1> QED
    BY <1>4, <1>5, <1>6 DEF Rising, r

\* Before the generation wraps, a daemon and its watchers only ever see it grow.
Grows(d) ==
    Alive(d) =>
        /\ Rising(down[d], generation)
        /\ From(down[d], daemon[d].snap) /\ daemon[d].snap <= generation
        /\ \A w \in Watchers :
              /\ From(down[d], watch[w].after)
              /\ daemon[d].snap # 0 => watch[w].after <= daemon[d].snap
GrowInv ==
    /\ \A w \in Watchers : watch[w].after <= generation
    /\ \A d \in Daemons : Grows(d)

\* An event sent to a daemon keeps the order, if a snapshot is of the present.
LEMMA SentGrows ==
    ASSUME LinkAssumption, TypeOK, GrowInv, NEW d \in Daemons, NEW m \in Events,
           m.type = "snapshot" => m.n = generation,
           down'[d] \in {down[d], Delivered(d, m)},
           UNCHANGED <<generation, daemon, watch>>
    PROVE  Grows(d)'
  <1> SUFFICES ASSUME Alive(d) PROVE Grows(d)'
    BY DEF Grows, Alive
  <1>1. Grows(d) /\ down[d] \in Seq(Events) /\ \A w \in Watchers : watch[w].after <= generation
    BY DEF GrowInv, TypeOK
  <1>2. CASE down'[d] = down[d]
    BY <1>1, <1>2 DEF Grows, Alive
  <1>3. CASE down'[d] = Append(down[d], m)
    <2>1. generation \in Nat /\ daemon[d].snap \in Nat /\ \A w \in Watchers : watch[w].after \in Nat
      BY Numbers
    <2>2. Rising(down'[d], generation) /\ From(down'[d], daemon[d].snap)
      BY <1>1, <1>3, <2>1, RisingAppend DEF Grows
    <2>3. \A w \in Watchers : From(down'[d], watch[w].after)
      BY <1>1, <1>3, <2>1, RisingAppend DEF Grows
    <2> QED
      BY <1>1, <2>2, <2>3 DEF Grows, Alive
  <1> QED
    BY <1>2, <1>3 DEF Delivered, Alive

LEMMA GrowFrame ==
    ASSUME NEW d, Grows(d), down'[d] = down[d], UNCHANGED <<generation, watch>>,
           Alive(d)' => Alive(d), daemon'[d].snap = daemon[d].snap
    PROVE  Grows(d)'
  BY DEF Grows

LEMMA CoreGrow ==
    ASSUME LinkAssumption, TypeOK, GrowInv, NEW d \in Daemons,
           CoreReads(d) \/ ProtocolInvoke(d) \/ Disconnect(d)
    PROVE  GrowInv'
  <1>1. UNCHANGED <<generation, daemon, watch>>
    BY DEF CoreReads, Bind, GetState, ClaimController, ReleaseController, ControllerResult,
           Reads, ProtocolInvoke, Disconnect, coreVars
  <1>2. ASSUME NEW m \in Events, m.type = "snapshot" => m.n = generation, Send(d, m)
        PROVE  GrowInv'
    <2>1. down'[d] = Delivered(d, m) /\ \A e \in Daemons : e # d => down'[e] = down[e]
      BY <1>2 DEF Send, TypeOK
    <2>2. \A e \in Daemons : Grows(e)'
      BY <1>1, <1>2, <2>1, SentGrows
    <2> QED
      BY <1>1, <2>2 DEF GrowInv
  <1>3. ASSUME down' = down PROVE GrowInv'
    BY <1>1, <1>3, GrowFrame DEF GrowInv, Alive
  <1>4. Msg("snapshot", generation) \in Events /\ Msg("snapshot", generation).n = generation
        /\ Msg("invoke", nextSerial) \in Events /\ Msg("invoke", nextSerial).type = "invoke"
        /\ Request("granted") \in Events /\ Request("granted").type = "granted"
        /\ Request("refused") \in Events /\ Request("refused").type = "refused"
    BY MessageTypes, MsgIs DEF TypeOK, Request
  <1>5. CASE GetState(d)
    BY <1>2, <1>4, <1>5 DEF GetState
  <1>6. CASE ClaimController(d)
    BY <1>2, <1>4, <1>6 DEF ClaimController
  <1>7. CASE ProtocolInvoke(d)
    BY <1>2, <1>3, <1>4, <1>7 DEF ProtocolInvoke
  <1>8. CASE Bind(d) \/ ReleaseController(d) \/ ControllerResult(d) \/ Disconnect(d)
    BY <1>3, <1>8 DEF Bind, ReleaseController, ControllerResult, Disconnect
  <1> QED
    BY <1>5, <1>6, <1>7, <1>8 DEF CoreReads

LEMMA MarkChangedGrow ==
    ASSUME LinkAssumption, ~Wrap, TypeOK, TypeOK', GrowInv, MarkChanged
    PROVE  GrowInv'
  <1> DEFINE m == Msg("changed", generation')
  <1>1. /\ \A e \in Daemons : down'[e] \in {down[e], Delivered(e, m)}
        /\ UNCHANGED <<daemon, watch>>
    BY DEF MarkChanged
  <1>2. m \in Events /\ m.type = "changed"
    BY MessageTypes DEF TypeOK, Msg
  <1>3. generation' = generation + 1 /\ generation \in Nat
    BY Numbers DEF MarkChanged, Succ, TypeOK, Generations, LinkAssumption
  <1> HIDE DEF m
  <1>4. \A w \in Watchers : watch'[w].after <= generation'
    BY <1>1, <1>3, Numbers DEF GrowInv
  <1>5. ASSUME NEW d \in Daemons, Alive(d) PROVE Grows(d)'
    <2>1. Grows(d) /\ down[d] \in Seq(Events) /\ daemon[d].snap \in Nat
          /\ \A w \in Watchers : watch[w].after \in Nat /\ watch[w].after <= generation
      BY Numbers DEF GrowInv
    <2>2. \A i \in 1..Len(down[d]) : down[d][i].n \in Nat
      BY <2>1, EventNumbers
    <2>3. Rising(down[d], generation')
      BY <1>3, <1>5, <2>1, <2>2, RisingGrows DEF Grows
    <2>4. daemon[d].snap <= generation' /\ \A w \in Watchers : watch[w].after <= generation'
      BY <1>3, <1>5, <2>1 DEF Grows
    <2>5. down'[d] \in {down[d], Append(down[d], m)}
      BY <1>1 DEF Delivered
    <2>6. generation' \in Nat
      BY <1>3
    <2>7. Rising(down'[d], generation') /\ From(down'[d], daemon[d].snap)
      BY <1>2, <1>5, <2>1, <2>3, <2>4, <2>5, <2>6, RisingAppend DEF Grows
    <2>8. \A w \in Watchers : From(down'[d], watch[w].after)
      BY <1>2, <1>5, <2>1, <2>3, <2>4, <2>5, <2>6, RisingAppend DEF Grows
    <2> QED
      BY <1>1, <1>5, <2>1, <2>4, <2>7, <2>8 DEF Grows
  <1>6. \A d \in Daemons : Grows(d)'
    BY <1>1, <1>5 DEF Grows, Alive
  <1> QED
    BY <1>4, <1>6 DEF GrowInv

LEMMA DispatchGrow ==
    ASSUME LinkAssumption, TypeOK, WaitInv, GrowInv, NEW d \in Daemons, DaemonDispatches(d)
    PROVE  GrowInv'
  <1>1. CASE HandleStateEnd(d)
    <2>1. PICK g \in Nat \ {0} :
              /\ down[d] # <<>> /\ Head(down[d]).type = "snapshot" /\ Head(down[d]).n = g
              /\ down'[d] = Tail(down[d])
              /\ \A e \in Daemons : e # d => down'[e] = down[e]
              /\ Alive(d)
              /\ daemon'[d].snap = g
              /\ \A e \in Daemons : daemon'[e].proc = daemon[e].proc
              /\ \A e \in Daemons : e # d => daemon'[e] = daemon[e]
              /\ \A w \in Watchers :
                    watch'[w] = IF watch[w].waiting /\ g > watch[w].after
                                THEN [waiting |-> FALSE, after |-> g] ELSE watch[w]
              /\ generation' = generation
      BY <1>1, StateEnd, Zenon
    <2>2. Grows(d) /\ down[d] \in Seq(Events)
      BY Numbers DEF GrowInv
    <2>3. g <= generation /\ Rising(down'[d], generation) /\ From(down'[d], g)
      BY <2>1, <2>2, RisingTail DEF Grows
    <2>4. \A w \in Watchers : From(down'[d], watch[w].after) /\ watch[w].after <= g
      BY <2>1, <2>2, RisingTail DEF Grows
    <2>5. ASSUME NEW w \in Watchers
          PROVE  watch'[w].after <= g /\ From(down'[d], watch'[w].after)
                 /\ watch'[w].after <= generation
      <3>1. watch'[w].after \in {g, watch[w].after}
        BY <2>1
      <3> QED
        BY <2>3, <2>4, <3>1, Numbers DEF GrowInv
    <2>6. Grows(d)'
      BY <2>1, <2>3, <2>5 DEF Grows
    <2>7. \A e \in Daemons : e # d => ~Alive(e)'
      BY <2>1 DEF WaitInv, OneAlive, Alive
    <2> QED
      BY <2>1, <2>5, <2>6, <2>7 DEF GrowInv, Grows
  <1>2. CASE HandleChanged(d) \/ HandleClaimResult(d) \/ HandleControllerInvoke(d)
    <2>1. /\ \A e \in Daemons : /\ daemon'[e].proc = daemon[e].proc
                                /\ daemon'[e].snap = daemon[e].snap
          /\ down[d] # <<>> /\ down'[d] = Tail(down[d])
          /\ \A e \in Daemons : e # d => down'[e] = down[e]
          /\ UNCHANGED <<generation, watch>>
      BY <1>2, OtherDispatches
    <2>2. Grows(d) /\ down[d] \in Seq(Events)
      BY Numbers DEF GrowInv
    <2>3. Alive(d) => /\ Rising(down'[d], generation) /\ From(down'[d], daemon[d].snap)
                      /\ \A w \in Watchers : From(down'[d], watch[w].after)
      BY <2>1, <2>2, RisingTail DEF Grows
    <2>4. Grows(d)'
      BY <2>1, <2>2, <2>3 DEF Grows, Alive
    <2>5. \A e \in Daemons : e # d => Grows(e)'
      BY <2>1, GrowFrame DEF GrowInv, Alive
    <2> QED
      BY <2>1, <2>4, <2>5 DEF GrowInv
  <1> QED
    BY <1>1, <1>2 DEF DaemonDispatches

LEMMA ProcessActsGrow ==
    ASSUME LinkAssumption, Inv, WaitInv, GrowInv, NEW d \in Daemons,
           Start(d) \/ DaemonReady(d) \/ StartupRefused(d) \/ Stop(d) \/ Crash(d)
    PROVE  GrowInv'
  <1>1. TypeOK /\ LinkOK(d) /\ generation \in Nat \ {0}
    BY Numbers DEF Inv, LinkInv
  <1>2. CASE Start(d)
    <2>1. down[d] = <<>>
      BY <1>1, <1>2, StartIs DEF LinkOK, Unbound
    <2>2. Rising(down[d], generation) /\ \A n : From(down[d], n)
      BY <2>1, RisingEmpty
    <2>3. 0 <= generation
      BY <1>1
    <2>4. Grows(d)'
      BY <1>1, <1>2, <2>2, <2>3, StartIs DEF Grows
    <2>5. \A e \in Daemons : e # d => Grows(e)'
      BY <1>1, <1>2, StartIs, GrowFrame DEF GrowInv, Alive
    <2> QED
      BY <1>1, <1>2, <2>4, <2>5, StartIs DEF GrowInv
  <1>3. CASE DaemonReady(d)
    BY <1>1, <1>3, ReadyIs, GrowFrame DEF GrowInv, Alive
  <1>4. CASE StartupRefused(d) \/ Stop(d) \/ Crash(d)
    <2>1. Alive(d)
      BY <1>4 DEF StartupRefused, StartupEnds, Stop, Crash, Alive
    <2>2. \A e \in Daemons : ~Alive(e)'
      BY <1>1, <1>4, <2>1, EndsIs DEF WaitInv, OneAlive, Alive
    <2>3. \A w \in Watchers : watch'[w].after <= generation'
      BY <1>1, <1>4, EndsIs DEF GrowInv
    <2> QED
      BY <2>2, <2>3 DEF GrowInv, Grows
  <1> QED
    BY <1>2, <1>3, <1>4

LEMMA WatcherActsGrow ==
    ASSUME LinkAssumption, TypeOK, WaitInv, GrowInv, NEW w \in Watchers,
           WatchRefused(w) \/ \E d \in Daemons : WatchState(w, d)
    PROVE  GrowInv'
  <1>1. /\ UNCHANGED <<generation, down, daemon>>
        /\ \A v \in Watchers : v # w => watch'[v] = watch[v]
    BY WatcherActs
  <1>2. CASE watch'[w].after = watch[w].after
    <2>1. \A v \in Watchers : watch'[v].after = watch[v].after
      BY <1>1, <1>2
    <2> QED
      BY <1>1, <2>1 DEF GrowInv, Grows, Alive
  <1>3. CASE watch'[w].after = 0
    <2>1. \A d \in Daemons : From(down[d], 0)
      <3>1. \A d \in Daemons : \A i \in 1..Len(down[d]) : down[d][i].n \in Nat
        BY EventNumbers, Numbers
      <3> QED
        BY <3>1 DEF From
    <2>2. 0 <= generation /\ \A d \in Daemons : 0 <= daemon[d].snap
      BY Numbers
    <2>3. ASSUME NEW d \in Daemons PROVE Grows(d)'
      <3>1. ASSUME Alive(d), NEW v \in Watchers
            PROVE  /\ From(down[d], watch'[v].after)
                   /\ daemon[d].snap # 0 => watch'[v].after <= daemon[d].snap
        BY <1>1, <1>3, <2>1, <2>2, <3>1 DEF GrowInv, Grows
      <3> QED
        BY <1>1, <3>1 DEF GrowInv, Grows, Alive
    <2> QED
      BY <1>1, <1>3, <2>2, <2>3 DEF GrowInv
  <1>4. ASSUME NEW d \in Daemons, daemon[d].proc = "running",
               watch'[w].after = daemon[d].snap
        PROVE  GrowInv'
    <2>1. \A e \in Daemons : Alive(e) => e = d
      BY <1>4 DEF WaitInv, OneAlive, Alive
    <2>2. Alive(d) /\ daemon[d].snap <= daemon[d].snap
      BY <1>4, Numbers DEF Alive
    <2>3. ASSUME NEW v \in Watchers
          PROVE  /\ watch'[v].after <= generation
                 /\ From(down[d], watch'[v].after)
                 /\ daemon[d].snap # 0 => watch'[v].after <= daemon[d].snap
      BY <1>1, <1>4, <2>2 DEF GrowInv, Grows
    <2>4. Grows(d)'
      BY <1>1, <2>2, <2>3 DEF GrowInv, Grows
    <2> QED
      BY <1>1, <2>1, <2>3, <2>4 DEF GrowInv, Grows, Alive
  <1>5. \/ watch'[w].after \in {0, watch[w].after}
        \/ \E d \in Daemons : daemon[d].proc = "running" /\ watch'[w].after = daemon[d].snap
    <2>1. CASE ~watch'[w].waiting /\ watch'[w].after = 0
      BY <2>1
    <2>2. CASE \E d \in Daemons :
                  /\ daemon[d].proc = "running"
                  /\ IF daemon[d].snap > watch[w].after
                     THEN watch'[w] = [waiting |-> FALSE, after |-> daemon[d].snap]
                     ELSE watch'[w].after = watch[w].after
      <3>1. PICK d \in Daemons :
                /\ daemon[d].proc = "running"
                /\ \/ watch'[w] = [waiting |-> FALSE, after |-> daemon[d].snap]
                   \/ watch'[w].after = watch[w].after
        BY <2>2
      <3>2. watch'[w].after \in {daemon[d].snap, watch[w].after}
        BY <3>1
      <3> QED
        BY <3>1, <3>2
    <2> QED
      BY <2>1, <2>2, WatcherActs
  <1> QED
    BY <1>2, <1>3, <1>4, <1>5

LEMMA NextGrow ==
    ASSUME LinkAssumption, ~Wrap, Inv, Inv', WaitInv, GrowInv, [Next]_vars
    PROVE  GrowInv'
  <1>1. TypeOK /\ TypeOK'
    BY DEF Inv
  <1>2. CASE UNCHANGED vars
    BY <1>2, GrowFrame DEF vars, coreVars, GrowInv, Alive
  <1>3. CASE Next
    BY <1>1, <1>3, CoreGrow, MarkChangedGrow, DispatchGrow, ProcessActsGrow, WatcherActsGrow
       DEF Next
  <1> QED
    BY <1>2, <1>3

LEMMA InitGrow == ASSUME LinkAssumption PROVE Init => GrowInv
  BY DEF Init, GrowInv, Grows, Alive, Off

\* Until the 32-bit generation wraps no change is missed: a daemon with nothing
\* to read shows the present state, and a watcher kept waiting has seen exactly
\* what its daemon shows.
THEOREM NothingIsMissed == ASSUME ~Wrap PROVE Spec => []NothingMissed
  <1>1. Inv /\ Inv' /\ WaitInv /\ GrowInv /\ [Next]_vars => GrowInv'
    BY LinkAssumption, NextGrow
  <1>2. Inv /\ WaitInv /\ [Next]_vars /\ Inv' => WaitInv'
    BY LinkAssumption, NextWait DEF Inv
  <1>3. Init => GrowInv
    BY LinkAssumption, InitGrow
  <1>4. Inv /\ WaitInv /\ GrowInv => NothingMissed
    <2> SUFFICES ASSUME Inv, WaitInv, GrowInv PROVE NothingMissed
      OBVIOUS
    <2>1. NoLostChange
      BY DEF Inv, LinkInv, LinkOK, Shows, NoLostChange
    <2>2. ASSUME NEW w \in Watchers, NEW d \in Daemons,
                 watch[w].waiting, daemon[d].proc = "running"
          PROVE  watch[w].after = daemon[d].snap
      <3>1. daemon[d].snap <= watch[w].after
        BY <2>2 DEF WaitInv, OneAlive, WaitersSeen, Alive
      <3>2. watch[w].after <= daemon[d].snap
        BY <2>2 DEF WaitInv, FirstSnapshot, GrowInv, Grows, Alive
      <3> QED
        BY <3>1, <3>2, LinkAssumption, Numbers DEF Inv
    <2> QED
      BY <2>1, <2>2 DEF NothingMissed, WaitsForNews
  <1> QED
    BY <1>1, <1>2, <1>3, <1>4, InitWait, Invariance, PTL DEF Spec

-----------------------------------------------------------------------------
(* Refinement.                                                             *)

LEMMA HolderIs ==
    ASSUME TypeOK, RoleInv
    PROVE  /\ controller = {} => Holder = NoDaemon
           /\ \A d \in controller : Holder = d /\ controller = {d}
  BY DEF Holder, RoleInv, TypeOK

LEMMA RoleInit == Init => Role!Init
  BY DEF Init, Role!Init, Holder, Open

LEMMA RoleStutter ==
    ASSUME UNCHANGED <<controller, fallback, pending>>
    PROVE  UNCHANGED Role!vars
  BY DEF Role!vars, Holder, Open

LEMMA RoleLoses ==
    ASSUME LinkAssumption, TypeOK, TypeOK', RoleInv, NEW d \in Daemons, LoseController(d),
           connected' \in {connected, connected \ {d}}
    PROVE  [Role!Next]_(Role!vars)
  <1>1. CASE d \in controller
    <2>1. RoleInv' /\ controller' = controller \ {d} /\ pending' = {} /\ controller = {d}
      BY <1>1, LoseControllerInv DEF RoleInv
    <2>2. Holder = d /\ Holder' = NoDaemon /\ d # NoDaemon
      BY <1>1, <2>1, HolderIs DEF Holder, LinkAssumption
    <2>3. Open' = {} /\ fallback' = TRUE
      BY <1>1, <2>1 DEF Open, LoseController
    <2>4. Role!Lose
      BY <2>2, <2>3 DEF Role!Lose
    <2> QED
      BY <2>4 DEF Role!Next
  <1>2. CASE d \notin controller
    BY <1>2, RoleStutter DEF LoseController
  <1> QED
    BY <1>1, <1>2

LEMMA RoleStep == ASSUME LinkAssumption, Inv, Inv', [Next]_vars PROVE [Role!Next]_(Role!vars)
  <1>1. TypeOK /\ RoleInv /\ TypeOK' /\ RoleInv'
    BY DEF Inv
  <1>2. ASSUME UNCHANGED <<controller, fallback, pending>> PROVE [Role!Next]_(Role!vars)
    BY <1>2, RoleStutter
  <1>3. ASSUME NEW d \in Daemons, ClaimController(d) PROVE [Role!Next]_(Role!vars)
    <2>1. CASE controller = {}
      <3>1. controller' = {d} /\ fallback' = FALSE /\ pending' = pending
        BY <1>3, <2>1 DEF ClaimController
      <3>2. Holder = NoDaemon /\ Holder' = d
        BY <1>1, <2>1, <3>1, HolderIs DEF Holder
      <3>3. Role!Grant(d)
        BY <3>1, <3>2 DEF Role!Grant, Open
      <3> QED
        BY <3>3 DEF Role!Next
    <2>2. CASE controller = {d}
      <3>1. controller' = controller /\ fallback' = FALSE /\ pending' = pending
        BY <1>3, <2>2 DEF ClaimController
      <3>2. fallback = FALSE
        BY <1>1, <2>2 DEF RoleInv, TypeOK
      <3> QED
        BY <1>2, <3>1, <3>2
    <2>3. CASE ~(controller \subseteq {d})
      BY <1>2, <1>3, <2>3 DEF ClaimController
    <2> QED
      BY <2>1, <2>2, <2>3
  <1>4. ASSUME NEW d \in Daemons, ReleaseController(d) PROVE [Role!Next]_(Role!vars)
    BY <1>1, <1>4, RoleLoses DEF ReleaseController
  <1>5. ASSUME NEW d \in Daemons, Disconnect(d) PROVE [Role!Next]_(Role!vars)
    BY <1>1, <1>5, RoleLoses DEF Disconnect
  <1>6. ASSUME NEW d \in Daemons, ControllerResult(d) PROVE [Role!Next]_(Role!vars)
    <2> DEFINE s == Head(up[d]).n
               p == [serial |-> s, controller |-> d]
    <2>1. UNCHANGED <<controller, fallback>>
      BY <1>6 DEF ControllerResult
    <2>2. CASE d \in controller /\ p \in pending
      <3>1. pending' = pending \ {p}
        BY <1>6, <2>2 DEF ControllerResult
      <3>2. \A q \in pending : q.serial = s => q = p
        BY <1>1, <2>2 DEF RoleInv, TypeOK
      <3>3. Open' = Open \ {s} /\ s \in Open /\ s \in Serials
        BY <1>1, <2>2, <3>1, <3>2 DEF Open, TypeOK
      <3>4. Role!Answer(s)
        BY <2>1, <3>3 DEF Role!Answer, Holder
      <3> QED
        BY <3>3, <3>4 DEF Role!Next
    <2>3. CASE ~(d \in controller /\ p \in pending)
      BY <1>2, <1>6, <2>1, <2>3 DEF ControllerResult
    <2> QED
      BY <2>2, <2>3
  <1>7. ASSUME NEW d \in Daemons, ProtocolInvoke(d) PROVE [Role!Next]_(Role!vars)
    <2>1. UNCHANGED <<controller, fallback>> /\ d \in controller
      BY <1>7 DEF ProtocolInvoke
    <2>2. CASE Pending(nextSerial) = {}
      <3>1. pending' = pending \cup {[serial |-> nextSerial, controller |-> d]}
        BY <1>7, <2>2 DEF ProtocolInvoke
      <3>2. Open' = Open \cup {nextSerial} /\ nextSerial \notin Open /\ nextSerial \in Serials
        <4>1. [serial |-> nextSerial, controller |-> d].serial = nextSerial
          OBVIOUS
        <4>2. Open' = Open \cup {nextSerial}
          BY <3>1, <4>1 DEF Open
        <4>3. nextSerial \notin Open
          BY <2>2 DEF Open, Pending
        <4> QED
          BY <1>1, <4>2, <4>3 DEF TypeOK
      <3>3. Holder # NoDaemon /\ Holder' = Holder
        BY <1>1, <2>1, HolderIs DEF LinkAssumption, Holder
      <3>4. Role!Invoke(nextSerial)
        BY <2>1, <3>2, <3>3 DEF Role!Invoke
      <3> QED
        BY <3>2, <3>4 DEF Role!Next
    <2>3. CASE Pending(nextSerial) # {}
      BY <1>2, <1>7, <2>1, <2>3 DEF ProtocolInvoke
    <2> QED
      BY <2>2, <2>3
  <1>8. ASSUME NEW d \in Daemons,
               \/ Bind(d) \/ GetState(d) \/ Start(d) \/ DaemonDispatches(d)
               \/ DaemonReady(d) \/ StartupRefused(d) \/ Stop(d) \/ Crash(d)
        PROVE  UNCHANGED <<controller, fallback, pending>>
    BY <1>8 DEF Bind, GetState, Start, DaemonDispatches, HandleChanged, HandleStateEnd,
       HandleClaimResult, HandleControllerInvoke, Dispatches, DaemonReady, StartupRefused,
       Stop, Crash, coreVars
  <1>9. ASSUME NEW w \in Watchers, WatchRefused(w) \/ \E d \in Daemons : WatchState(w, d)
        PROVE  UNCHANGED <<controller, fallback, pending>>
    BY <1>9 DEF WatchRefused, WatchState, coreVars
  <1>10. CASE MarkChanged
    BY <1>2, <1>10 DEF MarkChanged
  <1>11. CASE UNCHANGED vars
    BY <1>2, <1>11 DEF vars, coreVars
  <1> QED
    BY <1>2, <1>3, <1>4, <1>5, <1>6, <1>7, <1>8, <1>9, <1>10, <1>11 DEF Next, CoreReads

\* The link implements the abstract controller role, whatever crashes and
\* restarts: Spec of ShellLink implies Spec of ControllerRole.
THEOREM Refinement == Spec => ImplementsRole
  <1>1. Init => Role!Init
    BY RoleInit
  <1>2. Inv /\ Inv' /\ [Next]_vars => [Role!Next]_(Role!vars)
    BY LinkAssumption, RoleStep
  <1> QED
    BY <1>1, <1>2, Invariance, PTL DEF Spec, ImplementsRole, Role!Spec
=============================================================================
