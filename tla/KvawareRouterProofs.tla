------------------------- MODULE KvawareRouterProofs -------------------------
(***************************************************************************)
(* Theorems about the bridge of kvaware, for any engines, endpoint lists   *)
(* and number of restarts: the KeyError strikes for ids that no listed     *)
(* engine has, and no request goes to another engine than the named one.   *)
(***************************************************************************)
EXTENDS KvawareRouter, FleetTheorems

\* What an id is mapped to is where its process runs.
BridgeInv ==
    /\ bridge \in Seq(Entry)
    /\ \A n \in DOMAIN bridge : bridge[n].id # NoId => bridge[n].url = bridge[n].id.url

\* The id that the lookup named is known once the engine that has it was asked.
FirstIsKnown ==
    \A n \in 1..(asking-1) :
        Registered(endpoints[n]) = first => first \in KnownIds(bridge)

\* The answer that is not yet written is the engine's, and is the named id if the
\* engine has that now: a process is never named anew.
AnswerInv(u) ==
    /\ answer \in Id \union {NoId}
    /\ answer # NoId => answer.url = u
    /\ Registered(u) = first => answer = first

HandlerInv ==
    /\ pc \in {"idle", "lookup", "ask", "write", "ended"}
    /\ pc # "idle" => endpoints \in Seq(Url) \ {<<>>}
    /\ pc = "lookup" => asking = 1 /\ first = NoId
    /\ pc \in {"ask", "write"} =>
           /\ asking \in 1..Len(endpoints)
           /\ first \in Id /\ Learned(first)
           /\ FirstIsKnown
    /\ pc = "write" => AnswerInv(endpoints[asking])

IInv == FleetInv /\ BridgeInv /\ HandlerInv

LEMMA InitInv == Init => IInv
  BY FleetAssumption
     DEF Init, IInv, FleetInit, FleetInv, FleetTypeOK, BridgeInv, HandlerInv

LEMMA EnvironmentStep ==
    ASSUME IInv, Environment
    PROVE  IInv'
<1>1. FleetChange \/ CacheChange
  BY DEF Environment
<1>2. UNCHANGED <<bridge, pc, endpoints, first, asking, answer, url>>
  BY DEF Environment, handlerVars
<1>3. FleetInv' /\ BridgeInv'
  BY <1>1, <1>2, FleetStep DEF IInv, BridgeInv
<1>4. ASSUME pc \in {"ask", "write"}
      PROVE  /\ first \in Id /\ Learned(first)'
             /\ \A u \in Url : Registered(u)' = first => Registered(u) = first
  <2>1. PICK i \in Id : i = first /\ Learned(i)
    BY <1>4 DEF IInv, HandlerInv
  <2>2. Stays(i)
    BY <1>1, FleetStays DEF IInv
  <2>3. ASSUME NEW u \in Url, Registered(u)' = i PROVE u = i.url
    BY <2>3, FleetAssumption DEF Registered, NoId, Id
  <2>4. Learned(i)' /\ \A u \in Url : Registered(u)' = i => Registered(u) = i
    BY <2>1, <2>2, <2>3 DEF Stays
  <2>. QED
    BY <1>2, <2>1, <2>4 DEF Learned, Retired
<1>5. \A n \in 1..Len(endpoints) : pc # "idle" => endpoints[n] \in Url
  BY DEF IInv, HandlerInv
<1>6. pc \in {"ask", "write"} => FirstIsKnown'
  <2>1. ASSUME pc \in {"ask", "write"}, NEW n \in 1..(asking-1),
               Registered(endpoints[n])' = first
        PROVE  first \in KnownIds(bridge)
    <3>1. PICK u \in Url : u = endpoints[n]
      BY <1>5, <2>1 DEF IInv, HandlerInv
    <3>2. Registered(u)' = first
      BY <1>2, <2>1, <3>1 DEF Registered
    <3>. QED
      BY <1>4, <2>1, <3>1, <3>2 DEF IInv, HandlerInv, FirstIsKnown
  <2>. QED
    BY <1>2, <2>1 DEF FirstIsKnown
<1>7. pc = "write" => AnswerInv(endpoints[asking])'
  <2>1. ASSUME pc = "write" PROVE AnswerInv(endpoints[asking])'
    <3>1. PICK u \in Url : u = endpoints[asking]
      BY <1>5, <2>1 DEF IInv, HandlerInv
    <3>2. AnswerInv(u)
      BY <2>1, <3>1 DEF IInv, HandlerInv
    <3>3. AnswerInv(u)'
      BY <1>2, <1>4, <2>1, <3>2 DEF AnswerInv
    <3>4. u = endpoints'[asking']
      BY <1>2, <3>1
    <3>. QED
      BY <3>3, <3>4
  <2>. QED
    BY <2>1
<1>8. HandlerInv'
  BY <1>2, <1>4, <1>6, <1>7 DEF IInv, HandlerInv
<1>. QED
  BY <1>3, <1>8 DEF IInv

\* The steps that leave the bridge and the fleet.
LEMMA Frame ==
    ASSUME IInv, UNCHANGED <<fleetVars, bridge>>
    PROVE  FleetInv' /\ BridgeInv'
  BY FleetFrame DEF IInv, BridgeInv

LEMMA ArriveStep ==
    ASSUME IInv, NEW list \in EndpointLists, Arrive(list)
    PROVE  IInv'
<1>1. FleetInv' /\ BridgeInv'
  BY Frame DEF Arrive
<1>2. HandlerInv'
  BY KvawareAssumption DEF Arrive, HandlerInv
<1>. QED
  BY <1>1, <1>2 DEF IInv

LEMMA LookupStep ==
    ASSUME IInv, RouteRequestRaises \/ FallBack \/ (\E id \in named : Follow(id))
    PROVE  IInv'
<1>1. /\ FleetInv' /\ BridgeInv' 
      /\ UNCHANGED <<fleetVars, bridge, endpoints, asking>>
  BY Frame DEF RouteRequestRaises, FallBack, Follow
<1>2. /\ pc = "lookup" /\ asking = 1 /\ endpoints \in Seq(Url) \ {<<>>}
      /\ pc' \in {"ask", "ended"} /\ (pc' = "ask" => first' \in named)
  BY DEF IInv, HandlerInv, RouteRequestRaises, FallBack, Follow, Return
<1>3. 1..(asking'-1) = {} /\ asking' \in 1..Len(endpoints')
  BY <1>1, <1>2
<1>4. FirstIsKnown'
  BY <1>3 DEF FirstIsKnown
<1>5. CASE pc' = "ask"
  <2>1. PICK i \in named : i = first' /\ i \in Id /\ Learned(i)
    BY <1>2, <1>5 DEF IInv, FleetInv, FleetTypeOK
  <2>2. Learned(i)'
    BY <1>1, <2>1 DEF Learned, Retired, fleetVars
  <2>3. Learned(first)'
    BY <2>1, <2>2 DEF Learned, Retired
  <2>4. HandlerInv'
    BY <1>1, <1>2, <1>3, <1>4, <1>5, <2>1, <2>3 DEF HandlerInv
  <2>. QED
    BY <1>1, <2>4 DEF IInv
<1>6. CASE pc' = "ended"
  BY <1>1, <1>2, <1>6 DEF IInv, HandlerInv
<1>. QED
  BY <1>2, <1>5, <1>6

LEMMA AskStep ==
    ASSUME IInv, Ask
    PROVE  IInv'
<1>1. FleetInv' /\ BridgeInv'
  BY Frame DEF Ask
<1>2. /\ pc = "ask" /\ pc' = "write" /\ answer' = Registered(endpoints[asking])
      /\ UNCHANGED <<fleetVars, bridge, endpoints, first, asking>>
  BY DEF Ask
<1>3. PICK u \in Url : u = endpoints[asking] /\ u = endpoints'[asking']
  BY <1>2 DEF IInv, HandlerInv
<1>4. Registered(u) \in Id \union {NoId} /\ (Registered(u) # NoId => Registered(u).url = u)
  BY DEF IInv, FleetInv, FleetTypeOK, Registered, Id
<1>5. AnswerInv(u)'
  BY <1>2, <1>3, <1>4 DEF AnswerInv, Registered, fleetVars
<1>6. FirstIsKnown' /\ Learned(first)'
  BY <1>2 DEF IInv, HandlerInv, FirstIsKnown, Learned, Retired, Registered, fleetVars
<1>7. HandlerInv'
  BY <1>2, <1>3, <1>5, <1>6 DEF IInv, HandlerInv
<1>. QED
  BY <1>1, <1>7 DEF IInv

\* The write keeps the bridge a map to the processes' engines, and the named id
\* is in it if the engine asked, or one asked before, has it.
LEMMA Written ==
    ASSUME IInv, Write
    PROVE  /\ BridgeInv'
           /\ \A n \in 1..asking :
                  Registered(endpoints[n]) = first => first \in KnownIds(bridge')
<1>1. PICK u \in Url : u = endpoints[asking]
  BY DEF IInv, HandlerInv, Write
<1>2. AnswerInv(u) /\ bridge' = Put(bridge, answer, u) /\ bridge \in Seq(Entry)
  BY <1>1 DEF Write, IInv, HandlerInv, BridgeInv
<1>3. PICK b : b = bridge'
  OBVIOUS
<1>4. /\ b \in Seq(Entry) /\ KnownIds(b) = KnownIds(bridge) \union {answer}
      /\ \A n \in DOMAIN bridge :
             b[n] = IF bridge[n].id = answer THEN [id |-> answer, url |-> u] ELSE bridge[n]
      /\ \A n \in DOMAIN b \ DOMAIN bridge : b[n] = [id |-> answer, url |-> u]
  BY <1>2, <1>3, PutProperties DEF AnswerInv
<1>5. ASSUME NEW n \in DOMAIN b, b[n].id # NoId PROVE b[n].url = b[n].id.url
  <2>1. CASE b[n] = [id |-> answer, url |-> u]
    BY <1>2, <1>5, <2>1 DEF AnswerInv
  <2>2. CASE n \in DOMAIN bridge /\ b[n] = bridge[n]
    BY <1>5, <2>2 DEF IInv, BridgeInv
  <2>. QED
    BY <1>4, <2>1, <2>2
<1>6. BridgeInv'
  BY <1>3, <1>4, <1>5 DEF BridgeInv
<1>7. ASSUME NEW n \in 1..asking, Registered(endpoints[n]) = first
      PROVE  first \in KnownIds(b)
  <2>1. CASE n = asking
    BY <1>1, <1>2, <1>4, <1>7, <2>1 DEF AnswerInv
  <2>2. CASE n # asking
    <3>1. n \in 1..(asking-1) /\ FirstIsKnown
      BY <1>7, <2>2 DEF IInv, HandlerInv, Write
    <3>. QED
      BY <1>4, <1>7, <3>1 DEF FirstIsKnown
  <2>. QED
    BY <2>1, <2>2
<1>. QED
  BY <1>3, <1>6, <1>7

LEMMA WriteStep ==
    ASSUME IInv, Write
    PROVE  IInv'
<1>1. UNCHANGED <<fleetVars, endpoints, first>> /\ pc = "write"
  BY DEF Write
<1>2. FleetInv' /\ BridgeInv'
  BY <1>1, FleetFrame, Written DEF IInv
<1>3. /\ endpoints \in Seq(Url) \ {<<>>} /\ asking \in 1..Len(endpoints)
      /\ first \in Id /\ Learned(first)
  BY <1>1 DEF IInv, HandlerInv
<1>4. CASE asking < Len(endpoints)
  <2>1. pc' = "ask" /\ asking' = asking + 1
    BY <1>3, <1>4 DEF Write
  <2>2. FirstIsKnown'
    <3>1. asking' - 1 = asking
      BY <1>3, <2>1
    <3>2. SUFFICES ASSUME NEW n \in 1..asking, (Registered(endpoints[n]) = first)'
                   PROVE  (first \in KnownIds(bridge))'
      BY <3>1 DEF FirstIsKnown
    <3>3. Registered(endpoints[n]) = first
      BY <1>1, <3>2 DEF Registered, fleetVars
    <3>4. first \in KnownIds(bridge')
      BY <3>3, Written
    <3>. QED
      BY <1>1, <3>4 DEF KnownIds
  <2>3. Learned(first)'
    BY <1>1, <1>3 DEF Learned, Retired, fleetVars
  <2>. QED
    BY <1>1, <1>2, <1>3, <1>4, <2>1, <2>2, <2>3 DEF IInv, HandlerInv
<1>5. CASE asking = Len(endpoints)
  <2>1. pc' = "ended"
    BY <1>3, <1>5 DEF Write, Return
  <2>. QED
    BY <1>1, <1>2, <1>3, <2>1 DEF IInv, HandlerInv
<1>. QED
  BY <1>3, <1>4, <1>5

LEMMA Invariance == Init /\ [][Next]_vars => []IInv
<1>1. IInv /\ UNCHANGED vars => IInv'
  <2>1. SUFFICES ASSUME IInv, UNCHANGED vars PROVE IInv'
    OBVIOUS
  <2>2. FleetInv' /\ BridgeInv'
    BY <2>1, Frame DEF vars
  <2>3. HandlerInv'
    BY <2>1 DEF IInv, HandlerInv, vars, handlerVars, fleetVars, FirstIsKnown, AnswerInv,
                Registered, KnownIds, Learned, Retired
  <2>. QED
    BY <2>2, <2>3 DEF IInv
<1>2. IInv /\ [Next]_vars => IInv'
  BY <1>1, ArriveStep, LookupStep, AskStep, WriteStep, EnvironmentStep DEF Next, Handler
<1>. QED
  BY InitInv, <1>2, PTL
-----------------------------------------------------------------------------
(* What a request ends with.                                               *)

\* An id of the bridge is mapped to where its process runs.
LEMMA UrlOfKnown ==
    ASSUME NEW b \in Seq(Entry), NEW i \in Id, i \in KnownIds(b),
           \A n \in DOMAIN b : b[n].id # NoId => b[n].url = b[n].id.url
    PROVE  UrlOf(b, i) = i.url /\ i.url \in Url
<1>. DEFINE n == CHOOSE n \in DOMAIN b : b[n].id = i
<1>1. n \in DOMAIN b /\ b[n].id = i
  BY DEF KnownIds
<1>2. i # NoId /\ i.url \in Url
  BY FleetAssumption DEF Id, NoId
<1>. HIDE DEF n
<1>. QED
  BY <1>1, <1>2 DEF UrlOf, n

\* The ways in which a request ends: with an endpoint or an error before it follows
\* a name; with the place of the process it was to follow, or with an error when no
\* endpoint's process is that.
Outcome ==
    \/ url' \in Url \union {0} /\ first' = NoId
    \/ first' \in Id /\ url' = first'.url /\ url' \in Url
    \/ /\ url' = 0
       /\ \A u \in Range(endpoints) : Registered(u) # first'

LEMMA EndsWell ==
    ASSUME IInv, [Next]_vars, Ends
    PROVE  Outcome
<1>1. CASE FallBack
  <2>1. endpoints \in Seq(Url) /\ first' = NoId /\ url' \in Range(endpoints)
    BY <1>1 DEF FallBack, IInv, HandlerInv
  <2>. QED
    BY <2>1 DEF Outcome, Range
<1>2. ASSUME NEW id \in named, Follow(id)
      PROVE  Outcome
  <2>1. id \in Id /\ id \in KnownIds(bridge) /\ url' = UrlOf(bridge, id) /\ first' = id
    BY <1>2 DEF Follow, Return, Ends, IInv, FleetInv, FleetTypeOK
  <2>2. url' = id.url /\ id.url \in Url
    BY <2>1, UrlOfKnown DEF IInv, BridgeInv
  <2>. QED
    BY <2>1, <2>2 DEF Outcome
<1>3. CASE Write
  <2>1. /\ asking = Len(endpoints) /\ endpoints \in Seq(Url)
        /\ first \in Id /\ first' = first
        /\ url' = IF first \in KnownIds(bridge') THEN UrlOf(bridge', first) ELSE 0
    BY <1>3 DEF Write, Return, Ends, IInv, HandlerInv
  <2>2. CASE first \in KnownIds(bridge')
    <3>1. PICK b : b = bridge'
      OBVIOUS
    <3>2. /\ b \in Seq(Entry)
          /\ \A n \in DOMAIN b : b[n].id # NoId => b[n].url = b[n].id.url
      BY <1>3, <3>1, Written DEF BridgeInv
    <3>3. UrlOf(b, first) = first.url /\ first.url \in Url
      BY <2>1, <2>2, <3>1, <3>2, UrlOfKnown
    <3>. QED
      BY <2>1, <2>2, <3>1, <3>3 DEF Outcome
  <2>3. CASE first \notin KnownIds(bridge')
    <3>1. \A n \in 1..asking : Registered(endpoints[n]) # first
      BY <1>3, <2>3, Written
    <3>. QED
      BY <2>1, <2>3, <3>1 DEF Outcome, Range
  <2>. QED
    BY <2>2, <2>3
<1>4. CASE RouteRequestRaises
  BY <1>4 DEF RouteRequestRaises, Outcome, IInv, HandlerInv
<1>5. CASE Ask \/ Environment \/ UNCHANGED vars \/ \E list \in EndpointLists : Arrive(list)
  BY <1>5 DEF Ends, Ask, Environment, Arrive, vars, handlerVars
<1>. QED
  BY <1>1, <1>2, <1>3, <1>4, <1>5 DEF Next, Handler
-----------------------------------------------------------------------------
(* The theorems.                                                           *)

\* The KeyError of the bridge in KvawareRouter.route_request strikes only for an id
\* that no listed engine is registered under, however the fleet changes meanwhile.
THEOREM NeverFailsALiveHolder == FairSpec => LiveHolderNeverFails
<1>1. ASSUME NEW u \in Url, registered[u] # 0
      PROVE  Registered(u) # NoId
  BY <1>1, FleetAssumption DEF Registered, NoId, Id
<1>2. ASSUME IInv, [Next]_vars, Ends, url' = 0,
             NEW u \in Range(endpoints), registered[u] # 0
      PROVE  Registered(u) # first'
  <2>1. u \in Url
    <3>1. pc # "idle"
      BY <1>2 DEF Ends, Next, Handler, Arrive, RouteRequestRaises, FallBack, Follow, Ask,
                  Write, Environment, handlerVars, vars
    <3>2. endpoints \in Seq(Url)
      BY <1>2, <3>1 DEF IInv, HandlerInv
    <3>. QED
      BY <1>2, <3>2 DEF Range
  <2>. QED
    BY <1>1, <1>2, <2>1, EndsWell, FleetAssumption DEF Outcome, Id
<1>3. IInv /\ [Next]_vars =>
          [Ends /\ url' = 0 =>
              \A u \in Range(endpoints) : registered[u] # 0 => Registered(u) # first']_vars
  BY <1>2
<1>. QED
  BY <1>3, Invariance, PTL DEF FairSpec, LiveHolderNeverFails

\* A request that follows a name goes to the engine of the process it names.
THEOREM NeverGoesElsewhere == FairSpec => FollowsTheName
<1>1. ASSUME IInv, [Next]_vars, Ends, first' # NoId
      PROVE  url' \in {0, first'.url}
  BY <1>1, EndsWell DEF Outcome
<1>2. IInv /\ [Next]_vars => [Ends /\ first' # NoId => url' \in {0, first'.url}]_vars
  BY <1>1
<1>. QED
  BY <1>2, Invariance, PTL DEF FairSpec, FollowsTheName
=============================================================================
