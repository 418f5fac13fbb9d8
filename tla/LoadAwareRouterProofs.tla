------------------------ MODULE LoadAwareRouterProofs ------------------------
(***************************************************************************)
(* Theorems about the refresh of loadaware's bridge, for any engines,      *)
(* endpoint lists, loads and number of restarts: the newest id of a URL is *)
(* the last in the dict, and a live holder is scored with its own match.   *)
(*                                                                         *)
(* The argument: the registry names the processes of a URL in the order in *)
(* which they start, and never again one that it has stopped naming.  So   *)
(* an answer about a URL is as new as any earlier one, and the only answer *)
(* that can be written behind a live id of the same URL is that id.        *)
(***************************************************************************)
EXTENDS LoadAwareRouter, FleetTheorems

\* A dict: no key twice.
BridgeTypeOK ==
    /\ bridge \in Seq(Entry)
    /\ \A p, q \in DOMAIN bridge : bridge[p].id = bridge[q].id => p = q

\* What the bridge knows is a process of the URL it is mapped to.
KnownAreLearned ==
    \A n \in DOMAIN bridge :
        bridge[n].id # NoId =>
            bridge[n].url = bridge[n].id.url /\ Learned(bridge[n].id)

\* The place of an unregistered engine is behind retired processes only.
NoneBehindRetired ==
    \A p, q \in DOMAIN bridge :
        /\ p < q
        /\ bridge[p].url = bridge[q].url
        /\ bridge[q].id = NoId
        => Retired(bridge[p].id)

BridgeInv ==
    BridgeTypeOK /\ KnownAreLearned /\ NewestIdIsLast /\ NoneBehindRetired

\* The answer that is not yet written may go behind all that is known of u.
AnswerInv(u) ==
    /\ answer \in Id \union {NoId}
    /\ Registered(u) \in layout => answer = Registered(u)
    /\ answer # NoId => answer.url = u /\ Learned(answer)
    /\ \A n \in DOMAIN bridge :
           bridge[n].url = u /\ bridge[n].id # NoId =>
               /\ answer = NoId => Retired(bridge[n].id)
               /\ answer # NoId => bridge[n].id.nth <= answer.nth

\* A live engine that the lookup named is known once it was asked about.
AskedAreKnown ==
    \A n \in 1..(asking-1) :
        Registered(endpoints[n]) \in layout =>
            Registered(endpoints[n]) \in KnownIds(bridge)

HandlerInv ==
    /\ pc \in {"idle", "lookup", "ask", "write", "routed", "raised"}
    /\ \A i \in layout : i \in Id /\ Learned(i)
    /\ pc # "idle" => endpoints \in Seq(Url) \ {<<>>}
    /\ pc = "lookup" => asking = 1 /\ layout = {}
    /\ pc \in {"ask", "write"} => asking \in 1..Len(endpoints) /\ AskedAreKnown
    /\ pc = "write" => AnswerInv(endpoints[asking])

IInv == FleetInv /\ BridgeInv /\ HandlerInv
-----------------------------------------------------------------------------
(* The fleet changes.                                                      *)

\* Another change of the fleet leaves what the bridge and the handler hold true.
LEMMA EnvironmentStep ==
    ASSUME IInv, Environment
    PROVE  IInv'
<1>1. FleetChange \/ CacheChange
  BY DEF Environment
<1>2. FleetInv'
  BY <1>1, FleetStep DEF IInv
<1>3. \A i \in Id : Stays(i)
  BY <1>1, FleetStays DEF IInv
<1>4. UNCHANGED <<bridge, pc, endpoints, layout, asking, answer, url>>
  BY DEF Environment, handlerVars
<1>5. \A n \in DOMAIN bridge : bridge[n].id \in Id \union {NoId}
  <2>1. bridge \in Seq(Entry)
    BY DEF IInv, BridgeInv, BridgeTypeOK
  <2>2. \A n \in DOMAIN bridge : bridge[n] \in Entry
    BY <2>1
  <2>. QED
    BY <2>2 DEF Entry
<1>6. BridgeInv'
  <2>1. BridgeTypeOK'
    BY <1>4 DEF IInv, BridgeInv, BridgeTypeOK
  <2>2. KnownAreLearned'
    BY <1>3, <1>4, <1>5 DEF IInv, BridgeInv, KnownAreLearned, Stays
  <2>3. NewestIdIsLast'
    BY <1>4 DEF IInv, BridgeInv, NewestIdIsLast
  <2>4. ASSUME NEW p \in DOMAIN bridge, NEW q \in DOMAIN bridge,
               p < q, bridge[p].url = bridge[q].url, bridge[q].id = NoId
        PROVE  Retired(bridge[p].id)'
    <3>1. p # q
      BY <2>4 DEF IInv, BridgeInv, BridgeTypeOK
    <3>2. bridge[p].id # NoId
      BY <2>4, <3>1 DEF IInv, BridgeInv, BridgeTypeOK
    <3>3. bridge[p].id \in Id /\ Learned(bridge[p].id) /\ Retired(bridge[p].id)
      BY <2>4, <3>2, <1>5 DEF IInv, BridgeInv, KnownAreLearned, NoneBehindRetired
    <3>. QED
      BY <3>3, <1>3, <1>4 DEF Stays
  <2>5. NoneBehindRetired'
    BY <2>4, <1>4 DEF NoneBehindRetired
  <2>. QED
    BY <2>1, <2>2, <2>3, <2>5 DEF BridgeInv
<1>7. \A u \in Url : Registered(u)' \in layout => Registered(u)' = Registered(u)
  <2>1. ASSUME NEW u \in Url, Registered(u)' \in layout
        PROVE  Registered(u)' = Registered(u)
    <3>. DEFINE i == Registered(u)'
    <3>1. i \in Id /\ Learned(i)
      BY <2>1 DEF IInv, HandlerInv
    <3>2. i.url = u
      BY <3>1, FleetAssumption DEF Registered, NoId, Id
    <3>. QED
      BY <3>1, <3>2, <1>3 DEF Stays
  <2>. QED
    BY <2>1
<1>8. HandlerInv'
  <2>1. \A i \in layout : i \in Id /\ Learned(i)'
    BY <1>3 DEF IInv, HandlerInv, Stays
  <2>2. pc # "idle" => \A n \in 1..Len(endpoints) : endpoints[n] \in Url
    BY DEF IInv, HandlerInv
  <2>3. pc \in {"ask", "write"} => AskedAreKnown'
    BY <2>2, <1>4, <1>7 DEF IInv, HandlerInv, AskedAreKnown, KnownIds
  <2>4. pc = "write" => AnswerInv(endpoints[asking])'
    <3>. SUFFICES ASSUME pc = "write" PROVE AnswerInv(endpoints[asking])'
      OBVIOUS
    <3>1. PICK u \in Url : u = endpoints[asking]
      BY <2>2 DEF IInv, HandlerInv
    <3>8. AnswerInv(u)
      BY <3>1 DEF IInv, HandlerInv
    <3>2. Registered(u)' \in layout' => answer' = Registered(u)'
      BY <3>8, <1>4, <1>7 DEF AnswerInv
    <3>3. answer' # NoId => answer'.url = u /\ Learned(answer)'
      BY <3>8, <1>3, <1>4 DEF AnswerInv, Stays
    <3>4. ASSUME NEW n \in DOMAIN bridge, bridge[n].url = u, bridge[n].id # NoId
          PROVE  /\ answer = NoId => Retired(bridge[n].id)'
                 /\ answer # NoId => bridge[n].id.nth <= answer.nth
      <4>1. bridge[n].id \in Id /\ Learned(bridge[n].id)
        BY <3>4, <1>5 DEF IInv, BridgeInv, KnownAreLearned
      <4>2. /\ answer = NoId => Retired(bridge[n].id)
            /\ answer # NoId => bridge[n].id.nth <= answer.nth
        BY <3>4, <3>8 DEF AnswerInv
      <4>. QED
        BY <4>1, <4>2, <1>3, <1>4 DEF Stays
    <3>5. \A n \in DOMAIN bridge' :
              bridge'[n].url = u /\ bridge'[n].id # NoId =>
                  /\ answer' = NoId => Retired(bridge[n].id)'
                  /\ answer' # NoId => bridge'[n].id.nth <= answer'.nth
      BY <3>4, <1>4
    <3>6. answer' \in Id \union {NoId}
      BY <3>8, <1>4 DEF AnswerInv
    <3>7. AnswerInv(u)'
      BY <3>2, <3>3, <3>5, <3>6 DEF AnswerInv
    <3>. QED
      BY <3>1, <3>7, <1>4 DEF AnswerInv
  <2>. QED
    BY <2>1, <2>3, <2>4, <1>4 DEF IInv, HandlerInv
<1>. QED
  BY <1>2, <1>6, <1>8 DEF IInv
-----------------------------------------------------------------------------
(* The write of an answer.                                                 *)

\* An answer about u may be written: what was in front of it stays in order.
LEMMA PutStep ==
    ASSUME BridgeInv, UNCHANGED fleetVars, NEW u \in Url, AnswerInv(u),
           bridge' = Put(bridge, answer, u)
    PROVE  BridgeInv'
<1>1. /\ bridge' \in Seq(Entry)
      /\ \A n \in DOMAIN bridge :
             /\ n \in DOMAIN bridge'
             /\ bridge'[n] = IF bridge[n].id = answer THEN [id |-> answer, url |-> u]
                             ELSE bridge[n]
      /\ \A n \in DOMAIN bridge' \ DOMAIN bridge :
             /\ answer \notin KnownIds(bridge)
             /\ bridge'[n] = [id |-> answer, url |-> u]
             /\ \A p \in DOMAIN bridge' : p # n => p \in DOMAIN bridge /\ p < n
  BY PutProperties DEF BridgeInv, BridgeTypeOK, AnswerInv
<1>2. /\ bridge \in Seq(Entry)
      /\ \A n \in DOMAIN bridge : n \in Nat
      /\ \A n \in DOMAIN bridge' : n \in Nat
  BY <1>1 DEF BridgeInv, BridgeTypeOK
<1>3. \A n \in DOMAIN bridge : bridge'[n].id = bridge[n].id
  BY <1>1
<1>4. \A n \in DOMAIN bridge : bridge[n].id # NoId => bridge'[n] = bridge[n]
  <2>1. ASSUME NEW n \in DOMAIN bridge, bridge[n].id # NoId, bridge[n].id = answer
        PROVE  bridge[n] = [id |-> answer, url |-> u]
    <3>1. bridge[n] \in Entry /\ bridge[n].url = u
      BY <1>2, <2>1 DEF AnswerInv, BridgeInv, KnownAreLearned
    <3>. QED
      BY <2>1, <3>1 DEF Entry
  <2>. QED
    BY <1>1, <2>1
<1>5. \A n \in DOMAIN bridge' :
          bridge'[n].id = answer \/ (n \in DOMAIN bridge /\ bridge'[n] = bridge[n])
  BY <1>1
<1>6. \A n \in DOMAIN bridge' : bridge'[n].id = answer => bridge'[n].url = u
  BY <1>1
<1>7. ASSUME NEW i PROVE (Learned(i) => Learned(i)') /\ (Retired(i) => Retired(i)')
  BY DEF fleetVars, Learned, Retired
<1>8. BridgeTypeOK'
  <2>1. ASSUME NEW p \in DOMAIN bridge', NEW q \in DOMAIN bridge',
               bridge'[p].id = bridge'[q].id
        PROVE  p = q
    <3>1. CASE p \in DOMAIN bridge /\ q \in DOMAIN bridge
      BY <2>1, <3>1, <1>3 DEF BridgeInv, BridgeTypeOK
    <3>2. CASE p \notin DOMAIN bridge
      BY <2>1, <3>2, <1>1, <1>3 DEF KnownIds
    <3>3. CASE q \notin DOMAIN bridge
      BY <2>1, <3>3, <1>1, <1>3 DEF KnownIds
    <3>. QED
      BY <3>1, <3>2, <3>3
  <2>. QED
    BY <1>1, <2>1 DEF BridgeTypeOK
<1>9. KnownAreLearned'
  <2>1. ASSUME NEW n \in DOMAIN bridge', bridge'[n].id # NoId
        PROVE  bridge'[n].url = bridge'[n].id.url /\ Learned(bridge[n].id)'
    <3>1. CASE bridge'[n].id = answer
      BY <2>1, <3>1, <1>6, <1>7 DEF AnswerInv
    <3>2. CASE n \in DOMAIN bridge /\ bridge'[n] = bridge[n]
      BY <2>1, <3>2, <1>7 DEF BridgeInv, KnownAreLearned
    <3>. QED
      BY <1>5, <3>1, <3>2
  <2>. QED
    BY <2>1 DEF KnownAreLearned, NoId
<1>10. NewestIdIsLast'
  <2>1. ASSUME NEW p \in DOMAIN bridge', NEW q \in DOMAIN bridge', p < q,
               bridge'[p].url = bridge'[q].url,
               bridge'[p].id # NoId, bridge'[q].id # NoId
        PROVE  bridge'[p].id.nth < bridge'[q].id.nth
    <3>1. p \in DOMAIN bridge
      BY <2>1, <1>1, <1>2
    <3>2. bridge'[p] = bridge[p]
      BY <2>1, <3>1, <1>3, <1>4
    <3>3. CASE q \in DOMAIN bridge
      BY <2>1, <3>1, <3>2, <3>3, <1>3, <1>4 DEF BridgeInv, NewestIdIsLast
    <3>4. CASE q \notin DOMAIN bridge
      <4>1. /\ bridge'[q].id = answer /\ bridge'[q].url = u
            /\ answer # bridge[p].id /\ answer # NoId
        BY <2>1, <3>1, <3>4, <1>1 DEF KnownIds
      <4>2. /\ bridge[p].id.nth <= answer.nth /\ answer.url = u
            /\ bridge[p].id.url = u
        BY <2>1, <3>1, <3>2, <4>1
           DEF AnswerInv, BridgeInv, KnownAreLearned
      <4>3. bridge[p].id \in Id /\ answer \in Id
        <5>1. bridge[p] \in Entry
          BY <1>2, <3>1
        <5>. QED
          BY <5>1, <2>1, <3>2, <4>1 DEF Entry, AnswerInv
      <4>4. bridge[p].id.nth # answer.nth
        BY <4>1, <4>2, <4>3 DEF Id
      <4>. QED
        BY <3>2, <4>1, <4>2, <4>3, <4>4 DEF Id
    <3>. QED
      BY <3>3, <3>4
  <2>. QED
    BY <2>1 DEF NewestIdIsLast, NoId
<1>11. NoneBehindRetired'
  <2>1. ASSUME NEW p \in DOMAIN bridge', NEW q \in DOMAIN bridge', p < q,
               bridge'[p].url = bridge'[q].url, bridge'[q].id = NoId
        PROVE  Retired(bridge[p].id)'
    <3>1. p \in DOMAIN bridge /\ p # q
      BY <2>1, <1>1, <1>2
    <3>2. bridge[p].id # NoId /\ bridge'[p] = bridge[p]
      BY <2>1, <3>1, <1>3, <1>4, <1>8 DEF BridgeTypeOK
    <3>3. CASE answer = NoId
      <4>1. bridge[p].url = u
        BY <2>1, <3>2, <3>3, <1>6
      <4>. QED
        BY <3>1, <3>2, <3>3, <4>1, <1>7 DEF AnswerInv
    <3>4. CASE answer # NoId
      <4>1. q \in DOMAIN bridge /\ bridge'[q] = bridge[q]
        BY <2>1, <3>4, <1>5
      <4>. QED
        BY <2>1, <3>1, <3>2, <4>1, <1>7 DEF BridgeInv, NoneBehindRetired
    <3>. QED
      BY <3>3, <3>4
  <2>. QED
    BY <2>1 DEF NoneBehindRetired, NoId
<1>. QED
  BY <1>8, <1>9, <1>10, <1>11 DEF BridgeInv
-----------------------------------------------------------------------------
(* The handler.                                                            *)

LEMMA InitInv == ASSUME Init PROVE IInv
<1>1. FleetInv
  BY FleetAssumption DEF Init, FleetInit, FleetInv, FleetTypeOK
<1>2. BridgeInv
  BY DEF Init, BridgeInv, BridgeTypeOK, KnownAreLearned, NewestIdIsLast,
         NoneBehindRetired
<1>3. HandlerInv
  BY DEF Init, HandlerInv
<1>. QED
  BY <1>1, <1>2, <1>3 DEF IInv

\* The invariant of the bridge, in a step of neither.
LEMMA BridgeFrame ==
    ASSUME BridgeInv, UNCHANGED <<fleetVars, bridge>>
    PROVE  BridgeInv'
  BY DEF BridgeInv, BridgeTypeOK, KnownAreLearned, NewestIdIsLast,
         NoneBehindRetired, fleetVars, Learned, Retired

LEMMA ArriveStep ==
    ASSUME IInv, NEW list \in EndpointLists, Arrive(list)
    PROVE  IInv'
<1>1. FleetInv' /\ BridgeInv'
  BY FleetFrame, BridgeFrame DEF IInv, Arrive
<1>2. HandlerInv'
  BY RouterAssumption DEF HandlerInv, Arrive
<1>. QED
  BY <1>1, <1>2 DEF IInv

LEMMA LookupStep ==
    ASSUME IInv,
           \/ RouteRequestRaises \/ LookupFindsNothing
           \/ LookupThenRefresh \/ LookupThenDecide
    PROVE  IInv'
<1>1. FleetInv' /\ BridgeInv'
  BY FleetFrame, BridgeFrame
     DEF IInv, RouteRequestRaises, LookupFindsNothing, LookupThenRefresh, LookupThenDecide
<1>2. \A i \in layout' : i \in Id /\ Learned(i)'
  <2>1. \A i \in named : i \in Id /\ Learned(i)
    BY DEF IInv, FleetInv, FleetTypeOK
  <2>2. layout' \in {named, layout} /\ UNCHANGED fleetVars
    BY DEF RouteRequestRaises, LookupFindsNothing, LookupThenRefresh, LookupThenDecide
  <2>. QED
    BY <2>1, <2>2 DEF IInv, HandlerInv, fleetVars, Learned, Retired
<1>3. /\ endpoints \in Seq(Url) \ {<<>>} /\ asking = 1
      /\ UNCHANGED <<endpoints, asking>>
      /\ pc' \in {"ask", "routed", "raised"}
  BY DEF IInv, HandlerInv, RouteRequestRaises, LookupFindsNothing, LookupThenRefresh,
         LookupThenDecide, Decide
<1>4. asking' \in 1..Len(endpoints') /\ AskedAreKnown'
  BY <1>3 DEF AskedAreKnown
<1>. QED
  BY <1>1, <1>2, <1>3, <1>4 DEF IInv, HandlerInv

LEMMA AskStep ==
    ASSUME IInv, Ask
    PROVE  IInv'
<1>1. FleetInv' /\ BridgeInv'
  BY FleetFrame, BridgeFrame DEF IInv, Ask
<1>2. PICK u \in Url : u = endpoints[asking]
  BY DEF IInv, HandlerInv, Ask
<1>3. answer' = Registered(u) /\ UNCHANGED <<fleetVars, bridge, layout, endpoints, asking>>
  BY <1>2 DEF Ask
<1>4. registered[u] \in Nat /\ started[u] \in Nat /\ registered[u] <= started[u]
  BY <1>2 DEF IInv, FleetInv, FleetTypeOK
<1>5. /\ answer' \in Id \union {NoId}
      /\ answer' # NoId => answer'.url = u /\ Learned(answer')
  BY <1>2, <1>3, <1>4 DEF Registered, Learned, Id
<1>6. ASSUME NEW n \in DOMAIN bridge, bridge[n].url = u, bridge[n].id # NoId
      PROVE  /\ answer' = NoId => Retired(bridge[n].id)
             /\ answer' # NoId => bridge[n].id.nth <= answer'.nth
  <2>1. Learned(bridge[n].id) /\ bridge[n].id.url = u
    BY <1>6 DEF IInv, BridgeInv, KnownAreLearned
  <2>2. (answer' = NoId) <=> registered[u] = 0
    BY <1>2, <1>3, FleetAssumption DEF Registered, NoId
  <2>3. answer' # NoId => answer'.nth = registered[u]
    BY <1>3, <2>2 DEF Registered
  <2>. QED
    BY <2>1, <2>2, <2>3 DEF Learned
<1>7. AnswerInv(endpoints[asking])'
  <2>1. Registered(u)' = Registered(u)
    BY <1>3 DEF fleetVars, Registered
  <2>2. answer' # NoId => Learned(answer)'
    BY <1>3, <1>5 DEF fleetVars, Learned, Retired
  <2>3. \A n \in DOMAIN bridge : Retired(bridge[n].id) => Retired(bridge[n].id)'
    BY <1>3 DEF fleetVars, Retired
  <2>4. AnswerInv(u)'
    BY <1>3, <1>5, <1>6, <2>1, <2>2, <2>3 DEF AnswerInv
  <2>. QED
    BY <1>2, <1>3, <2>4 DEF AnswerInv
<1>8. AskedAreKnown'
  BY <1>3 DEF IInv, HandlerInv, Ask, AskedAreKnown, fleetVars, Registered, KnownIds
<1>9. \A i \in layout' : i \in Id /\ Learned(i)'
  BY <1>3 DEF IInv, HandlerInv, fleetVars, Learned, Retired
<1>. QED
  BY <1>1, <1>7, <1>8, <1>9 DEF IInv, HandlerInv, Ask

\* After the write the endpoint that was asked about is known as well.
LEMMA WriteMakesKnown ==
    ASSUME IInv, Write, NEW n \in 1..asking, Registered(endpoints[n]) \in layout
    PROVE  Registered(endpoints[n]) \in KnownIds(bridge')
<1>1. asking \in 1..Len(endpoints) /\ endpoints \in Seq(Url) /\ AskedAreKnown
  BY DEF IInv, HandlerInv, Write
<1>2. PICK u \in Url : u = endpoints[asking]
  BY <1>1
<1>3. AnswerInv(u)
  BY <1>2 DEF IInv, HandlerInv, Write
<1>4. KnownIds(bridge') = KnownIds(bridge) \union {answer}
  <2>1. bridge' = Put(bridge, answer, u) /\ answer \in Id \union {NoId}
    BY <1>2, <1>3 DEF Write, AnswerInv
  <2>. QED
    BY <2>1, PutProperties DEF IInv, BridgeInv, BridgeTypeOK
<1>5. CASE n = asking
  BY <1>2, <1>3, <1>4, <1>5 DEF AnswerInv
<1>6. CASE n \in 1..(asking-1)
  BY <1>1, <1>4, <1>6 DEF AskedAreKnown
<1>. QED
  BY <1>1, <1>5, <1>6

LEMMA WriteStep ==
    ASSUME IInv, Write
    PROVE  IInv'
<1>1. UNCHANGED <<fleetVars, endpoints, layout, answer>>
  BY DEF Write
<1>2. asking \in 1..Len(endpoints) /\ endpoints \in Seq(Url) \ {<<>>}
  BY DEF IInv, HandlerInv, Write
<1>3. PICK u \in Url : u = endpoints[asking]
  BY <1>2
<1>4. AnswerInv(u) /\ bridge' = Put(bridge, answer, u)
  BY <1>3 DEF IInv, HandlerInv, Write
<1>5. FleetInv' /\ BridgeInv'
  BY <1>1, <1>4, FleetFrame, PutStep DEF IInv
<1>6. \/ pc' = "ask" /\ asking < Len(endpoints) /\ asking' = asking + 1
      \/ pc' = "routed"
  BY DEF Write, Continue, AskAbout, Decide
<1>7. ASSUME pc' = "ask" PROVE asking' \in 1..Len(endpoints') /\ AskedAreKnown'
  <2>1. asking' = asking + 1 /\ asking < Len(endpoints)
    BY <1>6, <1>7
  <2>2. \A n \in 1..asking : Registered(endpoints[n])' = Registered(endpoints[n])
    BY <1>1 DEF fleetVars, Registered
  <2>3. \A n \in 1..asking :
            Registered(endpoints[n]) \in layout =>
                Registered(endpoints[n]) \in KnownIds(bridge')
    BY WriteMakesKnown
  <2>4. KnownIds(bridge)' = KnownIds(bridge')
    BY DEF KnownIds
  <2>5. asking' - 1 = asking
    BY <1>2, <2>1
  <2>6. AskedAreKnown'
    BY <1>1, <2>2, <2>3, <2>4, <2>5 DEF AskedAreKnown
  <2>. QED
    BY <1>1, <1>2, <2>1, <2>6
<1>8. \A i \in layout' : i \in Id /\ Learned(i)'
  BY <1>1 DEF IInv, HandlerInv, fleetVars, Learned, Retired
<1>. QED
  BY <1>1, <1>2, <1>5, <1>6, <1>7, <1>8 DEF IInv, HandlerInv

LEMMA StutterStep ==
    ASSUME IInv, UNCHANGED vars
    PROVE  IInv'
<1>1. FleetInv' /\ BridgeInv'
  BY FleetFrame, BridgeFrame DEF IInv, vars
<1>2. HandlerInv'
  BY DEF IInv, HandlerInv, vars, handlerVars, fleetVars, AskedAreKnown, AnswerInv,
         Registered, KnownIds, Learned, Retired
<1>. QED
  BY <1>1, <1>2 DEF IInv

LEMMA Invariance == Spec => []IInv
<1>1. IInv /\ [Next]_vars => IInv'
  BY ArriveStep, LookupStep, AskStep, WriteStep, EnvironmentStep, StutterStep
     DEF Next, Handler
<1>. QED
  BY InitInv, <1>1, PTL DEF Spec
-----------------------------------------------------------------------------
(* The theorems.                                                           *)

\* Of the processes of one URL, the bridge of loadaware has the newest last,
\* however restarts fall between the questions and the answers of a refresh.
THEOREM NewestLast == Spec => []NewestIdIsLast
  BY Invariance, PTL DEF IInv, BridgeInv

\* The inverted dict maps a URL to the id that is live, once that id is known
\* and what is in front of or behind it is as the invariant says.
LEMMA LiveIsLast ==
    ASSUME NEW b \in Seq(Entry), NEW r \in Id, r \in KnownIds(b),
           \A n \in DOMAIN b : b[n].id # NoId => b[n].url = b[n].id.url,
           \A n \in DOMAIN b :
               b[n].url = r.url /\ b[n].id # NoId => b[n].id.nth <= r.nth,
           \A p, q \in DOMAIN b :
               /\ p < q /\ b[p].url = b[q].url
               /\ NoId \notin {b[p].id, b[q].id}
               => b[p].id.nth < b[q].id.nth,
           \A p, q \in DOMAIN b :
               p < q /\ b[p].url = b[q].url /\ b[q].id = NoId => b[p].id # r
    PROVE  r.url \in MappedUrls(b) /\ IdOf(b, r.url) = r
<1>1. r # NoId /\ r.nth \in Nat
  BY FleetAssumption DEF Id, NoId
<1>2. PICK p \in DOMAIN b : b[p].id = r
  BY DEF KnownIds
<1>3. b[p].url = r.url
  BY <1>1, <1>2
<1>4. ASSUME NEW q \in DOMAIN b, b[q].url = r.url PROVE q <= p
  <2>1. p \in Nat /\ q \in Nat
    OBVIOUS
  <2>2. SUFFICES ASSUME p < q PROVE FALSE
    BY <2>1
  <2>3. b[q].id # NoId
    BY <1>2, <1>3, <1>4, <2>2
  <2>4. b[q] \in Entry
    OBVIOUS
  <2>5. b[q].id.nth \in Nat
    BY <2>3, <2>4 DEF Entry, Id
  <2>6. r.nth < b[q].id.nth /\ b[q].id.nth <= r.nth
    BY <1>1, <1>2, <1>3, <1>4, <2>2, <2>3
  <2>. QED
    BY <1>1, <2>5, <2>6
<1>5. r.url \in MappedUrls(b)
  BY <1>2, <1>3 DEF MappedUrls
<1>6. IdOf(b, r.url) = r
  <2>. DEFINE at == {n \in DOMAIN b : b[n].url = r.url}
              last == CHOOSE n \in at : \A q \in at : q <= n
  <2>1. p \in at /\ \A q \in at : q <= p
    BY <1>3, <1>4
  <2>2. last \in at /\ \A q \in at : q <= last
    BY <2>1
  <2>3. last = p
    BY <2>1, <2>2
  <2>. QED
    BY <1>2, <2>3 DEF IdOf
<1>. QED
  BY <1>5, <1>6

\* At a decision, a live engine that the lookup named is known.
LEMMA DecisionKnows ==
    ASSUME IInv, Next, pc # "routed", pc' = "routed",
           NEW u \in Range(endpoints), Registered(u) \in layout'
    PROVE  /\ Registered(u) \in KnownIds(bridge')
           /\ UNCHANGED fleetVars
<1>1. endpoints \in Seq(Url) => \A v \in Range(endpoints) :
          \E n \in 1..Len(endpoints) : endpoints[n] = v
  BY DEF Range
<1>2. LookupFindsNothing \/ LookupThenDecide \/ Write
  BY DEF Next, Handler, Arrive, RouteRequestRaises, LookupThenRefresh, Ask, Environment,
         handlerVars
<1>3. CASE LookupFindsNothing
  <2>1. layout' = {}
    BY <1>3 DEF LookupFindsNothing, IInv, HandlerInv
  <2>. QED
    BY <2>1
<1>4. CASE LookupThenDecide
  BY <1>4 DEF LookupThenDecide, Stale
<1>5. CASE Write
  <2>1. /\ asking = Len(endpoints) /\ endpoints \in Seq(Url)
        /\ UNCHANGED <<layout, fleetVars>>
    BY <1>5 DEF Write, Continue, AskAbout, IInv, HandlerInv
  <2>2. PICK n \in 1..asking : endpoints[n] = u
    BY <1>1, <2>1
  <2>. QED
    BY <1>5, <2>1, <2>2, WriteMakesKnown
<1>. QED
  BY <1>2, <1>3, <1>4, <1>5

\* No decision scores a live engine that the lookup named with the match of a
\* process it replaced, nor leaves it out, whatever happens during the refresh.
THEOREM LiveScored == Spec => LiveHolderIsScored
<1>1. ASSUME IInv, IInv', Next, pc # "routed", pc' = "routed",
             NEW u \in Range(endpoints), Registered(u) \in layout'
      PROVE  u \in MappedUrls(bridge') /\ IdOf(bridge', u) = Registered(u)
  <2>. DEFINE r == Registered(u)
  <2>1. r \in KnownIds(bridge') /\ UNCHANGED fleetVars
    BY <1>1, DecisionKnows
  <2>2. r \in Id
    BY <1>1 DEF IInv, HandlerInv
  <2>3. r.url = u /\ r.nth = registered[u] /\ r # NoId /\ registered[u] # 0
    BY <2>2, FleetAssumption DEF Registered, Id, NoId
  <2>4. bridge' \in Seq(Entry)
    BY <1>1 DEF IInv, BridgeInv, BridgeTypeOK
  <2>5. \A n \in DOMAIN bridge' : bridge'[n].id # NoId =>
            bridge'[n].url = bridge'[n].id.url
    BY <1>1 DEF IInv, BridgeInv, KnownAreLearned
  <2>6. \A n \in DOMAIN bridge' :
            bridge'[n].url = r.url /\ bridge'[n].id # NoId =>
                bridge'[n].id.nth <= r.nth
    BY <1>1, <2>1, <2>3 DEF IInv, BridgeInv, KnownAreLearned, Learned, fleetVars
  <2>7. \A p, q \in DOMAIN bridge' :
            /\ p < q /\ bridge'[p].url = bridge'[q].url
            /\ NoId \notin {bridge'[p].id, bridge'[q].id}
            => bridge'[p].id.nth < bridge'[q].id.nth
    BY <1>1 DEF IInv, BridgeInv, NewestIdIsLast
  <2>8. \A p, q \in DOMAIN bridge' :
            p < q /\ bridge'[p].url = bridge'[q].url /\ bridge'[q].id = NoId =>
                bridge'[p].id # r
    BY <1>1, <2>1, <2>3
       DEF IInv, BridgeInv, NoneBehindRetired, Retired, fleetVars
  <2>. HIDE DEF r
  <2>9. r.url \in MappedUrls(bridge') /\ IdOf(bridge', r.url) = r
    BY <2>1, <2>2, <2>4, <2>5, <2>6, <2>7, <2>8, LiveIsLast
  <2>. QED
    BY <2>3, <2>9 DEF r
<1>2. IInv /\ IInv' /\ [Next]_vars =>
          [pc # "routed" /\ pc' = "routed" =>
              \A u \in Range(endpoints) :
                  Registered(u) \in layout' =>
                      u \in MappedUrls(bridge') /\ IdOf(bridge', u) = Registered(u)]_vars
  BY <1>1
<1>. QED
  BY <1>2, Invariance, PTL DEF Spec, LiveHolderIsScored
-----------------------------------------------------------------------------
(* What was asked about since the fleet last changed.  The answer about it *)
(* is either in the bridge or still to be written, and still true.         *)

FreshInv ==
    /\ fresh \subseteq Url
    /\ \A u \in fresh :
           registered[u] # 0 /\ ~(pc = "write" /\ endpoints[asking] = u) =>
               Registered(u) \in KnownIds(bridge)
    /\ pc = "write" /\ endpoints[asking] \in fresh =>
           answer = Registered(endpoints[asking])

\* The steps that neither ask nor write, and leave the fleet as it is.
LEMMA FreshFrame ==
    ASSUME FreshInv, UNCHANGED <<bridge, fresh, registered>>,
           \/ pc # "write" /\ pc' # "write"
           \/ UNCHANGED <<pc, endpoints, asking, answer>>
    PROVE  FreshInv'
  BY DEF FreshInv, KnownIds, Registered

LEMMA FreshStep ==
    ASSUME IInv, FreshInv, [Next]_vars
    PROVE  FreshInv'
<1>1. CASE UNCHANGED vars
  BY <1>1, FreshFrame DEF vars, handlerVars, fleetVars
<1>2. ASSUME NEW list \in EndpointLists, Arrive(list) PROVE FreshInv'
  BY <1>2, FreshFrame DEF Arrive, fleetVars
<1>3. CASE \/ RouteRequestRaises \/ LookupFindsNothing
           \/ LookupThenRefresh \/ LookupThenDecide
  BY <1>3, FreshFrame
     DEF RouteRequestRaises, LookupFindsNothing, LookupThenRefresh, LookupThenDecide,
         Decide, fleetVars
<1>4. CASE Ask
  <2>1. PICK e \in Url : e = endpoints[asking]
    BY <1>4 DEF IInv, HandlerInv, Ask
  <2>2. /\ pc = "ask" /\ fresh' = fresh \union {e} /\ answer' = Registered(e)
        /\ UNCHANGED <<registered, bridge, endpoints, asking>>
    BY <1>4, <2>1 DEF Ask, fleetVars
  <2>3. \A u : Registered(u)' = Registered(u)
    BY <2>2 DEF Registered
  <2>4. KnownIds(bridge)' = KnownIds(bridge)
    BY <2>2 DEF KnownIds
  <2>5. fresh' \subseteq Url
    BY <2>1, <2>2 DEF FreshInv
  <2>6. ASSUME NEW u \in fresh', registered[u] # 0, u # e
        PROVE  Registered(u) \in KnownIds(bridge)
    BY <2>2, <2>6 DEF FreshInv
  <2>7. \A u \in fresh' :
            registered'[u] # 0 /\ ~(pc' = "write" /\ endpoints'[asking'] = u) =>
                Registered(u)' \in KnownIds(bridge)'
    <3>1. pc' = "write" /\ endpoints'[asking'] = e /\ registered' = registered
      BY <1>4, <2>1, <2>2 DEF Ask
    <3>. QED
      BY <2>3, <2>4, <2>6, <3>1
  <2>8. answer' = Registered(endpoints[asking])'
    BY <2>1, <2>2 DEF Registered
  <2>. QED
    BY <2>5, <2>7, <2>8 DEF FreshInv
<1>5. CASE Write
  <2>1. PICK e \in Url : e = endpoints[asking]
    BY <1>5 DEF IInv, HandlerInv, Write
  <2>2. /\ pc = "write" /\ pc' # "write"
        /\ UNCHANGED <<fresh, registered>>
        /\ bridge' = Put(bridge, answer, e)
    BY <1>5, <2>1 DEF Write, Continue, AskAbout, Decide, fleetVars
  <2>3. answer \in Id \union {NoId}
    BY <2>1, <2>2 DEF IInv, HandlerInv, AnswerInv
  <2>4. KnownIds(bridge') = KnownIds(bridge) \union {answer}
    BY <2>1, <2>2, <2>3, PutProperties DEF IInv, BridgeInv, BridgeTypeOK
  <2>5. \A u : Registered(u)' = Registered(u)
    BY <2>2 DEF Registered
  <2>6. KnownIds(bridge)' = KnownIds(bridge')
    BY DEF KnownIds
  <2>. QED
    BY <2>1, <2>2, <2>4, <2>5, <2>6 DEF FreshInv
<1>6. CASE Environment
  <2>1. CASE fresh' = {}
    BY <2>1 DEF FreshInv
  <2>2. CASE CacheChange /\ UNCHANGED fresh
    BY <1>6, <2>2, FreshFrame DEF Environment, CacheChange, Admit, Evict, handlerVars
  <2>. QED
    BY <1>6, <2>1, <2>2 DEF Environment
<1>. QED
  BY <1>1, <1>2, <1>3, <1>4, <1>5, <1>6 DEF Next, Handler

LEMMA FreshInvariance == Spec => [](IInv /\ FreshInv)
<1>1. Init => FreshInv
  BY DEF Init, FreshInv
<1>. QED
  BY Invariance, <1>1, FreshStep, PTL DEF Spec

\* The bridge is a dict that never maps an id to another engine's URL, and the
\* handler keeps its types.
THEOREM TypeCorrect == Spec => []TypeOK
<1>1. IInv /\ FreshInv => TypeOK
  <2>1. SUFFICES ASSUME IInv, FreshInv PROVE TypeOK
    OBVIOUS
  <2>2. \A n \in DOMAIN bridge : bridge[n] \in Entry /\ n \in Nat
    BY <2>1 DEF IInv, BridgeInv, BridgeTypeOK
  <2>3. \A n \in DOMAIN bridge : \A p \in 1..(n-1) : bridge[p].id # bridge[n].id
    <3>1. ASSUME NEW n \in DOMAIN bridge, NEW p \in 1..(n-1),
                 bridge[p].id = bridge[n].id
          PROVE  FALSE
      <4>1. bridge \in Seq(Entry)
        BY <2>1 DEF IInv, BridgeInv, BridgeTypeOK
      <4>2. p \in DOMAIN bridge /\ p # n
        BY <3>1, <4>1
      <4>. QED
        BY <2>1, <3>1, <4>2 DEF IInv, BridgeInv, BridgeTypeOK
    <3>. QED
      BY <3>1
  <2>. QED
    BY <2>1, <2>2, <2>3
       DEF TypeOK, Entry, IInv, FleetInv, BridgeInv, KnownAreLearned, HandlerInv, FreshInv
<1>. QED
  BY <1>1, FreshInvariance, PTL

LEMMA FreshAreExact == ASSUME IInv, FreshInv PROVE AskedIsExact
<1>1. ASSUME IInv, FreshInv, NEW u \in fresh, registered[u] # 0,
             ~(pc = "write" /\ endpoints[asking] = u)
      PROVE  u \in MappedUrls(bridge) /\ IdOf(bridge, u) = Registered(u)
  <2>. DEFINE r == Registered(u)
  <2>1. u \in Url /\ registered[u] \in Nat
    BY <1>1 DEF FreshInv, IInv, FleetInv, FleetTypeOK
  <2>2. r \in Id /\ r.url = u /\ r.nth = registered[u] /\ r # NoId
    BY <1>1, <2>1, FleetAssumption DEF Registered, Id, NoId
  <2>3. r \in KnownIds(bridge)
    BY <1>1 DEF FreshInv
  <2>4. bridge \in Seq(Entry)
    BY <1>1 DEF IInv, BridgeInv, BridgeTypeOK
  <2>5. \A n \in DOMAIN bridge : bridge[n].id # NoId =>
            bridge[n].url = bridge[n].id.url
    BY <1>1 DEF IInv, BridgeInv, KnownAreLearned
  <2>6. \A n \in DOMAIN bridge :
            bridge[n].url = r.url /\ bridge[n].id # NoId => bridge[n].id.nth <= r.nth
    BY <1>1, <2>2 DEF IInv, BridgeInv, KnownAreLearned, Learned
  <2>7. \A p, q \in DOMAIN bridge :
            /\ p < q /\ bridge[p].url = bridge[q].url
            /\ NoId \notin {bridge[p].id, bridge[q].id}
            => bridge[p].id.nth < bridge[q].id.nth
    BY <1>1 DEF IInv, BridgeInv, NewestIdIsLast
  <2>8. \A p, q \in DOMAIN bridge :
            p < q /\ bridge[p].url = bridge[q].url /\ bridge[q].id = NoId =>
                bridge[p].id # r
    BY <1>1, <2>2 DEF IInv, BridgeInv, NoneBehindRetired, Retired
  <2>. HIDE DEF r
  <2>9. r.url \in MappedUrls(bridge) /\ IdOf(bridge, r.url) = r
    BY <2>2, <2>3, <2>4, <2>5, <2>6, <2>7, <2>8, LiveIsLast
  <2>. QED
    BY <2>2, <2>9 DEF r
<1>. QED
  BY <1>1 DEF AskedIsExact

\* The residual window ends with the first question: until the fleet next
\* changes, a registered engine that was asked about is scored by its own id.
THEOREM AskedExact == Spec => []AskedIsExact
  BY FreshAreExact, FreshInvariance, PTL
-----------------------------------------------------------------------------
(* Why a refresh is repeated.  All unregistered engines are answered with  *)
(* one id, so of those asked about the bridge keeps one at the least.      *)

Unregistered(u) == u \in fresh /\ registered[u] = 0

SharedPlaceInv ==
    /\ pc = "write" /\ endpoints[asking] \notin fresh => fresh = {}
    /\ \A u \in fresh :
           Unregistered(u) /\ ~(pc = "write" /\ endpoints[asking] = u) =>
               \E n \in DOMAIN bridge :
                   bridge[n].id = NoId /\ Unregistered(bridge[n].url)

LEMMA SharedPlaceFrame ==
    ASSUME SharedPlaceInv, UNCHANGED <<bridge, fresh, registered>>,
           \/ pc # "write" /\ pc' # "write"
           \/ UNCHANGED <<pc, endpoints, asking>>
    PROVE  SharedPlaceInv'
  BY DEF SharedPlaceInv, Unregistered

LEMMA SharedPlaceStep ==
    ASSUME IInv, FreshInv, SharedPlaceInv, [Next]_vars
    PROVE  SharedPlaceInv'
<1>1. CASE UNCHANGED vars
  BY <1>1, SharedPlaceFrame DEF vars, handlerVars, fleetVars
<1>2. ASSUME NEW list \in EndpointLists, Arrive(list) PROVE SharedPlaceInv'
  BY <1>2, SharedPlaceFrame DEF Arrive, fleetVars
<1>3. CASE \/ RouteRequestRaises \/ LookupFindsNothing
           \/ LookupThenRefresh \/ LookupThenDecide
  BY <1>3, SharedPlaceFrame
     DEF RouteRequestRaises, LookupFindsNothing, LookupThenRefresh, LookupThenDecide,
         Decide, fleetVars
<1>4. CASE Ask
  <2>1. /\ pc = "ask" /\ pc' = "write" /\ fresh' = fresh \union {endpoints[asking]}
        /\ UNCHANGED <<registered, bridge, endpoints, asking>>
    BY <1>4 DEF Ask, fleetVars
  <2>. QED
    BY <2>1 DEF SharedPlaceInv, Unregistered
<1>5. CASE Write
  <2>1. PICK e \in Url : e = endpoints[asking]
    BY <1>5 DEF IInv, HandlerInv, Write
  <2>2. /\ pc = "write" /\ pc' # "write"
        /\ UNCHANGED <<fresh, registered>>
        /\ bridge' = Put(bridge, answer, e)
    BY <1>5, <2>1 DEF Write, Continue, AskAbout, Decide, fleetVars
  <2>3. SUFFICES ASSUME NEW u \in fresh, Unregistered(u)
                 PROVE  \E n \in DOMAIN bridge' :
                            bridge'[n].id = NoId /\ Unregistered(bridge'[n].url)
    BY <2>2 DEF SharedPlaceInv, Unregistered
  <2>4. e \in fresh /\ answer = Registered(e)
    BY <2>1, <2>2, <2>3 DEF SharedPlaceInv, FreshInv
  <2>5. bridge \in Seq(Entry) /\ answer \in Id \union {NoId}
    BY <2>1, <2>2 DEF IInv, BridgeInv, BridgeTypeOK, HandlerInv, AnswerInv
  <2>6. /\ bridge' \in Seq(Entry)
        /\ KnownIds(bridge') = KnownIds(bridge) \union {answer}
        /\ \A n \in DOMAIN bridge :
               /\ n \in DOMAIN bridge'
               /\ bridge'[n] = IF bridge[n].id = answer THEN [id |-> answer, url |-> e]
                               ELSE bridge[n]
        /\ \A n \in DOMAIN bridge' \ DOMAIN bridge :
               bridge'[n] = [id |-> answer, url |-> e]
    BY <2>1, <2>2, <2>5, PutProperties
  <2>7. CASE registered[e] = 0
    <3>1. answer = NoId /\ Unregistered(e)
      BY <2>4, <2>7 DEF Registered, Unregistered
    <3>2. PICK n \in DOMAIN bridge' : bridge'[n].id = NoId
      BY <2>6, <3>1 DEF KnownIds
    <3>3. bridge'[n].url = e
      BY <2>6, <3>1, <3>2
    <3>. QED
      BY <3>1, <3>2, <3>3
  <2>8. CASE registered[e] # 0
    <3>1. answer # NoId /\ u # e
      BY <2>1, <2>3, <2>4, <2>8, FleetAssumption DEF Registered, NoId, Unregistered
    <3>2. PICK n \in DOMAIN bridge : bridge[n].id = NoId /\ Unregistered(bridge[n].url)
      BY <2>1, <2>3, <3>1 DEF SharedPlaceInv
    <3>. QED
      BY <2>6, <3>1, <3>2
  <2>. QED
    BY <2>7, <2>8
<1>6. CASE Environment
  <2>1. CASE fresh' = {}
    BY <2>1 DEF SharedPlaceInv
  <2>2. CASE CacheChange /\ UNCHANGED fresh
    BY <1>6, <2>2, SharedPlaceFrame DEF Environment, CacheChange, Admit, Evict, handlerVars
  <2>. QED
    BY <1>6, <2>1, <2>2 DEF Environment
<1>. QED
  BY <1>1, <1>2, <1>3, <1>4, <1>5, <1>6 DEF Next, Handler

LEMMA SharedPlaceInvariance == Spec => [](IInv /\ FreshInv /\ SharedPlaceInv)
<1>1. Init => SharedPlaceInv
  BY DEF Init, SharedPlaceInv
<1>. QED
  BY FreshInvariance, <1>1, SharedPlaceStep, PTL DEF Spec

\* A refresh that the fleet gives no cause for is for a holder that no endpoint
\* is registered as, or for an unregistered endpoint whose place another has.
THEOREM RefreshCaused == Spec => RefreshHasCause
<1>1. ASSUME IInv, FreshInv, SharedPlaceInv, [Next]_vars, RefreshesAgain,
             named \ {Registered(u) : u \in Range(endpoints)} = {}
      PROVE  \E u \in Range(endpoints), v \in fresh :
                 u # v /\ registered[u] = 0 /\ registered[v] = 0
  <2>1. pc = "lookup" /\ pc' = "ask" /\ Range(endpoints) \subseteq fresh
    BY <1>1 DEF RefreshesAgain
  <2>2. Stale(bridge, named)
    BY <1>1, <2>1 DEF Next, Arrive, Handler, RouteRequestRaises, LookupFindsNothing,
       LookupThenRefresh, LookupThenDecide, Decide, Ask, Write, Environment, handlerVars, vars
  <2>3. endpoints \in Seq(Url)
    BY <1>1, <2>1 DEF IInv, HandlerInv
  <2>4. ASSUME NEW i \in named PROVE i \in KnownIds(bridge)
    <3>1. PICK u \in Range(endpoints) : i = Registered(u)
      BY <1>1
    <3>2. i # NoId
      BY <1>1, FleetAssumption DEF IInv, FleetInv, FleetTypeOK, Id, NoId
    <3>3. registered[u] # 0
      BY <3>1, <3>2 DEF Registered
    <3>. QED
      BY <1>1, <2>1, <3>1, <3>3 DEF FreshInv
  <2>5. PICK k \in DOMAIN endpoints : endpoints[k] \notin MappedUrls(bridge)
    BY <2>2, <2>4 DEF Stale
  <2>. DEFINE u == endpoints[k]
  <2>6. u \in Range(endpoints) /\ u \in fresh
    BY <2>1, <2>5 DEF Range
  <2>7. registered[u] = 0
    BY <1>1, <2>1, <2>5, <2>6, FreshAreExact DEF AskedIsExact
  <2>8. PICK n \in DOMAIN bridge : bridge[n].id = NoId /\ Unregistered(bridge[n].url)
    BY <1>1, <2>1, <2>6, <2>7 DEF SharedPlaceInv, Unregistered
  <2>9. bridge[n].url # u
    BY <2>5, <2>8 DEF MappedUrls
  <2>. QED
    BY <2>6, <2>7, <2>8, <2>9 DEF Unregistered
<1>2. IInv /\ FreshInv /\ SharedPlaceInv /\ [Next]_vars =>
          [RefreshesAgain =>
              \/ named \ {Registered(u) : u \in Range(endpoints)} # {}
              \/ \E u \in Range(endpoints), v \in fresh :
                     u # v /\ registered[u] = 0 /\ registered[v] = 0]_vars
  BY <1>1
<1>. QED
  BY <1>2, SharedPlaceInvariance, PTL DEF Spec, RefreshHasCause
=============================================================================
