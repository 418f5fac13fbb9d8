---------------------------- MODULE FleetTheorems ----------------------------
(***************************************************************************)
(* What the proofs about both routers with a bridge rest on: which         *)
(* processes the registry may still name, for any engines and number of    *)
(* restarts, and what writing into the bridge does.                        *)
(***************************************************************************)
EXTENDS Fleet, Bridge, TLAPS

Entry == [id : Id \union {NoId}, url : Url]

\* The registry names this process no more, and never will again.
Retired(i) ==
    /\ registered[i.url] # i.nth
    /\ started[i.url] = i.nth => i.url \notin running

\* The registry has named this process at some time.
Learned(i) ==
    /\ i.nth <= started[i.url]
    /\ IF registered[i.url] = 0 THEN Retired(i) ELSE i.nth <= registered[i.url]

\* The ids that a lookup may name have all been named by the registry.
FleetInv ==
    /\ FleetTypeOK
    /\ \A u \in running : started[u] # 0
    /\ \A i \in named : Learned(i)

\* A step that is not the fleet's leaves its invariant.
LEMMA FleetFrame ==
    ASSUME FleetInv, UNCHANGED fleetVars
    PROVE  FleetInv'
  BY DEF FleetInv, FleetTypeOK, fleetVars, Learned, Retired
-----------------------------------------------------------------------------
(* The fleet.                                                              *)

\* What the registry has named stays so, what is retired stays retired, and no
\* process that was named before is named anew.
Stays(i) ==
    Learned(i) => /\ Learned(i)'
                  /\ Retired(i) => Retired(i)'
                  /\ Registered(i.url)' = i => Registered(i.url) = i

LEMMA FleetStays ==
    ASSUME FleetInv, FleetChange \/ CacheChange, NEW i \in Id
    PROVE  Stays(i)
<1>. DEFINE u == i.url
            n == i.nth
<1>1. u \in Url /\ n \in Nat /\ n # 0 /\ u # 0 /\ i = [url |-> u, nth |-> n]
  BY FleetAssumption DEF Id
<1>2. started[u] \in Nat /\ registered[u] \in Nat /\ registered[u] <= started[u]
  BY <1>1 DEF FleetInv, FleetTypeOK
<1>3. PICK v \in Url : Start(v) \/ Crash(v) \/ Stop(v) \/ Register(v) \/ Admit(v) \/ Evict(v)
  BY DEF FleetChange, CacheChange
<1>4. \/ UNCHANGED <<started[u], registered[u]>> /\ (u \in running' => u \in running)
      \/ started'[u] = started[u] + 1 /\ registered'[u] = registered[u]
      \/ started'[u] = started[u] /\ registered'[u] = 0 /\ u \notin running'
      \/ /\ started'[u] = started[u] /\ registered'[u] = started[u]
         /\ u \in running /\ registered[u] # started[u] /\ running' = running
  BY <1>1, <1>3 DEF Start, Crash, Stop, Register, Admit, Evict, FleetInv, FleetTypeOK
<1>5. /\ Registered(u) = i <=> registered[u] = n
      /\ Registered(u)' = i <=> registered'[u] = n
  BY <1>1 DEF Registered, NoId
<1>. HIDE DEF u, n
<1>. QED
  BY <1>1, <1>2, <1>4, <1>5 DEF Stays, Learned, Retired, u, n

LEMMA FleetStep ==
    ASSUME FleetInv, FleetChange \/ CacheChange
    PROVE  FleetInv'
<1>1. FleetTypeOK'
  <2>1. ASSUME NEW u \in Url, Start(u) PROVE FleetTypeOK'
    <3>1. MaxStarts[u] \in Nat /\ started[u] \in Nat
      BY FleetAssumption DEF FleetInv, FleetTypeOK
    <3>2. /\ started' \in [Url -> Nat]
          /\ \A v \in Url : started[v] <= started'[v] /\ started'[v] <= MaxStarts[v]
      BY <2>1, <3>1, FleetAssumption DEF FleetInv, FleetTypeOK, Start
    <3>3. \A v \in Url : registered'[v] <= started'[v]
      BY <2>1, <3>2 DEF FleetInv, FleetTypeOK, Start
    <3>4. \A i \in named' : i \in Id /\ i.nth <= started'[i.url]
      BY <2>1, <3>2 DEF FleetInv, FleetTypeOK, Start, Id
    <3>. QED
      BY <2>1, <3>2, <3>3, <3>4 DEF FleetInv, FleetTypeOK, Start
  <2>2. ASSUME NEW u \in Url, Crash(u) PROVE FleetTypeOK'
    BY <2>2 DEF FleetInv, FleetTypeOK, Crash, Id
  <2>3. ASSUME NEW u \in Url, Stop(u) PROVE FleetTypeOK'
    BY <2>3 DEF FleetInv, FleetTypeOK, Stop, Id
  <2>4. ASSUME NEW u \in Url, Register(u) PROVE FleetTypeOK'
    BY <2>4 DEF FleetInv, FleetTypeOK, Register, Id
  <2>5. ASSUME NEW u \in Url, Admit(u) PROVE FleetTypeOK'
    <3>1. Current(u) \in Id /\ Current(u).nth <= started[Current(u).url]
      BY <2>5 DEF FleetInv, FleetTypeOK, Admit, Current, Id
    <3>. QED
      BY <2>5, <3>1 DEF FleetInv, FleetTypeOK, Admit
  <2>6. ASSUME NEW u \in Url, Evict(u) PROVE FleetTypeOK'
    BY <2>6 DEF FleetInv, FleetTypeOK, Evict
  <2>. QED
    BY <2>1, <2>2, <2>3, <2>4, <2>5, <2>6 DEF FleetChange, CacheChange
<1>2. \A u \in running' : started'[u] # 0
  BY DEF FleetInv, FleetTypeOK, FleetChange, CacheChange, Start, Crash, Stop, Register, Admit, Evict
<1>3. ASSUME NEW i \in named' PROVE Learned(i)'
  <2>1. CASE i \in named
    BY <2>1, FleetStays DEF FleetInv, FleetTypeOK, Stays
  <2>2. CASE i \notin named
    <3>1. PICK u \in Url : Admit(u) /\ i = Current(u)
      BY <2>2 DEF FleetChange, CacheChange, Start, Crash, Stop, Register, Admit, Evict
    <3>2. /\ i.url = u /\ i.nth = started'[u] /\ registered'[u] = started'[u]
          /\ started'[u] # 0 /\ started'[u] \in Nat
      BY <3>1, <1>1, <1>2 DEF Admit, Current, FleetTypeOK
    <3>. QED
      BY <3>2 DEF Learned
  <2>. QED
    BY <2>1, <2>2
<1>. QED
  BY <1>1, <1>2, <1>3 DEF FleetInv
-----------------------------------------------------------------------------
(* The bridge.                                                             *)

\* A key that is known keeps its place and takes the URL, any other comes last.
LEMMA PutProperties ==
    ASSUME NEW bridge \in Seq(Entry), NEW i \in Id \union {NoId}, NEW u \in Url,
           NEW b, b = Put(bridge, i, u)
    PROVE  /\ b \in Seq(Entry)
           /\ KnownIds(b) = KnownIds(bridge) \union {i}
           /\ \A n \in DOMAIN bridge :
                  /\ n \in DOMAIN b
                  /\ b[n] = IF bridge[n].id = i THEN [id |-> i, url |-> u]
                            ELSE bridge[n]
           /\ \A n \in DOMAIN b \ DOMAIN bridge :
                  /\ i \notin KnownIds(bridge)
                  /\ b[n] = [id |-> i, url |-> u]
                  /\ \A p \in DOMAIN b : p # n => p \in DOMAIN bridge /\ p < n
<1>1. [id |-> i, url |-> u] \in Entry
  BY DEF Entry
<1>2. CASE i \in KnownIds(bridge)
  <2>1. b = [n \in DOMAIN bridge |->
                IF bridge[n].id = i THEN [id |-> i, url |-> u] ELSE bridge[n]]
    BY <1>2 DEF Put
  <2>2. b \in Seq(Entry) /\ DOMAIN b = DOMAIN bridge
    BY <1>1, <2>1
  <2>3. \A n \in DOMAIN bridge : b[n].id = bridge[n].id
    BY <2>1
  <2>4. KnownIds(b) = KnownIds(bridge)
    BY <2>2, <2>3 DEF KnownIds
  <2>. QED
    BY <1>2, <2>1, <2>2, <2>4
<1>3. CASE i \notin KnownIds(bridge)
  <2>1. b = Append(bridge, [id |-> i, url |-> u])
    BY <1>3 DEF Put
  <2>2. /\ b \in Seq(Entry)
        /\ DOMAIN b = 1..(Len(bridge) + 1) /\ DOMAIN bridge = 1..Len(bridge)
        /\ Len(bridge) \in Nat
        /\ b[Len(bridge) + 1] = [id |-> i, url |-> u]
        /\ \A n \in DOMAIN bridge : b[n] = bridge[n]
    BY <1>1, <2>1
  <2>3. \A n \in DOMAIN bridge : bridge[n].id # i
    BY <1>3 DEF KnownIds
  <2>4. KnownIds(b) = KnownIds(bridge) \union {i}
    <3>1. DOMAIN b = DOMAIN bridge \union {Len(bridge) + 1}
      BY <2>2
    <3>. QED
      BY <2>2, <3>1 DEF KnownIds
  <2>. QED
    BY <1>3, <2>2, <2>3, <2>4
<1>. QED
  BY <1>2, <1>3
=============================================================================
