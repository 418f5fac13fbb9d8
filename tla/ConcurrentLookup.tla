-------------------------- MODULE ConcurrentLookup --------------------------
(***************************************************************************)
(* lookup taken apart.  The routers run the controller's reports on a      *)
(* thread and an event loop of their own (KvawareRouter.start_kv_manager)  *)
(* and await lookup on the loop of the requests (query_manager), with no   *)
(* lock on kv_pool: an admit, evict or deregister can fall between any two *)
(* chunks of a walk, and between the test that a key is there and the read *)
(* of its list.  lookup itself has no await, so one walk runs at a time.   *)
(* Reading a list is one step: evict and deregister replace the list, and  *)
(* an append that the iteration sees could as well have come before it.    *)
(* The empty list that admit makes before its append ends a walk just as   *)
(* the absent key does.                                                    *)
(***************************************************************************)
EXTENDS KVController

VARIABLES
    pc,         \* where the walk is
    request,    \* the keys of the prompt's chunks
    chunk,      \* position of the chunk the walk is at
    walk,       \* layout_info and contiguous, as LookupChunk builds them
    ever,       \* history: <<key, instance>> held at some time in this walk
    always      \* history: <<key, instance>> held at all times in this walk

walkVars == <<pc, request, chunk, walk>>
allVars == <<vars, walkVars, ever, always>>

Walking == pc \in {"test", "read"}

HeldNow == {h \in Key \X Instance : HeldBy(h[2], h[1])}

LookupInit ==
    /\ Init
    /\ pc = "idle" /\ request = <<>> /\ chunk = 1 /\ walk = LookupStart
    /\ ever = {} /\ always = {}

\* query_manager(LookupMsg).
Begin(r) ==
    /\ ~Walking
    /\ pc' = "test" /\ request' = r /\ chunk' = 1 /\ walk' = LookupStart
    /\ ever' = HeldNow /\ always' = HeldNow
    /\ UNCHANGED vars

\* A plausible wrong Test, for the mutation run: the key is not tested.
TestNothing ==
    /\ pc = "test"
    /\ pc' = IF chunk > Len(request) THEN "done" ELSE "read"
    /\ UNCHANGED <<vars, request, chunk, walk, ever, always>>

\* The loop is over, or: if key not in self.kv_pool: break.
Test ==
    /\ pc = "test"
    /\ pc' = IF chunk > Len(request) \/ request[chunk] \notin DOMAIN kv_pool
             THEN "done" ELSE "read"
    /\ UNCHANGED <<vars, request, chunk, walk, ever, always>>

\* for meta in self.kv_pool[key]: and the rest of the loop's body.
Read ==
    /\ pc = "read"
    /\ request[chunk] \in DOMAIN kv_pool
    /\ walk' = LookupChunk(walk, kv_pool[request[chunk]], chunk)
    /\ IF walk'.going THEN pc' = "test" /\ chunk' = chunk + 1
                      ELSE pc' = "done" /\ UNCHANGED chunk
    /\ UNCHANGED <<vars, request, ever, always>>

\* The key left the dict after the test: KeyError, and the request fails.
ReadFails ==
    /\ pc = "read"
    /\ request[chunk] \notin DOMAIN kv_pool
    /\ pc' = "raised"
    /\ UNCHANGED <<vars, request, chunk, walk, ever, always>>

\* A report is handled on the other thread.
Report ==
    /\ Next
    /\ ever' = IF Walking THEN ever \union HeldNow' ELSE ever
    /\ always' = IF Walking THEN always \cap HeldNow' ELSE always
    /\ UNCHANGED walkVars

LookupNext ==
    \/ \E r \in Requests : Begin(r)
    \/ Test \/ Read \/ ReadFails
    \/ Report

LookupSpec == LookupInit /\ [][LookupNext]_allVars
-----------------------------------------------------------------------------
Credited(i) == IF i \in DOMAIN walk.credit THEN walk.credit[i].matched ELSE 0

\* No credit without evidence: each chunk an instance is credited with was in
\* its cache at some time during this lookup, whatever was reported meanwhile.
CreditWasHeld ==
    \A i \in Instance : \A j \in 1..Credited(i) : <<request[j], i>> \in ever

\* No loss without cause: a prefix that an instance held all through the lookup
\* is credited in full, whatever the other instances admit or lose meanwhile.
CreditNotMissed ==
    pc = "done" =>
        \A i \in Instance, m \in DOMAIN request :
            (\A j \in 1..m : <<request[j], i>> \in always) => Credited(i) >= m

\* A lookup fails only for a chunk that lost its last holder while the lookup
\* ran: a table that only grows never fails a request.
FailsOnlyOnLoss ==
    pc = "raised" =>
        /\ \A i \in Instance : <<request[chunk], i>> \notin always
        /\ \E i \in Instance : <<request[chunk], i>> \in ever
=============================================================================
