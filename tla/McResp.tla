------------------------------- MODULE McResp -------------------------------
(***************************************************************************)
(* Response objects of a memcached worker thread                           *)
(* (apps/memcached-1.6.19/memcached.c): resp_allocate hands out slots of   *)
(* bundles, resp_free takes them back.  A thread keeps a doubly linked     *)
(* list of bundles that have room, allocates only from its head, and       *)
(* returns an empty bundle to the read-buffer cache.  Connections chain    *)
(* their responses and finish them in order; the connections of one        *)
(* thread interleave.  The cache (do_cache_alloc, external) gives out at   *)
(* most RsBundles buffers, which is its memory limit.                      *)
(***************************************************************************)
EXTENDS Integers, Sequences, FiniteSets

CONSTANTS RsConns,
          RsPerBundle,  \* MAX_RESP_PER_BUNDLE
          RsBundles,    \* buffers the cache may give out
          RsDepth       \* bound: responses a connection has pending

VARIABLES
  rsB,       \* mc_resp_bundle: live, count (refcount), next, prev (0: NULL), check, used
  rsOpen,    \* th->open_bundle
  rsChain,   \* resp_head ... resp of each connection: slots <<bundle, index>>
  rsBroken   \* an assert of the two functions failed

rsvars == <<rsB, rsOpen, rsChain, rsBroken>>

Bundles == 1..RsBundles
Slots == 0..(RsPerBundle - 1)
Cached == [live |-> FALSE, count |-> 0, next |-> 0, prev |-> 0, check |-> 0, used |-> {}]

RespInit ==
  /\ rsB = [b \in Bundles |-> Cached] /\ rsOpen = 0
  /\ rsChain = [c \in RsConns |-> <<>>] /\ rsBroken = FALSE

\* The first free slot, searched from next_check on.
FreeSlot(b) ==
  LET offsets == {i \in Slots : (i + rsB[b].check) % RsPerBundle \notin rsB[b].used}
  IN  {(i + rsB[b].check) % RsPerBundle : i \in {k \in offsets : \A j \in offsets : k <= j}}

\* resp_start: the response becomes the last of the connection's chain.
Give(c, b, x) == rsChain' = [rsChain EXCEPT ![c] = Append(@, <<b, x>>)]

\* Fault variant of TakeSlot: the new head keeps its link to the full bundle.
TakeSlotKeepsPrev(c, x) ==
  LET b == rsOpen
      taken == [rsB EXCEPT ![b].count = @ + 1, ![b].used = @ \cup {x}, ![b].check = x + 1]
      n == rsB[b].next
  IN  /\ IF taken[b].count # RsPerBundle
         THEN rsB' = taken /\ UNCHANGED <<rsOpen, rsBroken>>
         ELSE /\ rsBroken' = (rsB[b].prev # 0)
              /\ rsOpen' = n
              /\ rsB' = IF n = 0 THEN taken ELSE [taken EXCEPT ![b].next = 0]
      /\ Give(c, b, x)

\* A slot of the head; a bundle that is now full leaves the list.
TakeSlot(c, x) ==
  LET b == rsOpen
      taken == [rsB EXCEPT ![b].count = @ + 1, ![b].used = @ \cup {x}, ![b].check = x + 1]
      n == rsB[b].next
  IN  /\ IF taken[b].count # RsPerBundle
         THEN rsB' = taken /\ UNCHANGED <<rsOpen, rsBroken>>
         ELSE /\ rsBroken' = (rsB[b].prev # 0)
              /\ rsOpen' = n
              /\ rsB' = IF n = 0 THEN taken ELSE [taken EXCEPT ![n].prev = 0, ![b].next = 0]
      /\ Give(c, b, x)

\* No room: a new bundle becomes the list, and its first slot is given out.
NewBundle(c) ==
  LET b == CHOOSE b \in Bundles : ~rsB[b].live
  IN  /\ \E b2 \in Bundles : ~rsB[b2].live
      /\ rsBroken' = (rsOpen # 0)
      /\ rsB' = [rsB EXCEPT ![b] = [Cached EXCEPT !.live = TRUE, !.count = 1, !.check = 1,
                                                  !.used = {0}]]
      /\ rsOpen' = b /\ Give(c, b, 0)

\* resp_allocate, for a request of connection c.  At the memory limit it
\* returns NULL and nothing changes.
Allocate(c) ==
  /\ ~rsBroken /\ Len(rsChain[c]) < RsDepth
  /\ LET free == IF rsOpen = 0 THEN {} ELSE FreeSlot(rsOpen)
     IN  \/ \E x \in free : TakeSlot(c, x)
         \/ free = {} /\ NewBundle(c)

\* The bundle is in the list: it is the head or has a neighbour.
Linked(b) == b = rsOpen \/ rsB[b].prev # 0 \/ rsB[b].next # 0

\* The only bundle of the list is held when it gets empty.
LastBundle(b) == b = rsOpen /\ rsB[b].next = 0

\* Unlinked and given back to the cache.
Drop(b) ==
  LET n == rsB[b].next
      p == rsB[b].prev
  IN  /\ rsOpen' = IF rsOpen = b THEN n ELSE rsOpen
      /\ rsB' = [k \in Bundles |->
           IF k = b THEN Cached
           ELSE [rsB[k] EXCEPT !.prev = IF k = n THEN p ELSE @,
                               !.next = IF k = p THEN n ELSE @]]

\* A bundle that was full has room again: it becomes the head.
Relink(b, freed) ==
  IF Linked(b) THEN rsB' = freed /\ UNCHANGED rsOpen
  ELSE /\ rsOpen' = b
       /\ rsB' = [k \in Bundles |->
            IF k = b THEN [freed[b] EXCEPT !.prev = 0, !.next = rsOpen]
            ELSE IF k = rsOpen THEN [freed[k] EXCEPT !.prev = b] ELSE freed[k]]

\* resp_finish of the connection's first response (sent, skipped, or culled
\* when the connection is closed), which ends in resp_free.
Finish(c) ==
  /\ ~rsBroken /\ rsChain[c] # <<>>
  /\ LET b == rsChain[c][1][1]
         freed == [rsB EXCEPT ![b].count = @ - 1, ![b].used = @ \ {rsChain[c][1][2]}]
     IN  IF freed[b].count # 0
         THEN Relink(b, freed) /\ UNCHANGED rsBroken
         ELSE IF LastBundle(b)
         THEN /\ rsBroken' = (rsB[b].prev # 0)
              /\ rsB' = [freed EXCEPT ![b].check = 0] /\ UNCHANGED rsOpen
         ELSE rsBroken' = ~Linked(b) /\ Drop(b)
  /\ rsChain' = [rsChain EXCEPT ![c] = Tail(@)]

RespNext == \E c \in RsConns : Allocate(c) \/ Finish(c)

RespSpec == RespInit /\ [][RespNext]_rsvars

----------------------------------------------------------------------------
Owned == {p \in RsConns \X (1..RsDepth) : p[2] <= Len(rsChain[p[1]])}

(* None of the assertions of resp_allocate and resp_free fails: only the    *)
(* head fills up, an allocation that finds no room finds no list, and a     *)
(* bundle that gets empty is in the list.                                   *)
AssertsHold == ~rsBroken

(* No two responses share an object, and an object in use is in a bundle    *)
(* that has not been given back and that counts it.                         *)
OneOwner ==
  /\ \A p, q \in Owned : p # q => rsChain[p[1]][p[2]] # rsChain[q[1]][q[2]]
  /\ \A b \in Bundles :
       /\ rsB[b].count = Cardinality(rsB[b].used)
       /\ rsB[b].used = {rsChain[p[1]][p[2]][2] : p \in {q \in Owned : rsChain[q[1]][q[2]][1] = b}}
       /\ rsB[b].used # {} => rsB[b].live

\* Bundles reached from the head in at most RsBundles steps.
Reached ==
  LET step[n \in 0..RsBundles] ==
        IF n = 0 THEN {rsOpen} \ {0}
        ELSE step[n - 1] \cup ({rsB[b].next : b \in step[n - 1]} \ {0})
  IN  step[RsBundles]

(* The list loses no memory: the bundles it reaches are exactly the live    *)
(* ones with room, and their links agree in both directions.                *)
ListHoldsTheRoom ==
  /\ Reached = {b \in Bundles : rsB[b].live /\ rsB[b].count < RsPerBundle}
  /\ \A b \in Reached : rsB[b].next # 0 => rsB[rsB[b].next].prev = b

(* The thread hoards at most one bundle that nobody uses.                   *)
OneIdleBundle == Cardinality({b \in Bundles : rsB[b].live /\ rsB[b].count = 0}) <= 1

(* memcached.c, resp_allocate, resp_free: no response object or bundle is   *)
(* leaked, freed early or shared, and the assertions on them hold.          *)
ResponsesKept == AssertsHold /\ OneOwner /\ ListHoldsTheRoom /\ OneIdleBundle

=============================================================================
