------------------------------- MODULE McStore -------------------------------
(***************************************************************************)
(* The storage commands of memcached (apps/memcached-1.6.19/memcached.c):  *)
(* do_store_item and do_add_delta, with the reference counts and the CAS   *)
(* identifiers of items.  Both run under the item lock, so each is one     *)
(* step; between them other connections may hold a reference to the item   *)
(* while they transmit it.  One key is modelled: the lock is per key and   *)
(* the CAS counter is the only thing keys share.                           *)
(*                                                                         *)
(* A value is a sequence of parts: a number, or Text.  items.c (external)  *)
(* is modelled from its use: do_item_get takes a reference, do_item_remove *)
(* drops one and frees at zero, do_item_link takes one and gives the item  *)
(* the next CAS identifier.                                                *)
(***************************************************************************)
EXTENDS Integers, Sequences, FiniteSetsExt

CONSTANTS StClients,
          StItems,      \* items the memory limit allows
          StMaxCas,     \* bound of the CAS counter
          StRefLimit,   \* IT_REFCOUNT_LIMIT
          StNum,        \* the number a client sets
          StWrap,       \* 2^64: increments wrap at it
          StDeltas      \* amounts of incr and decr

\* What the module assumes of its constants.
StoreAssumption ==
  /\ IsFiniteSet(StClients) /\ StItems \in Nat /\ StMaxCas \in Nat /\ StRefLimit \in Nat
  /\ StNum \in Nat /\ StWrap \in Nat \ {0} /\ StDeltas \subseteq Nat

VARIABLES
  stIt,     \* items: refs, linked, val, cas, size, stale
  stHead,   \* the item linked under the key; 0: none
  stCas,    \* the last CAS identifier given out
  stHold,   \* connection: {} or the item it transmits, with the value it read
  stKnown,  \* what a client was last told: cas (0: nothing) and value
  stOver    \* the last overwriting cas: the value replaced and the one the client knew

stvars == <<stIt, stHead, stCas, stHold, stKnown, stOver>>

Text == -1
Ids == 1..StItems
FreeItem == [refs |-> 0, linked |-> FALSE, val |-> <<>>, cas |-> 0, size |-> 0, stale |-> FALSE]

StoreInit ==
  /\ stIt = [i \in Ids |-> FreeItem] /\ stHead = 0 /\ stCas = 0
  /\ stHold = [c \in StClients |-> {}]
  /\ stKnown = [c \in StClients |-> [cas |-> 0, val |-> <<>>]]
  /\ stOver = <<<<>>, <<>>>>

Digits(n) == IF n \in 0..9 \/ n = Text THEN 1 ELSE 2
Size(v) == IF Len(v) = 1 THEN Digits(v[1]) ELSE Digits(v[1]) + Digits(v[2])
Numeric(v) == Len(v) = 1 /\ v[1] # Text

\* items.c: on an item table T.
Ref(T, i) == [T EXCEPT ![i].refs = @ + 1]
Unref(T, i) == IF T[i].refs = 1 THEN [T EXCEPT ![i] = FreeItem] ELSE [T EXCEPT ![i].refs = @ - 1]
Link(T, i, cas) == [T EXCEPT ![i].refs = @ + 1, ![i].linked = TRUE, ![i].cas = cas]
Unlink(T, i) == Unref([T EXCEPT ![i].linked = FALSE], i)
Unused(T) == {i \in Ids : T[i].refs = 0}
Alloc(T, v, cas) == [T EXCEPT ![Min(Unused(T))] =
  [FreeItem EXCEPT !.refs = 1, !.val = v, !.cas = cas, !.size = Size(v)]]

CasTest(cas, old, stale) ==
  IF cas = 0 THEN "none" ELSE IF cas = old THEN "match"
  ELSE IF stale /\ cas < old THEN "stale" ELSE "badval"

\* _store_item_copy_data
Joined(comm, old, add) == IF comm = "append" THEN old \o add ELSE add \o old

\* The client learns the CAS identifier and with it the value it names.
Told(c, cas, v) == stKnown' = [stKnown EXCEPT ![c] = [cas |-> cas, val |-> v]]

\* item_replace, then the references of the two functions are dropped.
Replace(T, o, s) == Link(Unlink(T, o), s, stCas + 1)

\* do_store_item with an item in place; i is the client's item, o the old one.
StoreOver(c, comm, T, i, o, cas, stale) ==
  LET held == Ref(T, o)
      test == CasTest(cas, T[o].cas, stale)
      Refuse == stIt' = Unref(Unref(held, o), i) /\ UNCHANGED <<stHead, stCas, stKnown, stOver>>
      Store(S, s) ==
        /\ stIt' = Unref(Unref(Replace(S, o, s), o), i)
        /\ stHead' = s /\ stCas' = stCas + 1 /\ Told(c, stCas + 1, S[s].val)
  IN  CASE comm = "add" -> Refuse
        [] comm \in {"set", "replace"} -> Store(held, i) /\ UNCHANGED stOver
        [] comm = "cas" ->
             IF test = "match" THEN Store(held, i) /\ stOver' = <<T[o].val, stKnown[c].val>>
             ELSE IF test = "stale"
             THEN Store([held EXCEPT ![i].stale = TRUE], i) /\ UNCHANGED stOver
             ELSE Refuse

\* append and prepend build a third item, with a reference of its own.
StoreJoined(c, comm, T, i, o, cas) ==
  LET held == Ref(T, o)
      new == Alloc(held, Joined(comm, T[o].val, T[i].val), 0)
      n == Min(Unused(held))
  IN  IF CasTest(cas, T[o].cas, FALSE) \notin {"none", "match"} \/ Unused(held) = {}
      THEN stIt' = Unref(Unref(held, o), i) /\ UNCHANGED <<stHead, stCas, stKnown>>
      ELSE /\ stIt' = Unref(Unref(Unref(Replace(new, o, n), o), n), i)
           /\ stHead' = n /\ stCas' = stCas + 1 /\ Told(c, stCas + 1, new[n].val)

\* do_store_item with no item in place: add and set store.
StoreNew(c, comm, T, i) ==
  IF comm \in {"add", "set"}
  THEN /\ stIt' = Unref(Link(T, i, stCas + 1), i)
       /\ stHead' = i /\ stCas' = stCas + 1 /\ Told(c, stCas + 1, T[i].val)
  ELSE stIt' = Unref(T, i) /\ UNCHANGED <<stHead, stCas, stKnown>>

\* do_store_item for the item a client sent, which the caller allocated and
\* releases afterwards.
StoreItem(c, comm, v, cas, stale) ==
  /\ stCas < StMaxCas /\ Unused(stIt) # {}
  /\ LET T == Alloc(stIt, v, cas)
         i == Min(Unused(stIt))
     IN  \/ stHead = 0 /\ StoreNew(c, comm, T, i) /\ UNCHANGED stOver
         \/ stHead # 0 /\ comm \in {"append", "prepend"} /\ Len(stIt[stHead].val) = 1
            /\ StoreJoined(c, comm, T, i, stHead, cas) /\ UNCHANGED stOver
         \/ stHead # 0 /\ comm \notin {"append", "prepend"}
            /\ StoreOver(c, comm, T, i, stHead, cas, stale)
  /\ UNCHANGED stHold

\* The number a delta leaves: increments wrap, decrements stop at zero.
Added(n, incr, d) == IF incr THEN (n + d) % StWrap ELSE IF d > n THEN 0 ELSE n - d

\* Fault variant of InPlace: others may be reading the item.
InPlaceShared(it, v) == Size(v) <= it.size

\* Only the table and this command refer to the item, and the digits fit.
InPlace(it, v) == Size(v) <= it.size /\ it.refs = 2

Rewrite(T, i, v) == [T EXCEPT ![i].val = v, ![i].cas = stCas + 1]

\* do_add_delta, with the identifier the client asks to match (0: none).  No
\* item, no number, another identifier or no memory: only an error is returned.
AddDelta(c, incr, d, cas) ==
  /\ stHead # 0 /\ stCas < StMaxCas
  /\ Numeric(stIt[stHead].val) /\ cas \in {0, stIt[stHead].cas}
  /\ LET o == stHead
         held == Ref(stIt, o)
         v == <<Added(stIt[o].val[1], incr, d)>>
         n == Min(Unused(held))
         new == Replace(Alloc(held, v, 0), o, n)
     IN  \/ /\ InPlace(held[o], v)
            /\ stIt' = Unref(Rewrite(held, o, v), o) /\ stCas' = stCas + 1
            /\ Told(c, Rewrite(held, o, v)[o].cas, v) /\ UNCHANGED stHead
         \/ /\ ~InPlace(held[o], v) /\ Unused(held) # {}
            /\ stIt' = Unref(Unref([new EXCEPT ![o].cas = new[n].cas], n), o)
            /\ stHead' = n /\ stCas' = stCas + 1 /\ Told(c, stCas + 1, v)
  /\ UNCHANGED <<stHold, stOver>>

\* limited_get: the response refers to the item until it has been sent.  An
\* item with too many references is not given out.
Get(c) ==
  /\ stHead # 0 /\ stHold[c] = {} /\ Ref(stIt, stHead)[stHead].refs <= StRefLimit
  /\ stIt' = Ref(stIt, stHead)
  /\ stHold' = [stHold EXCEPT ![c] = {[item |-> stHead, val |-> stIt[stHead].val]}]
  /\ Told(c, stIt[stHead].cas, stIt[stHead].val)
  /\ UNCHANGED <<stHead, stCas, stOver>>

\* resp_finish
Sent(c) ==
  /\ \E h \in stHold[c] : stIt' = Unref(stIt, h.item)
  /\ stHold' = [stHold EXCEPT ![c] = {}]
  /\ UNCHANGED <<stHead, stCas, stKnown, stOver>>

\* The item is deleted, evicted or expires.
Evict ==
  /\ stHead # 0
  /\ stIt' = Unlink(stIt, stHead) /\ stHead' = 0
  /\ UNCHANGED <<stCas, stHold, stKnown, stOver>>

Comms == {"add", "set", "replace", "cas", "append", "prepend"}

StoreNext ==
  \/ Evict
  \/ \E c \in StClients :
       \/ Get(c) \/ Sent(c)
       \/ \E comm \in Comms, cas \in {0, stKnown[c].cas}, stale \in BOOLEAN :
            /\ comm = "cas" => cas # 0
            /\ stale => comm = "cas"
            /\ StoreItem(c, comm, IF comm \in {"append", "prepend"} THEN <<Text>> ELSE <<StNum>>,
                         cas, stale)
       \/ \E incr \in BOOLEAN, d \in StDeltas, cas \in {0, stKnown[c].cas} :
            AddDelta(c, incr, d, cas)

StoreSpec == StoreInit /\ [][StoreNext]_stvars

----------------------------------------------------------------------------
(* No command leaks or loses a reference: an item's count is the link of    *)
(* the table plus the responses being sent, at most one item is linked, and *)
(* what nobody refers to is free again.                                     *)
RefsCounted ==
  \A i \in Ids :
    LET readers == {c \in StClients : \E h \in stHold[c] : h.item = i}
    IN  /\ stIt[i].linked <=> (stHead = i)
        /\ stIt[i].refs = Cardinality(readers) + (IF stIt[i].linked THEN 1 ELSE 0)

(* A CAS identifier names one value for ever: whoever was told the          *)
(* identifier the item now has was told the value it now has, and two       *)
(* clients with the same identifier know the same value.                    *)
CasUnique ==
  \A c \in StClients :
    /\ stHead # 0 /\ stKnown[c].cas = stIt[stHead].cas => stKnown[c].val = stIt[stHead].val
    /\ \A d \in StClients : stKnown[c].cas = stKnown[d].cas => stKnown[c].val = stKnown[d].val

(* A value does not change under a connection that is transmitting it: an   *)
(* increment rewrites an item in place only when nobody else refers to it.  *)
ReadersStable ==
  \A c \in StClients : \A h \in stHold[c] : stIt[h.item].val = h.val

(* A cas that succeeds overwrites exactly the value its client knew, never  *)
(* an update made in between.                                               *)
NoLostUpdate == stOver[1] = stOver[2]

(* memcached.c: a CAS identifier names one value for ever, a cas overwrites *)
(* exactly the value its client knew, and a value does not change under a   *)
(* connection that is transmitting it.                                      *)
CasNamesOneValue == CasUnique /\ NoLostUpdate /\ ReadersStable

(* memcached.c: no command leaks an item, and its identifiers say what it   *)
(* holds.                                                                   *)
ItemsKept == RefsCounted /\ CasNamesOneValue

=============================================================================
