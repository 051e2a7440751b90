--------------------------- MODULE McStoreProofs ---------------------------
(***************************************************************************)
(* Proofs about McStore, for any number of clients and items and any       *)
(* sequence of storage commands.                                           *)
(***************************************************************************)
EXTENDS McStore, FiniteSetTheorems, WellFoundedInduction, TLAPS

Values == Seq(Int)
Item == [refs : Nat, linked : BOOLEAN, val : Values, cas : Nat, size : Nat, stale : BOOLEAN]
Table == [Ids -> Item]
Readers(i) == {c \in StClients : \E h \in stHold[c] : h.item = i}

Types ==
  /\ stIt \in Table /\ stHead \in 0..StItems /\ stCas \in Nat
  /\ stHold \in [StClients -> SUBSET [item : Ids, val : Values]]
  /\ \A c \in StClients : \A g, h \in stHold[c] : g = h
  /\ stKnown \in [StClients -> [cas : Nat, val : Values]]

(* An item has a reference for the link and one for each response that is  *)
(* being sent, and only a free item has none.                              *)
RefInv ==
  \A i \in Ids :
    /\ stIt[i].linked <=> (stHead = i)
    /\ stIt[i].refs = Cardinality(Readers(i)) + (IF stHead = i THEN 1 ELSE 0)
    /\ stIt[i].refs = 0 => stIt[i] = FreeItem

(* Identifiers are given out in order: nobody knows one that is to come.   *)
CasInv ==
  /\ \A c \in StClients :
       stKnown[c].cas <= stCas /\ (stKnown[c].cas = 0 => stKnown[c].val = <<>>)
  /\ stHead # 0 => stIt[stHead].cas \in 1..stCas
  /\ CasUnique

StoreInv == Types /\ RefInv /\ CasInv /\ ReadersStable

-----------------------------------------------------------------------------
(* What the functions of items.c do to the items, one by one.              *)

(* What a free slot holds is an item.                                      *)
LEMMA FreeType == FreeItem \in Item
BY DEF FreeItem, Item, Values

(* do_item_get: one reference more, and nothing else changes.              *)
LEMMA RefFacts ==
  ASSUME NEW T \in Table, NEW i \in Ids
  PROVE  LET R == Ref(T, i)
         IN  /\ R \in Table
             /\ \A j \in Ids : j # i => R[j] = T[j]
             /\ R[i].refs = T[i].refs + 1 /\ R[i].linked = T[i].linked
             /\ R[i].val = T[i].val /\ R[i].cas = T[i].cas
             /\ R[i].size = T[i].size /\ R[i].stale = T[i].stale
<1> DEFINE X == [T[i] EXCEPT !.refs = @ + 1]
<1>1. T[i] \in Item
  BY Zenon DEF Table
<1>2. X \in Item /\ X.refs = T[i].refs + 1 /\ X.linked = T[i].linked
      /\ X.val = T[i].val /\ X.cas = T[i].cas /\ X.size = T[i].size /\ X.stale = T[i].stale
  BY <1>1 DEF Item
<1>3. Ref(T, i) = [T EXCEPT ![i] = X]
  BY Zenon DEF Ref, Table
<1> HIDE DEF X
<1> QED BY <1>2, <1>3, Zenon DEF Table

(* do_item_remove: one reference less, and the last one frees the item.    *)
LEMMA UnrefFacts ==
  ASSUME NEW T \in Table, NEW i \in Ids, T[i].refs > 0
  PROVE  LET U == Unref(T, i)
         IN  /\ U \in Table
             /\ \A j \in Ids : j # i => U[j] = T[j]
             /\ T[i].refs = 1 => U[i] = FreeItem
             /\ T[i].refs # 1 =>
                  /\ U[i].refs = T[i].refs - 1 /\ U[i].linked = T[i].linked
                  /\ U[i].val = T[i].val /\ U[i].cas = T[i].cas
                  /\ U[i].size = T[i].size /\ U[i].stale = T[i].stale
<1> DEFINE X == [T[i] EXCEPT !.refs = @ - 1]
           Y == IF T[i].refs = 1 THEN FreeItem ELSE X
<1>1. T[i] \in Item
  BY Zenon DEF Table
<1>2. T[i].refs # 1 =>
      X \in Item /\ X.refs = T[i].refs - 1 /\ X.linked = T[i].linked
      /\ X.val = T[i].val /\ X.cas = T[i].cas /\ X.size = T[i].size /\ X.stale = T[i].stale
  BY <1>1 DEF Item
<1>3. Unref(T, i) = [T EXCEPT ![i] = Y]
  BY Zenon DEF Unref, Table
<1> HIDE DEF X
<1>4. Y \in Item
  BY <1>2, FreeType, Zenon
<1>5. /\ [T EXCEPT ![i] = Y] \in Table
      /\ [T EXCEPT ![i] = Y][i] = Y
      /\ \A j \in Ids : j # i => [T EXCEPT ![i] = Y][j] = T[j]
  <2> HIDE DEF Y
  <2> QED BY <1>4, Zenon DEF Table
<1> QED BY <1>2, <1>3, <1>5, Zenon

(* do_item_link: a reference, the link and the identifier.                 *)
LEMMA LinkFacts ==
  ASSUME NEW T \in Table, NEW i \in Ids, NEW cas \in Nat
  PROVE  LET L == Link(T, i, cas)
         IN  /\ L \in Table
             /\ \A j \in Ids : j # i => L[j] = T[j]
             /\ L[i].refs = T[i].refs + 1 /\ L[i].linked
             /\ L[i].val = T[i].val /\ L[i].cas = cas
<1> DEFINE X == [T[i] EXCEPT !.refs = @ + 1, !.linked = TRUE, !.cas = cas]
<1>1. T[i] \in Item
  BY Zenon DEF Table
<1>2. X \in Item /\ X.refs = T[i].refs + 1 /\ X.linked = TRUE
      /\ X.val = T[i].val /\ X.cas = cas
  <2>1. X.refs = T[i].refs + 1 /\ X.val = T[i].val /\ X.cas = cas
    BY <1>1, Zenon DEF Item
  <2>2. X.linked = TRUE
    BY <1>1, Zenon DEF Item
  <2>3. X \in Item
    <3>1. T[i].refs + 1 \in Nat
      BY <1>1 DEF Item
    <3> QED BY <1>1, <3>1, Zenon DEF Item
  <2> QED BY <2>1, <2>2, <2>3, Zenon
<1>3. Link(T, i, cas) = [T EXCEPT ![i] = X]
  BY Zenon DEF Link, Table
<1> HIDE DEF X
<1> QED BY <1>2, <1>3, Zenon DEF Table

(* do_item_unlink: the link and its reference go, the last one with the item. *)
LEMMA UnlinkFacts ==
  ASSUME NEW T \in Table, NEW i \in Ids, T[i].refs > 0
  PROVE  LET U == Unlink(T, i)
         IN  /\ U \in Table
             /\ \A j \in Ids : j # i => U[j] = T[j]
             /\ T[i].refs = 1 => U[i] = FreeItem
             /\ T[i].refs # 1 =>
                  /\ U[i].refs = T[i].refs - 1 /\ U[i].linked = FALSE
                  /\ U[i].val = T[i].val
<1> DEFINE X == [T[i] EXCEPT !.linked = FALSE]
           S == [T EXCEPT ![i] = X]
<1>1. T[i] \in Item
  BY Zenon DEF Table
<1>2. X \in Item /\ X.refs = T[i].refs /\ X.linked = FALSE /\ X.val = T[i].val
  BY <1>1, Zenon DEF Item
<1>3. Unlink(T, i) = Unref(S, i)
  BY Zenon DEF Unlink, Table
<1>4. S \in Table /\ S[i] = X /\ \A j \in Ids : j # i => S[j] = T[j]
  <2> HIDE DEF X
  <2> QED BY <1>2, Zenon DEF Table
<1> HIDE DEF X, S
<1> QED BY <1>2, <1>3, <1>4, UnrefFacts

(* Where there is a free slot, Min finds one.                              *)
LEMMA UnusedMin ==
  ASSUME StoreAssumption, NEW T, Unused(T) # {}
  PROVE  Min(Unused(T)) \in Ids /\ T[Min(Unused(T))].refs = 0
<1>1. Unused(T) \subseteq Nat
  BY DEF Unused, Ids, StoreAssumption
<1>2. PICK x \in Unused(T) : \A y \in Unused(T) : ~(<<y, x>> \in OpToRel(<, Nat))
  BY <1>1, NatLessThanWellFounded, WFMin, Zenon
<1>3. ASSUME NEW y \in Unused(T) PROVE x <= y
  <2>1. x \in Nat /\ y \in Nat /\ ~(<<y, x>> \in OpToRel(<, Nat))
    BY <1>1, <1>2, Zenon
  <2>2. ~(y < x)
    BY <2>1, Zenon DEF OpToRel
  <2>3. x \in Nat /\ y \in Nat
    BY <1>1, Zenon
  <2> QED BY <2>2, <2>3
<1>4. Min(Unused(T)) \in Unused(T)
  BY <1>3, Zenon DEF Min
<1> QED BY <1>4, Zenon DEF Unused

(* item_alloc: a free slot becomes an item with one reference.             *)
LEMMA AllocFacts ==
  ASSUME StoreAssumption, NEW T \in Table, Unused(T) # {}, NEW v \in Values, NEW cas \in Nat
  PROVE  LET A == Alloc(T, v, cas)
             a == Min(Unused(T))
         IN  /\ A \in Table
             /\ a \in Ids /\ T[a].refs = 0
             /\ \A j \in Ids : j # a => A[j] = T[j]
             /\ A[a].refs = 1 /\ A[a].val = v
<1> DEFINE a == Min(Unused(T))
           X == [FreeItem EXCEPT !.refs = 1, !.val = v, !.cas = cas, !.size = Size(v)]
<1>1. a \in Ids /\ T[a].refs = 0
  BY UnusedMin, Zenon
<1>2. Size(v) \in Nat
  BY DEF Size, Digits
<1>3. X \in Item /\ X.refs = 1 /\ X.val = v
  BY <1>2, Zenon DEF FreeItem, Item
<1>4. Alloc(T, v, cas) = [T EXCEPT ![a] = X]
  BY Zenon DEF Alloc
<1> HIDE DEF X, a
<1>5. LET A == Alloc(T, v, cas)
      IN A \in Table /\ (\A j \in Ids : j # a => A[j] = T[j]) /\ A[a] = X
  BY <1>1, <1>3, <1>4, Zenon DEF Table
<1> QED BY <1>1, <1>3, <1>5, Zenon DEF a

(* item_replace: the old item, of which the command holds a reference,     *)
(* loses its link, the new one gets the link and the next identifier.      *)
LEMMA ReplaceFacts ==
  ASSUME NEW T \in Table, NEW o \in Ids, NEW s \in Ids, o # s, T[o].refs > 1, stCas \in Nat
  PROVE  LET R == Replace(T, o, s)
         IN  /\ R \in Table
             /\ \A j \in Ids : j \notin {o, s} => R[j] = T[j]
             /\ R[o].refs = T[o].refs - 1 /\ R[o].linked = FALSE /\ R[o].val = T[o].val
             /\ R[s].refs = T[s].refs + 1 /\ R[s].linked
             /\ R[s].val = T[s].val /\ R[s].cas = stCas + 1
<1> DEFINE U == Unlink(T, o)
<1>1. T[o].refs > 0 /\ T[o].refs # 1
  BY DEF Table, Item
<1>2. /\ U \in Table
      /\ \A j \in Ids : j # o => U[j] = T[j]
      /\ U[o].refs = T[o].refs - 1 /\ U[o].linked = FALSE /\ U[o].val = T[o].val
  BY <1>1, UnlinkFacts, Zenon
<1> HIDE DEF U
<1>3. Replace(T, o, s) = Link(U, s, stCas + 1)
  BY Zenon DEF Replace, U
<1>4. /\ Link(U, s, stCas + 1) \in Table
      /\ \A j \in Ids : j # s => Link(U, s, stCas + 1)[j] = U[j]
      /\ Link(U, s, stCas + 1)[s].refs = U[s].refs + 1
      /\ Link(U, s, stCas + 1)[s].linked
      /\ Link(U, s, stCas + 1)[s].val = U[s].val
      /\ Link(U, s, stCas + 1)[s].cas = stCas + 1
  <2>1. stCas + 1 \in Nat
    OBVIOUS
  <2> QED BY <1>2, <2>1, LinkFacts
<1> QED BY <1>2, <1>3, <1>4, Zenon

-----------------------------------------------------------------------------
(* A finite number of clients can be reading an item, and an item in a     *)
(* response, or under the key, has a reference.                            *)
LEMMA Counts ==
  ASSUME StoreAssumption, NEW i
  PROVE  /\ IsFiniteSet(Readers(i)) /\ Cardinality(Readers(i)) \in Nat
         /\ Cardinality(Readers(i)) = 0 <=> Readers(i) = {}
<1>1. Readers(i) \in SUBSET StClients
  BY Zenon DEF Readers
<1>2. IsFiniteSet(Readers(i))
  BY <1>1, FS_Subset, Zenon DEF StoreAssumption
<1> QED BY <1>2, FS_CardinalityType, FS_EmptySet, Zenon

(* The item under the key has the reference of the table.                  *)
LEMMA HeadFacts ==
  ASSUME StoreAssumption, StoreInv, stHead # 0
  PROVE  stHead \in Ids /\ stIt[stHead].refs >= 1 /\ stIt[stHead].refs \in Nat
<1>1. stHead \in Ids
  BY DEF StoreInv, Types, Ids, StoreAssumption
<1>2. Cardinality(Readers(stHead)) \in Nat
  BY Counts, Zenon
<1>3. stIt[stHead].refs = Cardinality(Readers(stHead)) + 1
  BY <1>1, Zenon DEF StoreInv, RefInv
<1> QED BY <1>1, <1>2, <1>3

(* An item without references is neither under the key nor being sent.     *)
LEMMA UnusedFacts ==
  ASSUME StoreAssumption, StoreInv, NEW i \in Ids, stIt[i].refs = 0
  PROVE  i # stHead /\ Readers(i) = {} /\ stIt[i] = FreeItem
<1>1. Cardinality(Readers(i)) \in Nat /\ (Cardinality(Readers(i)) = 0 <=> Readers(i) = {})
  BY Counts, Zenon
<1>2. stIt[i].refs = Cardinality(Readers(i)) + (IF stHead = i THEN 1 ELSE 0)
  BY Zenon DEF StoreInv, RefInv
<1>3. stIt[i] = FreeItem
  BY Zenon DEF StoreInv, RefInv
<1> QED BY <1>1, <1>2, <1>3

(* A value is under the key with the next identifier: in a new item s, the *)
(* old one losing its link.                                                *)
LEMMA Stored ==
  ASSUME StoreAssumption, StoreInv, NEW c \in StClients, NEW s \in Ids, stIt[s].refs = 0,
         stIt' \in Table,
         stIt'[s].refs = 1, stIt'[s].linked, stIt'[s].cas = stCas + 1,
         stHead # 0 /\ stIt[stHead].refs = 1 => stIt'[stHead] = FreeItem,
         stHead # 0 /\ stIt[stHead].refs # 1 =>
           /\ stIt'[stHead].refs = stIt[stHead].refs - 1
           /\ stIt'[stHead].linked = FALSE /\ stIt'[stHead].val = stIt[stHead].val,
         \A j \in Ids : j \notin {s, stHead} => stIt'[j] = stIt[j],
         stHead' = s, stCas' = stCas + 1, Told(c, stCas + 1, stIt'[s].val), stHold' = stHold
  PROVE  StoreInv'
<1> DEFINE N(i) == Cardinality(Readers(i))
<1>1. s # stHead /\ Readers(s) = {} /\ N(s) = 0
  BY UnusedFacts, FS_EmptySet, Zenon
<1>2. ASSUME NEW i \in Ids PROVE N(i) \in Nat /\ Readers(i)' = Readers(i) /\ N(i)' = N(i)
  <2>1. Readers(i)' = Readers(i)
    BY Zenon DEF Readers
  <2>2. N(i) \in Nat
    BY Counts, Zenon
  <2> QED BY <2>1, <2>2, Zenon
<1>3. \A i \in Ids : stIt'[i] \in Item /\ stIt[i] \in Item /\ i \in Nat
  BY DEF StoreInv, Types, Table, Ids, StoreAssumption
<1>4. stHead # 0 => stHead \in Ids
  BY HeadFacts, Zenon
<1>5. Types'
  <2>1. stIt'[s].val \in Values /\ stCas + 1 \in Nat /\ s \in 0..StItems
    BY <1>3 DEF Item, StoreInv, Types, Ids, StoreAssumption
  <2> QED BY <2>1, Zenon DEF StoreInv, Types, Told
<1>6. RefInv'
  <2> SUFFICES ASSUME NEW i \in Ids
               PROVE  /\ stIt'[i].linked <=> (s = i)
                      /\ stIt'[i].refs = N(i) + (IF s = i THEN 1 ELSE 0)
                      /\ stIt'[i].refs = 0 => stIt'[i] = FreeItem
    BY <1>2 DEF RefInv
  <2>1. CASE i = s
    BY <2>1, <1>1
  <2>2. CASE i # s /\ i # stHead
    <3>1. stIt'[i] = stIt[i]
      BY <2>2, Zenon
    <3>2. /\ stIt[i].linked <=> (stHead = i)
          /\ stIt[i].refs = N(i) + (IF stHead = i THEN 1 ELSE 0)
          /\ stIt[i].refs = 0 => stIt[i] = FreeItem
      BY Zenon DEF StoreInv, RefInv
    <3> QED BY <2>2, <3>1, <3>2, Zenon
  <2>3. CASE i = stHead
    <3>1. i # s /\ stHead # 0 /\ N(i) \in Nat
      BY <2>3, <1>1, <1>2, <1>3 DEF Ids, StoreAssumption
    <3>2. stIt[i].refs = N(i) + 1
      BY <2>3, Zenon DEF StoreInv, RefInv
    <3>3. CASE stIt[i].refs = 1
      <4>1. stIt'[i] = FreeItem /\ N(i) = 0
        BY <2>3, <3>1, <3>2, <3>3
      <4>2. FreeItem.refs = 0 /\ FreeItem.linked = FALSE
        BY Zenon DEF FreeItem
      <4> QED BY <4>1, <4>2, <3>1
    <3>4. CASE stIt[i].refs # 1
      <4>1. stIt'[i].refs = N(i) /\ stIt'[i].linked = FALSE /\ N(i) # 0
        BY <2>3, <3>1, <3>2, <3>4
      <4> QED BY <4>1, <3>1
    <3> QED BY <3>3, <3>4, Zenon
  <2> QED BY <2>1, <2>2, <2>3, Zenon
<1>7. CasInv'
  <2>1. /\ stKnown'[c] = [cas |-> stCas + 1, val |-> stIt'[s].val]
        /\ \A d \in StClients : d # c => stKnown'[d] = stKnown[d]
    BY Zenon DEF Told, StoreInv, Types
  <2>2. \A d \in StClients : stKnown[d].cas \in Nat /\ stKnown[d].cas <= stCas
                             /\ (stKnown[d].cas = 0 => stKnown[d].val = <<>>)
    BY Zenon DEF StoreInv, Types, CasInv
  <2>3. stCas \in Nat
    BY Zenon DEF StoreInv, Types
  <2>4. \A d, e \in StClients : stKnown[d].cas = stKnown[e].cas => stKnown[d].val = stKnown[e].val
    BY Zenon DEF StoreInv, CasInv, CasUnique
  <2>5. CasUnique'
    BY <2>1, <2>2, <2>3, <2>4 DEF CasUnique
  <2> QED BY <2>1, <2>2, <2>3, <2>5 DEF CasInv
<1>8. ReadersStable'
  <2> SUFFICES ASSUME NEW d \in StClients, NEW h \in stHold[d] PROVE stIt'[h.item].val = h.val
    BY Zenon DEF ReadersStable
  <2>1. h.item \in Ids /\ stIt[h.item].val = h.val
    BY DEF StoreInv, Types, ReadersStable
  <2>2. d \in Readers(h.item)
    BY Zenon DEF Readers
  <2>3. h.item # s
    BY <2>2, <1>1, Zenon
  <2>4. CASE h.item # stHead
    BY <2>1, <2>3, <2>4, Zenon
  <2>5. CASE h.item = stHead
    <3>1. N(stHead) \in Nat /\ N(stHead) # 0
      BY <2>1, <2>2, <2>5, Counts, Zenon
    <3>2. stIt[stHead].refs = N(stHead) + 1
      BY <2>1, <2>5, Zenon DEF StoreInv, RefInv
    <3>3. stIt[stHead].refs # 1 /\ stHead # 0
      BY <3>1, <3>2, <2>1, <2>5, <1>3 DEF Ids, StoreAssumption
    <3> QED BY <3>3, <2>1, <2>5, Zenon
  <2> QED BY <2>4, <2>5, Zenon
<1> QED BY <1>5, <1>6, <1>7, <1>8, Zenon DEF StoreInv

(* A command that is refused leaves everything as it was.                  *)
LEMMA Same ==
  ASSUME StoreInv, UNCHANGED <<stIt, stHead, stCas, stHold, stKnown>>
  PROVE  StoreInv'
<1>1. \A i : Readers(i)' = Readers(i)
  BY Zenon DEF Readers
<1> QED
  BY <1>1, Zenon DEF StoreInv, Types, RefInv, CasInv, CasUnique, ReadersStable

(* do_item_link by a command that holds the only reference, and drops it.  *)
LEMMA LinkStep ==
  ASSUME NEW T \in Table, NEW i \in Ids, NEW cas \in Nat, T[i].refs = 1
  PROVE  LET R == Unref(Link(T, i, cas), i)
         IN  /\ R \in Table
             /\ \A j \in Ids : j # i => R[j] = T[j]
             /\ R[i].refs = 1 /\ R[i].linked /\ R[i].val = T[i].val /\ R[i].cas = cas
<1> DEFINE L == Link(T, i, cas)
           R == Unref(L, i)
<1>1. /\ L \in Table /\ \A j \in Ids : j # i => L[j] = T[j]
      /\ L[i].refs = T[i].refs + 1
      /\ L[i].linked /\ L[i].val = T[i].val /\ L[i].cas = cas
  BY LinkFacts
<1> HIDE DEF L
<1>2. L[i].refs > 0 /\ L[i].refs # 1 /\ L[i].refs - 1 = 1
  BY <1>1
<1>3. /\ R \in Table /\ \A j \in Ids : j # i => R[j] = L[j]
      /\ R[i].refs = L[i].refs - 1 /\ R[i].linked = L[i].linked
      /\ R[i].val = L[i].val /\ R[i].cas = L[i].cas
  BY <1>1, <1>2, UnrefFacts, Zenon
<1> HIDE DEF R
<1>4. /\ R[i].refs = 1 /\ R[i].linked /\ R[i].val = T[i].val /\ R[i].cas = cas
      /\ \A j \in Ids : j # i => R[j] = T[j]
  BY <1>1, <1>2, <1>3, Zenon
<1>5. Unref(Link(T, i, cas), i) = R
  BY Zenon DEF L, R
<1> QED BY <1>3, <1>4, <1>5, Zenon

(* item_replace by a command that holds a reference of both items, and     *)
(* drops them.                                                             *)
LEMMA ReplaceStep ==
  ASSUME NEW S \in Table, NEW o \in Ids, NEW s \in Ids, o # s, stCas \in Nat,
         NEW refs \in Nat, refs >= 1, S[o].refs = refs + 1, S[s].refs = 1
  PROVE  LET R == Unref(Unref(Replace(S, o, s), o), s)
         IN  /\ R \in Table
             /\ \A j \in Ids : j \notin {o, s} => R[j] = S[j]
             /\ R[s].refs = 1 /\ R[s].linked /\ R[s].cas = stCas + 1 /\ R[s].val = S[s].val
             /\ refs = 1 => R[o] = FreeItem
             /\ refs # 1 => R[o].refs = refs - 1 /\ R[o].linked = FALSE /\ R[o].val = S[o].val
<1> DEFINE A == Replace(S, o, s)
           B == Unref(A, o)
           R == Unref(B, s)
<1>1. /\ A \in Table
      /\ \A j \in Ids : j \notin {o, s} => A[j] = S[j]
      /\ A[o].refs = refs /\ A[o].linked = FALSE /\ A[o].val = S[o].val
      /\ A[s].refs = 2 /\ A[s].linked /\ A[s].val = S[s].val /\ A[s].cas = stCas + 1
  <2>1. S[o].refs > 1
    OBVIOUS
  <2>2. /\ A \in Table
        /\ \A j \in Ids : j \notin {o, s} => A[j] = S[j]
        /\ A[o].refs = S[o].refs - 1 /\ A[o].linked = FALSE /\ A[o].val = S[o].val
        /\ A[s].refs = S[s].refs + 1 /\ A[s].linked
        /\ A[s].val = S[s].val /\ A[s].cas = stCas + 1
    BY <2>1, ReplaceFacts, Zenon
  <2> HIDE DEF A
  <2> QED BY <2>2
<1> HIDE DEF A
<1>2. /\ B \in Table
      /\ \A j \in Ids : j # o => B[j] = A[j]
      /\ refs = 1 => B[o] = FreeItem
      /\ refs # 1 => B[o].refs = refs - 1 /\ B[o].linked = A[o].linked /\ B[o].val = A[o].val
  BY <1>1, UnrefFacts
<1> HIDE DEF B
<1>3. B[s] = A[s]
  BY <1>2, Zenon
<1>4. /\ R \in Table
      /\ \A j \in Ids : j # s => R[j] = B[j]
      /\ R[s].refs = 1 /\ R[s].linked = B[s].linked /\ R[s].val = B[s].val /\ R[s].cas = B[s].cas
  BY <1>1, <1>2, <1>3, UnrefFacts, SMTT(40)
<1> HIDE DEF R
<1>5. /\ R[s].linked /\ R[s].cas = stCas + 1 /\ R[s].val = S[s].val /\ R[o] = B[o]
      /\ \A j \in Ids : j \notin {o, s} => R[j] = S[j]
  BY <1>1, <1>2, <1>3, <1>4, ZenonT(30)
<1>6. refs # 1 => R[o].refs = refs - 1 /\ R[o].linked = FALSE /\ R[o].val = S[o].val
  BY <1>1, <1>2, <1>5, Zenon
<1>7. Unref(Unref(Replace(S, o, s), o), s) = R
  BY Zenon DEF A, B, R
<1> QED BY <1>2, <1>4, <1>5, <1>6, <1>7, Zenon

-----------------------------------------------------------------------------
(* do_store_item.                                                          *)
LEMMA InvStoreItem ==
  ASSUME StoreAssumption, StoreInv, NoLostUpdate, NEW c \in StClients, NEW comm \in Comms,
         NEW v \in Values, NEW cas \in {0, stKnown[c].cas}, NEW stale \in BOOLEAN,
         StoreItem(c, comm, v, cas, stale)
  PROVE  StoreInv' /\ NoLostUpdate'
<1> DEFINE T == Alloc(stIt, v, cas)
           i == Min(Unused(stIt))
           o == stHead
           held == Ref(T, o)
<1>1. stIt \in Table /\ cas \in Nat /\ stCas \in Nat /\ stCas + 1 \in Nat
  BY DEF StoreInv, Types
<1>2. /\ T \in Table /\ i \in Ids /\ stIt[i].refs = 0
      /\ \A j \in Ids : j # i => T[j] = stIt[j]
      /\ T[i].refs = 1 /\ T[i].val = v
  BY <1>1, AllocFacts DEF StoreItem
<1>3. /\ \/ stHead = 0 /\ StoreNew(c, comm, T, i) /\ UNCHANGED stOver
         \/ stHead # 0 /\ comm \in {"append", "prepend"}
            /\ StoreJoined(c, comm, T, i, stHead, cas) /\ UNCHANGED stOver
         \/ stHead # 0 /\ comm \notin {"append", "prepend"}
            /\ StoreOver(c, comm, T, i, stHead, cas, stale)
      /\ UNCHANGED stHold
  BY Zenon DEF StoreItem
<1> HIDE DEF T, i
<1>4. i # stHead /\ stIt[i] = FreeItem
  BY <1>2, UnusedFacts, Zenon
<1>5. Unref(T, i) = stIt
  <2>1. /\ Unref(T, i) \in Table
        /\ \A j \in Ids : j # i => Unref(T, i)[j] = T[j]
        /\ Unref(T, i)[i] = FreeItem
    BY <1>2, UnrefFacts
  <2>2. \A j \in Ids : Unref(T, i)[j] = stIt[j]
    BY <2>1, <1>2, <1>4, Zenon
  <2> QED BY <2>1, <2>2, <1>1 DEF Table
<1>6. CASE stHead = 0
  <2>1. NoLostUpdate'
    BY <1>3, <1>6, SMTT(30) DEF NoLostUpdate
  <2>2. CASE comm \in {"add", "set"}
    <3>1. /\ stIt' = Unref(Link(T, i, stCas + 1), i) /\ stHead' = i /\ stCas' = stCas + 1
          /\ Told(c, stCas + 1, T[i].val) /\ stHold' = stHold
      BY <1>3, <1>6, <2>2, Zenon DEF StoreNew
    <3>2. T \in Table /\ i \in Ids /\ stCas + 1 \in Nat /\ T[i].refs = 1
      BY <1>1, <1>2, Zenon
    <3>3. /\ stIt' \in Table /\ \A j \in Ids : j # i => stIt'[j] = T[j]
          /\ stIt'[i].refs = 1 /\ stIt'[i].linked
          /\ stIt'[i].val = T[i].val /\ stIt'[i].cas = stCas + 1
      <4> DEFINE R == Unref(Link(T, i, stCas + 1), i)
      <4>1. /\ R \in Table /\ \A j \in Ids : j # i => R[j] = T[j]
            /\ R[i].refs = 1 /\ R[i].linked /\ R[i].val = T[i].val /\ R[i].cas = stCas + 1
        BY <3>2, LinkStep
      <4>2. stIt' = R
        BY <3>1, Zenon
      <4> HIDE DEF R
      <4> QED BY <4>1, <4>2, Zenon
    <3>4. stIt'[i].linked /\ stIt'[i].val = T[i].val /\ stIt'[i].cas = stCas + 1
          /\ \A j \in Ids : j \notin {i, stHead} => stIt'[j] = stIt[j]
      BY <3>3, <1>2, Zenon
    <3>5. Told(c, stCas + 1, stIt'[i].val)
      BY <3>1, <3>4, Zenon
    <3> QED BY <1>2, <1>6, <2>1, <3>1, <3>3, <3>4, <3>5, Stored, Zenon
  <2>3. CASE comm \notin {"add", "set"}
    BY <1>3, <1>5, <1>6, <2>1, <2>3, Same, SMTT(30) DEF StoreNew
  <2> QED BY <2>2, <2>3, Zenon
<1>7. ASSUME stHead # 0
      PROVE  /\ o \in Ids /\ stIt[o].refs >= 1 /\ stIt[o].refs \in Nat /\ T[o] = stIt[o] /\ o # i
             /\ held \in Table /\ held[i] = T[i]
             /\ held[o].refs = stIt[o].refs + 1 /\ held[o].val = stIt[o].val
             /\ \A j \in Ids : j \notin {i, o} => held[j] = stIt[j]
             /\ Unref(Unref(held, o), i) = stIt
  <2>1. o \in Ids /\ stIt[o].refs >= 1 /\ stIt[o].refs \in Nat
    BY <1>7, HeadFacts, Zenon
  <2>2. T[o] = stIt[o] /\ o # i
    BY <2>1, <1>2, <1>4, Zenon
  <2>3. /\ held \in Table /\ \A j \in Ids : j # o => held[j] = T[j]
        /\ held[o].refs = T[o].refs + 1 /\ held[o].linked = T[o].linked
        /\ held[o].val = T[o].val /\ held[o].cas = T[o].cas
        /\ held[o].size = T[o].size /\ held[o].stale = T[o].stale
    BY <2>1, <1>2, RefFacts, Zenon
  <2> HIDE DEF held
  <2>4. held[i] = T[i] /\ held[o].refs = stIt[o].refs + 1 /\ held[o].val = stIt[o].val
        /\ \A j \in Ids : j \notin {i, o} => held[j] = stIt[j]
    BY <2>1, <2>2, <2>3, <1>2, Zenon
  <2>5. Unref(held, o) = T
    <3> DEFINE U == Unref(held, o)
    <3>1. held[o].refs > 0 /\ held[o].refs # 1
      BY <2>1, <2>4
    <3>2. /\ U \in Table /\ \A j \in Ids : j # o => U[j] = held[j]
          /\ U[o].refs = held[o].refs - 1 /\ U[o].linked = held[o].linked
          /\ U[o].val = held[o].val /\ U[o].cas = held[o].cas
          /\ U[o].size = held[o].size /\ U[o].stale = held[o].stale
      BY <2>1, <2>3, <3>1, UnrefFacts, SMTT(30)
    <3> HIDE DEF U
    <3>3. U[o] \in Item /\ T[o] \in Item
      BY <2>1, <3>2, <1>2, Zenon DEF Table
    <3>4. U[o].refs = T[o].refs
      BY <2>1, <2>2, <2>4, <3>2
    <3>5. U[o] = T[o]
      <4>1. /\ U[o] = [refs |-> U[o].refs, linked |-> U[o].linked, val |-> U[o].val,
                        cas |-> U[o].cas, size |-> U[o].size, stale |-> U[o].stale]
            /\ T[o] = [refs |-> T[o].refs, linked |-> T[o].linked, val |-> T[o].val,
                       cas |-> T[o].cas, size |-> T[o].size, stale |-> T[o].stale]
        BY <3>3, Zenon DEF Item
      <4>2. /\ U[o].linked = T[o].linked /\ U[o].val = T[o].val /\ U[o].cas = T[o].cas
            /\ U[o].size = T[o].size /\ U[o].stale = T[o].stale
        BY <2>3, <3>2, Zenon
      <4> QED BY <3>4, <4>1, <4>2, Zenon
    <3>6. \A j \in Ids : U[j] = T[j]
      BY <2>3, <3>2, <3>5, Zenon
    <3> QED BY <3>2, <3>6, <1>2 DEF U, Table
  <2> QED BY <2>1, <2>2, <2>3, <2>4, <2>5, <1>5, Zenon
<1> HIDE DEF held
<1>8. ASSUME stHead # 0, NEW S \in Table, S[o] = held[o], S[i].refs = 1,
             \A j \in Ids : j \notin {i, o} => S[j] = held[j],
             stIt' = Unref(Unref(Replace(S, o, i), o), i),
             stHead' = i, stCas' = stCas + 1, Told(c, stCas + 1, S[i].val)
      PROVE  StoreInv'
  <2> DEFINE R == Unref(Unref(Replace(S, o, i), o), i)
             refs == stIt[o].refs
  <2>1. /\ R \in Table
        /\ \A j \in Ids : j \notin {o, i} => R[j] = S[j]
        /\ R[i].refs = 1 /\ R[i].linked /\ R[i].cas = stCas + 1 /\ R[i].val = S[i].val
        /\ refs = 1 => R[o] = FreeItem
        /\ refs # 1 => R[o].refs = refs - 1 /\ R[o].linked = FALSE /\ R[o].val = S[o].val
    <3>1. /\ o \in Ids /\ i \in Ids /\ o # i /\ refs \in Nat /\ refs >= 1
          /\ S \in Table /\ S[o].refs = refs + 1 /\ S[i].refs = 1 /\ stCas \in Nat
      BY <1>1, <1>2, <1>7, <1>8, Zenon
    <3> HIDE DEF refs
    <3> QED BY <3>1, ReplaceStep, ZenonT(40)
  <2>2. R = stIt'
    BY <1>8, Zenon
  <2> HIDE DEF R
  <2>3. stIt'[i].val = S[i].val /\ \A j \in Ids : j \notin {i, stHead} => stIt'[j] = stIt[j]
    BY <2>1, <2>2, <1>7, <1>8
  <2>4. Told(c, stCas + 1, stIt'[i].val)
    BY <2>3, <1>8, Zenon
  <2>5. S[o].val = stIt[o].val
    BY <1>7, <1>8, Zenon
  <2>6. /\ stIt' \in Table
        /\ stIt'[i].refs = 1 /\ stIt'[i].linked /\ stIt'[i].cas = stCas + 1
        /\ stIt[stHead].refs = 1 => stIt'[stHead] = FreeItem
        /\ stIt[stHead].refs # 1 =>
             /\ stIt'[stHead].refs = stIt[stHead].refs - 1
             /\ stIt'[stHead].linked = FALSE /\ stIt'[stHead].val = stIt[stHead].val
    BY <2>1, <2>2, <2>5, Zenon
  <2> QED BY <1>2, <1>3, <1>8, <2>3, <2>4, <2>6, Stored, ZenonT(40)
<1>9. CASE stHead # 0 /\ comm \notin {"append", "prepend"}
  <2>1. StoreOver(c, comm, T, i, o, cas, stale)
    BY <1>3, <1>9, SMTT(30)
  <2>2. ASSUME stIt' = Unref(Unref(held, o), i), UNCHANGED <<stHead, stCas, stKnown, stOver>>
        PROVE  StoreInv' /\ NoLostUpdate'
    BY <1>3, <1>7, <1>9, <2>2, Same, Zenon DEF NoLostUpdate
  <2>3. ASSUME stIt' = Unref(Unref(Replace(held, o, i), o), i), stHead' = i,
               stCas' = stCas + 1, Told(c, stCas + 1, held[i].val)
        PROVE  StoreInv'
    BY <1>2, <1>7, <1>8, <1>9, <2>3, Zenon
  <2>4. CASE comm = "add"
    BY <2>1, <2>2, <2>4, Zenon DEF StoreOver, held
  <2>5. CASE comm \in {"set", "replace"}
    BY <2>1, <2>3, <2>5, Zenon DEF StoreOver, NoLostUpdate, held
  <2>6. CASE comm = "cas"
    <3> DEFINE test == CasTest(cas, T[o].cas, stale)
               S == [held EXCEPT ![i].stale = TRUE]
    <3>1. CASE test = "match"
      <4>1. cas # 0 /\ cas = T[o].cas
        BY <3>1, Zenon DEF CasTest
      <4>2. cas = stKnown[c].cas /\ T[o] = stIt[o]
        BY <4>1, <1>7, <1>9, Zenon
      <4>3. stKnown[c].val = T[o].val
        BY <4>1, <4>2, <1>9, Zenon DEF StoreInv, CasInv, CasUnique
      <4>4. /\ stIt' = Unref(Unref(Replace(held, o, i), o), i) /\ stHead' = i
            /\ stCas' = stCas + 1 /\ Told(c, stCas + 1, held[i].val)
            /\ stOver' = <<T[o].val, stKnown[c].val>>
        BY <2>1, <2>6, <3>1, Zenon DEF StoreOver, held
      <4> QED BY <2>3, <4>3, <4>4, Zenon DEF NoLostUpdate
    <3>2. CASE test = "stale"
      <4>1. /\ stIt' = Unref(Unref(Replace(S, o, i), o), i) /\ stHead' = i
            /\ stCas' = stCas + 1 /\ Told(c, stCas + 1, S[i].val) /\ UNCHANGED stOver
        BY <2>1, <2>6, <3>2, Zenon DEF StoreOver, held
      <4>2. S \in Table /\ S[i].refs = held[i].refs
            /\ \A j \in Ids : j # i => S[j] = held[j]
        <5> DEFINE X == [held[i] EXCEPT !.stale = TRUE]
        <5>1. held \in Table /\ held[i] \in Item
          BY <1>2, <1>7, <1>9, Zenon DEF Table
        <5>2. X \in Item /\ X.refs = held[i].refs
          BY <5>1, Zenon DEF Item
        <5>3. S = [held EXCEPT ![i] = X]
          BY <5>1, Zenon DEF Table
        <5> HIDE DEF X, S
        <5> QED BY <1>2, <5>1, <5>2, <5>3, Zenon DEF Table
      <4> HIDE DEF S
      <4>3. S[o] = held[o] /\ S[i].refs = 1 /\ \A j \in Ids : j \notin {i, o} => S[j] = held[j]
        BY <4>2, <1>2, <1>7, <1>9, SMTT(30)
      <4>4. StoreInv'
        BY <4>1, <4>2, <4>3, <1>8, <1>9, Zenon
      <4> QED BY <4>1, <4>4, Zenon DEF NoLostUpdate
    <3>3. CASE test \notin {"match", "stale"}
      BY <2>1, <2>2, <2>6, <3>3, SMTT(30) DEF StoreOver, held
    <3> QED BY <3>1, <3>2, <3>3, Zenon
  <2> QED BY <1>9, <2>4, <2>5, <2>6, SMTT(30) DEF Comms
<1>10. CASE stHead # 0 /\ comm \in {"append", "prepend"}
  <2> DEFINE j0 == Joined(comm, T[o].val, T[i].val)
             new == Alloc(held, j0, 0)
             n == Min(Unused(held))
             R == Unref(Unref(Replace(new, o, n), o), n)
             refs == stIt[o].refs
  <2>1. StoreJoined(c, comm, T, i, o, cas) /\ UNCHANGED <<stOver, stHold>>
    BY <1>3, <1>10, SMTT(30)
  <2>2. NoLostUpdate'
    BY <2>1, SMTT(30) DEF NoLostUpdate
  <2>3. CASE CasTest(cas, T[o].cas, FALSE) \notin {"none", "match"} \/ Unused(held) = {}
    BY <1>3, <1>7, <1>10, <2>1, <2>2, <2>3, Same, Zenon DEF StoreJoined, held
  <2>4. CASE ~(CasTest(cas, T[o].cas, FALSE) \notin {"none", "match"} \/ Unused(held) = {})
    <3>1. /\ stIt' = Unref(R, i) /\ stHead' = n /\ stCas' = stCas + 1
          /\ Told(c, stCas + 1, new[n].val)
      BY <2>1, <2>4, Zenon DEF StoreJoined, held
    <3>2. j0 \in Values
      <4>1. T[o].val \in Values /\ T[i].val \in Values
        BY <1>2, <1>7, <1>10, Zenon DEF Table, Item
      <4> QED BY <4>1 DEF Joined, Values
    <3>3. /\ new \in Table /\ n \in Ids /\ held[n].refs = 0
          /\ \A j \in Ids : j # n => new[j] = held[j]
          /\ new[n].refs = 1
      <4>1. held \in Table /\ Unused(held) # {} /\ 0 \in Nat
        BY <1>7, <1>10, <2>4, Zenon
      <4> HIDE DEF j0
      <4> QED BY <3>2, <4>1, AllocFacts, SMTT(30)
    <3> HIDE DEF new, n, R, j0
    <3>4. n # i /\ n # o /\ stIt[n].refs = 0
      BY <3>3, <1>2, <1>7, <1>10
    <3>5. /\ R \in Table
          /\ \A j \in Ids : j \notin {o, n} => R[j] = new[j]
          /\ R[n].refs = 1 /\ R[n].linked /\ R[n].cas = stCas + 1 /\ R[n].val = new[n].val
          /\ refs = 1 => R[o] = FreeItem
          /\ refs # 1 => R[o].refs = refs - 1 /\ R[o].linked = FALSE /\ R[o].val = new[o].val
      <4>1. /\ o \in Ids /\ n \in Ids /\ o # n /\ refs \in Nat /\ refs >= 1
            /\ new[o].refs = refs + 1 /\ new[n].refs = 1 /\ new \in Table /\ stCas \in Nat
        BY <1>1, <1>7, <1>10, <3>3, <3>4, Zenon
      <4> HIDE DEF refs
      <4> QED BY <4>1, ReplaceStep, ZenonT(60) DEF R
    <3>6. R[i] = T[i] /\ i \in Ids
      BY <1>2, <1>7, <1>10, <3>3, <3>4, <3>5, SMTT(30)
    <3>7. /\ stIt' \in Table /\ stIt'[i] = FreeItem
          /\ \A j \in Ids : j # i => stIt'[j] = R[j]
      BY <1>2, <3>1, <3>5, <3>6, UnrefFacts, SMTT(30)
    <3>8. stIt'[n] = R[n] /\ stIt'[o] = R[o]
      BY <1>7, <1>10, <3>3, <3>4, <3>7, SMTT(30)
    <3>9. \A j \in Ids : j \notin {n, stHead} => stIt'[j] = stIt[j]
      BY <1>4, <1>7, <1>10, <3>3, <3>5, <3>7
    <3>10. new[o].val = stIt[o].val
      BY <1>7, <1>10, <3>3, <3>4, SMTT(30)
    <3>11. Told(c, stCas + 1, stIt'[n].val)
      BY <3>1, <3>5, <3>8, SMTT(30)
    <3>12. /\ stIt'[n].refs = 1 /\ stIt'[n].linked /\ stIt'[n].cas = stCas + 1
           /\ stIt[stHead].refs = 1 => stIt'[stHead] = FreeItem
           /\ stIt[stHead].refs # 1 =>
                /\ stIt'[stHead].refs = stIt[stHead].refs - 1
                /\ stIt'[stHead].linked = FALSE /\ stIt'[stHead].val = stIt[stHead].val
      BY <3>5, <3>8, <3>10, SMTT(30)
    <3>13. StoreInv'
      BY <2>1, <3>1, <3>3, <3>4, <3>7, <3>9, <3>11, <3>12, Stored, ZenonT(40)
    <3> QED BY <2>2, <3>13, SMTT(30)
  <2> QED BY <2>3, <2>4, ZenonT(40)
<1> QED BY <1>6, <1>9, <1>10, Zenon

-----------------------------------------------------------------------------
(* A value is rewritten in place when nobody else refers to its item.      *)
LEMMA Rewritten ==
  ASSUME StoreAssumption, StoreInv, NEW c \in StClients, stHead # 0, stIt[stHead].refs = 1,
         stIt' \in Table, stIt'[stHead].refs = 1, stIt'[stHead].linked,
         stIt'[stHead].cas = stCas + 1,
         \A j \in Ids : j # stHead => stIt'[j] = stIt[j],
         stHead' = stHead, stCas' = stCas + 1, stHold' = stHold,
         Told(c, stCas + 1, stIt'[stHead].val)
  PROVE  StoreInv'
<1> DEFINE N(i) == Cardinality(Readers(i))
<1>1. stHead \in Ids
  BY HeadFacts, Zenon
<1>2. Readers(stHead) = {} /\ N(stHead) = 0
  <2>1. N(stHead) \in Nat /\ (N(stHead) = 0 <=> Readers(stHead) = {})
    BY Counts, Zenon
  <2>2. stIt[stHead].refs = N(stHead) + 1
    BY <1>1, Zenon DEF StoreInv, RefInv
  <2> QED BY <2>1, <2>2
<1>3. ASSUME NEW i \in Ids PROVE Readers(i)' = Readers(i) /\ N(i)' = N(i)
  BY Zenon DEF Readers
<1>4. stCas \in Nat /\ stIt'[stHead].val \in Values
  BY <1>1, Zenon DEF StoreInv, Types, Table, Item
<1>5. Types'
  BY <1>4 DEF StoreInv, Types, Told
<1>6. RefInv'
  <2> SUFFICES ASSUME NEW i \in Ids
               PROVE  /\ stIt'[i].linked <=> (stHead = i)
                      /\ stIt'[i].refs = N(i) + (IF stHead = i THEN 1 ELSE 0)
                      /\ stIt'[i].refs = 0 => stIt'[i] = FreeItem
    BY <1>3, Zenon DEF RefInv
  <2>1. CASE i = stHead
    BY <2>1, <1>2
  <2>2. CASE i # stHead
    <3>1. /\ stIt[i].linked <=> (stHead = i)
          /\ stIt[i].refs = N(i) + (IF stHead = i THEN 1 ELSE 0)
          /\ stIt[i].refs = 0 => stIt[i] = FreeItem
      BY Zenon DEF StoreInv, RefInv
    <3>2. stIt'[i] = stIt[i]
      BY <2>2, Zenon
    <3> QED BY <3>1, <3>2, Zenon
  <2> QED BY <2>1, <2>2, Zenon
<1>7. CasInv'
  <2>1. /\ stKnown'[c] = [cas |-> stCas + 1, val |-> stIt'[stHead].val]
        /\ \A d \in StClients : d # c => stKnown'[d] = stKnown[d]
    BY Zenon DEF Told, StoreInv, Types
  <2>2. \A d \in StClients : stKnown[d].cas \in Nat /\ stKnown[d].cas <= stCas
                             /\ (stKnown[d].cas = 0 => stKnown[d].val = <<>>)
    BY Zenon DEF StoreInv, Types, CasInv
  <2>3. \A d, e \in StClients : stKnown[d].cas = stKnown[e].cas => stKnown[d].val = stKnown[e].val
    BY Zenon DEF StoreInv, CasInv, CasUnique
  <2>4. CasUnique'
    BY <1>4, <2>1, <2>2, <2>3 DEF CasUnique
  <2> QED BY <1>4, <2>1, <2>2, <2>4 DEF CasInv
<1>8. ReadersStable'
  <2> SUFFICES ASSUME NEW d \in StClients, NEW h \in stHold[d] PROVE stIt'[h.item].val = h.val
    BY Zenon DEF ReadersStable
  <2>1. h.item \in Ids /\ stIt[h.item].val = h.val
    BY DEF StoreInv, Types, ReadersStable
  <2>2. h.item # stHead
    BY <1>2, Zenon DEF Readers
  <2> QED BY <2>1, <2>2, Zenon
<1> QED BY <1>5, <1>6, <1>7, <1>8, Zenon DEF StoreInv

(* The number an increment or a decrement leaves is a value.               *)
LEMMA AddedType ==
  ASSUME StoreAssumption, NEW val \in Values, Numeric(val), NEW d \in StDeltas,
         NEW incr \in BOOLEAN
  PROVE  <<Added(val[1], incr, d)>> \in Values
<1>1. val[1] \in Int /\ d \in Nat /\ StWrap \in Nat \ {0}
  BY DEF Numeric, Values, StoreAssumption
<1>2. (val[1] + d) % StWrap \in Int
  BY <1>1
<1>3. Added(val[1], incr, d) \in Int
  BY <1>1, <1>2, SMTT(30) DEF Added
<1> QED BY <1>3 DEF Values

(* The table after the rewriting, and after the detour over a new item.    *)
LEMMA RewriteStep ==
  ASSUME stIt \in Table, stHead \in Ids, stIt[stHead].refs = 1, stCas \in Nat,
         NEW v \in Values
  PROVE  LET W == Rewrite(Ref(stIt, stHead), stHead, v)
             R == Unref(W, stHead)
         IN  /\ W[stHead].cas = stCas + 1
             /\ R \in Table
             /\ \A j \in Ids : j # stHead => R[j] = stIt[j]
             /\ R[stHead].refs = 1 /\ R[stHead].linked = stIt[stHead].linked
             /\ R[stHead].val = v /\ R[stHead].cas = stCas + 1
<1> DEFINE H == Ref(stIt, stHead)
           X == [H[stHead] EXCEPT !.val = v, !.cas = stCas + 1]
           W == Rewrite(H, stHead, v)
           R == Unref(W, stHead)
<1>1. /\ H \in Table /\ \A j \in Ids : j # stHead => H[j] = stIt[j]
      /\ H[stHead].refs = stIt[stHead].refs + 1 /\ H[stHead].linked = stIt[stHead].linked
  BY RefFacts, Zenon
<1> HIDE DEF H
<1>2. H[stHead] \in Item /\ H[stHead].refs = 2 /\ stCas + 1 \in Nat
  BY <1>1 DEF Table
<1>3. X \in Item /\ X.refs = 2 /\ X.val = v /\ X.cas = stCas + 1 /\ X.linked = H[stHead].linked
  BY <1>2, Zenon DEF Item
<1>4. W = [H EXCEPT ![stHead] = X]
  BY <1>1, Zenon DEF Rewrite, Table
<1> HIDE DEF X
<1>5. W \in Table /\ W[stHead] = X /\ \A j \in Ids : j # stHead => W[j] = H[j]
  <2> HIDE DEF W
  <2> QED BY <1>1, <1>3, <1>4, Zenon DEF Table
<1> HIDE DEF W
<1>6. W[stHead].refs > 0 /\ W[stHead].refs # 1 /\ W[stHead].refs - 1 = 1
  BY <1>3, <1>5
<1>7. /\ R \in Table /\ \A j \in Ids : j # stHead => R[j] = W[j]
      /\ R[stHead].refs = W[stHead].refs - 1 /\ R[stHead].linked = W[stHead].linked
      /\ R[stHead].val = W[stHead].val /\ R[stHead].cas = W[stHead].cas
  BY <1>5, <1>6, UnrefFacts, Zenon
<1> HIDE DEF R
<1>8. /\ W[stHead].cas = stCas + 1 /\ R[stHead].refs = 1 /\ R[stHead].linked = stIt[stHead].linked
      /\ R[stHead].val = v /\ R[stHead].cas = stCas + 1 /\ \A j \in Ids : j # stHead => R[j] = stIt[j]
  BY <1>1, <1>3, <1>5, <1>6, <1>7, SMTT(30)
<1>9. W = Rewrite(Ref(stIt, stHead), stHead, v) /\ R = Unref(W, stHead)
  BY Zenon DEF W, R, H
<1> QED BY <1>7, <1>8, <1>9, Zenon

(* do_add_delta through a new item: item_replace, the identifier copied to the *)
(* old item as well, both references dropped.                              *)
LEMMA DetourStep ==
  ASSUME NEW S \in Table, NEW o \in Ids, NEW s \in Ids, o # s, stCas \in Nat,
         NEW refs \in Nat, refs >= 1, S[o].refs = refs + 1, S[s].refs = 1
  PROVE  LET A == Replace(S, o, s)
             R == Unref(Unref([A EXCEPT ![o].cas = A[s].cas], s), o)
         IN  /\ R \in Table
             /\ \A j \in Ids : j \notin {o, s} => R[j] = S[j]
             /\ R[s].refs = 1 /\ R[s].linked /\ R[s].cas = stCas + 1 /\ R[s].val = S[s].val
             /\ refs = 1 => R[o] = FreeItem
             /\ refs # 1 => R[o].refs = refs - 1 /\ R[o].linked = FALSE /\ R[o].val = S[o].val
<1> DEFINE A == Replace(S, o, s)
           X == [A[o] EXCEPT !.cas = A[s].cas]
           C == [A EXCEPT ![o].cas = A[s].cas]
           B == Unref(C, s)
           R == Unref(B, o)
<1>1. /\ A \in Table
      /\ \A j \in Ids : j \notin {o, s} => A[j] = S[j]
      /\ A[o].refs = refs /\ A[o].linked = FALSE /\ A[o].val = S[o].val
      /\ A[s].refs = 2 /\ A[s].linked /\ A[s].val = S[s].val /\ A[s].cas = stCas + 1
  <2>1. S[o].refs > 1
    OBVIOUS
  <2>2. /\ A \in Table
        /\ \A j \in Ids : j \notin {o, s} => A[j] = S[j]
        /\ A[o].refs = S[o].refs - 1 /\ A[o].linked = FALSE /\ A[o].val = S[o].val
        /\ A[s].refs = S[s].refs + 1 /\ A[s].linked
        /\ A[s].val = S[s].val /\ A[s].cas = stCas + 1
    BY <2>1, ReplaceFacts, Zenon
  <2> HIDE DEF A
  <2> QED BY <2>2
<1> HIDE DEF A
<1>2. A[o] \in Item /\ A[s] \in Item
  BY <1>1, Zenon DEF Table
<1>3. X \in Item /\ X.refs = A[o].refs /\ X.linked = A[o].linked /\ X.val = A[o].val
  BY <1>2, Zenon DEF Item
<1>4. C = [A EXCEPT ![o] = X]
  BY <1>1, Zenon DEF Table
<1> HIDE DEF X
<1>5. C \in Table /\ C[o] = X /\ \A j \in Ids : j # o => C[j] = A[j]
  <2> HIDE DEF C
  <2> QED BY <1>1, <1>3, <1>4, Zenon DEF Table
<1> HIDE DEF C
<1>6. C[s] = A[s] /\ C[s].refs > 0 /\ C[s].refs # 1 /\ C[s].refs - 1 = 1
  BY <1>1, <1>5, SMTT(30)
<1>7. /\ B \in Table /\ \A j \in Ids : j # s => B[j] = C[j]
      /\ B[s].refs = C[s].refs - 1 /\ B[s].linked = C[s].linked
      /\ B[s].val = C[s].val /\ B[s].cas = C[s].cas
  BY <1>5, <1>6, UnrefFacts, Zenon
<1> HIDE DEF B
<1>8. B[o] = X /\ B[o].refs > 0 /\ B[o].refs = refs
  BY <1>1, <1>3, <1>5, <1>7, SMTT(30)
<1>9. /\ R \in Table /\ \A j \in Ids : j # o => R[j] = B[j]
      /\ B[o].refs = 1 => R[o] = FreeItem
      /\ B[o].refs # 1 =>
           R[o].refs = B[o].refs - 1 /\ R[o].linked = B[o].linked /\ R[o].val = B[o].val
  BY <1>7, <1>8, UnrefFacts, SMTT(30)
<1> HIDE DEF R
<1>10. /\ R[s].refs = 1 /\ R[s].linked /\ R[s].cas = stCas + 1 /\ R[s].val = S[s].val
       /\ \A j \in Ids : j \notin {o, s} => R[j] = S[j]
  BY <1>1, <1>5, <1>6, <1>7, <1>9, SMTT(30)
<1>11. /\ refs = 1 => R[o] = FreeItem
       /\ refs # 1 => R[o].refs = refs - 1 /\ R[o].linked = FALSE /\ R[o].val = S[o].val
  BY <1>1, <1>3, <1>8, <1>9, Zenon
<1>12. R = Unref(Unref([A EXCEPT ![o].cas = A[s].cas], s), o) /\ A = Replace(S, o, s)
  BY Zenon DEF A, B, C, R
<1> QED BY <1>9, <1>10, <1>11, <1>12, Zenon

(* do_add_delta.                                                           *)
LEMMA InvAddDelta ==
  ASSUME StoreAssumption, StoreInv, NEW c \in StClients, NEW incr \in BOOLEAN,
         NEW d \in StDeltas, NEW cas, AddDelta(c, incr, d, cas)
  PROVE  StoreInv'
<1> DEFINE o == stHead
           held == Ref(stIt, o)
           v == <<Added(stIt[o].val[1], incr, d)>>
           refs == stIt[o].refs
<1>1. /\ stHead # 0 /\ o \in Ids /\ refs >= 1 /\ refs \in Nat /\ stIt \in Table
      /\ stCas \in Nat /\ stHold' = stHold
  BY HeadFacts, Zenon DEF AddDelta, StoreInv, Types
<1>2. v \in Values
  <2>1. stIt[o].val \in Values /\ Numeric(stIt[o].val)
    BY <1>1, Zenon DEF AddDelta, Table, Item
  <2> QED BY <2>1, AddedType, Zenon
<1>3. /\ held \in Table /\ \A j \in Ids : j # o => held[j] = stIt[j]
      /\ held[o].refs = stIt[o].refs + 1 /\ held[o].linked = stIt[o].linked
      /\ held[o].val = stIt[o].val
  BY <1>1, RefFacts, SMTT(30)
<1>4. CASE /\ InPlace(held[o], v)
           /\ stIt' = Unref(Rewrite(held, o, v), o) /\ stCas' = stCas + 1
           /\ Told(c, Rewrite(held, o, v)[o].cas, v) /\ UNCHANGED stHead
  <2>1. refs = 1
    BY <1>1, <1>3, <1>4, SMTT(30) DEF InPlace
  <2>2. stIt[o].linked
    BY <1>1, SMTT(30) DEF StoreInv, RefInv
  <2> DEFINE W == Rewrite(Ref(stIt, o), o, v)
             R == Unref(W, o)
  <2>3. /\ W[o].cas = stCas + 1 /\ R \in Table
        /\ \A j \in Ids : j # o => R[j] = stIt[j]
        /\ R[o].refs = 1 /\ R[o].linked /\ R[o].val = v /\ R[o].cas = stCas + 1
    <3>1. /\ stIt \in Table /\ o \in Ids /\ stIt[o].refs = 1 /\ v \in Values /\ stCas \in Nat
      BY <1>1, <1>2, <2>1, SMTT(30)
    <3>2. /\ W[o].cas = stCas + 1 /\ R \in Table
          /\ \A j \in Ids : j # o => R[j] = stIt[j]
          /\ R[o].refs = 1 /\ R[o].linked = stIt[o].linked
          /\ R[o].val = v /\ R[o].cas = stCas + 1
      <4> HIDE DEF v
      <4> QED BY <3>1, RewriteStep, ZenonT(60)
    <3> HIDE DEF W, R, v
    <3> QED BY <2>2, <3>2, Zenon
  <2>4. stIt' = R /\ Told(c, W[o].cas, v)
    BY <1>4, Zenon
  <2> HIDE DEF W, R, v
  <2>5. Told(c, stCas + 1, stIt'[o].val)
    BY <2>3, <2>4, Zenon
  <2> QED BY <1>1, <1>4, <2>1, <2>3, <2>4, <2>5, Rewritten, SMTT(30)
<1>5. CASE LET n == Min(Unused(held))
               new == Replace(Alloc(held, v, 0), o, n)
           IN  /\ ~InPlace(held[o], v) /\ Unused(held) # {}
               /\ stIt' = Unref(Unref([new EXCEPT ![o].cas = new[n].cas], n), o)
               /\ stHead' = n /\ stCas' = stCas + 1 /\ Told(c, stCas + 1, v)
  <2> DEFINE n == Min(Unused(held))
             S == Alloc(held, v, 0)
             A == Replace(S, o, n)
             R == Unref(Unref([A EXCEPT ![o].cas = A[n].cas], n), o)
  <2>1. /\ Unused(held) # {} /\ stIt' = R /\ stHead' = n /\ stCas' = stCas + 1
        /\ Told(c, stCas + 1, v)
    BY <1>5, Zenon
  <2>2. /\ S \in Table /\ n \in Ids /\ held[n].refs = 0
        /\ \A j \in Ids : j # n => S[j] = held[j]
        /\ S[n].refs = 1 /\ S[n].val = v
    <3>1. held \in Table /\ Unused(held) # {} /\ v \in Values /\ 0 \in Nat
      BY <1>2, <1>3, <2>1, Zenon
    <3> HIDE DEF held, v
    <3> QED BY <3>1, AllocFacts
  <2> HIDE DEF n, S, held, v
  <2>3. n # o /\ stIt[n].refs = 0
    BY <1>1, <1>3, <2>2
  <2>4. /\ R \in Table
        /\ \A j \in Ids : j \notin {o, n} => R[j] = S[j]
        /\ R[n].refs = 1 /\ R[n].linked /\ R[n].cas = stCas + 1 /\ R[n].val = S[n].val
        /\ refs = 1 => R[o] = FreeItem
        /\ refs # 1 => R[o].refs = refs - 1 /\ R[o].linked = FALSE /\ R[o].val = S[o].val
    <3>1. /\ o \in Ids /\ n \in Ids /\ o # n /\ refs \in Nat /\ refs >= 1
          /\ S[o].refs = refs + 1 /\ S[n].refs = 1 /\ S \in Table /\ stCas \in Nat
      BY <1>1, <1>3, <2>2, <2>3, Zenon
    <3> HIDE DEF refs
    <3> QED BY <3>1, DetourStep, ZenonT(60)
  <2> HIDE DEF R
  <2>5. \A j \in Ids : j \notin {n, stHead} => stIt'[j] = stIt[j]
    BY <1>3, <2>1, <2>2, <2>4, Zenon
  <2>6. S[o].val = stIt[o].val
    BY <1>1, <1>3, <2>2, <2>3, Zenon
  <2>7. Told(c, stCas + 1, stIt'[n].val)
    BY <2>1, <2>2, <2>4, SMTT(30)
  <2>8. /\ stIt' \in Table
        /\ stIt'[n].refs = 1 /\ stIt'[n].linked /\ stIt'[n].cas = stCas + 1
        /\ stIt[stHead].refs = 1 => stIt'[stHead] = FreeItem
        /\ stIt[stHead].refs # 1 =>
             /\ stIt'[stHead].refs = stIt[stHead].refs - 1
             /\ stIt'[stHead].linked = FALSE /\ stIt'[stHead].val = stIt[stHead].val
    BY <2>1, <2>4, <2>6, Zenon
  <2> QED BY <1>1, <2>1, <2>2, <2>3, <2>5, <2>7, <2>8, Stored, Zenon
<1> QED BY <1>4, <1>5, Zenon DEF AddDelta

-----------------------------------------------------------------------------
(* limited_get: the response takes a reference.                            *)
LEMMA InvGet ==
  ASSUME StoreAssumption, StoreInv, NEW c \in StClients, Get(c) PROVE StoreInv'
<1> DEFINE N(i) == Cardinality(Readers(i))
           o == stHead
           g == [item |-> o, val |-> stIt[o].val]
<1>1. /\ o \in Ids /\ stIt \in Table /\ stIt[o] \in Item /\ stHold[c] = {}
      /\ stHold' = [stHold EXCEPT ![c] = {g}] /\ UNCHANGED <<stHead, stCas>> /\ stHead # 0
      /\ Told(c, stIt[o].cas, stIt[o].val) /\ stIt' = Ref(stIt, o)
  BY HeadFacts, SMTT(30) DEF Get, StoreInv, Types, Table
<1>2. /\ stIt' \in Table /\ \A j \in Ids : j # o => stIt'[j] = stIt[j]
      /\ stIt'[o].refs = stIt[o].refs + 1 /\ stIt'[o].linked = stIt[o].linked
      /\ stIt'[o].val = stIt[o].val /\ stIt'[o].cas = stIt[o].cas
  BY <1>1, RefFacts, SMTT(30)
<1>3. stIt[o].val \in Values /\ stIt[o].cas \in Nat /\ g \in [item : Ids, val : Values]
  BY <1>1, SMTT(30) DEF Item
<1>4. /\ stHold'[c] = {g} /\ g.item = o /\ g.val = stIt[o].val
      /\ \A d \in StClients : d # c => stHold'[d] = stHold[d]
  BY <1>1, SMTT(30) DEF StoreInv, Types
<1> HIDE DEF g
<1>5. Types'
  BY <1>1, <1>2, <1>3, <1>4, SMTT(30) DEF StoreInv, Types, Told
<1>6. ASSUME NEW i \in Ids
      PROVE  /\ i # o => Readers(i)' = Readers(i)
             /\ i = o => Readers(i)' = Readers(i) \cup {c} /\ c \notin Readers(i)
  BY <1>1, <1>4, Zenon DEF Readers
<1>7. ASSUME NEW i \in Ids
      PROVE  (i # o => N(i)' = N(i)) /\ (i = o => N(i)' = N(i) + 1)
  <2>1. IsFiniteSet(Readers(i))
    BY Counts, Zenon
  <2>2. i = o => Cardinality(Readers(i) \cup {c}) = Cardinality(Readers(i)) + 1
    BY <1>6, <2>1, FS_AddElement, Zenon
  <2> QED BY <1>6, <2>2, Zenon
<1>8. \A i \in Ids : N(i) \in Nat
  BY Counts, Zenon
<1>9. RefInv'
  <2> SUFFICES ASSUME NEW i \in Ids
               PROVE  /\ stIt'[i].linked <=> (o = i)
                      /\ stIt'[i].refs = N(i)' + (IF o = i THEN 1 ELSE 0)
                      /\ stIt'[i].refs = 0 => stIt'[i] = FreeItem
    BY <1>1, Zenon DEF RefInv
  <2>1. /\ stIt[i].linked <=> (o = i)
        /\ stIt[i].refs = N(i) + (IF o = i THEN 1 ELSE 0)
        /\ stIt[i].refs = 0 => stIt[i] = FreeItem
    BY Zenon DEF StoreInv, RefInv
  <2>2. CASE i = o
    <3>1. N(i) \in Nat /\ N(i)' = N(i) + 1
      BY <1>7, <1>8, <2>2, Zenon
    <3>2. stIt'[i].linked <=> (o = i)
      BY <1>2, <2>1, <2>2, Zenon
    <3>3. stIt'[i].refs = N(i)' + 1
      BY <1>2, <2>1, <2>2, <3>1, Zenon
    <3>4. stIt'[i].refs # 0
      BY <3>1, <3>3
    <3> QED BY <2>2, <3>2, <3>3, <3>4, Zenon
  <2>3. CASE i # o
    BY <1>2, <1>7, <2>1, <2>3, SMTT(30)
  <2> QED BY <2>2, <2>3, Zenon
<1>10. CasInv'
  <2>1. /\ stKnown'[c] = [cas |-> stIt[o].cas, val |-> stIt[o].val]
        /\ \A d \in StClients : d # c => stKnown'[d] = stKnown[d]
    BY <1>1, Zenon DEF Told, StoreInv, Types
  <2>2. stIt[o].cas \in 1..stCas /\ stCas \in Nat
    BY <1>1, SMTT(30) DEF StoreInv, Types, CasInv
  <2>3. CasUnique'
    BY <1>1, <1>2, <2>1 DEF StoreInv, CasInv, CasUnique
  <2> QED BY <1>1, <1>2, <2>1, <2>2, <2>3, SMTT(30) DEF StoreInv, CasInv
<1>11. ReadersStable'
  <2> SUFFICES ASSUME NEW d \in StClients, NEW h \in stHold'[d] PROVE stIt'[h.item].val = h.val
    BY Zenon DEF ReadersStable
  <2>1. CASE d = c
    BY <1>2, <1>4, <2>1, Zenon
  <2>2. CASE d # c
    <3>1. h \in stHold[d] /\ h.item \in Ids
      BY <1>4, <2>2 DEF StoreInv, Types
    <3> QED BY <1>2, <3>1, Zenon DEF StoreInv, ReadersStable
  <2> QED BY <2>1, <2>2, Zenon
<1> QED BY <1>5, <1>9, <1>10, <1>11, SMTT(30) DEF StoreInv

(* resp_finish: the response gives its reference back.                     *)
LEMMA InvSent ==
  ASSUME StoreAssumption, StoreInv, NEW c \in StClients, Sent(c) PROVE StoreInv'
<1> DEFINE N(i) == Cardinality(Readers(i))
<1>1. PICK h \in stHold[c] : stIt' = Unref(stIt, h.item)
  BY Zenon DEF Sent
<1> DEFINE o == h.item
<1>2. /\ o \in Ids /\ stIt \in Table /\ stHold[c] = {h} /\ UNCHANGED <<stHead, stCas, stKnown>>
      /\ stHold' = [stHold EXCEPT ![c] = {}] /\ stHead \in 0..StItems
  BY DEF Sent, StoreInv, Types
<1>3. /\ stHold'[c] = {} /\ \A d \in StClients : d # c => stHold'[d] = stHold[d]
  BY <1>2, Zenon DEF StoreInv, Types
<1>4. /\ Readers(o)' = Readers(o) \ {c} /\ c \in Readers(o)
      /\ \A i \in Ids : i # o => Readers(i)' = Readers(i)
  BY <1>2, <1>3, Zenon DEF Readers
<1>5. \A i \in Ids : N(i) \in Nat
  BY Counts, SMTT(30)
<1>6. /\ N(o)' = N(o) - 1 /\ N(o) # 0 /\ N(o) \in Nat
      /\ \A i \in Ids : i # o => N(i)' = N(i)
  <2>1. IsFiniteSet(Readers(o)) /\ N(o) \in Nat /\ (N(o) = 0 <=> Readers(o) = {})
    BY Counts, Zenon
  <2>2. Cardinality(Readers(o) \ {c}) = Cardinality(Readers(o)) - 1
    BY <1>4, <2>1, FS_RemoveElement, Zenon
  <2> QED BY <1>4, <2>1, <2>2, Zenon
<1>7. \A i \in Ids : /\ stIt[i].linked <=> (stHead = i)
                     /\ stIt[i].refs = N(i) + (IF stHead = i THEN 1 ELSE 0)
                     /\ stIt[i].refs = 0 => stIt[i] = FreeItem
  BY Zenon DEF StoreInv, RefInv
<1>8. stIt[o].refs > 0 /\ stIt[o].refs = N(o) + (IF stHead = o THEN 1 ELSE 0)
  <2>1. stIt[o].refs = N(o) + (IF stHead = o THEN 1 ELSE 0)
    BY <1>2, <1>7, Zenon
  <2> HIDE DEF N
  <2> QED BY <1>6, <2>1
<1>9. /\ stIt' \in Table /\ \A j \in Ids : j # o => stIt'[j] = stIt[j]
      /\ stIt[o].refs = 1 => stIt'[o] = FreeItem
      /\ stIt[o].refs # 1 =>
           /\ stIt'[o].refs = stIt[o].refs - 1 /\ stIt'[o].linked = stIt[o].linked
           /\ stIt'[o].val = stIt[o].val /\ stIt'[o].cas = stIt[o].cas
  <2>1. o \in Ids /\ stIt \in Table /\ stIt[o].refs > 0 /\ stIt' = Unref(stIt, o)
    BY <1>1, <1>2, <1>8, SMTT(30)
  <2> HIDE DEF o
  <2> QED BY <2>1, UnrefFacts, SMTT(30)
<1>10. stHead = o => stIt[o].refs # 1
  <2> HIDE DEF N
  <2> QED BY <1>6, <1>8, SMTT(30)
<1> HIDE DEF o
<1>11. Types'
  BY <1>2, <1>3, <1>9, SMTT(30) DEF StoreInv, Types
<1>12. RefInv'
  <2> SUFFICES ASSUME NEW i \in Ids
               PROVE  /\ stIt'[i].linked <=> (stHead = i)
                      /\ stIt'[i].refs = N(i)' + (IF stHead = i THEN 1 ELSE 0)
                      /\ stIt'[i].refs = 0 => stIt'[i] = FreeItem
    BY <1>2, Zenon DEF RefInv
  <2>1. CASE i # o
    BY <1>6, <1>7, <1>9, <2>1, SMTT(30)
  <2>2. CASE i = o /\ stIt[o].refs = 1
    <3>1. stIt'[i] = FreeItem /\ stHead # i
      BY <1>9, <1>10, <2>2, Zenon
    <3>2. FreeItem.refs = 0 /\ FreeItem.linked = FALSE
      BY Zenon DEF FreeItem
    <3>3. N(o) = 1 /\ N(o)' = 0
      <4> HIDE DEF N
      <4> QED BY <1>6, <1>8, <2>2, <3>1
    <3> QED BY <2>2, <3>1, <3>2, <3>3
  <2>3. CASE i = o /\ stIt[o].refs # 1
    <3>1. stIt'[i].linked <=> (stHead = i)
      BY <1>7, <1>9, <2>3, Zenon
    <3>2. stIt'[i].refs = N(i)' + (IF stHead = i THEN 1 ELSE 0) /\ stIt'[i].refs # 0
      <4> HIDE DEF N
      <4> QED BY <1>6, <1>8, <1>9, <2>3, SMTT(30)
    <3> QED BY <3>1, <3>2, Zenon
  <2> QED BY <2>1, <2>2, <2>3, Zenon
<1>13. CasInv'
  <2>1. stHead # 0 => stIt'[stHead].cas = stIt[stHead].cas /\ stIt'[stHead].val = stIt[stHead].val
    BY <1>2, <1>9, <1>10, HeadFacts, SMTT(30)
  <2> QED BY <1>2, <2>1, SMTT(30) DEF StoreInv, CasInv, CasUnique
<1>14. ReadersStable'
  <2> SUFFICES ASSUME NEW d \in StClients, NEW k \in stHold'[d] PROVE stIt'[k.item].val = k.val
    BY Zenon DEF ReadersStable
  <2>1. d # c /\ k \in stHold[d] /\ k.item \in Ids /\ stIt[k.item].val = k.val
    BY <1>3, SMTT(30) DEF StoreInv, Types, ReadersStable
  <2>2. CASE k.item # o
    BY <1>9, <2>1, <2>2, Zenon
  <2>3. CASE k.item = o
    <3>1. d \in Readers(o) /\ d \in Readers(o)'
      BY <1>4, <2>1, <2>3, Zenon DEF Readers
    <3>2. N(o)' # 0 /\ N(o)' \in Nat
      <4>1. IsFiniteSet(Readers(o) \ {c})
        BY Counts, FS_RemoveElement, SMTT(30)
      <4>2. Cardinality(Readers(o) \ {c}) # 0 /\ Cardinality(Readers(o) \ {c}) \in Nat
        BY <1>4, <3>1, <4>1, FS_EmptySet, FS_CardinalityType, SMTT(30)
      <4> QED BY <1>4, <4>2, Zenon
    <3>3. stIt[o].refs # 1
      <4> HIDE DEF N
      <4> QED BY <1>6, <1>8, <3>2
    <3> QED BY <1>9, <2>1, <2>3, <3>3, SMTT(30)
  <2> QED BY <2>2, <2>3, Zenon
<1> QED BY <1>11, <1>12, <1>13, <1>14, Zenon DEF StoreInv

(* The item is deleted, evicted or expires.                                *)
LEMMA InvEvict ==
  ASSUME StoreAssumption, StoreInv, Evict PROVE StoreInv'
<1> DEFINE N(i) == Cardinality(Readers(i))
           o == stHead
<1>1. /\ o \in Ids /\ stIt \in Table /\ stIt[o].refs >= 1 /\ stIt[o].refs \in Nat /\ stHead' = 0
      /\ stIt' = Unlink(stIt, o) /\ UNCHANGED <<stCas, stHold, stKnown>>
  BY HeadFacts, SMTT(30) DEF Evict, StoreInv, Types
<1>2. /\ stIt' \in Table /\ \A j \in Ids : j # o => stIt'[j] = stIt[j]
      /\ stIt[o].refs = 1 => stIt'[o] = FreeItem
      /\ stIt[o].refs # 1 => /\ stIt'[o].refs = stIt[o].refs - 1 /\ stIt'[o].linked = FALSE
                             /\ stIt'[o].val = stIt[o].val
  <2>1. o \in Ids /\ stIt \in Table /\ stIt[o].refs > 0
    BY <1>1
  <2> QED BY <1>1, <2>1, UnlinkFacts, ZenonT(40)
<1>3. ASSUME NEW i \in Ids
      PROVE  /\ N(i) \in Nat /\ Readers(i)' = Readers(i) /\ N(i)' = N(i) /\ i # 0
             /\ stIt[i].linked <=> (stHead = i)
             /\ stIt[i].refs = N(i) + (IF stHead = i THEN 1 ELSE 0)
             /\ stIt[i].refs = 0 => stIt[i] = FreeItem
  <2>1. Readers(i)' = Readers(i)
    BY <1>1, Zenon DEF Readers
  <2>2. N(i) \in Nat
    BY Counts, Zenon
  <2>3. i # 0
    BY SMTT(30) DEF Ids, StoreAssumption
  <2> QED BY <2>1, <2>2, <2>3, Zenon DEF StoreInv, RefInv
<1>4. Types'
  BY <1>1, <1>2, SMTT(30) DEF StoreInv, Types, StoreAssumption
<1>5. RefInv'
  <2> SUFFICES ASSUME NEW i \in Ids
               PROVE  /\ stIt'[i].linked <=> (0 = i)
                      /\ stIt'[i].refs = N(i) + (IF 0 = i THEN 1 ELSE 0)
                      /\ stIt'[i].refs = 0 => stIt'[i] = FreeItem
    BY <1>1, <1>3, SMTT(30) DEF RefInv
  <2>1. CASE i # o
    BY <1>2, <1>3, <2>1, Zenon
  <2>2. CASE i = o /\ stIt[o].refs = 1
    <3>1. stIt'[i] = FreeItem /\ N(i) = 0 /\ i # 0
      BY <1>2, <1>3, <2>2
    <3>2. FreeItem.refs = 0 /\ FreeItem.linked = FALSE
      BY Zenon DEF FreeItem
    <3> QED BY <3>1, <3>2, SMTT(30)
  <2>3. CASE i = o /\ stIt[o].refs # 1
    <3>1. stIt'[i].refs = N(i) /\ N(i) \in Nat /\ N(i) # 0 /\ i # 0 /\ stIt'[i].linked = FALSE
      BY <1>2, <1>3, <2>3
    <3>2. N(i) + (IF 0 = i THEN 1 ELSE 0) = N(i)
      BY <3>1, SMTT(30)
    <3> QED BY <3>1, <3>2, Zenon
  <2> QED BY <2>1, <2>2, <2>3, SMTT(30)
<1>6. CasInv'
  BY <1>1, SMTT(30) DEF StoreInv, CasInv, CasUnique
<1>7. ReadersStable'
  <2> SUFFICES ASSUME NEW d \in StClients, NEW h \in stHold[d] PROVE stIt'[h.item].val = h.val
    BY <1>1, Zenon DEF ReadersStable
  <2>1. h.item \in Ids /\ stIt[h.item].val = h.val
    BY DEF StoreInv, Types, ReadersStable
  <2>2. CASE h.item # o
    BY <1>2, <2>1, <2>2, Zenon
  <2>3. CASE h.item = o
    <3>1. d \in Readers(o)
      BY <2>3, Zenon DEF Readers
    <3>2. N(o) \in Nat /\ N(o) # 0
      BY <3>1, Counts, SMTT(30)
    <3>3. stIt[o].refs = N(o) + 1
      BY <1>1, <1>3, Zenon
    <3>4. stIt[o].refs # 1
      BY <3>2, <3>3
    <3> QED BY <1>2, <2>1, <2>3, <3>4, SMTT(30)
  <2> QED BY <2>2, <2>3, Zenon
<1> QED BY <1>4, <1>5, <1>6, <1>7, SMTT(30) DEF StoreInv

-----------------------------------------------------------------------------
(* An empty cache satisfies the invariant.                                 *)
LEMMA InvInit == ASSUME StoreAssumption, StoreInit PROVE StoreInv /\ NoLostUpdate
<1>1. Types
  BY FreeType DEF StoreInit, Types, Table, Values, Ids, StoreAssumption
<1>2. RefInv
  <2> SUFFICES ASSUME NEW i \in Ids
               PROVE  /\ stIt[i].linked <=> (stHead = i)
                      /\ stIt[i].refs = Cardinality(Readers(i)) + (IF stHead = i THEN 1 ELSE 0)
                      /\ stIt[i].refs = 0 => stIt[i] = FreeItem
    BY Zenon DEF RefInv
  <2>1. stIt[i] = FreeItem /\ i # 0 /\ stHead = 0
    BY DEF StoreInit, Ids, StoreAssumption
  <2>2. Readers(i) = {}
    BY Zenon DEF StoreInit, Readers
  <2>3. Cardinality(Readers(i)) = 0
    BY <2>2, FS_EmptySet, Zenon
  <2>4. FreeItem.refs = 0 /\ FreeItem.linked = FALSE
    BY SMTT(30) DEF FreeItem
  <2> QED BY <2>1, <2>3, <2>4
<1>3. CasInv /\ ReadersStable /\ NoLostUpdate
  BY SMTT(30) DEF StoreInit, CasInv, CasUnique, ReadersStable, NoLostUpdate
<1> QED BY <1>1, <1>2, <1>3, SMTT(30) DEF StoreInv

(* The inductive step.                                                     *)
LEMMA InvStep ==
  ASSUME StoreAssumption, StoreInv, NoLostUpdate, [StoreNext]_stvars
  PROVE  StoreInv' /\ NoLostUpdate'
<1>1. CASE Evict
  BY <1>1, InvEvict, SMTT(30) DEF Evict, NoLostUpdate
<1>2. ASSUME NEW c \in StClients, Get(c) PROVE StoreInv' /\ NoLostUpdate'
  BY <1>2, InvGet, Zenon DEF Get, NoLostUpdate
<1>3. ASSUME NEW c \in StClients, Sent(c) PROVE StoreInv' /\ NoLostUpdate'
  BY <1>3, InvSent, Zenon DEF Sent, NoLostUpdate
<1>4. ASSUME NEW c \in StClients, NEW comm \in Comms, NEW cas \in {0, stKnown[c].cas},
             NEW stale \in BOOLEAN,
             StoreItem(c, comm, IF comm \in {"append", "prepend"} THEN <<Text>> ELSE <<StNum>>,
                       cas, stale)
      PROVE  StoreInv' /\ NoLostUpdate'
  <2>1. (IF comm \in {"append", "prepend"} THEN <<Text>> ELSE <<StNum>>) \in Values
    BY SMTT(30) DEF Values, Text, StoreAssumption
  <2> QED BY <1>4, <2>1, InvStoreItem, Zenon
<1>5. ASSUME NEW c \in StClients, NEW incr \in BOOLEAN, NEW d \in StDeltas,
             NEW cas \in {0, stKnown[c].cas}, AddDelta(c, incr, d, cas)
      PROVE  StoreInv' /\ NoLostUpdate'
  BY <1>5, InvAddDelta, Zenon DEF AddDelta, NoLostUpdate
<1>6. CASE UNCHANGED stvars
  BY <1>6, Same, Zenon DEF stvars, NoLostUpdate
<1> QED BY <1>1, <1>2, <1>3, <1>4, <1>5, <1>6, Zenon DEF StoreNext

(* The invariant holds in every reachable state.                           *)
LEMMA InvHolds == ASSUME StoreAssumption PROVE StoreSpec => [](StoreInv /\ NoLostUpdate)
<1>1. StoreInit => StoreInv /\ NoLostUpdate
  BY InvInit, Zenon
<1>2. StoreInv /\ NoLostUpdate /\ [StoreNext]_stvars => (StoreInv /\ NoLostUpdate)'
  BY InvStep, Zenon
<1> QED BY <1>1, <1>2, PTL DEF StoreSpec

(* memcached.c, items.c: the references of an item are its link and the    *)
(* responses that are being sent, so that no path of a command leaks or    *)
(* loses one; a CAS identifier names one value for ever, a cas overwrites  *)
(* exactly the value its client knew, and no command changes a value that  *)
(* is being transmitted.                                                   *)
THEOREM ItemsCorrect == ASSUME StoreAssumption PROVE StoreSpec => []ItemsKept
<1>1. StoreInv => RefsCounted
  BY Zenon DEF StoreInv, RefInv, RefsCounted, Readers
<1>2. StoreInv /\ NoLostUpdate => CasNamesOneValue
  BY Zenon DEF StoreInv, CasInv, CasNamesOneValue
<1> QED BY <1>1, <1>2, InvHolds, PTL DEF ItemsKept

=============================================================================
