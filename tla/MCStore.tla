------------------------------ MODULE MCStore ------------------------------
(***************************************************************************)
(* Instances of Store for TLC, with the history that its cache abstracts.  *)
(***************************************************************************)
EXTENDS Store

VARIABLE remembered  \* the client order ids remembered in this generation

MCStoreInit == StoreInit /\ remembered = << >>

MCStoreNext ==
    \/ \E t \in Tables, c \in ClientOrders :
           StoreAccept(t, c) /\ remembered' = Append(remembered, c)
    \/ /\ \E t \in Tables, i \in 1..placed, s \in OrderStatus \ {"COOKING"} :
              StoreFinish(t, i, s)
       /\ UNCHANGED remembered
    \/ StoreReset /\ remembered' = << >>

MCStoreSpec == MCStoreInit /\ [][MCStoreNext]_<<storeVars, remembered>>

LastUse(c) ==
    CHOOSE k \in 1..Len(remembered) :
        /\ remembered[k] = c
        /\ \A m \in k+1..Len(remembered) : remembered[m] # c

Used == {remembered[k] : k \in 1..Len(remembered)}

\* "Bounded LRU of client order ids we have already acted on" (store.py:71-72):
\* the cache holds exactly the ids with fewer than DedupeCacheSize distinct ids
\* used after them, and holds each once, in the order of their last use.
SeenIsMostRecent ==
    /\ {seen[k] : k \in 1..Len(seen)} =
           {c \in Used : Cardinality({d \in Used : LastUse(d) > LastUse(c)}) < DedupeCacheSize}
    /\ \A j, k \in 1..Len(seen) : j < k => LastUse(seen[j]) < LastUse(seen[k])

Place(i) == CHOOSE t \in Tables : i \in DOMAIN orders[t]

phase ==
    [i \in 1..MaxOrders |->
        IF i > placed THEN "unplaced"
        ELSE IF \A t \in Tables : i \notin DOMAIN orders[t] THEN "gone"
        ELSE orders[Place(i)][i]]

Order == INSTANCE Lifecycle WITH Ids <- 1..MaxOrders, phase <- phase

\* Each order goes through its life once and forwards: no arrival, finish or
\* trimming of another order disturbs one that cooks, a finished order keeps its
\* status, and one that left never comes back (store.py:138-178).
OrderLifecycle == Order!LifecycleSpec
=============================================================================
