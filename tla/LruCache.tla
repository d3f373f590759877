------------------------------ MODULE LruCache ------------------------------
(***************************************************************************)
(* A least recently used cache of at most "capacity" keys, as catalog.h    *)
(* promises one: the keys from the least to the most recently used.        *)
(***************************************************************************)
EXTENDS SequencesExt

CONSTANT Keys

VARIABLES
  recency,    \* the keys held, least recently used first
  capacity    \* how many it may hold

Cached(k) == \E i \in DOMAIN recency : recency[i] = k

LruInit == recency = <<>> /\ capacity \in Nat

\* A hit makes its key the most recently used.
Touch(k) ==
  \E i \in DOMAIN recency :
    /\ recency[i] = k
    /\ recency' = Append(RemoveAt(recency, i), k)
    /\ UNCHANGED capacity

\* A miss with room left.
Insert(k) ==
  /\ ~ Cached(k)
  /\ Len(recency) < capacity
  /\ recency' = Append(recency, k)
  /\ UNCHANGED capacity

\* A miss in a full cache: exactly the least recently used key goes.
Replace(k) ==
  /\ ~ Cached(k)
  /\ Len(recency) = capacity
  /\ recency # <<>>
  /\ recency' = Append(Tail(recency), k)
  /\ UNCHANGED capacity

\* The client withdraws a key.
Drop(k) ==
  \E i \in DOMAIN recency :
    /\ recency[i] = k
    /\ recency' = RemoveAt(recency, i)
    /\ UNCHANGED capacity

\* Another cache, of another size, takes its place.
LruReset == recency' = <<>> /\ capacity' \in Nat

LruNext ==
  \/ \E k \in Keys : Touch(k) \/ Insert(k) \/ Replace(k) \/ Drop(k)
  \/ LruReset

LruSpec == LruInit /\ [][LruNext]_<<recency, capacity>>

=============================================================================
