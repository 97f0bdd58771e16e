---------------------------- MODULE ContentStore ----------------------------
(***************************************************************************)
(* MemoryContentStore: a map from BLAKE3 hashes to bodies behind a         *)
(* read-write lock.  Every method takes the lock once, so each operation   *)
(* is one step; a caller that needs two of them (contains, then put) is    *)
(* interleaved with the other holders of the Arc in between.               *)
(***************************************************************************)
EXTENDS BcpWire

VARIABLE store   \* hash -> body, for the hashes that are in the map

StoreInit == store = [h \in {} |-> <<>>]

\* contains(): is the hash in the map?
Contains(h) == h \in DOMAIN store

\* get(): the body under a hash, for a hash the map contains.
Get(h) == store[h]

\* Mutation: the key is hashed before the summary prefix is in front.
PutUnprefixed(x) ==
  LET h == Hash(IF Len(x) > 1 THEN Tail(x) ELSE x) IN
  store' = [k \in DOMAIN store \cup {h} |-> IF k \in DOMAIN store THEN store[k] ELSE x]

\* put(): entry(hash).or_insert(content).
Put(x) ==
  store' = [h \in DOMAIN store \cup {Hash(x)} |->
              IF h \in DOMAIN store THEN store[h] ELSE x]
-----------------------------------------------------------------------------
(* Every entry is filed under its own hash.                                *)
StoreSound == \A h \in DOMAIN store : h = Hash(store[h]) /\ store[h] \in Bytes

(* The map only grows and never changes an entry: a reference that was     *)
(* resolvable once stays resolvable, to the same bytes.                    *)
StoreGrows ==
  /\ DOMAIN store \subseteq DOMAIN store'
  /\ \A h \in DOMAIN store : store'[h] = store[h]
=============================================================================
