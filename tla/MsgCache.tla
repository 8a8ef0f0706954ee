------------------------------ MODULE MsgCache ------------------------------
(***************************************************************************)
(* What the cache of messages promises to its callers (the class comment   *)
(* of DiskLruCache.kt and its use by MsgsCacheManager.kt): a message that  *)
(* was stored can be read under its key until it is replaced or dropped.   *)
(* The cache may drop any entry at any time (eviction, clean-up, a crash,  *)
(* an I/O error), but what a key holds changes only by a commit, each      *)
(* stored version is committed at most once, and a version that was        *)
(* replaced or dropped never comes back.                                   *)
(***************************************************************************)
EXTENDS Naturals

CONSTANTS Keys,       \* keys of messages
          Versions    \* stored versions, one per call of storeMsg

NoVersion == 0

VARIABLES cache,      \* what a read of a key returns
          pool        \* versions that have not been readable yet

vars == <<cache, pool>>

Init == /\ cache = [k \in Keys |-> NoVersion]
        /\ pool = Versions

\* Editor.commit makes the new version of one key readable.
Commit(k, v) == /\ v \in pool
                /\ pool' = pool \ {v}
                /\ cache' = [cache EXCEPT ![k] = v]

\* Any entries are dropped.
Drop == /\ \A k \in Keys : cache'[k] \in {cache[k], NoVersion}
        /\ UNCHANGED pool

Next == (\E v \in pool, k \in Keys : Commit(k, v)) \/ Drop

Spec == Init /\ [][Next]_vars
=============================================================================
