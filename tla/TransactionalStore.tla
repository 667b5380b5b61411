-------------------------- MODULE TransactionalStore --------------------------
(***************************************************************************)
(* What the rest of the node expects of the block database: a key-value    *)
(* store whose users open a transaction, see their own pending writes at   *)
(* once, and make all of them visible to the others in one step or not at  *)
(* all.  A transaction is a partial overlay of the store: the order and    *)
(* the number of the writes that built it do not matter.                   *)
(***************************************************************************)
CONSTANTS Handle, Key, Value, NotFound, NULL

VARIABLES
    store,      \* key -> value, or NotFound
    overlay,    \* handle -> NULL outside a transaction, or key -> pending value
    lastRead    \* handle, key and answer of the latest read, or NULL

vars == <<store, overlay, lastRead>>

\* A key the transaction has not written.
Untouched == NULL
Empty == [k \in Key |-> Untouched]

\* The answer a read of k through h must give.
View(h, k) ==
    IF overlay[h] = NULL \/ overlay[h][k] = Untouched THEN store[k] ELSE overlay[h][k]

Init ==
    /\ store = [k \in Key |-> NotFound]
    /\ overlay = [h \in Handle |-> NULL]
    /\ lastRead = NULL

Begin(h) ==
    /\ overlay[h] = NULL
    /\ overlay' = [overlay EXCEPT ![h] = Empty]
    /\ UNCHANGED <<store, lastRead>>

\* Put a value, or NotFound to delete the key.
Set(h, k, v) ==
    /\ IF overlay[h] = NULL
         THEN store' = [store EXCEPT ![k] = v] /\ UNCHANGED overlay
         ELSE overlay' = [overlay EXCEPT ![h][k] = v] /\ UNCHANGED store
    /\ UNCHANGED lastRead

Commit(h) ==
    /\ overlay[h] # NULL
    /\ store' = [k \in Key |-> View(h, k)]
    /\ overlay' = [overlay EXCEPT ![h] = NULL]
    /\ UNCHANGED lastRead

\* Abort, a failed commit, the end of the handle's scope, or a crash of them all.
Discard(H) ==
    /\ overlay' = [h \in Handle |-> IF h \in H THEN NULL ELSE overlay[h]]
    /\ UNCHANGED <<store, lastRead>>

ReadKey(h, k) ==
    /\ lastRead' = <<h, k, View(h, k)>>
    /\ UNCHANGED <<store, overlay>>

Next ==
    \/ \E h \in Handle : Begin(h) \/ Commit(h) \/ \E k \in Key : ReadKey(h, k)
    \/ \E h \in Handle, k \in Key, v \in Value \cup {NotFound} : Set(h, k, v)
    \/ \E H \in SUBSET Handle : Discard(H)

Spec == Init /\ [][Next]_vars
=============================================================================
