--------------------------- MODULE AbstractStore ---------------------------
(***************************************************************************)
(* What the option keystore promises to its users: a map from keys to      *)
(* values that is updated one key at a time, atomically, and that survives *)
(* restarts.  With Lossy = TRUE the promise is the weaker one that holds   *)
(* when the medium fails or the power goes: entries may be lost or cut     *)
(* short, but no deleted entry, no older value and no value of another key *)
(* ever appears.                                                           *)
(***************************************************************************)
EXTENDS StoreMaps

CONSTANTS Readers,  \* threads that read the store while others update it
          Lossy     \* may entries be lost?

VARIABLES store,    \* the durable map
          seen      \* what each reader got from its last read

Init == /\ store \in Db
        /\ seen = [r \in Readers |-> Empty]

\* set (v \in Vals) or del (v = NoVal) of one key, every other key untouched
Update == /\ \E k \in Keys, v \in Vals \cup {NoVal} :
                store' = [store EXCEPT ![k] = v]
          /\ UNCHANGED seen

Reset == /\ store' = Empty
         /\ UNCHANGED seen

Read(r) == /\ seen' = [seen EXCEPT ![r] = store]
           /\ UNCHANGED store

\* an update that damages entries, its own too
LossyUpdate == /\ Lossy
               /\ \E k \in Keys, v \in Vals \cup {NoVal} :
                     store' \in Damaged([store EXCEPT ![k] = v])
               /\ UNCHANGED seen

\* a read that does not get all there is
LossyRead(r) == /\ Lossy
                /\ \E db \in Damaged(store) : seen' = [seen EXCEPT ![r] = db]
                /\ UNCHANGED store

Next == \/ Update
        \/ Reset
        \/ LossyUpdate
        \/ \E r \in Readers : Read(r) \/ LossyRead(r)

Spec == Init /\ [][Next]_<<store, seen>>
=============================================================================
