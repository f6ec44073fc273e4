----------------------------- MODULE StoreMaps -----------------------------
(***************************************************************************)
(* The maps the option keystore is about: std::map<string, string> _mapdb  *)
(* of keystore.h, and what a failure of the medium may make of one.        *)
(***************************************************************************)
CONSTANTS Keys,   \* the option names
          Vals,   \* the option values
          NoVal,  \* "this key is not in the map"
          Junk    \* a value that is not one of its entry's: cut short, or read
                  \* where there is none (values[1] of keystore.cpp:274)

Db    == [Keys -> Vals \cup {NoVal, Junk}]
Empty == [k \in Keys |-> NoVal]

\* db after entries were lost or cut: an entry that is still whole is the old one
Damaged(db) == {d \in Db : \A k \in Keys : d[k] \in {db[k], NoVal, Junk}}
=============================================================================
