------------------------------ MODULE Keystore ------------------------------
(***************************************************************************)
(* The option keystore (keystore.cpp) on its filesystem: the one main      *)
(* thread that updates it - the console commands set, del, reset, format   *)
(* and the PUT handlers all run from the event queue of main() - step by   *)
(* step, threads that read it meanwhile (init_app, network_connect), and   *)
(* the failures of the medium and of the power supply.                     *)
(*                                                                         *)
(* A file is abstracted to the map its text parses to and to where its     *)
(* text ends; KeystoreFormat checks that abstraction against the text      *)
(* format.  Keys are numbers: the place of a key in the order in which     *)
(* std::map walks them and to_file() prints them.                          *)
(***************************************************************************)
EXTENDS Naturals, StoreMaps

CONSTANTS NoFile,   \* "there is no such file"
          Readers,  \* threads that open the keystore outside of the main thread
          Faults    \* the failures that may happen

FaultKinds == {"open", "read", "fopen", "fwrite", "fclose", "remove", "rename", "crash"}

\* Where a text ends: where to_file() ended it, or cut after an entry, in a value
\* or in a key.  A key without a '=' is what to_db() cannot read.
Ends == {"whole", "line", "value", "key"}

\* flushed: fclose() did not fail on it
Texts == [map : Db, end : Ends, flushed : BOOLEAN]
Files == Texts \cup {NoFile}

ASSUME KeystoreAssumption ==
          /\ Keys \subseteq Nat
          /\ NoVal \notin Vals
          /\ Junk \notin Vals \cup {NoVal}
          /\ NoFile \notin Texts
          /\ Faults \subseteq FaultKinds

VARIABLES real,   \* the keystore file: NoFile or its text
          tmp,    \* /sd/keystore.tmp, the same
          pc,     \* where the main thread is in the operation it runs
          op,     \* the update it runs: the key and its new value
          mem,    \* _mapdb of the Keystore object it uses
          seen    \* the map each reader got from its last open()

vars == <<real, tmp, pc, op, mem, seen>>

Ops == [key : Keys, val : Vals \cup {NoVal}]
PCs == {"idle", "open", "modify", "fopen", "fwrite", "fclose", "remove", "rename"}

TextOf(db, e) == [map |-> db, end |-> e, flushed |-> TRUE]
WholeText(db)   == TextOf(db, "whole")
Blank       == TextOf(Empty, "line")

\* the entries that come before key k, and what a text that ends at k's holds of it
UpTo(db, k) == [j \in Keys |-> IF j < k THEN db[j] ELSE NoVal]
CutAt(db, k) == {TextOf(UpTo(db, k), "line"), TextOf(UpTo(db, k), "key")}
                   \cup {TextOf([UpTo(db, k) EXCEPT ![k] = v], "value") : v \in {db[k], Junk}}

\* the texts of db that stop early
Cuts(db) == UNION {CutAt(db, k) : k \in {k \in Keys : db[k] # NoVal}}

\* what fclose() may leave of a text when it fails
Unflushed(db) == {[text EXCEPT !.flushed = FALSE] : text \in Cuts(db)}

\* an earlier version is on the device, or none
Init == /\ real \in {WholeText(db) : db \in [Keys -> Vals \cup {NoVal}]} \cup {NoFile}
        /\ tmp \in {NoFile, Blank}
        /\ pc = "idle"
        /\ op \in Ops
        /\ mem = Empty
        /\ seen = [r \in Readers |-> Empty]

-----------------------------------------------------------------------------
(* open() *)

\* the texts the read loop may end up with: fread() stops early on an error, and
\* nothing looks at ferror()
ReadTexts == IF real = NoFile THEN {WholeText(Empty)}
             ELSE {real} \cup {text \in Cuts(real.map) \cup {TextOf(real.map, "line")} : "read" \in Faults}

\* What to_db() makes of a text.  On a line without '=' it reads values[1] out of range:
\* whatever that finds becomes the value of a key, which may be one of Keys.
MapsOf(text) == {text.map} \cup
               {[text.map EXCEPT ![k] = Junk] : k \in {k \in Keys : text.end = "key"}}

\* the maps of the Keystore object after open(): every caller ignores its result, and
\* one that fails leaves the map empty
Opened == (UNION {MapsOf(text) : text \in ReadTexts})
             \cup {db \in {Empty} : "open" \in Faults}

-----------------------------------------------------------------------------
(* The main thread *)

\* an update starts, with a Keystore object of its own
Start(k, v) == /\ pc = "idle"
               /\ op' = [key |-> k, val |-> v]
               /\ mem' = Empty
               /\ pc' = "open"
               /\ UNCHANGED <<real, tmp, seen>>

\* cmd_cb_set and cmd_cb_del
SetCommand == \E k \in Keys, v \in Vals : Start(k, v)
DelCommand == \E k \in Keys : Start(k, NoVal)

\* a PUT: "-" deletes a geo resource
HandlePut == \E k \in Keys, v \in Vals \cup {NoVal} : Start(k, v)

\* mutant: a missing file is not looked for
OpenUnchecked == /\ pc = "open"
                 /\ mem' = IF real = NoFile THEN real ELSE real.map
                 /\ pc' = "modify"
                 /\ UNCHANGED <<real, tmp, op, seen>>

\* mutant: a temporary file left by an interrupted write() is taken for the store
OpenLeftover == /\ pc = "open"
                /\ mem' \in (IF real = NoFile /\ tmp # NoFile THEN {tmp.map} ELSE Opened)
                /\ pc' = "modify"
                /\ UNCHANGED <<real, tmp, op, seen>>

\* mutant: set() on a keystore that was not opened
OpenForgotten == /\ pc = "open"
                 /\ pc' = "modify"
                 /\ UNCHANGED <<real, tmp, op, mem, seen>>

Open == /\ pc = "open"
        /\ mem' \in Opened
        /\ pc' = "modify"
        /\ UNCHANGED <<real, tmp, op, seen>>

\* set() or del()
Modify == /\ pc = "modify"
          /\ mem' = [mem EXCEPT ![op.key] = op.val]
          /\ pc' = "fopen"
          /\ UNCHANGED <<real, tmp, op, seen>>

\* mutant: the old file goes before the new one is written
FopenThenRemove == /\ pc = "fopen"
                   /\ tmp' = Blank
                   /\ pc' = "remove"
                   /\ UNCHANGED <<real, op, mem, seen>>

\* write(): fopen(tmp, "w") truncates the temporary file, or fails
FopenTmp == /\ pc = "fopen"
            /\ \/ tmp' = Blank /\ pc' = "fwrite"
               \/ "fopen" \in Faults /\ tmp' = tmp /\ pc' = "idle"
            /\ UNCHANGED <<real, op, mem, seen>>

\* mutant: the number of bytes written is not compared
FwriteUnchecked == /\ pc = "fwrite"
                   /\ tmp' \in {WholeText(mem)} \cup Cuts(mem)
                   /\ pc' = "fclose"
                   /\ UNCHANGED <<real, op, mem, seen>>

\* write(): fwrite() takes all of the text, or is short and write() gives up
FwriteTmp == /\ pc = "fwrite"
             /\ \/ tmp' = WholeText(mem) /\ pc' = "fclose"
                \/ "fwrite" \in Faults /\ tmp' \in Cuts(mem) /\ pc' = "idle"
             /\ UNCHANGED <<real, op, mem, seen>>

\* write(): fclose() may fail to flush what fwrite() took; its result is not looked at
FcloseTmp == /\ pc = "fclose"
             /\ \/ UNCHANGED tmp
                \/ "fclose" \in Faults /\ tmp' \in Unflushed(mem)
             /\ pc' = "remove"
             /\ UNCHANGED <<real, op, mem, seen>>

\* write(): remove(real), whose result is not looked at
RemoveReal == /\ pc = "remove"
              /\ \/ real' = NoFile
                 \/ "remove" \in Faults /\ real' = real
              /\ pc' = "rename"
              /\ UNCHANGED <<tmp, op, mem, seen>>

\* write(): rename(tmp, real), which FatFs refuses when real still exists
RenameTmp == /\ pc = "rename"
             /\ \/ real = NoFile /\ real' = tmp /\ tmp' = NoFile
                \/ (real # NoFile \/ "rename" \in Faults) /\ UNCHANGED <<real, tmp>>
             /\ pc' = "idle"
             /\ UNCHANGED <<op, mem, seen>>

\* cmd_cb_reset: kill_all() removes the file, the temporary file stays
KillAll == /\ pc = "idle"
           /\ \/ real' = NoFile
              \/ "remove" \in Faults /\ real' = real
           /\ UNCHANGED <<tmp, pc, op, mem, seen>>

\* cmd_cb_format and do_factory_reset: the whole filesystem goes
Format == /\ pc = "idle"
          /\ real' = NoFile
          /\ tmp' = NoFile
          /\ UNCHANGED <<pc, op, mem, seen>>

-----------------------------------------------------------------------------
\* another thread opens the keystore to read it
ReaderOpen(r) == /\ \E db \in Opened : seen' = [seen EXCEPT ![r] = db]
                 /\ UNCHANGED <<real, tmp, pc, op, mem>>

\* the device starts again: memory goes, a file being written keeps any part of its text
Restart == /\ \/ UNCHANGED tmp
              \/ pc \in {"fwrite", "fclose"} /\ tmp' \in {Blank, WholeText(mem)} \cup Cuts(mem)
           /\ pc' = "idle"
           /\ mem' = Empty
           /\ UNCHANGED <<real, op, seen>>

\* power loss or reset
Crash == "crash" \in Faults /\ Restart

\* values[1] is not there: the other outcome of reading a line without '='
HardFault == /\ pc = "open" \/ Readers # {}
             /\ \E text \in ReadTexts : text.end = "key"
             /\ Restart

MainStep == Open \/ Modify \/ FopenTmp \/ FwriteTmp \/ FcloseTmp \/ RemoveReal \/ RenameTmp

Next == \/ SetCommand
        \/ DelCommand
        \/ HandlePut
        \/ MainStep
        \/ KillAll
        \/ Format
        \/ Crash
        \/ HardFault
        \/ \E r \in Readers : ReaderOpen(r)

Spec == Init /\ [][Next]_vars

-----------------------------------------------------------------------------
(* Properties *)

\* Every variable stays in its range.
TypeOK == /\ real \in Files
          /\ tmp \in Files
          /\ pc \in PCs
          /\ op \in Ops
          /\ mem \in Db
          /\ seen \in [Readers -> Db]

\* The keystore file is absent or all of what some write() had to write, whatever fails
\* and whenever the power goes, but for the one failure write() does not look for: an
\* fclose() that cannot flush (keystore.cpp:161).  On any other file to_db() finds a '='
\* on every line (values[1] of keystore.cpp:274).
NeverTorn == real # NoFile /\ real.flushed => real.end = "whole"

\* When write() is about to give up the old file (keystore.cpp:164), the temporary file
\* holds the whole map it was asked to store, or what a failed fclose() left of that
\* map: an old keystore is never given up for a stale or a short temporary file.
TmpIsWhole == pc \in {"remove", "rename"} => tmp \in {WholeText(mem)} \cup Unflushed(mem)

\* The map the keystore stands for.  write() takes effect with remove(): until
\* rename() the map is only in the temporary file.
StoreView == IF real # NoFile THEN real.map
             ELSE IF pc = "rename" THEN tmp.map ELSE Empty

Atomic == INSTANCE AbstractStore WITH store <- StoreView, Lossy <- FALSE
Lossy  == INSTANCE AbstractStore WITH store <- StoreView, Lossy <- TRUE

\* Without a reader in the window of write(), and with no failure but those that
\* write() itself looks for or is immune to, every update is atomic and changes
\* one key (keystore.h:86 "writes the values back to storage").
AtomicStore == Atomic!Spec

\* Whatever fails, entries may be lost or cut short, but no deleted entry comes back, no
\* older value and no value of another key, not from a temporary file left by an
\* interrupted write() either.
LossyStore == Lossy!Spec

=============================================================================
