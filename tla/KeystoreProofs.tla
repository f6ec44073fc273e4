--------------------------- MODULE KeystoreProofs ---------------------------
(***************************************************************************)
(* The keystore, proved.  The first part is about the protocol of          *)
(* Keystore.tla: what it checks on two keys and two values holds for every *)
(* set of keys, values, readers and failures, the invariants of write()    *)
(* and that the keystore implements AbstractStore.                         *)
(*                                                                         *)
(* The second part is about the texts of KeystoreFormat.tla, of any        *)
(* length: what tokenize() makes of a text, that to_db() reads back what   *)
(* to_file() wrote, that cmd_cb_set() puts the words of a value together   *)
(* again, and the invariants of the text file.  The proofs are inductions  *)
(* on the number of characters, of lines and of words.                     *)
(***************************************************************************)
EXTENDS Keystore, KeystoreFormat, ListLemmas, FiniteSetTheorems, TLAPS

\* What fclose() is called on.
TmpWritten == pc = "fclose" => tmp = WholeText(mem)

\* The inductive invariant.  NeverTorn needs TmpIsWhole: what rename() puts in place is
\* the temporary file; and TmpIsWhole needs to know what fclose() found there.
IInv == TypeOK /\ NeverTorn /\ TmpIsWhole /\ TmpWritten

-----------------------------------------------------------------------------
(* Maps and texts. *)

\* The empty map is a map.
LEMMA EmptyType == Empty \in Db
BY DEF Empty, Db

\* set() and del() leave a map.
LEMMA ModifyType == ASSUME NEW db \in Db, NEW k \in Keys, NEW v \in Vals \cup {NoVal}
                    PROVE  [db EXCEPT ![k] = v] \in Db
BY DEF Db

\* A map is itself, damaged in no entry; it may be damaged in all of them.
LEMMA DamagedLeast == ASSUME NEW db \in Db PROVE db \in Damaged(db) /\ Empty \in Damaged(db)
BY EmptyType DEF Damaged, Db, Empty

\* Damage to a damaged map is damage.
LEMMA DamagedTwice ==
    ASSUME NEW db \in Db, NEW d \in Damaged(db), NEW e \in Damaged(d)
    PROVE  e \in Damaged(db)
BY DEF Damaged

\* set() and del() on a damaged map give the changed map, damaged.
LEMMA DamagedChanged ==
    ASSUME NEW db \in Db, NEW d \in Damaged(db), NEW k \in Keys, NEW v \in Vals \cup {NoVal}
    PROVE  [d EXCEPT ![k] = v] \in Damaged([db EXCEPT ![k] = v])
<1>1. d \in Db /\ [d EXCEPT ![k] = v] \in Db
  BY ModifyType DEF Damaged
<1>2. \A j \in Keys : [d EXCEPT ![k] = v][j] \in {[db EXCEPT ![k] = v][j], NoVal, Junk}
  BY <1>1 DEF Damaged, Db
<1> QED
  BY <1>1, <1>2 DEF Damaged

\* A text that is not cut, and the empty one.
LEMMA WholeType == ASSUME NEW db \in Db PROVE WholeText(db) \in Texts
BY DEF WholeText, TextOf, Texts, Ends

LEMMA BlankType == Blank \in Texts
BY EmptyType DEF Blank, TextOf, Texts, Ends

\* A text that stops early holds a damaged map.
LEMMA CutsAre ==
    ASSUME NEW db \in Db, NEW text \in Cuts(db)
    PROVE  /\ text \in Texts /\ text.flushed = TRUE
           /\ text.map \in Damaged(db)
<1>1. PICK k \in Keys : text \in CutAt(db, k)
  BY DEF Cuts
<1>. DEFINE up == UpTo(db, k)
<1>2. up \in Damaged(db)
  BY DEF UpTo, Damaged, Db
<1>3. ASSUME NEW v \in {db[k], Junk} PROVE [up EXCEPT ![k] = v] \in Damaged(db)
  <2>1. up \in Db /\ v \in Vals \cup {NoVal, Junk}
    BY <1>2 DEF Damaged, Db
  <2>2. [up EXCEPT ![k] = v] \in Db
    BY <2>1 DEF Db
  <2>3. \A j \in Keys : [up EXCEPT ![k] = v][j] \in {db[j], NoVal, Junk}
    BY <1>2, <2>1 DEF Damaged, Db
  <2> QED
    BY <2>2, <2>3 DEF Damaged
<1>. HIDE DEF up
<1>4. PICK d \in Damaged(db), e \in Ends : text = TextOf(d, e)
  BY <1>1, <1>2, <1>3 DEF CutAt, Ends, up
<1> QED
  BY <1>4 DEF TextOf, Texts, Damaged

\* So does one that was not flushed.
LEMMA UnflushedAre ==
    ASSUME NEW db \in Db, NEW text \in Unflushed(db)
    PROVE  /\ text \in Texts /\ text.flushed = FALSE
           /\ text.map \in Damaged(db)
<1>1. PICK cut \in Cuts(db) : text = [cut EXCEPT !.flushed = FALSE]
  BY DEF Unflushed
<1>2. cut \in Texts /\ cut.map \in Damaged(db)
  BY CutsAre
<1> QED
  BY <1>1, <1>2 DEF Texts

\* The map of the keystore file, nothing if there is none.
RealMap == IF real = NoFile THEN Empty ELSE real.map

LEMMA RealMapType == TypeOK => RealMap \in Db
BY EmptyType DEF TypeOK, Files, Texts, RealMap

\* open() finds the map of the file, damaged at worst.
LEMMA OpenedAre == ASSUME TypeOK, NEW db \in Opened PROVE db \in Damaged(RealMap)
<1>1. RealMap \in Db /\ Empty \in Damaged(RealMap) /\ RealMap \in Damaged(RealMap)
  BY RealMapType, DamagedLeast
<1>2. ASSUME NEW text \in ReadTexts, NEW d \in MapsOf(text) PROVE d \in Damaged(RealMap)
  <2>1. text \in Texts /\ text.map \in Damaged(RealMap)
    <3>1. CASE real = NoFile
      <4>1. text = WholeText(Empty)
        BY <3>1 DEF ReadTexts
      <4> QED
        BY <1>1, <4>1, EmptyType, WholeType DEF WholeText, TextOf
    <3>2. CASE real # NoFile
      <4>1. real \in Texts /\ RealMap = real.map
        BY <3>2 DEF TypeOK, Files, RealMap
      <4>2. CASE text = real
        BY <1>1, <4>1, <4>2
      <4>3. CASE text \in Cuts(real.map)
        BY <1>1, <4>1, <4>3, CutsAre
      <4>4. CASE text = TextOf(real.map, "line")
        BY <1>1, <4>1, <4>4 DEF TextOf, Texts, Ends
      <4> QED
        BY <3>2, <4>2, <4>3, <4>4 DEF ReadTexts
    <3> QED
      BY <3>1, <3>2
  <2>2. CASE d = text.map
    BY <2>1, <2>2
  <2>3. ASSUME NEW k \in Keys, d = [text.map EXCEPT ![k] = Junk] PROVE d \in Damaged(RealMap)
    <3>1. text.map \in Db
      BY <2>1 DEF Texts
    <3>2. d \in Db
      BY <2>3, <3>1 DEF Db
    <3>3. \A j \in Keys : d[j] \in {RealMap[j], NoVal, Junk}
      BY <2>1, <2>3, <3>1 DEF Damaged, Db
    <3> QED
      BY <3>2, <3>3 DEF Damaged
  <2> QED
    BY <2>2, <2>3 DEF MapsOf
<1>3. db = Empty \/ \E text \in ReadTexts : db \in MapsOf(text)
  BY DEF Opened
<1> QED
  BY <1>1, <1>2, <1>3

LEMMA OpenedType == ASSUME TypeOK, NEW db \in Opened PROVE db \in Db
BY OpenedAre DEF Damaged

-----------------------------------------------------------------------------
(* The invariants of write(). *)

\* The invariant holds at power on: no write() is under way.
LEMMA InitInv == Init => IInv
<1> SUFFICES ASSUME Init PROVE IInv
  OBVIOUS
<1>1. \A db \in [Keys -> Vals \cup {NoVal}] : db \in Db
  BY DEF Db
<1>2. real \in Files /\ NeverTorn
  BY <1>1, WholeType DEF Init, Files, NeverTorn, WholeText, TextOf
<1>3. TypeOK
  BY <1>2, EmptyType, BlankType DEF Init, TypeOK, Files, PCs
<1> QED
  BY <1>2, <1>3 DEF IInv, Init, TmpIsWhole, TmpWritten

\* Every step of the main thread, of a reader and of the power supply keeps it.
LEMMA NextInv == IInv /\ [Next]_vars => IInv'
<1> SUFFICES ASSUME IInv, [Next]_vars PROVE IInv'
  OBVIOUS
<1> USE DEF IInv
<1>1. ASSUME NEW k \in Keys, NEW v \in Vals \cup {NoVal}, Start(k, v) PROVE IInv'
  <2>1. op' \in Ops
    BY <1>1 DEF Start, Ops
  <2> QED
    BY <1>1, <2>1, EmptyType DEF Start, TypeOK, NeverTorn, TmpIsWhole, TmpWritten, PCs
<1>2. CASE SetCommand \/ DelCommand \/ HandlePut
  BY <1>1, <1>2 DEF SetCommand, DelCommand, HandlePut
<1>3. CASE Open
  <2>1. mem' \in Db
    BY <1>3, OpenedType DEF Open
  <2> QED
    BY <1>3, <2>1 DEF Open, TypeOK, NeverTorn, TmpIsWhole, TmpWritten, PCs
<1>4. CASE Modify
  <2>1. mem' \in Db
    BY <1>4, ModifyType DEF Modify, TypeOK, Ops
  <2> QED
    BY <1>4, <2>1 DEF Modify, TypeOK, NeverTorn, TmpIsWhole, TmpWritten, PCs
<1>5. CASE FopenTmp
  BY <1>5, BlankType DEF FopenTmp, TypeOK, NeverTorn, TmpIsWhole, TmpWritten, PCs, Files
<1>6. CASE FwriteTmp
  <2>1. tmp' \in Files
    BY <1>6, WholeType, CutsAre DEF FwriteTmp, TypeOK, Files
  <2> QED
    BY <1>6, <2>1 DEF FwriteTmp, TypeOK, NeverTorn, TmpIsWhole, TmpWritten, PCs
<1>7. CASE FcloseTmp
  <2>1. CASE UNCHANGED tmp
    BY <1>7, <2>1 DEF FcloseTmp, TypeOK, NeverTorn, TmpIsWhole, TmpWritten, PCs
  <2>2. CASE tmp' \in Unflushed(mem)
    BY <1>7, <2>2, UnflushedAre DEF FcloseTmp, TypeOK, Files, NeverTorn, TmpIsWhole, TmpWritten, PCs
  <2> QED
    BY <1>7, <2>1, <2>2 DEF FcloseTmp
<1>8. CASE RemoveReal
  BY <1>8 DEF RemoveReal, TypeOK, NeverTorn, TmpIsWhole, TmpWritten, PCs, Files
<1>9. CASE RenameTmp
  <2>1. tmp.flushed => tmp.end = "whole"
    <3>1. CASE tmp = WholeText(mem)
      BY <3>1 DEF WholeText, TextOf
    <3>2. CASE tmp \in Unflushed(mem)
      BY <3>2, UnflushedAre DEF TypeOK
    <3> QED
      BY <1>9, <3>1, <3>2 DEF RenameTmp, TmpIsWhole
  <2>2. NeverTorn'
    BY <1>9, <2>1 DEF RenameTmp, NeverTorn
  <2> QED
    BY <1>9, <2>2 DEF RenameTmp, TypeOK, TmpIsWhole, TmpWritten, PCs, Files
<1>10. CASE KillAll \/ Format
  BY <1>10 DEF KillAll, Format, TypeOK, NeverTorn, TmpIsWhole, TmpWritten, Files
<1>11. CASE Restart
  <2>1. tmp' \in Files
    BY <1>11, WholeType, BlankType, CutsAre DEF Restart, TypeOK, Files
  <2> QED
    BY <1>11, <2>1, EmptyType DEF Restart, TypeOK, NeverTorn, TmpIsWhole, TmpWritten, PCs
<1>12. CASE Crash \/ HardFault
  BY <1>11, <1>12 DEF Crash, HardFault
<1>13. ASSUME NEW r \in Readers, ReaderOpen(r) PROVE IInv'
  <2>1. seen' \in [Readers -> Db]
    BY <1>13, OpenedType DEF ReaderOpen, TypeOK
  <2> QED
    BY <1>13, <2>1 DEF ReaderOpen, TypeOK, NeverTorn, TmpIsWhole, TmpWritten
<1>14. CASE UNCHANGED vars
  BY <1>14 DEF vars, TypeOK, NeverTorn, TmpIsWhole, TmpWritten
<1> QED
  BY <1>2, <1>3, <1>4, <1>5, <1>6, <1>7, <1>8, <1>9, <1>10, <1>12, <1>13, <1>14
  DEF Next, MainStep

\* The inductive invariant holds in every behaviour.
THEOREM Invariance == Spec => []IInv
BY InitInv, NextInv, PTL DEF Spec

\* Type correctness of the keystore, whatever fails.
THEOREM TypeCorrect == Spec => []TypeOK
BY Invariance, PTL DEF IInv

\* The keystore file is all of a text write() had to write, unless an fclose() failed.
THEOREM StoreNeverTorn == Spec => []NeverTorn
BY Invariance, PTL DEF IInv

\* write() gives up the old file for the whole new one, or for what a failed fclose()
\* left of it.
THEOREM ReplacedByWhole == Spec => []TmpIsWhole
BY Invariance, PTL DEF IInv

-----------------------------------------------------------------------------
(* The keystore implements AbstractStore.  The argument needs to know where *)
(* the map of the Keystore object came from: it is the file as open() found *)
(* it, with one entry changed, because only the main thread changes the     *)
(* file and it runs one update at a time.                                   *)

\* The map before and after set() or del(), up to what a failed open() lost or cut.
MemFollows ==
    /\ pc = "modify" => mem \in Damaged(RealMap)
    /\ pc \in {"fopen", "fwrite", "fclose", "remove"} =>
          mem \in Damaged([RealMap EXCEPT ![op.key] = op.val])

\* The same when open() does not fail, on files that were flushed.
MemExact ==
    /\ pc = "modify" => mem = RealMap
    /\ pc \in {"fopen", "fwrite", "fclose", "remove"} => mem = [RealMap EXCEPT ![op.key] = op.val]
    /\ \A file1 \in {real, tmp} : file1 # NoFile => file1.flushed = TRUE

\* The map before and after the change, in every step.
LEMMA MemFollowsInv == IInv /\ MemFollows /\ [Next]_vars => MemFollows'
<1> SUFFICES ASSUME IInv, MemFollows, [Next]_vars PROVE MemFollows'
  OBVIOUS
<1>1. UNCHANGED real => UNCHANGED RealMap
  BY DEF RealMap
<1> USE DEF MemFollows
<1>2. CASE Open
  <2>1. mem' \in Damaged(RealMap)
    BY <1>2, OpenedAre DEF Open, IInv
  <2> QED
    BY <1>1, <1>2, <2>1 DEF Open
<1>3. CASE Modify
  <2>1. RealMap \in Db /\ op.key \in Keys /\ op.val \in Vals \cup {NoVal}
    BY RealMapType DEF IInv, TypeOK, Ops
  <2>2. mem' \in Damaged([RealMap EXCEPT ![op.key] = op.val])
    BY <1>3, <2>1, DamagedChanged DEF Modify
  <2> QED
    BY <1>1, <1>3, <2>2 DEF Modify
<1>4. CASE FopenTmp \/ FwriteTmp \/ FcloseTmp
  BY <1>1, <1>4 DEF FopenTmp, FwriteTmp, FcloseTmp
<1>5. CASE RemoveReal \/ RenameTmp \/ Restart
  BY <1>5 DEF RemoveReal, RenameTmp, Restart
<1>6. CASE SetCommand \/ DelCommand \/ HandlePut
  BY <1>6 DEF SetCommand, DelCommand, HandlePut, Start
<1>7. CASE KillAll \/ Format
  BY <1>7 DEF KillAll, Format
<1>8. CASE (\E r \in Readers : ReaderOpen(r)) \/ UNCHANGED vars
  BY <1>1, <1>8 DEF ReaderOpen, vars
<1> QED
  BY <1>2, <1>3, <1>4, <1>5, <1>6, <1>7, <1>8 DEF Next, MainStep, Crash, HardFault

\* What open() finds when neither it nor an fclose() fails.
LEMMA OpenedExact ==
    ASSUME Faults \subseteq {"fopen", "fwrite", "remove"}, IInv, MemExact
    PROVE  Opened = {RealMap} /\ ~HardFault
<1>1. ReadTexts = {IF real = NoFile THEN WholeText(Empty) ELSE real}
  BY DEF ReadTexts
<1>2. ASSUME NEW text \in ReadTexts PROVE text.end = "whole" /\ text.map = RealMap
  BY <1>1 DEF WholeText, TextOf, RealMap, MemExact, IInv, NeverTorn
<1>3. \A text \in ReadTexts : MapsOf(text) = {RealMap}
  BY <1>2 DEF MapsOf
<1>4. Opened = {RealMap}
  BY <1>1, <1>3 DEF Opened
<1> QED
  BY <1>2, <1>4 DEF HardFault

\* The same when open() cannot fail.
LEMMA MemExactInv == ASSUME Faults \subseteq {"fopen", "fwrite", "remove"}
                     PROVE  IInv /\ MemExact /\ [Next]_vars => MemExact'
<1> SUFFICES ASSUME IInv, MemExact, [Next]_vars PROVE MemExact'
  OBVIOUS
<1>1. UNCHANGED real => UNCHANGED RealMap
  BY DEF RealMap
<1>2. CASE Open
  <2>1. mem' = RealMap
    BY <1>2, OpenedExact DEF Open
  <2> QED
    BY <1>1, <1>2, <2>1 DEF Open, MemExact
<1>3. CASE Modify
  BY <1>1, <1>3 DEF Modify, MemExact
<1>4. CASE FopenTmp
  BY <1>1, <1>4 DEF FopenTmp, MemExact, Blank, TextOf
<1>5. CASE FwriteTmp
  <2>1. tmp'.flushed = TRUE
    <3>1. CASE tmp' = WholeText(mem)
      BY <3>1 DEF WholeText, TextOf
    <3>2. CASE tmp' \in Cuts(mem)
      BY <3>2, CutsAre DEF IInv, TypeOK
    <3> QED
      BY <1>5, <3>1, <3>2 DEF FwriteTmp
  <2> QED
    BY <1>1, <1>5, <2>1 DEF FwriteTmp, MemExact
<1>6. CASE FcloseTmp
  BY <1>1, <1>6 DEF FcloseTmp, MemExact
<1>7. CASE RemoveReal \/ RenameTmp
  BY <1>7 DEF RemoveReal, RenameTmp, MemExact
<1>8. CASE SetCommand \/ DelCommand \/ HandlePut
  BY <1>8 DEF SetCommand, DelCommand, HandlePut, Start, MemExact
<1>9. CASE KillAll \/ Format
  BY <1>9 DEF KillAll, Format, MemExact
<1>10. CASE Crash \/ HardFault
  BY <1>10, OpenedExact DEF Crash
<1>11. CASE (\E r \in Readers : ReaderOpen(r)) \/ UNCHANGED vars
  BY <1>1, <1>11 DEF ReaderOpen, vars, MemExact
<1> QED
  BY <1>2, <1>3, <1>4, <1>5, <1>6, <1>7, <1>8, <1>9, <1>10, <1>11 DEF Next, MainStep

\* What rename() finds is a text of the map, whole or not.
LEMMA TmpMap ==
    ASSUME IInv, pc \in {"remove", "rename"}
    PROVE  tmp \in Texts /\ tmp.map \in Damaged(mem) /\ (tmp.flushed => tmp.map = mem)
<1>1. mem \in Db /\ tmp \in Files
  BY DEF IInv, TypeOK
<1>2. CASE tmp = WholeText(mem)
  BY <1>1, <1>2, WholeType, DamagedLeast DEF WholeText, TextOf
<1>3. CASE tmp \in Unflushed(mem)
  BY <1>1, <1>3, UnflushedAre
<1> QED
  BY <1>2, <1>3 DEF IInv, TmpIsWhole

\* The map the keystore stands for is a map.
LEMMA ViewType == IInv => StoreView \in Db
<1> SUFFICES ASSUME IInv PROVE StoreView \in Db
  OBVIOUS
<1>1. pc = "rename" => tmp.map \in Db
  BY TmpMap DEF Damaged
<1> QED
  BY <1>1, EmptyType DEF IInv, TypeOK, StoreView, Files, Texts

\* Only remove(), rename(), power loss, reset and format change it.
LEMMA ViewKept ==
    ASSUME \/ SetCommand \/ DelCommand \/ HandlePut
           \/ Open \/ Modify \/ FopenTmp \/ FwriteTmp \/ FcloseTmp
           \/ \E r \in Readers : ReaderOpen(r)
    PROVE  StoreView' = StoreView
BY DEF SetCommand, DelCommand, HandlePut, Start, Open, Modify, FopenTmp, FwriteTmp, FcloseTmp,
       ReaderOpen, StoreView

\* rename() puts in place the map the keystore already stands for, or loses it.
LEMMA ViewRename ==
    ASSUME IInv, RenameTmp
    PROVE  \/ StoreView' = StoreView
           \/ StoreView' = Empty /\ "rename" \in Faults
<1>1. tmp # NoFile
  BY TmpMap, KeystoreAssumption DEF RenameTmp
<1>2. CASE real = NoFile /\ real' = tmp
  BY <1>1, <1>2 DEF RenameTmp, StoreView
<1>3. CASE real # NoFile /\ real' = real
  BY <1>3 DEF RenameTmp, StoreView
<1>4. CASE real = NoFile /\ real' = real /\ "rename" \in Faults
  BY <1>4 DEF RenameTmp, StoreView
<1> QED
  BY <1>2, <1>3, <1>4 DEF RenameTmp

\* reset and format empty it, or reset fails.
LEMMA ViewEmptied == ASSUME KillAll \/ Format PROVE StoreView' \in {StoreView, Empty}
BY DEF KillAll, Format, StoreView

\* A restart empties it between remove() and rename(), and only then.
LEMMA ViewRestart == ASSUME Restart PROVE StoreView' \in {StoreView, Empty}
BY DEF Restart, StoreView

\* remove() makes it the map of the temporary file, or leaves it.
LEMMA ViewRemove ==
    ASSUME IInv, RemoveReal
    PROVE  \/ StoreView' = StoreView
           \/ StoreView' = tmp.map /\ RealMap = StoreView
<1>1. CASE real' = NoFile
  BY <1>1 DEF RemoveReal, StoreView, RealMap
<1>2. CASE real' # NoFile
  BY <1>2 DEF RemoveReal, StoreView
<1> QED
  BY <1>1, <1>2

\* The initial keystore is an initial lossy store.
LEMMA LossyInit == Init => Lossy!Init
<1> SUFFICES ASSUME Init PROVE Lossy!Init
  OBVIOUS
<1>1. StoreView \in Db
  BY InitInv, ViewType
<1> QED
  BY <1>1 DEF Init, Lossy!Init, Lossy!Db, Lossy!Empty, Db, Empty

\* Every step of the keystore is one of the lossy store, or none.
LEMMA LossyNext ==
    IInv /\ MemFollows /\ [Next]_vars => [Lossy!Next]_<<StoreView, seen>>
<1> SUFFICES ASSUME IInv, MemFollows, [Next]_vars
             PROVE  [Lossy!Next]_<<StoreView, seen>>
  OBVIOUS
<1> DEFINE Stutter == StoreView' = StoreView /\ seen' = seen
           Emptied == StoreView' = Empty /\ seen' = seen
<1>0. \A db : Lossy!Damaged(db) = Damaged(db)
  BY DEF Lossy!Damaged, Damaged, Lossy!Db, Db
<1>1. Emptied => Lossy!Next
  BY DEF Lossy!Next, Lossy!Reset, Lossy!Empty, Empty
<1>2. CASE \/ SetCommand \/ DelCommand \/ HandlePut
           \/ Open \/ Modify \/ FopenTmp \/ FwriteTmp \/ FcloseTmp
  <2>1. seen' = seen
    BY <1>2 DEF SetCommand, DelCommand, HandlePut, Start, Open, Modify, FopenTmp, FwriteTmp, FcloseTmp
  <2>2. Stutter
    BY <1>2, <2>1, ViewKept
  <2> QED
    BY <2>2
<1>3. CASE RemoveReal
  <2>1. seen' = seen
    BY <1>3 DEF RemoveReal
  <2>2. CASE StoreView' = tmp.map /\ RealMap = StoreView
    <3>1. tmp.map \in Damaged(mem) /\ mem \in Damaged([StoreView EXCEPT ![op.key] = op.val])
      BY <1>3, <2>2, TmpMap DEF MemFollows, RemoveReal
    <3>2. op.key \in Keys /\ op.val \in Vals \cup {NoVal} /\ StoreView \in Db
      BY ViewType DEF IInv, TypeOK, Ops
    <3>3. StoreView' \in Damaged([StoreView EXCEPT ![op.key] = op.val])
      BY <2>2, <3>1, <3>2, ModifyType, DamagedTwice
    <3>4. Lossy!LossyUpdate
      BY <1>0, <2>1, <3>2, <3>3 DEF Lossy!LossyUpdate
    <3> QED
      BY <3>4 DEF Lossy!Next
  <2>3. CASE StoreView' = StoreView
    BY <2>1, <2>3
  <2> QED
    BY <1>3, <2>2, <2>3, ViewRemove
<1>4. CASE RenameTmp
  <2>1. seen' = seen
    BY <1>4 DEF RenameTmp
  <2> QED
    BY <1>1, <1>4, <2>1, ViewRename
<1>5. CASE KillAll \/ Format
  <2>1. seen' = seen
    BY <1>5 DEF KillAll, Format
  <2> QED
    BY <1>1, <1>5, <2>1, ViewEmptied
<1>6. CASE Crash \/ HardFault
  <2>1. Restart /\ seen' = seen
    BY <1>6 DEF Crash, HardFault, Restart
  <2> QED
    BY <1>1, <2>1, ViewRestart
<1>7. ASSUME NEW r \in Readers, ReaderOpen(r) PROVE Lossy!Next
  <2>1. StoreView' = StoreView /\ StoreView \in Db
    BY <1>7, ViewKept, ViewType
  <2>2. PICK db \in Opened : seen' = [seen EXCEPT ![r] = db]
    BY <1>7 DEF ReaderOpen
  <2>3. db \in Damaged(RealMap) /\ RealMap \in {StoreView, Empty} /\ Empty \in Damaged(StoreView)
    BY <2>1, OpenedAre, DamagedLeast DEF IInv, RealMap, StoreView
  <2>4. db \in Damaged(StoreView)
    BY <2>1, <2>3, DamagedTwice
  <2>5. Lossy!LossyRead(r)
    BY <1>0, <2>1, <2>2, <2>4 DEF Lossy!LossyRead
  <2> QED
    BY <2>5 DEF Lossy!Next
<1>8. CASE UNCHANGED vars
  BY <1>8 DEF vars, StoreView
<1> QED
  BY <1>2, <1>3, <1>4, <1>5, <1>6, <1>7, <1>8 DEF Next, MainStep

\* Whatever fails and whoever reads: entries may be lost or cut short, but none that was
\* deleted or replaced comes back.
THEOREM ImplementsLossy == Spec => LossyStore
<1>1. Init => MemFollows
  BY DEF Init, MemFollows
<1> QED
  BY <1>1, InitInv, NextInv, MemFollowsInv, LossyInit, LossyNext, PTL
  DEF Spec, LossyStore, Lossy!Spec

\* Every step is one of the atomic store, or none, if open(), fclose() and rename() do
\* not fail, the power stays on and no other thread reads.
LEMMA AtomicNext ==
    ASSUME Faults \subseteq {"fopen", "fwrite", "remove"}, Readers = {}
    PROVE  IInv /\ MemExact /\ [Next]_vars => [Atomic!Next]_<<StoreView, seen>>
<1> SUFFICES ASSUME IInv, MemExact, [Next]_vars
             PROVE  [Atomic!Next]_<<StoreView, seen>>
  OBVIOUS
<1>1. CASE \/ SetCommand \/ DelCommand \/ HandlePut
           \/ Open \/ Modify \/ FopenTmp \/ FwriteTmp \/ FcloseTmp
  <2>1. seen' = seen
    BY <1>1 DEF SetCommand, DelCommand, HandlePut, Start, Open, Modify, FopenTmp, FwriteTmp, FcloseTmp
  <2>2. StoreView' = StoreView
    BY <1>1, ViewKept
  <2> QED
    BY <2>1, <2>2
<1>2. CASE RemoveReal
  <2>1. seen' = seen
    BY <1>2 DEF RemoveReal
  <2>2. CASE StoreView' = tmp.map /\ RealMap = StoreView
    <3>1. tmp.map = mem
      BY <1>2, TmpMap, KeystoreAssumption DEF RemoveReal, MemExact, Texts
    <3>2. mem = [RealMap EXCEPT ![op.key] = op.val]
      BY <1>2 DEF MemExact, RemoveReal
    <3>3. op.key \in Keys /\ op.val \in Vals \cup {NoVal}
      BY DEF IInv, TypeOK, Ops
    <3>4. Atomic!Update
      BY <2>1, <2>2, <3>1, <3>2, <3>3 DEF Atomic!Update
    <3> QED
      BY <3>4 DEF Atomic!Next
  <2>3. CASE StoreView' = StoreView
    BY <2>1, <2>3
  <2> QED
    BY <1>2, <2>2, <2>3, ViewRemove
<1>3. CASE RenameTmp
  <2>1. seen' = seen
    BY <1>3 DEF RenameTmp
  <2>2. StoreView' = StoreView
    BY <1>3, ViewRename
  <2> QED
    BY <2>1, <2>2
<1>4. CASE KillAll \/ Format
  <2>1. StoreView' \in {StoreView, Empty} /\ seen' = seen
    BY <1>4, ViewEmptied DEF KillAll, Format
  <2> QED
    BY <2>1 DEF Atomic!Next, Atomic!Reset, Atomic!Empty, Empty
<1>5. CASE UNCHANGED vars
  BY <1>5 DEF vars, StoreView
<1>6. ~HardFault
  BY OpenedExact
<1> QED
  BY <1>1, <1>2, <1>3, <1>4, <1>5, <1>6 DEF Next, MainStep, Crash

\* Under those conditions every update is atomic and changes one key.
THEOREM ImplementsAtomic ==
    ASSUME Faults \subseteq {"fopen", "fwrite", "remove"}, Readers = {}
    PROVE  Spec => AtomicStore
<1>1. Init => MemExact
  BY KeystoreAssumption DEF Init, MemExact, WholeText, Blank, TextOf
<1>2. Init => Atomic!Init
  <2> SUFFICES ASSUME Init PROVE Atomic!Init
    OBVIOUS
  <2>1. StoreView \in Db
    BY InitInv, ViewType
  <2> QED
    BY <2>1 DEF Init, Atomic!Init, Atomic!Db, Atomic!Empty, Db, Empty
<1> QED
  BY <1>1, <1>2, InitInv, NextInv, MemExactInv, AtomicNext, PTL
  DEF Spec, AtomicStore, Atomic!Spec

-----------------------------------------------------------------------------
(* What tokenize() makes of a text. *)

Code   == Int
Text   == Seq(Code)
Pieces == Seq(Text) \ {<<>>}

\* One more character: a delimiter opens a new piece.
Extended(pieces, c, d) == IF c = d THEN Append(pieces, <<>>)
                          ELSE [pieces EXCEPT ![Len(pieces)] = Append(@, c)]
Cracks(d) == [p \in Pieces \X Code |-> Extended(p[1], p[2], d)]

\* It makes no difference which two of three texts are joined first.
Tied(x, y, z) == (x \o y) \o z = x \o (y \o z)

LEMMA TextsTied == \A x, y, z \in Seq(Code) : Tied(x, y, z)
BY ConcatAssociative DEF Tied

LEMMA ExtendedType ==
  ASSUME NEW p \in Pieces, NEW c \in Code, NEW d
  PROVE  Extended(p, c, d) \in Pieces
<1>1. p \in Seq(Text) /\ Len(p) \in Nat /\ Len(p) > 0
  BY DEF Pieces
<1>2. <<>> \in Text
  BY DEF Text
<1>3. CASE c = d
  <2>1. Append(p, <<>>) \in Seq(Text) /\ Len(Append(p, <<>>)) = Len(p) + 1
    BY <1>1, <1>2
  <2>. QED BY <1>1, <1>3, <2>1 DEF Extended, Pieces
<1>4. CASE c # d
  <2>1. p[Len(p)] \in Text
    BY <1>1
  <2>2. Append(p[Len(p)], c) \in Text
    BY <2>1 DEF Text
  <2>3. [p EXCEPT ![Len(p)] = Append(@, c)] \in Seq(Text) /\ Len([p EXCEPT ![Len(p)] = Append(@, c)]) = Len(p)
    BY <1>1, <2>2, ExceptSeq
  <2>. QED BY <1>1, <1>4, <2>3 DEF Extended, Pieces
<1>. QED BY <1>3, <1>4

LEMMA TokenizeGives ==
  ASSUME NEW text \in Text, NEW d
  PROVE  Gives(tokenize(text, d), Pieces, text, << <<>> >>, Cracks(d))
<1>. DEFINE V == Pieces
            base == << <<>> >>
            Eq(it) == it = [S \in SUBSET (1 .. Len(text)) |->
                               IF S = {} THEN base ELSE Extended(it[S \ {Max(S)}], text[Max(S)], d)]
            chosen == CHOOSE it : Eq(it)
<1>1. /\ text \in Seq(Code) /\ Len(text) \in Nat /\ DOMAIN text = 1 .. Len(text)
      /\ \A S \in SUBSET (1 .. Len(text)) : S # {} => Max(S) \in 1 .. Len(text) /\ text[Max(S)] \in Code
  <2>1. text \in Seq(Code) /\ Len(text) \in Nat /\ DOMAIN text = 1 .. Len(text)
    BY DEF Text
  <2>2. \A S \in SUBSET (1 .. Len(text)) : S # {} => Max(S) \in 1 .. Len(text)
    BY <2>1, MaxIs
  <2>. QED BY <2>1, <2>2
<1>2. base \in V
  BY DEF Pieces, Text
<1>3. tokenize(text, d) = chosen[1 .. Len(text)]
  BY <1>1 DEF tokenize, Extended, FoldLeft, MapThenFoldSet
<1>4. Cracks(d) \in FoldSteps(V, Code) /\ \A v \in V, c \in Code : Cracks(d)[<<v, c>>] = Extended(v, c, d)
  BY ExtendedType DEF Cracks, FoldSteps
<1>. HIDE DEF V, base
<1>5. PICK g \in [SUBSET (1 .. Len(text)) -> V] : Unfolds(g, V, text, base, Cracks(d))
  BY <1>1, <1>2, <1>4, Unfolded
<1>6. Eq(g)
  <2>1. \A S \in SUBSET (1 .. Len(text)) : g[S \ {Max(S)}] \in V
    OBVIOUS
  <2>2. \A S \in SUBSET (1 .. Len(text)) :
           g[S] = IF S = {} THEN base ELSE Extended(g[S \ {Max(S)}], text[Max(S)], d)
    BY <1>1, <1>4, <1>5, <2>1 DEF Unfolds
  <2>. QED BY <2>2
<1>7. Eq(chosen)
  <2>. HIDE DEF Eq
  <2>. QED BY <1>6
<1>. HIDE DEF chosen
<1>8. Unfolds(chosen, V, text, base, Cracks(d))
  <2>1. {} \in SUBSET (1 .. Len(text))
    OBVIOUS
  <2>2. chosen[{}] = base
    BY <1>7, <2>1
  <2>3. \A S \in SUBSET (1 .. Len(text)) :
           S # {} => chosen[S] = Extended(chosen[S \ {Max(S)}], text[Max(S)], d)
    BY <1>7
  <2>. QED BY <1>1, <1>4, <2>2, <2>3 DEF Unfolds
<1>9. Gives(chosen[1 .. Len(text)], V, text, base, Cracks(d))
  BY <1>1, <1>2, <1>4, <1>8, GivenBy
<1>. QED BY <1>3, <1>9 DEF V, base

LEMMA TokenizeEmpty == ASSUME NEW d PROVE tokenize(<<>>, d) = << <<>> >>
<1>1. <<>> \in Text
  BY DEF Text
<1>. QED BY <1>1, TokenizeGives, GivesFirst

LEMMA TokenizeAppend ==
  ASSUME NEW text \in Text, NEW c \in Code, NEW d
  PROVE  /\ tokenize(text, d) \in Pieces
         /\ tokenize(Append(text, c), d) = Extended(tokenize(text, d), c, d)
<1>1. text \in Seq(Code) /\ Append(text, c) \in Text
  BY DEF Text
<1>2. /\ Gives(tokenize(text, d), Pieces, text, << <<>> >>, Cracks(d))
      /\ Gives(tokenize(Append(text, c), d), Pieces, Append(text, c), << <<>> >>, Cracks(d))
  BY <1>1, TokenizeGives
<1>3. Longer(Append(text, c), text, c)
  BY DEF Longer
<1>4. /\ tokenize(text, d) \in Pieces
      /\ tokenize(Append(text, c), d) = After(Cracks(d), tokenize(text, d), c)
  <2>. DEFINE t == Append(text, c)
              base == << <<>> >>
  <2>1. /\ Gives(tokenize(text, d), Pieces, text, base, Cracks(d))
        /\ Gives(tokenize(t, d), Pieces, t, base, Cracks(d)) /\ Longer(t, text, c)
    BY <1>2, <1>3
  <2>. HIDE DEF t, base
  <2>2. /\ tokenize(text, d) \in Pieces
        /\ tokenize(t, d) = After(Cracks(d), tokenize(text, d), c)
    BY <1>1, <2>1, GivesNext
  <2>. QED BY <2>2 DEF t
<1>. QED BY <1>4 DEF Cracks, After

LEMMA ExtendedIs ==
  ASSUME NEW p \in Pieces, NEW c \in Code, NEW d
  PROVE  /\ c = d => /\ Len(Extended(p, c, d)) = Len(p) + 1 /\ Extended(p, c, d)[Len(p) + 1] = <<>>
                     /\ \A i \in 1 .. Len(p) : Extended(p, c, d)[i] = p[i]
         /\ c # d => /\ Len(Extended(p, c, d)) = Len(p)
                     /\ Extended(p, c, d)[Len(p)] = Append(p[Len(p)], c)
                     /\ \A i \in 1 .. Len(p) - 1 : Extended(p, c, d)[i] = p[i]
<1>1. p \in Seq(Text) /\ Len(p) \in Nat /\ Len(p) > 0
  BY DEF Pieces
<1>2. CASE c = d
  BY <1>1, <1>2 DEF Extended
<1>3. CASE c # d
  <2>. DEFINE e == Append(p[Len(p)], c)
  <2>1. Extended(p, c, d) = [p EXCEPT ![Len(p)] = e]
    BY <1>3 DEF Extended
  <2>2. DOMAIN p = 1 .. Len(p) /\ e \in Text
    <3>1. p[Len(p)] \in Text
      BY <1>1
    <3>. QED BY <1>1, <3>1 DEF Text
  <2>. HIDE DEF e
  <2>3. Len([p EXCEPT ![Len(p)] = e]) = Len(p)
    BY <1>1, <2>2, ExceptSeq
  <2>4. /\ [p EXCEPT ![Len(p)] = e][Len(p)] = e
        /\ \A i \in 1 .. Len(p) - 1 : [p EXCEPT ![Len(p)] = e][i] = p[i]
    <3>1. Len(p) \in 1 .. Len(p) /\ \A i \in 1 .. Len(p) - 1 : i \in 1 .. Len(p) /\ i # Len(p)
      BY <1>1
    <3>2. \A i \in 1 .. Len(p) : [p EXCEPT ![Len(p)] = e][i] = IF i = Len(p) THEN e ELSE p[i]
      BY <2>2, <3>1
    <3>. QED BY <3>1, <3>2
  <2>5. e = Append(p[Len(p)], c)
    BY DEF e
  <2>. QED BY <1>3, <2>1, <2>3, <2>4, <2>5
<1>. QED BY <1>2, <1>3

\* Pieces to the left of the last one do not matter to it.
LEMMA ExtendedConcat ==
  ASSUME NEW p \in Seq(Text), NEW q \in Pieces, NEW c \in Code, NEW d
  PROVE  p \o Extended(q, c, d) = Extended(p \o q, c, d)
<1>. DEFINE r == Extended(q, c, d)
            pq == p \o q
            u == Extended(pq, c, d)
<1>1. q \in Seq(Text) /\ Len(q) \in Nat /\ Len(q) > 0 /\ Len(p) \in Nat
  BY DEF Pieces
<1>2. /\ pq \in Seq(Text) /\ Len(pq) = Len(p) + Len(q)
      /\ \A i \in 1 .. Len(p) : pq[i] = p[i]
      /\ \A i \in 1 .. Len(q) : pq[Len(p) + i] = q[i]
  BY <1>1
<1>3. pq \in Pieces
  <2>. HIDE DEF pq
  <2>. QED BY <1>1, <1>2 DEF Pieces
<1>4. r \in Seq(Text) /\ u \in Seq(Text)
  <2>1. r \in Pieces /\ u \in Pieces
    BY <1>3, ExtendedType
  <2>. QED BY <2>1 DEF Pieces
<1>5. /\ c = d => Len(r) = Len(q) + 1 /\ r[Len(q) + 1] = <<>> /\ \A i \in 1 .. Len(q) : r[i] = q[i]
      /\ c # d => /\ Len(r) = Len(q) /\ r[Len(q)] = Append(q[Len(q)], c)
                  /\ \A i \in 1 .. Len(q) - 1 : r[i] = q[i]
  BY ExtendedIs
<1>6. /\ c = d => Len(u) = Len(pq) + 1 /\ u[Len(pq) + 1] = <<>> /\ \A i \in 1 .. Len(pq) : u[i] = pq[i]
      /\ c # d => /\ Len(u) = Len(pq) /\ u[Len(pq)] = Append(pq[Len(pq)], c)
                  /\ \A i \in 1 .. Len(pq) - 1 : u[i] = pq[i]
  <2>. HIDE DEF pq
  <2>. QED BY <1>3, ExtendedIs
<1>7. p \o r = u
  <2>. HIDE DEF pq, r, u
  <2>1. Len(u) = Len(p) + Len(r) /\ \A i \in 1 .. Len(p) : u[i] = p[i]
    BY <1>1, <1>2, <1>5, <1>6
  <2>2. ASSUME NEW i \in 1 .. Len(r) PROVE u[Len(p) + i] = r[i]
    <3>1. CASE c = d
      <4>1. Len(r) = Len(q) + 1 /\ Len(u) = Len(p) + Len(q) + 1
        BY <1>1, <1>2, <1>5, <1>6, <3>1
      <4>2. CASE i = Len(q) + 1
        BY <1>1, <1>2, <1>5, <1>6, <3>1, <4>1, <4>2
      <4>3. CASE i # Len(q) + 1
        <5>1. i \in 1 .. Len(q) /\ Len(p) + i \in 1 .. Len(pq)
          BY <1>1, <1>2, <4>1, <4>3
        <5>2. u[Len(p) + i] = pq[Len(p) + i]
          BY <1>6, <3>1, <5>1
        <5>. QED BY <1>2, <1>5, <3>1, <5>1, <5>2
      <4>. QED BY <4>2, <4>3
    <3>2. CASE c # d
      <4>1. CASE i = Len(q)
        BY <1>1, <1>2, <1>5, <1>6, <3>2, <4>1
      <4>2. CASE i # Len(q)
        <5>1. i \in 1 .. Len(q) - 1 /\ Len(p) + i \in 1 .. Len(pq) - 1 /\ i \in 1 .. Len(q)
          BY <1>1, <1>2, <1>5, <3>2, <4>2
        <5>2. u[Len(p) + i] = pq[Len(p) + i]
          BY <1>6, <3>2, <5>1
        <5>. QED BY <1>2, <1>5, <3>2, <5>1, <5>2
      <4>. QED BY <4>1, <4>2
    <3>. QED BY <3>1, <3>2
  <2>. QED BY <1>4, <2>1, <2>2, ConcatIs
<1>. QED BY <1>7

LEMMA TokenizeType ==
  ASSUME NEW text \in Text, NEW d
  PROVE  tokenize(text, d) \in Pieces /\ tokenize(text, d) \in Seq(Text) /\ Len(tokenize(text, d)) >= 1
<1>1. \E c : c \in Code
  BY DEF Code
<1>2. tokenize(text, d) \in Pieces
  BY <1>1, TokenizeAppend
<1>3. \A p \in Pieces : p \in Seq(Text) /\ Len(p) >= 1
  BY DEF Pieces
<1>. QED BY <1>2, <1>3

\* A delimiter parts the pieces of what is before it from those of what is behind.
LEMMA TokenizeConcat ==
  ASSUME NEW a \in Text, NEW b \in Text, NEW d \in Code
  PROVE  tokenize(Append(a, d) \o b, d) = tokenize(a, d) \o tokenize(b, d)
<1>. DEFINE ad == Append(a, d)
            p == tokenize(a, d)
            T == {t \in Text : tokenize(ad \o t, d) = p \o tokenize(t, d)}
<1>1. ad \in Text /\ p \in Seq(Text)
  BY TokenizeType DEF Text
<1>2. <<>> \in T
  <2>1. <<>> \in Text /\ ad \o <<>> = ad
    BY <1>1 DEF Text
  <2>2. tokenize(ad, d) = Append(p, <<>>)
    BY TokenizeAppend DEF Extended
  <2>3. Append(p, <<>>) = p \o << <<>> >>
    BY <1>1, <2>1
  <2>. HIDE DEF p, ad
  <2>. QED BY <2>1, <2>2, <2>3, TokenizeEmpty
<1>. HIDE DEF p, ad
<1>3. ASSUME NEW t \in Text, NEW c \in Code, t \in T PROVE Append(t, c) \in T
  <2>1. ad \o t \in Text /\ Append(t, c) \in Text /\ ad \o Append(t, c) = Append(ad \o t, c)
    BY <1>1 DEF Text
  <2>2. tokenize(Append(ad \o t, c), d) = Extended(tokenize(ad \o t, d), c, d)
    BY <2>1, TokenizeAppend
  <2>3. tokenize(t, d) \in Pieces /\ tokenize(Append(t, c), d) = Extended(tokenize(t, d), c, d)
    BY TokenizeAppend
  <2>4. p \o Extended(tokenize(t, d), c, d) = Extended(p \o tokenize(t, d), c, d)
    BY <1>1, <2>3, ExtendedConcat
  <2>5. tokenize(ad \o t, d) = p \o tokenize(t, d)
    BY <1>3
  <2>6. tokenize(ad \o Append(t, c), d) = p \o tokenize(Append(t, c), d)
    BY <2>1, <2>2, <2>3, <2>4, <2>5
  <2>. QED BY <2>1, <2>6
<1>4. b \in T
  <2>. HIDE DEF T
  <2>1. \A t \in Seq(Code), c \in Code : t \in T => Append(t, c) \in T
    BY <1>3 DEF Text
  <2>2. Seq(Code) \subseteq T
    BY <1>2, <2>1, SeqInduct
  <2>. QED BY <2>2 DEF Text
<1>. QED BY <1>4 DEF p, ad

\* A text without the delimiter is one piece.
Without(text, d) == \A i \in 1 .. Len(text) : text[i] # d

LEMMA TokenizeWhole ==
  ASSUME NEW a \in Text, NEW d \in Code, Without(a, d)
  PROVE  tokenize(a, d) = <<a>>
<1>. DEFINE T == {t \in Text : Without(t, d) => tokenize(t, d) = <<t>>}
<1>1. <<>> \in T
  <2>1. <<>> \in Text
    BY DEF Text
  <2>. QED BY <2>1, TokenizeEmpty
<1>2. ASSUME NEW t \in Text, NEW c \in Code, t \in T, Without(Append(t, c), d)
      PROVE  tokenize(Append(t, c), d) = <<Append(t, c)>>
  <2>1. t \in Seq(Code)
    BY DEF Text
  <2>2. Without(t, d) /\ c # d
    <3>1. /\ Len(t) \in Nat /\ Len(Append(t, c)) = Len(t) + 1 /\ Append(t, c)[Len(t) + 1] = c
          /\ \A i \in 1 .. Len(t) : Append(t, c)[i] = t[i]
      BY <2>1
    <3>. QED BY <1>2, <3>1 DEF Without
  <2>3. tokenize(Append(t, c), d) = Extended(<<t>>, c, d)
    BY <1>2, <2>2, TokenizeAppend
  <2>. QED BY <2>2, <2>3 DEF Extended
<1>3. \A t \in Seq(Code), c \in Code : t \in T => Append(t, c) \in T
  BY <1>2 DEF Text
<1>4. Seq(Code) \subseteq T
  <2>. HIDE DEF T
  <2>. QED BY <1>1, <1>3, SeqInduct
<1>. QED BY <1>4 DEF Text

-----------------------------------------------------------------------------
(* A line of the file, and what to_db() makes of it. *)

Cut(val) == tokenize(val, Equals)[1]

StartsWith(t, s) == Len(s) <= Len(t) /\ \A i \in 1 .. Len(s) : s[i] = t[i]

\* The first piece of a value is what is before its first '='.
LEMMA CutIs ==
  ASSUME NEW val \in Text
  PROVE  /\ Cut(val) \in Text /\ StartsWith(val, Cut(val)) /\ Without(Cut(val), Equals)
         /\ Len(tokenize(val, Equals)) = 1 => Cut(val) = val
         /\ Len(Cut(val)) < Len(val) => val[Len(Cut(val)) + 1] = Equals
<1>. DEFINE Good(t, p) == /\ p[1] \in Text /\ StartsWith(t, p[1]) /\ Without(p[1], Equals)
                          /\ Len(p) = 1 => p[1] = t
                          /\ Len(p) # 1 => Len(p[1]) < Len(t) /\ t[Len(p[1]) + 1] = Equals
            T == {t \in Text : Good(t, tokenize(t, Equals))}
<1>1. <<>> \in T
  <2>1. <<>> \in Text /\ tokenize(<<>>, Equals) = << <<>> >>
    BY TokenizeEmpty DEF Text
  <2>2. Good(<<>>, << <<>> >>)
    BY <2>1 DEF StartsWith, Without
  <2>. HIDE DEF Good
  <2>. QED BY <2>1, <2>2
<1>2. ASSUME NEW t \in Text, NEW c \in Code, t \in T PROVE Append(t, c) \in T
  <2>. DEFINE p == tokenize(t, Equals)
              q == tokenize(Append(t, c), Equals)
              tc == Append(t, c)
  <2>1. p \in Pieces /\ q = Extended(p, c, Equals)
    BY TokenizeAppend
  <2>2. p \in Seq(Text) /\ Len(p) \in Nat /\ Len(p) > 0 /\ (Len(p) > 1 \/ Len(p) = 1) /\ (Len(p) > 1 => Len(p) # 1)
    <3>. DEFINE n == Len(p)
    <3>1. p \in Seq(Text) /\ n \in Nat /\ n > 0
      BY <2>1 DEF Pieces
    <3>. HIDE DEF n, p
    <3>2. (n > 1 \/ n = 1) /\ (n > 1 => n # 1)
      BY <3>1
    <3>. QED BY <3>1, <3>2 DEF n
  <2>3. /\ tc \in Text /\ t \in Seq(Code) /\ Len(t) \in Nat /\ Len(tc) = Len(t) + 1 /\ tc[Len(t) + 1] = c
        /\ \A i \in 1 .. Len(t) : tc[i] = t[i]
    BY DEF Text
  <2>4. Good(t, p)
    BY <1>2
  <2>5. Len(p[1]) \in Nat
    BY <2>4 DEF Text
  <2>. HIDE DEF p, q, tc
  <2>6. StartsWith(tc, p[1])
    BY <2>3, <2>4, <2>5 DEF StartsWith
  <2>8. ASSUME Len(p) # 1 PROVE Len(p[1]) < Len(tc) /\ tc[Len(p[1]) + 1] = Equals
    <3>. DEFINE n == Len(p[1])
                l == Len(t)
    <3>1. n \in Nat /\ n < l /\ t[n + 1] = Equals /\ l \in Nat /\ Len(tc) = l + 1
      BY <2>3, <2>4, <2>5, <2>8
    <3>2. \A i \in 1 .. l : tc[i] = t[i]
      BY <2>3
    <3>. HIDE DEF n, l
    <3>3. n + 1 \in 1 .. l /\ n < l + 1
      BY <3>1
    <3>. QED BY <3>1, <3>2, <3>3 DEF n
  <2>7. Good(tc, q)
    <3>1. CASE c = Equals
      <4>1. Len(q) = Len(p) + 1 /\ q[1] = p[1]
        BY <2>1, <2>2, <3>1, ExtendedIs
      <4>2. Len(p[1]) < Len(tc) /\ tc[Len(p[1]) + 1] = Equals
        <5>1. CASE Len(p) = 1
          BY <2>3, <2>4, <3>1, <5>1
        <5>2. CASE Len(p) # 1
          BY <2>8, <5>2
        <5>. QED BY <5>1, <5>2
      <4>. QED BY <2>2, <2>4, <2>6, <4>1, <4>2
    <3>2. CASE c # Equals /\ Len(p) > 1
      <4>1. Len(q) = Len(p) /\ q[1] = p[1]
        BY <2>1, <2>2, <3>2, ExtendedIs
      <4>2. Len(p[1]) < Len(tc) /\ tc[Len(p[1]) + 1] = Equals
        <5>1. Len(p) # 1
          BY <2>2, <3>2
        <5>. QED BY <2>8, <5>1
      <4>. QED BY <2>2, <2>4, <2>6, <3>2, <4>1, <4>2
    <3>3. CASE c # Equals /\ Len(p) = 1
      <4>1. Len(q) = 1 /\ q[1] = tc
        BY <2>1, <2>2, <2>4, <3>3, ExtendedIs DEF tc
      <4>2. Without(tc, Equals)
        BY <2>3, <2>4, <3>3 DEF Without
      <4>3. StartsWith(tc, tc)
        BY <2>3 DEF StartsWith
      <4>. QED BY <2>3, <4>1, <4>2, <4>3
    <3>. HIDE DEF Good
    <3>. QED BY <2>2, <3>1, <3>2, <3>3
  <2>. HIDE DEF Good
  <2>. QED BY <2>3, <2>7 DEF q, tc
<1>3. val \in T
  <2>. HIDE DEF T
  <2>1. \A t \in Seq(Code), c \in Code : t \in T => Append(t, c) \in T
    BY <1>2 DEF Text
  <2>2. Seq(Code) \subseteq T
    BY <1>1, <2>1, SeqInduct
  <2>. QED BY <2>2 DEF Text
<1>4. Cut(val) \in Text => Len(Cut(val)) \in Nat /\ Len(val) \in Nat
  BY DEF Text
<1>. QED BY <1>3, <1>4 DEF Cut

LEMMA CutClean ==
  ASSUME NEW val \in Text
  PROVE  /\ Without(val, Equals) => Cut(val) = val
         /\ \A d \in Code : Without(val, d) => Without(Cut(val), d)
         /\ Cut(Cut(val)) = Cut(val)
<1>1. Equals \in Code
  BY DEF Equals, Code
<1>2. ASSUME NEW v \in Text, Without(v, Equals) PROVE Cut(v) = v
  BY <1>1, <1>2, TokenizeWhole DEF Cut
<1>3. ASSUME NEW d \in Code, Without(val, d) PROVE Without(Cut(val), d)
  <2>1. StartsWith(val, Cut(val)) /\ Len(val) \in Nat /\ Len(Cut(val)) \in Nat
    BY CutIs DEF Text
  <2>. QED BY <1>3, <2>1 DEF StartsWith, Without
<1>4. Cut(Cut(val)) = Cut(val)
  BY <1>2, CutIs
<1>. QED BY <1>2, <1>3, <1>4

\* The line to_file() prints for an entry
Line(k, val) == Append(k, Equals) \o val

LEMMA LineIs ==
  ASSUME NEW k \in Text, NEW val \in Text, Without(k, Equals)
  PROVE  /\ Line(k, val) \in Text /\ Line(k, val) # <<>>
         /\ Len(tokenize(Line(k, val), Equals)) > 1
         /\ tokenize(Line(k, val), Equals)[1] = k
         /\ tokenize(Line(k, val), Equals)[2] = Cut(val)
<1>. DEFINE p == tokenize(val, Equals)
            ke == Append(k, Equals)
            l == ke \o val
<1>1. Equals \in Code
  BY DEF Equals, Code
<1>2. tokenize(Line(k, val), Equals) = <<k>> \o p
  <2>1. tokenize(k, Equals) = <<k>>
    BY <1>1, TokenizeWhole
  <2>2. tokenize(l, Equals) = tokenize(k, Equals) \o p
    BY <1>1, TokenizeConcat
  <2>3. Line(k, val) = l
    BY DEF Line
  <2>. HIDE DEF l, p
  <2>. QED BY <2>1, <2>2, <2>3
<1>3. p \in Seq(Text) /\ Len(p) >= 1 /\ Len(p) \in Nat
  <2>1. p \in Seq(Text) /\ Len(p) >= 1
    BY TokenizeType
  <2>. HIDE DEF p
  <2>. QED BY <2>1
<1>4. ke \in Text /\ Len(ke) \in Nat /\ Len(ke) > 0
  BY <1>1 DEF Text
<1>5. l \in Text /\ l # <<>>
  <2>. HIDE DEF ke
  <2>1. l \in Seq(Code) /\ Len(l) = Len(ke) + Len(val) /\ Len(val) \in Nat
    BY <1>4 DEF Text
  <2>2. Len(<<>>) = 0
    OBVIOUS
  <2>. HIDE DEF l
  <2>. QED BY <1>4, <2>1, <2>2 DEF Text
<1>6. Line(k, val) = l
  BY DEF Line
<1>. HIDE DEF p, l
<1>7. <<k>> \in Seq(Text) /\ Len(<<k>>) = 1 /\ <<k>>[1] = k
  OBVIOUS
<1>8. Len(<<k>> \o p) = 1 + Len(p) /\ (<<k>> \o p)[1] = k /\ (<<k>> \o p)[2] = p[1]
  BY <1>3, <1>7
<1>. QED BY <1>2, <1>3, <1>5, <1>6, <1>8 DEF Cut, p

-----------------------------------------------------------------------------
(* The folds: to_file() over the keys, to_db() over the lines, and the words *)
(* of a command line put together again.                                     *)

Printed(db, text, k) == text \o k \o <<Equals>> \o db[k] \o <<Newline>>
Prints(db)           == [p \in Text \X DOMAIN db |-> Printed(db, p[1], p[2])]

Maps == UNION {[D -> Text] : D \in SUBSET Text}

LEMMA PrintedIs ==
  ASSUME NEW text \in Text, NEW k \in Text, NEW db, db[k] \in Text
  PROVE  Printed(db, text, k) = Append(text \o Line(k, db[k]), Newline) /\ Printed(db, text, k) \in Text
<1>. DEFINE v == db[k]
<1>1. v \in Text
  OBVIOUS
<1>2. Equals \in Code /\ Newline \in Code
  BY DEF Equals, Newline, Code
<1>. HIDE DEF v
<1>3. /\ text \o k \o <<Equals>> \o v \o <<Newline>> = Append(text \o (Append(k, Equals) \o v), Newline)
      /\ Append(text \o (Append(k, Equals) \o v), Newline) \in Text
  <2>1. <<Equals>> \in Seq(Code) /\ k \in Seq(Code) /\ text \in Seq(Code) /\ v \in Seq(Code)
    BY <1>1, <1>2 DEF Text
  <2>2. Append(k, Equals) = k \o <<Equals>> /\ k \o <<Equals>> \in Seq(Code)
    BY <1>2, <2>1, AppendIsConcat, ConcatProperties
  <2>. DEFINE e == <<Equals>>
  <2>3. text \o (k \o e \o v) = text \o k \o e \o v
    <3>. HIDE DEF e
    <3>1. e \in Seq(Code)
      BY <2>1 DEF e
    <3>2. k \o e \in Seq(Code) /\ text \o k \in Seq(Code)
      BY <2>1, <3>1, ConcatProperties
    <3>3. text \o (k \o e \o v) = (text \o (k \o e)) \o v
      <4>. DEFINE ke == k \o e
      <4>1. ke \in Seq(Code)
        BY <3>2
      <4>. HIDE DEF ke
      <4>2. text \o (ke \o v) = (text \o ke) \o v
        <5>1. Tied(text, ke, v)
          BY <2>1, <4>1, TextsTied
        <5>. QED BY <5>1 DEF Tied
      <4>. QED BY <4>2 DEF ke
    <3>4. text \o (k \o e) = text \o k \o e
      <4>1. Tied(text, k, e)
        BY <2>1, <3>1, TextsTied
      <4>. QED BY <4>1 DEF Tied
    <3>. QED BY <3>3, <3>4
  <2>4. text \o k \o e \o v \in Seq(Code)
    BY <1>2, <2>1, <2>2, <2>3, ConcatProperties
  <2>. DEFINE w == text \o k \o e \o v
  <2>5. Append(w, Newline) = w \o <<Newline>> /\ Append(w, Newline) \in Seq(Code)
    <3>. HIDE DEF w, Newline
    <3>1. w \in Seq(Code)
      BY <2>4 DEF w
    <3>. QED BY <1>2, <3>1, AppendIsConcat, AppendProperties
  <2>. QED BY <2>2, <2>3, <2>5 DEF Text
<1>. QED BY <1>3 DEF v, Printed, Line

LEMMA ToFileGives ==
  ASSUME NEW db \in Maps, keys(db) \in Seq(DOMAIN db)
  PROVE  Gives(to_file(db), Text, keys(db), <<>>, Prints(db))
<1>. DEFINE V == Text
            E == DOMAIN db
            s == keys(db)
            base == <<>>
            step == Prints(db)
            Eq(it) == it = [S \in SUBSET (1 .. Len(s)) |->
                               IF S = {} THEN base ELSE Printed(db, it[S \ {Max(S)}], s[Max(S)])]
            chosen == CHOOSE it : Eq(it)
<1>1. E \subseteq Text /\ \A k \in E : db[k] \in Text
  BY DEF Maps
<1>2. base \in V
  BY DEF Text
<1>. HIDE DEF base
<1>3. to_file(db) = chosen[1 .. Len(s)]
  <2>1. DOMAIN s = 1 .. Len(s)
    OBVIOUS
  <2>. QED BY <2>1 DEF to_file, Printed, base, FoldLeft, MapThenFoldSet
<1>4. s \in Seq(E)
  OBVIOUS
<1>5. step \in FoldSteps(V, E) /\ \A v \in V, k \in E : step[<<v, k>>] = Printed(db, v, k)
  <2>1. \A v \in V, k \in E : Printed(db, v, k) \in V
    BY <1>1, PrintedIs
  <2>. QED BY <2>1 DEF Prints, FoldSteps
<1>. HIDE DEF V, E, s, step
<1>6. Len(s) \in Nat /\ \A S \in SUBSET (1 .. Len(s)) : S # {} => s[Max(S)] \in E
  <2>1. Len(s) \in Nat /\ \A i \in 1 .. Len(s) : s[i] \in E
    BY <1>4
  <2>2. \A S \in SUBSET (1 .. Len(s)) : S # {} => Max(S) \in 1 .. Len(s)
    BY <2>1, MaxIs
  <2>. QED BY <2>1, <2>2
<1>7. PICK g \in [SUBSET (1 .. Len(s)) -> V] : Unfolds(g, V, s, base, step)
  BY <1>2, <1>4, <1>5, Unfolded
<1>8. Eq(g)
  <2>1. \A S \in SUBSET (1 .. Len(s)) : g[S \ {Max(S)}] \in V
    OBVIOUS
  <2>2. \A S \in SUBSET (1 .. Len(s)) :
           g[S] = IF S = {} THEN base ELSE Printed(db, g[S \ {Max(S)}], s[Max(S)])
    BY <1>5, <1>6, <1>7, <2>1 DEF Unfolds
  <2>. QED BY <2>2
<1>9. Eq(chosen)
  <2>. HIDE DEF Eq
  <2>. QED BY <1>8
<1>. HIDE DEF chosen
<1>10. Unfolds(chosen, V, s, base, step)
  <2>1. {} \in SUBSET (1 .. Len(s))
    OBVIOUS
  <2>2. chosen[{}] = base
    BY <1>9, <2>1
  <2>3. \A S \in SUBSET (1 .. Len(s)) : S # {} => chosen[S] = Printed(db, chosen[S \ {Max(S)}], s[Max(S)])
    BY <1>9
  <2>. QED BY <1>5, <1>6, <2>2, <2>3 DEF Unfolds
<1>11. Gives(chosen[1 .. Len(s)], V, s, base, step)
  BY <1>2, <1>4, <1>5, <1>10, GivenBy
<1>. QED BY <1>3, <1>11 DEF V, s, base, step

\* What to_db() makes of one line more.
Parsed(db, line) == LET values == tokenize(line, Equals)
                    IN  IF line = <<>> THEN db ELSE Put(db, values[1], values[2])
Readables == {line \in Text : line # <<>> => Len(tokenize(line, Equals)) > 1}
Parses    == [p \in Maps \X Readables |-> Parsed(p[1], p[2])]

LEMMA PutType ==
  ASSUME NEW db \in Maps, NEW k \in Text, NEW val \in Text
  PROVE  Put(db, k, val) \in Maps
<1>1. PICK D \in SUBSET Text : db \in [D -> Text]
  BY DEF Maps
<1>2. D \cup {k} \in SUBSET Text
  OBVIOUS
<1>3. Put(db, k, val) \in [D \cup {k} -> Text]
  BY <1>1 DEF Put
<1>. QED BY <1>2, <1>3 DEF Maps

LEMMA ParsedType ==
  ASSUME NEW db \in Maps, NEW line \in Readables
  PROVE  Parsed(db, line) \in Maps
<1>1. CASE line = <<>>
  BY <1>1 DEF Parsed
<1>2. CASE line # <<>>
  <2>. DEFINE values == tokenize(line, Equals)
  <2>1. line \in Text /\ Len(values) > 1
    BY <1>2 DEF Readables
  <2>2. values \in Seq(Text)
    BY <2>1, TokenizeType
  <2>3. values[1] \in Text /\ values[2] \in Text
    <3>. HIDE DEF values
    <3>. QED BY <2>1, <2>2
  <2>. QED BY <1>2, <2>3, PutType DEF Parsed
<1>. QED BY <1>1, <1>2

LEMMA ToDbGives ==
  ASSUME NEW text, Lines(text) \in Seq(Readables)
  PROVE  Gives(to_db(text), Maps, Lines(text), NoEntries, Parses)
<1>. DEFINE V == Maps
            E == Readables
            s == Lines(text)
            base == NoEntries
            step == Parses
            Eq(it) == it = [S \in SUBSET (1 .. Len(s)) |->
                               IF S = {} THEN base ELSE Parsed(it[S \ {Max(S)}], s[Max(S)])]
            chosen == CHOOSE it : Eq(it)
<1>1. base \in V
  <2>1. NoEntries \in [{} -> Text]
    BY DEF NoEntries
  <2>. QED BY <2>1 DEF Maps
<1>. HIDE DEF base
<1>2. to_db(text) = chosen[1 .. Len(s)]
  <2>1. DOMAIN s = 1 .. Len(s)
    OBVIOUS
  <2>. QED BY <2>1 DEF to_db, Parsed, base, FoldLeft, MapThenFoldSet
<1>3. s \in Seq(E)
  OBVIOUS
<1>4. step \in FoldSteps(V, E) /\ \A v \in V, e \in E : step[<<v, e>>] = Parsed(v, e)
  BY ParsedType DEF Parses, FoldSteps
<1>. HIDE DEF V, E, s, step
<1>5. Len(s) \in Nat /\ \A S \in SUBSET (1 .. Len(s)) : S # {} => s[Max(S)] \in E
  <2>1. Len(s) \in Nat /\ \A i \in 1 .. Len(s) : s[i] \in E
    BY <1>3
  <2>2. \A S \in SUBSET (1 .. Len(s)) : S # {} => Max(S) \in 1 .. Len(s)
    BY <2>1, MaxIs
  <2>. QED BY <2>1, <2>2
<1>6. PICK g \in [SUBSET (1 .. Len(s)) -> V] : Unfolds(g, V, s, base, step)
  BY <1>1, <1>3, <1>4, Unfolded
<1>7. Eq(g)
  <2>1. \A S \in SUBSET (1 .. Len(s)) : g[S \ {Max(S)}] \in V
    OBVIOUS
  <2>2. \A S \in SUBSET (1 .. Len(s)) :
           g[S] = IF S = {} THEN base ELSE Parsed(g[S \ {Max(S)}], s[Max(S)])
    BY <1>4, <1>5, <1>6, <2>1 DEF Unfolds
  <2>. QED BY <2>2
<1>8. Eq(chosen)
  <2>. HIDE DEF Eq
  <2>. QED BY <1>7
<1>. HIDE DEF chosen
<1>9. Unfolds(chosen, V, s, base, step)
  <2>1. {} \in SUBSET (1 .. Len(s))
    OBVIOUS
  <2>2. chosen[{}] = base
    BY <1>8, <2>1
  <2>3. \A S \in SUBSET (1 .. Len(s)) : S # {} => chosen[S] = Parsed(chosen[S \ {Max(S)}], s[Max(S)])
    BY <1>8
  <2>. QED BY <1>4, <1>5, <2>2, <2>3 DEF Unfolds
<1>10. Gives(chosen[1 .. Len(s)], V, s, base, step)
  BY <1>1, <1>3, <1>4, <1>9, GivenBy
<1>. QED BY <1>2, <1>10 DEF V, s, base, step

-----------------------------------------------------------------------------
(* The round trip: what to_db() makes of what to_file() prints. *)

\* The keys and values whose lines stay apart, and the stores of them.
KeyLike == {k \in Text : Without(k, Newline) /\ Without(k, Equals)}
ValLike == {val \in Text : Without(val, Newline)}
Stores  == UNION {[D -> ValLike] : D \in {D \in SUBSET KeyLike : IsFiniteSet(D)}}

LinesOf(db, ks) == [i \in 1 .. Len(ks) |-> Line(ks[i], db[ks[i]])]
Listed(ks)      == {ks[i] : i \in 1 .. Len(ks)}

LEMMA StoreType ==
  ASSUME NEW db \in Stores
  PROVE  /\ db \in Maps /\ DOMAIN db \subseteq KeyLike /\ IsFiniteSet(DOMAIN db)
         /\ db = [k \in DOMAIN db |-> db[k]]
         /\ \A k \in DOMAIN db : db[k] \in ValLike
<1>1. PICK D \in SUBSET KeyLike : IsFiniteSet(D) /\ db \in [D -> ValLike]
  BY DEF Stores
<1>2. KeyLike \subseteq Text /\ ValLike \subseteq Text
  BY DEF KeyLike, ValLike
<1>3. D \in SUBSET Text /\ db \in [D -> Text]
  BY <1>1, <1>2
<1>. QED BY <1>1, <1>3 DEF Maps

\* A line has no end of line in it, and is what to_db() looks for.
LEMMA EntryLine ==
  ASSUME NEW k \in KeyLike, NEW val \in ValLike
  PROVE  /\ Line(k, val) \in Text /\ Line(k, val) # <<>> /\ Without(Line(k, val), Newline)
         /\ Len(tokenize(Line(k, val), Equals)) > 1
         /\ tokenize(Line(k, val), Equals)[1] = k
         /\ tokenize(Line(k, val), Equals)[2] = Cut(val)
<1>1. k \in Text /\ val \in Text /\ Without(k, Newline) /\ Without(k, Equals) /\ Without(val, Newline)
  BY DEF KeyLike, ValLike
<1>2. Without(Line(k, val), Newline)
  <2>. DEFINE ke == Append(k, Equals)
              l == ke \o val
  <2>1. /\ ke \in Seq(Code) /\ Len(ke) = Len(k) + 1 /\ ke[Len(k) + 1] = Equals
        /\ \A i \in 1 .. Len(k) : ke[i] = k[i]
        /\ Len(k) \in Nat /\ Len(val) \in Nat /\ val \in Seq(Code)
    BY <1>1 DEF Text, Equals, Code
  <2>. HIDE DEF ke
  <2>2. /\ Len(l) = Len(ke) + Len(val)
        /\ \A i \in 1 .. Len(ke) + Len(val) : l[i] = IF i <= Len(ke) THEN ke[i] ELSE val[i - Len(ke)]
    BY <2>1, ConcatProperties, Zenon
  <2>3. Equals # Newline
    BY DEF Equals, Newline
  <2>4. \A i \in 1 .. Len(ke) : ke[i] # Newline
    BY <1>1, <2>1, <2>3 DEF Without
  <2>5. \A i \in 1 .. Len(val) : val[i] # Newline
    BY <1>1 DEF Without
  <2>. HIDE DEF l
  <2>6. ASSUME NEW i \in 1 .. Len(l) PROVE l[i] # Newline
    <3>1. CASE i <= Len(ke)
      BY <2>1, <2>2, <2>4, <3>1
    <3>2. CASE ~(i <= Len(ke))
      <4>1. i - Len(ke) \in 1 .. Len(val)
        BY <2>1, <2>2, <3>2
      <4>. QED BY <2>2, <2>5, <3>2, <4>1
    <3>. QED BY <3>1, <3>2
  <2>. QED BY <2>6 DEF Without, Line, l, ke
<1>. QED BY <1>1, <1>2, LineIs

LEMMA LinesOfAppend ==
  ASSUME NEW E, NEW ks \in Seq(E), NEW k \in E, NEW db, \A e \in E : Line(e, db[e]) \in Text
  PROVE  LinesOf(db, ks) \in Seq(Text) /\ LinesOf(db, Append(ks, k)) = Append(LinesOf(db, ks), Line(k, db[k]))
<1>. DEFINE ls == LinesOf(db, ks)
            l == Line(k, db[k])
            t == Append(ks, k)
            a == LinesOf(db, t)
            b == Append(ls, l)
<1>1. /\ Len(ks) \in Nat /\ Len(t) = Len(ks) + 1 /\ t[Len(ks) + 1] = k
      /\ \A i \in 1 .. Len(ks) : t[i] = ks[i] /\ ks[i] \in E
  OBVIOUS
<1>. HIDE DEF t
<1>2. ls \in Seq(Text) /\ Len(ls) = Len(ks) /\ \A i \in 1 .. Len(ks) : ls[i] = Line(ks[i], db[ks[i]])
  BY <1>1 DEF LinesOf
<1>3. /\ a \in Seq(Text) /\ Len(a) = Len(ks) + 1
      /\ \A i \in 1 .. Len(ks) + 1 : a[i] = Line(t[i], db[t[i]])
  <2>1. \A i \in 1 .. Len(ks) + 1 : t[i] \in E
    BY <1>1
  <2>. QED BY <1>1, <2>1 DEF LinesOf
<1>. HIDE DEF ls, a
<1>4. l \in Text
  OBVIOUS
<1>. HIDE DEF l
<1>5. b \in Seq(Text) /\ Len(b) = Len(ks) + 1 /\ b[Len(ks) + 1] = l /\ \A i \in 1 .. Len(ks) : b[i] = ls[i]
  BY <1>1, <1>2, <1>4
<1>. HIDE DEF b
<1>6. a[Len(ks) + 1] = l
  BY <1>1, <1>3 DEF l
<1>7. \A i \in 1 .. Len(a) : a[i] = b[i]
  BY <1>1, <1>2, <1>3, <1>5, <1>6
<1>8. a = b
  BY <1>3, <1>5, <1>7, SeqEqual
<1>. QED BY <1>2, <1>8 DEF ls, l, t, a, b

LEMMA EndOfLine ==
  ASSUME NEW v \in Text, NEW l \in Text
  PROVE  Append(l, Newline) \in Text /\ Append(v \o l, Newline) = v \o Append(l, Newline)
<1>1. v \in Seq(Code) /\ l \in Seq(Code) /\ Newline \in Code
  BY DEF Text, Newline, Code
<1>2. ASSUME NEW e \in Code PROVE Append(l, e) \in Seq(Code) /\ Append(v \o l, e) = v \o Append(l, e)
  BY <1>1
<1>. QED BY <1>1, <1>2 DEF Text

\* Cracked into lines, what to_file() prints is the lines it printed and an empty one.
LEMMA PrintedLines ==
  ASSUME NEW db \in Stores, NEW ks \in Seq(DOMAIN db),
         NEW text, Gives(text, Text, ks, <<>>, Prints(db))
  PROVE  tokenize(text, Newline) = Append(LinesOf(db, ks), <<>>)
<1>. DEFINE E == DOMAIN db
            Ls(s) == LinesOf(db, s)
            From(s, base) == \A w : Gives(w, Text, s, base, Prints(db)) =>
                       w \in Text /\ \A b \in Text : tokenize(w \o b, Newline) = Ls(s) \o tokenize(b, Newline)
            base == <<>>
            T == {s \in Seq(E) : From(s, base)}
<1>1. /\ Newline \in Code
      /\ \A k \in E : /\ k \in Text /\ db[k] \in Text /\ Line(k, db[k]) \in Text
                      /\ Without(Line(k, db[k]), Newline)
  <2>1. E \subseteq KeyLike /\ KeyLike \subseteq Text /\ ValLike \subseteq Text /\ \A k \in E : db[k] \in ValLike
    BY StoreType DEF KeyLike, ValLike
  <2>2. \A k \in E : Line(k, db[k]) \in Text /\ Without(Line(k, db[k]), Newline)
    BY <2>1, EntryLine
  <2>3. Newline \in Code
    BY DEF Newline, Code
  <2>. QED BY <2>1, <2>2, <2>3
<1>2. <<>> \in T
  <2>1. ASSUME NEW w, Gives(w, Text, <<>>, base, Prints(db))
        PROVE  w \in Text /\ \A b \in Text : tokenize(w \o b, Newline) = Ls(<<>>) \o tokenize(b, Newline)
    <3>1. w = <<>>
      BY <2>1, GivesFirst
    <3>2. <<>> \in Text /\ Ls(<<>>) = <<>>
      BY DEF Text, LinesOf
    <3>3. ASSUME NEW b \in Text
          PROVE  tokenize(w \o b, Newline) = Ls(<<>>) \o tokenize(b, Newline)
      <4>1. w \o b = b
        BY <3>1 DEF Text
      <4>2. tokenize(b, Newline) \in Seq(Text)
        BY TokenizeType
      <4>3. <<>> \o tokenize(b, Newline) = tokenize(b, Newline)
        BY <4>2
      <4>. QED BY <3>2, <4>1, <4>3
    <3>. QED BY <3>1, <3>2, <3>3
  <2>2. From(<<>>, base)
    <3>. HIDE DEF base
    <3>. QED BY <2>1
  <2>3. <<>> \in Seq(E)
    OBVIOUS
  <2>. HIDE DEF From
  <2>. QED BY <2>2, <2>3
<1>. HIDE DEF base
<1>3. ASSUME NEW s \in Seq(E), NEW k \in E, s \in T PROVE Append(s, k) \in T
  <2>. DEFINE t == Append(s, k)
              l == Line(k, db[k])
  <2>1. Longer(t, s, k) /\ t \in Seq(E)
    BY DEF Longer
  <2>2. Ls(s) \in Seq(Text) /\ Ls(t) = Append(Ls(s), l)
    BY <1>1, LinesOfAppend
  <2>3. From(s, base)
    BY <1>3
  <2>. HIDE DEF t, Ls
  <2>4. ASSUME NEW w, Gives(w, Text, t, base, Prints(db))
        PROVE  w \in Text /\ \A b \in Text : tokenize(w \o b, Newline) = Ls(t) \o tokenize(b, Newline)
    <3>1. PICK v : Gives(v, Text, s, base, Prints(db))
      BY <2>1, <2>4, GivesBefore
    <3>2. v \in Text /\ w = After(Prints(db), v, k)
      BY <2>1, <2>4, <3>1, GivesNext
    <3>3. w = Printed(db, v, k)
      BY <3>2 DEF After, Prints
    <3>4. w = Append(v \o l, Newline) /\ w \in Text
      BY <1>1, <3>2, <3>3, PrintedIs
    <3>5. l \in Text /\ Without(l, Newline)
      BY <1>1
    <3>. HIDE DEF l
    <3>6. ASSUME NEW b \in Text
          PROVE  tokenize(w \o b, Newline) = Ls(t) \o tokenize(b, Newline)
      <4>. DEFINE ln == Append(l, Newline)
                  tb == tokenize(b, Newline)
      <4>1. ln \in Text /\ Append(v \o l, Newline) = v \o ln
        BY <3>2, <3>5, EndOfLine
      <4>2. tokenize(ln \o b, Newline) = <<l>> \o tb
        <5>1. tokenize(l, Newline) = <<l>>
          BY <1>1, <3>5, TokenizeWhole
        <5>2. tokenize(ln \o b, Newline) = tokenize(l, Newline) \o tb
          BY <1>1, <3>5, TokenizeConcat
        <5>. QED BY <5>1, <5>2
      <4>3. tb \in Seq(Text)
        BY TokenizeType
      <4>. HIDE DEF ln, tb
      <4>4. w \o b = v \o (ln \o b) /\ ln \o b \in Text
        <5>1. v \in Seq(Code) /\ ln \in Seq(Code) /\ b \in Seq(Code)
          BY <3>2, <4>1 DEF Text
        <5>2. (v \o ln) \o b = v \o (ln \o b)
          <6>1. Tied(v, ln, b)
            BY <5>1, TextsTied
          <6>. QED BY <6>1 DEF Tied
        <5>3. ln \o b \in Seq(Code)
          BY <5>1, ConcatProperties
        <5>. QED BY <3>4, <4>1, <5>2, <5>3 DEF Text
      <4>5. tokenize(v \o (ln \o b), Newline) = Ls(s) \o (<<l>> \o tb)
        BY <2>3, <3>1, <4>2, <4>4 DEF tb
      <4>6. Ls(s) \o (<<l>> \o tb) = Append(Ls(s), l) \o tb
        <5>. DEFINE one == <<l>>
        <5>1. one \in Seq(Text)
          BY <3>5
        <5>2. Append(Ls(s), l) = Ls(s) \o one
          BY <2>2, <3>5, AppendIsConcat
        <5>. HIDE DEF one
        <5>3. Ls(s) \o (one \o tb) = (Ls(s) \o one) \o tb
          <6>. DEFINE v2 == Ls(s)
          <6>1. v2 \in Seq(Text)
            BY <2>2
          <6>. HIDE DEF v2
          <6>2. (v2 \o one) \o tb = v2 \o (one \o tb)
            BY <4>3, <5>1, <6>1, ConcatAssociative
          <6>. QED BY <6>2 DEF v2
        <5>. QED BY <5>2, <5>3 DEF one
      <4>. QED BY <2>2, <4>4, <4>5, <4>6 DEF tb, l
    <3>. QED BY <3>4, <3>6
  <2>5. From(t, base)
    BY <2>4
  <2>. HIDE DEF From
  <2>. QED BY <2>1, <2>5 DEF t
<1>4. ks \in T
  <2>. HIDE DEF T
  <2>. QED BY <1>2, <1>3, SeqInduct
<1>5. tokenize(text \o <<>>, Newline) = Ls(ks) \o tokenize(<<>>, Newline) /\ text \in Text
  <2>1. <<>> \in Text
    BY DEF Text
  <2>2. Gives(text, Text, ks, base, Prints(db))
    BY DEF base
  <2>. HIDE DEF Ls
  <2>. QED BY <1>4, <2>1, <2>2
<1>6. text \o <<>> = text
  BY <1>5 DEF Text
<1>7. Ls(ks) \in Seq(Text) /\ Ls(ks) \o << <<>> >> = Append(Ls(ks), <<>>)
  <2>1. Ls(ks) \in Seq(Text)
    <3>1. Len(ks) \in Nat /\ \A i \in 1 .. Len(ks) : ks[i] \in E
      OBVIOUS
    <3>. QED BY <1>1, <3>1 DEF LinesOf
  <2>. HIDE DEF Ls
  <2>. QED BY <2>1
<1>. QED BY <1>5, <1>6, <1>7, TokenizeEmpty

\* What to_db() makes of the lines is the store, each value cut.
CutStore(db) == [k \in DOMAIN db |-> Cut(db[k])]

LEMMA ListedAppend ==
  ASSUME NEW E, NEW ks \in Seq(E), NEW k \in E
  PROVE  Listed(Append(ks, k)) = Listed(ks) \cup {k}
<1>. DEFINE t == Append(ks, k)
<1>1. /\ Len(ks) \in Nat /\ Len(t) = Len(ks) + 1 /\ t[Len(ks) + 1] = k
      /\ \A i \in 1 .. Len(ks) : t[i] = ks[i]
  OBVIOUS
<1>. HIDE DEF t
<1>2. Listed(t) \subseteq Listed(ks) \cup {k}
  <2>1. ASSUME NEW i \in 1 .. Len(t) PROVE t[i] \in Listed(ks) \cup {k}
    <3>1. CASE i = Len(ks) + 1
      BY <1>1, <3>1
    <3>2. CASE i # Len(ks) + 1
      <4>1. i \in 1 .. Len(ks)
        BY <1>1, <3>2
      <4>. QED BY <1>1, <4>1 DEF Listed
    <3>. QED BY <3>1, <3>2
  <2>. QED BY <2>1 DEF Listed
<1>3. Listed(ks) \cup {k} \subseteq Listed(t)
  <2>1. \A i \in 1 .. Len(ks) : i \in 1 .. Len(t) /\ t[i] = ks[i]
    BY <1>1
  <2>2. Len(ks) + 1 \in 1 .. Len(t)
    BY <1>1
  <2>. QED BY <1>1, <2>1, <2>2 DEF Listed
<1>. QED BY <1>2, <1>3 DEF t

LEMMA ParsedLines ==
  ASSUME NEW db \in Stores, NEW ks \in Seq(DOMAIN db),
         NEW w, Gives(w, Maps, LinesOf(db, ks), NoEntries, Parses)
  PROVE  w = [k \in Listed(ks) |-> Cut(db[k])]
<1>. DEFINE E == DOMAIN db
            Ls(s) == LinesOf(db, s)
            Made(s) == \A v : Gives(v, Maps, Ls(s), NoEntries, Parses) => v = [k \in Listed(s) |-> Cut(db[k])]
            T == {s \in Seq(E) : Made(s)}
<1>1. \A k \in E : /\ Line(k, db[k]) \in Text /\ Line(k, db[k]) \in Readables /\ Line(k, db[k]) # <<>>
                   /\ tokenize(Line(k, db[k]), Equals)[1] = k
                   /\ tokenize(Line(k, db[k]), Equals)[2] = Cut(db[k])
  <2>1. E \subseteq KeyLike /\ \A k \in E : db[k] \in ValLike
    BY StoreType
  <2>. QED BY <2>1, EntryLine DEF Readables
<1>2. <<>> \in T
  <2>1. ASSUME NEW v, Gives(v, Maps, Ls(<<>>), NoEntries, Parses)
        PROVE  v = [k \in Listed(<<>>) |-> Cut(db[k])]
    <3>1. Ls(<<>>) = <<>>
      BY DEF LinesOf
    <3>2. v = NoEntries
      BY <2>1, <3>1, GivesFirst
    <3>3. Listed(<<>>) = {}
      BY DEF Listed
    <3>. QED BY <3>2, <3>3 DEF NoEntries
  <2>2. <<>> \in Seq(E) /\ Made(<<>>)
    BY <2>1
  <2>. HIDE DEF Made
  <2>. QED BY <2>2
<1>3. ASSUME NEW s \in Seq(E), NEW k \in E, s \in T PROVE Append(s, k) \in T
  <2>. DEFINE t == Append(s, k)
              l == Line(k, db[k])
  <2>1. Ls(t) = Append(Ls(s), l)
    BY <1>1, LinesOfAppend
  <2>2. Ls(s) \in Seq(Readables) /\ l \in Readables
    <3>1. Len(s) \in Nat /\ \A i \in 1 .. Len(s) : s[i] \in E
      OBVIOUS
    <3>. QED BY <1>1, <3>1 DEF LinesOf
  <2>3. Longer(Ls(t), Ls(s), l)
    BY <2>1 DEF Longer
  <2>4. Made(s)
    BY <1>3
  <2>5. Listed(t) = Listed(s) \cup {k}
    BY ListedAppend
  <2>. HIDE DEF t, Ls
  <2>6. ASSUME NEW w1, Gives(w1, Maps, Ls(t), NoEntries, Parses)
        PROVE  w1 = [x \in Listed(t) |-> Cut(db[x])]
    <3>. DEFINE ls == Ls(s)
                lt == Ls(t)
    <3>1. ls \in Seq(Readables) /\ Longer(lt, ls, l) /\ Gives(w1, Maps, lt, NoEntries, Parses)
      BY <2>2, <2>3, <2>6
    <3>2. \E v : Gives(v, Maps, ls, NoEntries, Parses)
      <4>. HIDE DEF ls, lt, l
      <4>. QED BY <2>2, <3>1, GivesBefore
    <3>3. PICK v : Gives(v, Maps, ls, NoEntries, Parses)
      BY <3>2
    <3>4. v \in Maps /\ w1 = After(Parses, v, l)
      <4>. HIDE DEF ls, lt, l
      <4>. QED BY <2>2, <3>1, <3>3, GivesNext
    <3>5. v = [x \in Listed(s) |-> Cut(db[x])]
      BY <2>4, <3>3
    <3>6. w1 = Parsed(v, l)
      BY <2>2, <3>4 DEF After, Parses
    <3>7. w1 = Put(v, k, Cut(db[k]))
      BY <1>1, <3>6 DEF Parsed
    <3>. QED BY <2>5, <3>5, <3>7 DEF Put
  <2>7. t \in Seq(E) /\ Made(t)
    BY <2>6 DEF t
  <2>. HIDE DEF Made
  <2>. QED BY <2>7 DEF t
<1>4. ks \in T
  <2>. HIDE DEF T
  <2>. QED BY <1>2, <1>3, SeqInduct
<1>. QED BY <1>4

-----------------------------------------------------------------------------
(* The order of the keys. *)

\* t has a character at place i where s has ended, or a greater one, and before it the same.
Parts(s, t, i) == /\ i <= Len(t)
                  /\ \A j \in 1 .. i - 1 : j <= Len(s) /\ s[j] = t[j]
                  /\ i = Len(s) + 1 \/ (i <= Len(s) /\ s[i] < t[i])
Less(s, t) == \E i \in Nat \ {0} : Parts(s, t, i)

LEMMA TextIs ==
  ASSUME NEW s \in Text
  PROVE  s \in Seq(Int) /\ Len(s) \in Nat /\ \A i \in 1 .. Len(s) : s[i] \in Int
BY DEF Text, Code

LEMMA SamePrefix ==
  ASSUME NEW s \in Text, NEW t \in Text, NEW n \in Nat, n <= Len(s), n <= Len(t)
  PROVE  SubSeq(s, 1, n) = SubSeq(t, 1, n) <=> \A j \in 1 .. n : s[j] = t[j]
<1>. DEFINE a == SubSeq(s, 1, n)
            b == SubSeq(t, 1, n)
<1>1. s \in Seq(Int) /\ t \in Seq(Int) /\ Len(s) \in Nat /\ Len(t) \in Nat
  BY TextIs
<1>2. a \in Seq(Int) /\ Len(a) = n /\ \A j \in 1 .. n : a[j] = s[j]
  BY <1>1
<1>3. b \in Seq(Int) /\ Len(b) = n /\ \A j \in 1 .. n : b[j] = t[j]
  BY <1>1
<1>. HIDE DEF a, b
<1>4. (\A j \in 1 .. n : s[j] = t[j]) => a = b
  <2>. HAVE \A j \in 1 .. n : s[j] = t[j]
  <2>1. \A j \in 1 .. Len(a) : a[j] = b[j]
    BY <1>2, <1>3
  <2>. QED BY <1>2, <1>3, <2>1, SeqEqual
<1>5. a = b => \A j \in 1 .. n : s[j] = t[j]
  BY <1>2, <1>3
<1>. QED BY <1>4, <1>5 DEF a, b

LEMMA BeforeIs ==
  ASSUME NEW s \in Text, NEW t \in Text
  PROVE  Before(s, t) <=> Less(s, t)
<1>1. s \in Seq(Int) /\ t \in Seq(Int) /\ Len(s) \in Nat /\ Len(t) \in Nat
  BY TextIs
<1>2. IsStrictPrefix(s, t) <=> Parts(s, t, Len(s) + 1)
  <2>1. SubSeq(s, 1, Len(s)) = SubSeq(t, 1, Len(s)) /\ Len(s) <= Len(t)
          <=> Len(s) <= Len(t) /\ \A j \in 1 .. Len(s) : s[j] = t[j]
    BY <1>1, SamePrefix
  <2>2. Len(s) <= Len(t) /\ (\A j \in 1 .. Len(s) : s[j] = t[j]) => (s # t <=> Len(s) + 1 <= Len(t))
    <3>. HAVE Len(s) <= Len(t) /\ \A j \in 1 .. Len(s) : s[j] = t[j]
    <3>1. Len(s) = Len(t) => s = t
      BY <1>1, SeqEqual
    <3>. QED BY <1>1, <3>1
  <2>3. Parts(s, t, Len(s) + 1) <=> Len(s) + 1 <= Len(t) /\ \A j \in 1 .. Len(s) : s[j] = t[j]
    BY <1>1 DEF Parts
  <2>4. Len(s) + 1 <= Len(t) => Len(s) <= Len(t)
    BY <1>1
  <2>. QED BY <2>1, <2>2, <2>3, <2>4 DEF IsStrictPrefix, IsPrefix
<1>3. \A i \in 1 .. Len(s) : Parts(s, t, i) <=> /\ i <= Len(t)
                                               /\ SubSeq(s, 1, i - 1) = SubSeq(t, 1, i - 1)
                                               /\ s[i] < t[i]
  <2>. TAKE i \in 1 .. Len(s)
  <2>1. i - 1 \in Nat /\ i - 1 <= Len(s) /\ i # Len(s) + 1 /\ i <= Len(s)
    BY <1>1
  <2>2. i <= Len(t) => i - 1 <= Len(t)
    BY <1>1
  <2>3. i <= Len(t) => (SubSeq(s, 1, i - 1) = SubSeq(t, 1, i - 1) <=> \A j \in 1 .. i - 1 : s[j] = t[j])
    BY <2>1, <2>2, SamePrefix
  <2>4. \A j \in 1 .. i - 1 : j <= Len(s)
    BY <1>1, <2>1
  <2>. QED BY <2>1, <2>3, <2>4 DEF Parts
<1>4. \A i \in Nat \ {0} : Parts(s, t, i) => i = Len(s) + 1 \/ i \in 1 .. Len(s)
  BY <1>1 DEF Parts
<1>5. Len(s) + 1 \in Nat \ {0} /\ 1 .. Len(s) \subseteq Nat \ {0}
  BY <1>1
<1>. QED BY <1>2, <1>3, <1>4, <1>5 DEF Before, Less

LEMMA LessOrder ==
  ASSUME NEW s \in Text, NEW t \in Text, NEW u \in Text
  PROVE  /\ ~Less(s, s)
         /\ Less(s, t) /\ Less(t, u) => Less(s, u)
         /\ s # t => Less(s, t) \/ Less(t, s)
<1>1. /\ s \in Seq(Int) /\ Len(s) \in Nat /\ \A i \in 1 .. Len(s) : s[i] \in Int
      /\ t \in Seq(Int) /\ Len(t) \in Nat /\ \A i \in 1 .. Len(t) : t[i] \in Int
      /\ u \in Seq(Int) /\ Len(u) \in Nat /\ \A i \in 1 .. Len(u) : u[i] \in Int
  BY TextIs
<1>2. ~Less(s, s)
  BY <1>1 DEF Less, Parts
<1>3. ASSUME Less(s, t), Less(t, u) PROVE Less(s, u)
  <2>1. PICK i \in Nat \ {0} : Parts(s, t, i)
    BY <1>3 DEF Less
  <2>2. PICK k \in Nat \ {0} : Parts(t, u, k)
    BY <1>3 DEF Less
  <2>3. CASE i < k
    <3>1. Parts(s, u, i)
      <4>1. i <= Len(t) /\ i <= Len(u) /\ t[i] = u[i]
        BY <1>1, <2>2, <2>3 DEF Parts
      <4>2. \A j \in 1 .. i - 1 : j <= Len(s) /\ s[j] = u[j]
        <5>. TAKE j \in 1 .. i - 1
        <5>1. j \in 1 .. k - 1 /\ j <= Len(s) /\ s[j] = t[j]
          BY <2>1, <2>3 DEF Parts
        <5>2. t[j] = u[j]
          BY <2>2, <5>1 DEF Parts
        <5>. QED BY <5>1, <5>2
      <4>. QED BY <2>1, <4>1, <4>2 DEF Parts
    <3>. QED BY <3>1 DEF Less
  <2>4. CASE k <= i
    <3>1. Parts(s, u, k)
      <4>1. k <= Len(u) /\ k <= Len(t) /\ t[k] < u[k]
        BY <1>1, <2>1, <2>2, <2>4 DEF Parts
      <4>2. \A j \in 1 .. k - 1 : j <= Len(s) /\ s[j] = u[j]
        <5>. TAKE j \in 1 .. k - 1
        <5>1. j \in 1 .. i - 1
          BY <2>4
        <5>2. j <= Len(s) /\ s[j] = t[j]
          BY <2>1, <5>1 DEF Parts
        <5>3. t[j] = u[j]
          BY <2>2 DEF Parts
        <5>. QED BY <5>2, <5>3
      <4>3. k = Len(s) + 1 \/ (k <= Len(s) /\ s[k] < u[k])
        <5>1. CASE k = i
          <6>1. CASE k = Len(s) + 1
            BY <6>1
          <6>2. CASE k # Len(s) + 1
            <7>1. k <= Len(s) /\ s[k] < t[k]
              BY <2>1, <5>1, <6>2 DEF Parts
            <7>2. s[k] \in Int /\ t[k] \in Int /\ u[k] \in Int
              BY <1>1, <4>1, <7>1
            <7>. QED BY <4>1, <7>1, <7>2
          <6>. QED BY <6>1, <6>2
        <5>2. CASE k # i
          <6>1. k \in 1 .. i - 1
            BY <2>4, <5>2
          <6>. QED BY <2>1, <4>1, <6>1 DEF Parts
        <5>. QED BY <5>1, <5>2
      <4>. QED BY <4>1, <4>2, <4>3 DEF Parts
    <3>. QED BY <3>1 DEF Less
  <2>. QED BY <2>3, <2>4
<1>4. ASSUME s # t PROVE Less(s, t) \/ Less(t, s)
  <2>. DEFINE D == {j \in Nat \ {0} : j <= Len(s) /\ j <= Len(t) /\ s[j] # t[j]}
  <2>1. CASE D = {}
    <3>1. \A j \in Nat \ {0} : j <= Len(s) /\ j <= Len(t) => s[j] = t[j]
      BY <2>1
    <3>2. CASE Len(s) < Len(t)
      <4>1. Parts(s, t, Len(s) + 1)
        BY <1>1, <3>1, <3>2 DEF Parts
      <4>2. Len(s) + 1 \in Nat \ {0}
        BY <1>1
      <4>. QED BY <4>1, <4>2 DEF Less
    <3>3. CASE Len(t) < Len(s)
      <4>1. Parts(t, s, Len(t) + 1)
        BY <1>1, <3>1, <3>3 DEF Parts
      <4>2. Len(t) + 1 \in Nat \ {0}
        BY <1>1
      <4>. QED BY <4>1, <4>2 DEF Less
    <3>4. CASE Len(s) = Len(t)
      <4>1. \A j \in 1 .. Len(s) : s[j] = t[j]
        BY <1>1, <3>1, <3>4
      <4>. QED BY <1>1, <1>4, <3>4, <4>1, SeqEqual
    <3>. QED BY <1>1, <3>2, <3>3, <3>4
  <2>2. CASE D # {}
    <3>1. PICK i \in D : \A j \in D : i <= j
      <4>1. D \subseteq Nat
        OBVIOUS
      <4>. HIDE DEF D
      <4>. QED BY <2>2, <4>1, Least
    <3>2. \A j \in 1 .. i - 1 : j <= Len(s) /\ j <= Len(t) /\ s[j] = t[j]
      <4>. TAKE j \in 1 .. i - 1
      <4>1. j \in Nat \ {0} /\ j < i /\ j <= Len(s) /\ j <= Len(t)
        BY <1>1
      <4>2. j \notin D
        <5>1. i \in Nat /\ ~(i <= j)
          BY <4>1
        <5>. HIDE DEF D
        <5>. QED BY <3>1, <5>1
      <4>. QED BY <4>1, <4>2
    <3>3. i \in Nat \ {0} /\ i <= Len(s) /\ i <= Len(t) /\ s[i] # t[i] /\ s[i] \in Int /\ t[i] \in Int
      BY <1>1
    <3>4. s[i] < t[i] \/ t[i] < s[i]
      BY <3>3
    <3>5. Parts(s, t, i) \/ Parts(t, s, i)
      BY <3>2, <3>3, <3>4 DEF Parts
    <3>. QED BY <3>3, <3>5 DEF Less
  <2>. QED BY <2>1, <2>2
<1>. QED BY <1>2, <1>3, <1>4

LEMMA BeforeOrder ==
  ASSUME NEW s \in Text, NEW t \in Text, NEW u \in Text
  PROVE  /\ ~Before(s, s)
         /\ Before(s, t) /\ Before(t, u) => Before(s, u)
         /\ s # t => Before(s, t) \/ Before(t, s)
BY BeforeIs, LessOrder

Sorted(f, n) == \A i, j \in 1 .. n : i < j => Before(f[i], f[j])

\* A finite set of texts, not empty, has a last one.
LEMMA LastText ==
  ASSUME NEW n \in Nat
  PROVE  \A D \in SUBSET Text : IsFiniteSet(D) /\ Cardinality(D) = n + 1 =>
            \E m \in D : \A k \in D : k = m \/ Before(k, m)
<1>. DEFINE P(D) == \E m \in D : \A k \in D : k = m \/ Before(k, m)
            T == {i \in Nat : \A D \in SUBSET Text : IsFiniteSet(D) /\ Cardinality(D) = i + 1 => P(D)}
<1>1. ASSUME NEW D \in SUBSET Text, IsFiniteSet(D), Cardinality(D) = 0 + 1 PROVE P(D)
  <2>1. Cardinality(D) = 1
    BY <1>1
  <2>2. \E m : D = {m}
    BY <1>1, <2>1, FS_Singleton
  <2>3. PICK m : D = {m}
    BY <2>2
  <2>. QED BY <2>3
<1>2. ASSUME NEW i \in Nat, i \in T,
             NEW D \in SUBSET Text, IsFiniteSet(D), Cardinality(D) = (i + 1) + 1
      PROVE  P(D)
  <2>1. D # {}
    BY <1>2, FS_EmptySet
  <2>2. PICK x \in D : TRUE
    BY <2>1
  <2>3. D \ {x} \in SUBSET Text /\ IsFiniteSet(D \ {x}) /\ Cardinality(D \ {x}) = i + 1
    BY <1>2, FS_RemoveElement
  <2>4. P(D \ {x})
    <3>. HIDE DEF P
    <3>. QED BY <1>2, <2>3
  <2>5. PICK m \in D \ {x} : \A k \in D \ {x} : k = m \/ Before(k, m)
    BY <2>4
  <2>6. x \in Text /\ m \in Text /\ x # m
    OBVIOUS
  <2>7. CASE Before(x, m)
    BY <2>5, <2>7
  <2>8. CASE Before(m, x)
    <3>1. \A k \in D : k = x \/ Before(k, x)
      BY <2>5, <2>6, <2>8, BeforeOrder
    <3>. QED BY <3>1
  <2>. QED BY <2>6, <2>7, <2>8, BeforeOrder
<1>3. 0 \in T
  <2>. HIDE DEF P
  <2>. QED BY <1>1
<1>4. \A i \in 0 .. n - 1 : i \in T => i + 1 \in T
  <2>. HIDE DEF P
  <2>. QED BY <1>2
<1>5. n \in T
  <2>. HIDE DEF T
  <2>1. \A i \in 0 .. n : i \in T
    BY <1>3, <1>4, Induct
  <2>. QED BY <2>1
<1>. QED BY <1>5

\* A finite set of texts can be put in order.
LEMMA SortedExists ==
  ASSUME NEW n \in Nat
  PROVE  \A D \in SUBSET Text : IsFiniteSet(D) /\ Cardinality(D) = n =>
            \E f \in [1 .. n -> D] : Sorted(f, n)
<1>. DEFINE T == {m \in Nat : \A D \in SUBSET Text : IsFiniteSet(D) /\ Cardinality(D) = m =>
                                 \E f \in [1 .. m -> D] : Sorted(f, m)}
<1>1. 0 \in T
  <2>1. ASSUME NEW D \in SUBSET Text PROVE \E f \in [1 .. 0 -> D] : Sorted(f, 0)
    <3>. DEFINE f == [i \in 1 .. 0 |-> i]
    <3>1. f \in [1 .. 0 -> D] /\ Sorted(f, 0)
      BY DEF Sorted
    <3>. QED BY <3>1
  <2>. QED BY <2>1
<1>2. ASSUME NEW m \in Nat, m \in T,
             NEW D \in SUBSET Text, IsFiniteSet(D), Cardinality(D) = m + 1
      PROVE  \E f \in [1 .. m + 1 -> D] : Sorted(f, m + 1)
  <2>1. PICK x \in D : \A k \in D : k = x \/ Before(k, x)
    BY <1>2, LastText
  <2>2. D \ {x} \in SUBSET Text /\ IsFiniteSet(D \ {x}) /\ Cardinality(D \ {x}) = m
    BY <1>2, FS_RemoveElement
  <2>3. PICK g \in [1 .. m -> D \ {x}] : Sorted(g, m)
    BY <1>2, <2>2
  <2>. DEFINE f == [i \in 1 .. m + 1 |-> IF i = m + 1 THEN x ELSE g[i]]
  <2>4. \A i \in 1 .. m : f[i] = g[i] /\ g[i] \in D /\ g[i] # x
    BY <2>3
  <2>5. f[m + 1] = x
    OBVIOUS
  <2>6. f \in [1 .. m + 1 -> D]
    BY <2>4
  <2>. HIDE DEF f
  <2>7. Sorted(f, m + 1)
    <3>1. ASSUME NEW i \in 1 .. m + 1, NEW j \in 1 .. m + 1, i < j PROVE Before(f[i], f[j])
      <4>1. i \in 1 .. m
        BY <3>1
      <4>2. CASE j = m + 1
        BY <2>1, <2>4, <2>5, <4>1, <4>2
      <4>3. CASE j # m + 1
        <5>1. j \in 1 .. m
          BY <4>3
        <5>. QED BY <2>3, <2>4, <3>1, <4>1, <5>1 DEF Sorted
      <4>. QED BY <4>2, <4>3
    <3>. QED BY <3>1 DEF Sorted
  <2>. QED BY <2>6, <2>7
<1>3. \A i \in 0 .. n - 1 : i \in T => i + 1 \in T
  BY <1>2
<1>4. n \in T
  <2>. HIDE DEF T
  <2>1. \A i \in 0 .. n : i \in T
    BY <1>1, <1>3, Induct
  <2>. QED BY <2>1
<1>. QED BY <1>4

\* keys() lists every key once, in order.
LEMMA KeysAre ==
  ASSUME NEW db \in Stores
  PROVE  /\ keys(db) \in Seq(DOMAIN db) /\ Len(keys(db)) = Cardinality(DOMAIN db)
         /\ Listed(keys(db)) = DOMAIN db
<1>. DEFINE D == DOMAIN db
            n == Cardinality(D)
            s == keys(db)
<1>1. D \in SUBSET Text /\ IsFiniteSet(D) /\ n \in Nat
  BY StoreType, FS_CardinalityType DEF KeyLike
<1>2. \E f \in [1 .. n -> D] : Sorted(f, n)
  <2>. HIDE DEF D
  <2>. QED BY <1>1, SortedExists
<1>3. s \in [1 .. n -> D] /\ Sorted(s, n)
  <2>1. PICK f \in [1 .. n -> D] : Sorted(f, n)
    BY <1>2
  <2>2. \A i, j \in DOMAIN f : i < j => Before(f[i], f[j])
    BY <2>1 DEF Sorted
  <2>3. s \in [1 .. n -> D] /\ \A i, j \in DOMAIN s : i < j => Before(s[i], s[j])
    BY <2>2 DEF keys
  <2>. HIDE DEF s, n, D
  <2>. QED BY <2>3 DEF Sorted
<1>. HIDE DEF s, n, D
<1>4. \A i, j \in 1 .. n : s[i] = s[j] => i = j
  <2>1. \A i \in 1 .. n : s[i] \in Text
    BY <1>1, <1>3
  <2>2. \A i, j \in 1 .. n : i < j => s[i] # s[j]
    BY <1>3, <2>1, BeforeOrder DEF Sorted
  <2>. QED BY <1>1, <2>2
<1>5. s \in Injection(1 .. n, D)
  <2>1. DOMAIN s = 1 .. n
    BY <1>3
  <2>. QED BY <1>3, <1>4, <2>1 DEF Injection, IsInjective
<1>6. Cardinality(1 .. n) = Cardinality(D)
  BY <1>1, FS_Interval DEF n
<1>7. s \in Surjection(1 .. n, D)
  BY <1>1, <1>5, <1>6, FS_Injection
<1>8. s \in Seq(D) /\ Len(s) = n
  BY <1>1, <1>3
<1>9. Listed(s) = D
  <2>1. Listed(s) \subseteq D
    BY <1>3, <1>8 DEF Listed
  <2>2. \A k \in D : \E i \in 1 .. n : s[i] = k
    BY <1>7 DEF Surjection
  <2>. QED BY <1>8, <2>1, <2>2 DEF Listed
<1>. QED BY <1>8, <1>9 DEF s, n, D

\* What write() prints, open() reads back: the same keys, and of each value what is before
\* its first '='.
THEOREM RoundTrip ==
  ASSUME NEW db \in Stores
  PROVE  Readable(to_file(db)) /\ to_db(to_file(db)) = CutStore(db)
<1>. DEFINE ks == keys(db)
            ls == LinesOf(db, ks)
            text == to_file(db)
<1>1. ks \in Seq(DOMAIN db) /\ Listed(ks) = DOMAIN db
  BY KeysAre
<1>2. Lines(text) = Append(ls, <<>>)
  <2>1. Gives(text, Text, ks, <<>>, Prints(db))
    BY <1>1, StoreType, ToFileGives
  <2>. HIDE DEF text, ks
  <2>2. tokenize(text, Newline) = Append(LinesOf(db, ks), <<>>)
    BY <1>1, <2>1, PrintedLines
  <2>. QED BY <2>2 DEF Lines
<1>3. Len(ks) \in Nat /\ \A i \in 1 .. Len(ks) : ks[i] \in KeyLike /\ db[ks[i]] \in ValLike
  <2>1. \A k \in DOMAIN db : k \in KeyLike /\ db[k] \in ValLike
    BY StoreType
  <2>. HIDE DEF ks
  <2>. QED BY <1>1, <2>1
<1>. HIDE DEF ks
<1>4. /\ ls = [i \in 1 .. Len(ks) |-> Line(ks[i], db[ks[i]])]
      /\ \A i \in 1 .. Len(ks) : Line(ks[i], db[ks[i]]) \in Readables
  BY <1>3, EntryLine DEF LinesOf, Readables
<1>5. ls \in Seq(Readables) /\ Len(ls) = Len(ks)
  BY <1>3, <1>4
<1>6. <<>> \in Readables
  BY DEF Readables, Text
<1>. HIDE DEF ls, text
<1>7. Lines(text) \in Seq(Readables)
  BY <1>2, <1>5, <1>6
<1>8. Readable(text)
  BY <1>7 DEF Readable, Readables
<1>9. to_db(text) = [k \in Listed(ks) |-> Cut(db[k])]
  <2>1. Gives(to_db(text), Maps, Lines(text), NoEntries, Parses)
    BY <1>7, ToDbGives
  <2>. DEFINE e == <<>>
              all == Lines(text)
  <2>2. Longer(all, ls, e) /\ e \in Readables /\ Gives(to_db(text), Maps, all, NoEntries, Parses)
    BY <1>2, <1>6, <2>1 DEF Longer
  <2>3. \A db2 : After(Parses, db2, e) = Parses[<<db2, e>>]
    BY DEF After
  <2>. HIDE DEF e, all
  <2>4. PICK v : Gives(v, Maps, ls, NoEntries, Parses)
    BY <1>5, <2>2, GivesBefore
  <2>5. v \in Maps /\ to_db(text) = After(Parses, v, e)
    BY <1>5, <2>2, <2>4, GivesNext
  <2>6. to_db(text) = Parsed(v, e)
    BY <2>2, <2>3, <2>5 DEF Parses
  <2>7. to_db(text) = v
    BY <2>6 DEF Parsed, e
  <2>8. Gives(v, Maps, LinesOf(db, ks), NoEntries, Parses)
    BY <2>4 DEF ls
  <2>. QED BY <1>1, <2>7, <2>8, ParsedLines
<1>. QED BY <1>1, <1>8, <1>9 DEF CutStore, text

-----------------------------------------------------------------------------
(* The console: the line of a set command, cracked and put together again. *)

Joined(strvalue, word) == strvalue \o <<Space>> \o word
Joins == [p \in Text \X Text |-> Joined(p[1], p[2])]

LEMMA JoinedIs ==
  ASSUME NEW v \in Text, NEW word \in Text
  PROVE  /\ Joined(v, word) \in Text
         /\ Joined(v, <<>>) = Append(v, Space)
         /\ \A c \in Code : Joined(v, Append(word, c)) = Append(Joined(v, word), c)
<1>. DEFINE x == v \o <<Space>>
<1>1. v \in Seq(Code) /\ word \in Seq(Code) /\ Space \in Code
  BY DEF Text, Space, Code
<1>2. \A c \in Code : v \o <<c>> \in Seq(Code) /\ v \o <<c>> = Append(v, c)
  BY <1>1
<1>3. x \in Seq(Code) /\ x = Append(v, Space)
  BY <1>1, <1>2
<1>. HIDE DEF x
<1>4. x \o word \in Seq(Code) /\ x \o <<>> = x
  BY <1>1, <1>3
<1>5. \A c \in Code : x \o Append(word, c) = Append(x \o word, c)
  BY <1>1, <1>3
<1>. QED BY <1>3, <1>4, <1>5 DEF Joined, Text, x

LEMMA JoinsRuns == Joins \in FoldSteps(Text, Text) /\ \A v \in Text, w \in Text : After(Joins, v, w) = Joined(v, w)
BY JoinedIs DEF Joins, FoldSteps, After

LEMMA RejoinedGives ==
  ASSUME NEW params, params[3] \in Text, SubSeq(params, 4, Len(params)) \in Seq(Text)
  PROVE  Gives(rejoined(params), Text, SubSeq(params, 4, Len(params)), params[3], Joins)
<1>. DEFINE V == Text
            s == SubSeq(params, 4, Len(params))
            base == params[3]
            Eq(it) == it = [S \in SUBSET (1 .. Len(s)) |->
                               IF S = {} THEN base ELSE Joined(it[S \ {Max(S)}], s[Max(S)])]
            chosen == CHOOSE it : Eq(it)
<1>1. base \in V
  OBVIOUS
<1>. HIDE DEF base
<1>2. rejoined(params) = chosen[1 .. Len(s)]
  <2>1. DOMAIN s = 1 .. Len(s)
    OBVIOUS
  <2>. QED BY <2>1 DEF rejoined, Joined, base, FoldLeft, MapThenFoldSet
<1>3. s \in Seq(V)
  OBVIOUS
<1>4. Joins \in FoldSteps(V, V) /\ \A v \in V, e \in V : Joins[<<v, e>>] = Joined(v, e)
  BY JoinsRuns DEF Joins
<1>. HIDE DEF V, s
<1>5. Len(s) \in Nat /\ \A S \in SUBSET (1 .. Len(s)) : S # {} => s[Max(S)] \in V
  <2>1. Len(s) \in Nat /\ \A i \in 1 .. Len(s) : s[i] \in V
    BY <1>3
  <2>2. \A S \in SUBSET (1 .. Len(s)) : S # {} => Max(S) \in 1 .. Len(s)
    BY <2>1, MaxIs
  <2>. QED BY <2>1, <2>2
<1>6. PICK g \in [SUBSET (1 .. Len(s)) -> V] : Unfolds(g, V, s, base, Joins)
  BY <1>1, <1>3, <1>4, Unfolded
<1>7. Eq(g)
  <2>1. \A S \in SUBSET (1 .. Len(s)) : g[S \ {Max(S)}] \in V
    OBVIOUS
  <2>2. \A S \in SUBSET (1 .. Len(s)) :
           g[S] = IF S = {} THEN base ELSE Joined(g[S \ {Max(S)}], s[Max(S)])
    BY <1>4, <1>5, <1>6, <2>1 DEF Unfolds
  <2>. QED BY <2>2
<1>8. Eq(chosen)
  <2>. HIDE DEF Eq
  <2>. QED BY <1>7
<1>. HIDE DEF chosen
<1>9. Unfolds(chosen, V, s, base, Joins)
  <2>1. {} \in SUBSET (1 .. Len(s))
    OBVIOUS
  <2>2. chosen[{}] = base
    BY <1>8, <2>1
  <2>3. \A S \in SUBSET (1 .. Len(s)) : S # {} => chosen[S] = Joined(chosen[S \ {Max(S)}], s[Max(S)])
    BY <1>8
  <2>. QED BY <1>4, <1>5, <2>2, <2>3 DEF Unfolds
<1>10. Gives(chosen[1 .. Len(s)], V, s, base, Joins)
  BY <1>1, <1>3, <1>4, <1>9, GivenBy
<1>. QED BY <1>2, <1>10 DEF V, s, base

\* The pieces of a text, joined by what parted them, are the text.
LEMMA WordsJoined ==
  ASSUME NEW val \in Text, NEW w,
         Gives(w, Text, Tail(tokenize(val, Space)), Head(tokenize(val, Space)), Joins)
  PROVE  w = val
<1>. DEFINE Whole(t, p) == \A v : Gives(v, Text, Tail(p), Head(p), Joins) => v = t
            T == {t \in Text : Whole(t, tokenize(t, Space))}
<1>1. <<>> \in T
  <2>1. Whole(<<>>, << <<>> >>)
    <3>1. Tail(<< <<>> >>) = <<>> /\ Head(<< <<>> >>) = <<>>
      OBVIOUS
    <3>. QED BY <3>1, GivesFirst
  <2>2. <<>> \in Text
    BY DEF Text
  <2>. HIDE DEF Whole
  <2>. QED BY <2>1, <2>2, TokenizeEmpty
<1>2. ASSUME NEW t \in Text, NEW c \in Code, t \in T PROVE Append(t, c) \in T
  <2>. DEFINE p == tokenize(t, Space)
              q == tokenize(Append(t, c), Space)
              first == Head(p)
              rest == Tail(p)
  <2>1. p \in Pieces /\ p \in Seq(Text) /\ q = Extended(p, c, Space)
    BY TokenizeAppend DEF Pieces
  <2>2. p # <<>> /\ Len(p) \in Nat /\ Len(p) >= 1 /\ (Len(p) = 1 \/ Len(p) > 1)
    <3>. DEFINE n == Len(p)
    <3>1. n \in Nat /\ n >= 1
      BY <2>1, TokenizeType
    <3>2. p # <<>>
      BY <2>1, TokenizeType DEF Pieces
    <3>. HIDE DEF n
    <3>3. n = 1 \/ n > 1
      BY <3>1
    <3>. QED BY <3>1, <3>2, <3>3 DEF n
  <2>3. Whole(t, p)
    BY <1>2
  <2>. HIDE DEF p
  <2>4. /\ first \in Text /\ rest \in Seq(Text) /\ Len(rest) = Len(p) - 1
        /\ first = p[1] /\ \A i \in 1 .. Len(rest) : rest[i] = p[i + 1]
    BY <2>1, <2>2
  <2>. HIDE DEF first, rest
  <2>5. \E v : Gives(v, Text, rest, first, Joins)
    BY <2>4, JoinsRuns, GivesSome
  <2>6. PICK u : Gives(u, Text, rest, first, Joins)
    BY <2>5
  <2>7. u = t
    BY <2>3, <2>6 DEF first, rest
  <2>8. q \in Pieces /\ q \in Seq(Text)
    <3>1. q \in Pieces
      BY <2>1, ExtendedType
    <3>. QED BY <3>1 DEF Pieces
  <2>. HIDE DEF q
  <2>9. Head(q) = q[1] /\ Tail(q) \in Seq(Text) /\ Len(Tail(q)) = Len(q) - 1 /\ Len(q) >= 1
        /\ Len(q) \in Nat /\ \A i \in 1 .. Len(q) - 1 : Tail(q)[i] = q[i + 1]
    <3>1. Len(q) \in Nat /\ Len(q) >= 1 /\ q # <<>>
      BY <2>8 DEF Pieces
    <3>. QED BY <2>8, <3>1
  <2>10. ASSUME NEW v, Gives(v, Text, Tail(q), Head(q), Joins) PROVE v = Append(t, c)
    <3>. DEFINE e == <<>>
    <3>1. CASE c = Space
      <4>1. Len(q) = Len(p) + 1 /\ q[Len(p) + 1] = e /\ \A i \in 1 .. Len(p) : q[i] = p[i]
        BY <2>1, <3>1, ExtendedIs
      <4>2. e \in Text
        BY DEF Text
      <4>. HIDE DEF e
      <4>3. Tail(q) = Append(rest, e)
        <5>1. /\ Append(rest, e) \in Seq(Text) /\ Len(Append(rest, e)) = Len(p)
              /\ Append(rest, e)[Len(p)] = e
              /\ \A i \in 1 .. Len(p) - 1 : Append(rest, e)[i] = rest[i]
          BY <2>2, <2>4, <4>2
        <5>2. \A i \in 1 .. Len(p) : Tail(q)[i] = Append(rest, e)[i]
          <6>1. \A i \in 1 .. Len(p) - 1 : Tail(q)[i] = p[i + 1]
            BY <2>2, <2>9, <4>1
          <6>2. Tail(q)[Len(p)] = e
            BY <2>2, <2>9, <4>1
          <6>3. \A i \in 1 .. Len(p) : i = Len(p) \/ i \in 1 .. Len(p) - 1
            BY <2>2
          <6>. QED BY <2>4, <5>1, <6>1, <6>2, <6>3
        <5>3. Len(Tail(q)) = Len(p)
          BY <2>2, <2>9, <4>1
        <5>. QED BY <2>9, <5>1, <5>2, <5>3, SeqEqual
      <4>4. Head(q) = first
        BY <2>2, <2>4, <2>9, <4>1
      <4>. DEFINE tq == Tail(q)
      <4>5. Longer(tq, rest, e) /\ Gives(v, Text, tq, first, Joins)
        BY <2>10, <4>3, <4>4 DEF Longer
      <4>. HIDE DEF tq
      <4>6. v = After(Joins, u, e) /\ u \in Text
        BY <2>4, <2>6, <4>2, <4>5, GivesNext
      <4>7. v = Joined(u, e)
        BY <4>2, <4>6, JoinsRuns
      <4>. QED BY <2>7, <3>1, <4>7, JoinedIs DEF e
    <3>2. CASE c # Space /\ Len(p) = 1
      <4>1. Len(q) = 1 /\ q[1] = Append(first, c)
        BY <2>1, <2>4, <3>2, ExtendedIs
      <4>2. Tail(q) = e
        <5>. DEFINE r == Tail(q)
        <5>1. r \in Seq(Text) /\ Len(r) = 0
          BY <2>9, <4>1
        <5>. HIDE DEF r
        <5>2. r = <<>>
          BY <5>1
        <5>. QED BY <5>2 DEF r
      <4>3. rest = e
        BY <2>4, <3>2
      <4>4. u = first
        BY <2>6, <4>3, GivesFirst
      <4>5. v = Head(q)
        BY <2>10, <4>2, GivesFirst
      <4>. QED BY <2>7, <2>9, <4>1, <4>4, <4>5
    <3>3. CASE c # Space /\ Len(p) > 1
      <4>1. Len(q) = Len(p) /\ q[Len(p)] = Append(p[Len(p)], c) /\ \A i \in 1 .. Len(p) - 1 : q[i] = p[i]
        BY <2>1, <3>3, ExtendedIs
      <4>2. rest # <<>>
        BY <2>4, <3>3
      <4>3. PICK r \in Seq(Text), word \in Text : rest = Append(r, word)
        BY <2>4, <4>2, SequenceEmptyOrAppend
      <4>4. /\ Len(r) = Len(p) - 2 /\ Len(r) \in Nat /\ rest[Len(p) - 1] = word
            /\ \A i \in 1 .. Len(r) : rest[i] = r[i]
        <5>1. Len(r) \in Nat /\ Len(rest) = Len(r) + 1 /\ rest[Len(r) + 1] = word
              /\ \A i \in 1 .. Len(r) : rest[i] = r[i]
          BY <4>3
        <5>. QED BY <2>2, <2>4, <5>1
      <4>. DEFINE wc == Append(word, c)
      <4>5. wc \in Text /\ p[Len(p)] = word
        <5>1. p[Len(p)] = word
          BY <2>2, <2>4, <3>3, <4>4
        <5>. QED BY <5>1 DEF Text
      <4>6. wc = q[Len(p)]
        BY <4>1, <4>5
      <4>. HIDE DEF wc
      <4>7. Tail(q) = Append(r, wc)
        <5>. DEFINE n == Len(p) - 1
        <5>1. /\ Append(r, wc) \in Seq(Text) /\ Len(Append(r, wc)) = n
              /\ Append(r, wc)[n] = wc
              /\ \A i \in 1 .. n - 1 : Append(r, wc)[i] = r[i]
          BY <2>2, <4>4, <4>5
        <5>2. Len(Tail(q)) = n /\ Tail(q)[n] = wc
          BY <2>2, <2>9, <3>3, <4>1, <4>6
        <5>3. \A i \in 1 .. n - 1 : Tail(q)[i] = r[i]
          <6>. TAKE i \in 1 .. n - 1
          <6>1. i \in 1 .. Len(r) /\ i \in 1 .. Len(rest) /\ i + 1 \in 1 .. Len(p) - 1 /\ i \in 1 .. Len(q) - 1
            BY <2>2, <2>4, <4>1, <4>4
          <6>. QED BY <2>4, <2>9, <4>1, <4>4, <6>1
        <5>4. \A i \in 1 .. n : i = n \/ i \in 1 .. n - 1
          BY <2>2
        <5>. HIDE DEF n
        <5>5. \A i \in 1 .. n : Tail(q)[i] = Append(r, wc)[i]
          BY <5>1, <5>2, <5>3, <5>4
        <5>. QED BY <2>9, <5>1, <5>2, <5>5, SeqEqual
      <4>8. Head(q) = first
        BY <2>2, <2>4, <2>9, <3>3, <4>1
      <4>. DEFINE tq == Tail(q)
      <4>9. Longer(tq, r, wc) /\ Longer(rest, r, word) /\ Gives(v, Text, tq, first, Joins)
        BY <2>10, <4>3, <4>7, <4>8 DEF Longer
      <4>. HIDE DEF tq
      <4>10. PICK x : Gives(x, Text, r, first, Joins)
        BY <2>6, <4>9, GivesBefore
      <4>11. x \in Text /\ u = After(Joins, x, word)
        BY <2>6, <4>9, <4>10, GivesNext
      <4>12. v = After(Joins, x, wc)
        BY <4>5, <4>9, <4>10, GivesNext
      <4>13. u = Joined(x, word) /\ v = Joined(x, wc)
        BY <4>5, <4>11, <4>12, JoinsRuns
      <4>. QED BY <2>7, <4>11, <4>13, JoinedIs DEF wc
    <3>. QED BY <2>2, <3>1, <3>2, <3>3
  <2>11. Append(t, c) \in Text /\ Whole(Append(t, c), q)
    <3>1. Append(t, c) \in Text
      BY DEF Text
    <3>. QED BY <2>10, <3>1
  <2>. HIDE DEF Whole
  <2>. QED BY <2>11 DEF q
<1>3. val \in T
  <2>. HIDE DEF T
  <2>1. \A t \in Seq(Code), c \in Code : t \in T => Append(t, c) \in T
    BY <1>2 DEF Text
  <2>2. Seq(Code) \subseteq T
    BY <1>1, <2>1, SeqInduct
  <2>. QED BY <2>2 DEF Text
<1>. QED BY <1>3

LEMMA SetLineIs ==
  ASSUME NEW key \in Text, NEW val \in Text, Without(key, Space)
  PROVE  tokenize(SetLine(key, val), Space) = << <<115>> >> \o (<<key>> \o tokenize(val, Space))
<1>. DEFINE a == <<115>>
            x == Append(a, Space)
            y == Append(key, Space)
<1>1. a \in Text /\ Without(a, Space) /\ Space \in Code
  BY DEF Text, Code, Without, Space
<1>2. <<115, Space>> = x /\ x \in Text
  BY <1>1 DEF Text
<1>3. key \o <<Space>> = y /\ y \in Text /\ <<Space>> \in Text
  BY <1>1 DEF Text
<1>4. SetLine(key, val) = x \o (y \o val)
  <2>. DEFINE z == <<Space>>
  <2>1. SetLine(key, val) = ((x \o key) \o z) \o val
    BY <1>2 DEF SetLine
  <2>. HIDE DEF x, z
  <2>2. ((x \o key) \o z) \o val = x \o ((key \o z) \o val)
    <3>. DEFINE xk == x \o key
                kz == key \o z
    <3>1. x \in Seq(Code) /\ key \in Seq(Code) /\ z \in Seq(Code) /\ val \in Seq(Code)
      BY <1>2, <1>3 DEF Text, z
    <3>2. xk \in Seq(Code) /\ kz \in Seq(Code)
      BY <3>1
    <3>3. xk \o z = x \o kz
      <4>1. Tied(x, key, z)
        BY <3>1, TextsTied
      <4>. QED BY <4>1 DEF Tied
    <3>. HIDE DEF kz
    <3>4. (x \o kz) \o val = x \o (kz \o val)
      <4>1. Tied(x, kz, val)
        BY <3>1, <3>2, TextsTied
      <4>. QED BY <4>1 DEF Tied
    <3>5. (xk \o z) \o val = x \o (kz \o val)
      BY <3>3, <3>4
    <3>. QED BY <3>5 DEF kz
  <2>. QED BY <1>3, <2>1, <2>2 DEF z
<1>. HIDE DEF a
<1>5. y \o val \in Text
  BY <1>3 DEF Text
<1>6. tokenize(x \o (y \o val), Space) = tokenize(a, Space) \o tokenize(y \o val, Space)
  BY <1>1, <1>5, TokenizeConcat
<1>7. tokenize(y \o val, Space) = tokenize(key, Space) \o tokenize(val, Space)
  BY <1>1, TokenizeConcat
<1>8. tokenize(a, Space) = <<a>> /\ tokenize(key, Space) = <<key>>
  BY <1>1, TokenizeWhole
<1>. QED BY <1>4, <1>6, <1>7, <1>8 DEF a

\* What cmd_cb_set() takes for the key and the value is what was typed.
LEMMA Retyped ==
  ASSUME NEW key \in Text, NEW val \in Text, Without(key, Space)
  PROVE  LET params == tokenize(SetLine(key, val), Space)
         IN  params[2] = key /\ rejoined(params) = val
<1>. DEFINE p == tokenize(val, Space)
            a == <<115>>
            q == <<key>> \o p
            params == <<a>> \o q
            rest == SubSeq(params, 4, Len(params))
<1>1. p \in Seq(Text) /\ Len(p) \in Nat /\ Len(p) >= 1 /\ p # <<>>
  <2>. DEFINE n == Len(p)
  <2>1. p \in Seq(Text) /\ n >= 1 /\ p \in Pieces
    BY TokenizeType
  <2>2. n \in Nat /\ p # <<>>
    BY <2>1 DEF Pieces
  <2>. HIDE DEF n
  <2>. QED BY <2>1, <2>2 DEF n
<1>2. tokenize(SetLine(key, val), Space) = params
  BY SetLineIs
<1>3. a \in Text
  BY DEF Text, Code
<1>. HIDE DEF p, a
<1>4. q \in Seq(Text) /\ Len(q) = Len(p) + 1 /\ q[1] = key /\ \A i \in 1 .. Len(p) : q[i + 1] = p[i]
  BY <1>1
<1>. HIDE DEF q
<1>5. params \in Seq(Text) /\ Len(params) = Len(q) + 1 /\ \A i \in 1 .. Len(q) : params[i + 1] = q[i]
  BY <1>3, <1>4
<1>. HIDE DEF params
<1>6. params[2] = key /\ params[3] = Head(p) /\ params[3] \in Text
  <2>1. 1 \in 1 .. Len(q) /\ 2 \in 1 .. Len(q) /\ 1 \in 1 .. Len(p)
    BY <1>1, <1>4
  <2>2. params[2] = q[1] /\ params[3] = q[2] /\ q[2] = p[1]
    BY <1>4, <1>5, <2>1
  <2>3. Head(p) = p[1] /\ p[1] \in Text
    BY <1>1, <2>1
  <2>. QED BY <1>4, <2>2, <2>3
<1>7. rest = Tail(p)
  <2>. DEFINE n == Len(p) - 1
  <2>1. n \in Nat /\ Len(params) = n + 3
    BY <1>1, <1>4, <1>5
  <2>2. Tail(p) \in Seq(Text) /\ Len(Tail(p)) = n /\ \A i \in 1 .. n : Tail(p)[i] = p[i + 1]
    BY <1>1
  <2>3. \A i \in 1 .. n : params[i + 3] = p[i + 1]
    <3>. TAKE i \in 1 .. n
    <3>1. i + 2 \in 1 .. Len(q) /\ i + 1 \in 1 .. Len(p) /\ (i + 2) + 1 = i + 3 /\ (i + 1) + 1 = i + 2
      BY <1>1, <1>4
    <3>2. params[(i + 2) + 1] = q[i + 2] /\ q[(i + 1) + 1] = p[i + 1]
      BY <1>4, <1>5, <3>1
    <3>. QED BY <3>1, <3>2
  <2>. HIDE DEF n
  <2>4. rest \in Seq(Text) /\ Len(rest) = n /\ \A i \in 1 .. n : rest[i] = params[i + 3]
    BY <1>5, <2>1
  <2>. HIDE DEF rest
  <2>5. \A i \in 1 .. n : rest[i] = Tail(p)[i]
    BY <2>2, <2>3, <2>4
  <2>. QED BY <2>2, <2>4, <2>5, SeqEqual
<1>8. Tail(p) \in Seq(Text)
  BY <1>1
<1>9. Gives(rejoined(params), Text, Tail(p), Head(p), Joins)
  BY <1>6, <1>7, <1>8, RejoinedGives
<1>10. rejoined(params) = val
  <2>. DEFINE v == rejoined(params)
  <2>1. Gives(v, Text, Tail(tokenize(val, Space)), Head(tokenize(val, Space)), Joins)
    BY <1>9 DEF p
  <2>. HIDE DEF v
  <2>2. v = val
    BY <2>1, WordsJoined
  <2>. QED BY <2>2 DEF v
<1>. QED BY <1>2, <1>6, <1>10

-----------------------------------------------------------------------------
(* The stores that are written: what becomes of a cut store is the cut of  *)
(* what was asked for.                                                     *)

LEMMA StorePut ==
  ASSUME NEW db \in Stores, NEW k \in KeyLike, NEW val \in ValLike
  PROVE  /\ Put(db, k, val) \in Stores
         /\ CutStore(Put(CutStore(db), k, val)) = CutStore(Put(db, k, val))
<1>. DEFINE D == DOMAIN db \cup {k}
<1>1. DOMAIN db \subseteq KeyLike /\ IsFiniteSet(DOMAIN db) /\ \A j \in DOMAIN db : db[j] \in ValLike /\ db[j] \in Text
  BY StoreType DEF ValLike
<1>2. D \subseteq KeyLike /\ IsFiniteSet(D)
  BY <1>1, FS_AddElement
<1>3. Put(db, k, val) \in Stores
  <2>1. Put(db, k, val) \in [D -> ValLike]
    BY <1>1 DEF Put
  <2>. QED BY <1>2, <2>1 DEF Stores
<1>4. \A j \in DOMAIN db : Cut(Cut(db[j])) = Cut(db[j])
  BY <1>1, CutClean
<1>5. DOMAIN CutStore(db) = DOMAIN db /\ \A j \in DOMAIN db : CutStore(db)[j] = Cut(db[j])
  BY DEF CutStore
<1>6. \A m \in {db, CutStore(db)} : CutStore(Put(m, k, val)) = [j \in D |-> Cut(IF j = k THEN val ELSE m[j])]
  BY <1>5 DEF CutStore, Put
<1>7. \A j \in D : Cut(IF j = k THEN val ELSE CutStore(db)[j]) = Cut(IF j = k THEN val ELSE db[j])
  BY <1>4, <1>5
<1>. HIDE DEF D
<1>. QED BY <1>3, <1>6, <1>7

LEMMA StoreDel ==
  ASSUME NEW db \in Stores, NEW k
  PROVE  /\ Del(db, k) \in Stores
         /\ CutStore(Del(CutStore(db), k)) = CutStore(Del(db, k))
<1>. DEFINE D == DOMAIN db \ {k}
<1>1. DOMAIN db \subseteq KeyLike /\ IsFiniteSet(DOMAIN db) /\ \A j \in DOMAIN db : db[j] \in ValLike /\ db[j] \in Text
  BY StoreType DEF ValLike
<1>2. D \subseteq KeyLike /\ IsFiniteSet(D)
  BY <1>1, FS_Subset
<1>3. Del(db, k) \in Stores
  <2>1. Del(db, k) \in [D -> ValLike]
    BY <1>1 DEF Del, Restrict
  <2>. QED BY <1>2, <2>1 DEF Stores
<1>4. \A j \in D : Cut(Cut(db[j])) = Cut(db[j])
  BY <1>1, CutClean
<1>5. DOMAIN CutStore(db) = DOMAIN db /\ \A j \in DOMAIN db : CutStore(db)[j] = Cut(db[j])
  BY DEF CutStore
<1>6. \A m \in {db, CutStore(db)} : CutStore(Del(m, k)) = [j \in D |-> Cut(m[j])]
  BY <1>5 DEF CutStore, Del, Restrict
<1>7. \A j \in D : Cut(CutStore(db)[j]) = Cut(db[j])
  BY <1>4, <1>5
<1>. HIDE DEF D
<1>. QED BY <1>3, <1>6, <1>7

LEMMA StoreCut ==
  ASSUME NEW db \in Stores
  PROVE  CutStore(db) \in Stores
<1>1. DOMAIN db \subseteq KeyLike /\ IsFiniteSet(DOMAIN db) /\ \A j \in DOMAIN db : db[j] \in Text /\ Without(db[j], Newline)
  BY StoreType DEF ValLike
<1>2. \A j \in DOMAIN db : Cut(db[j]) \in Text /\ Without(Cut(db[j]), Newline)
  BY <1>1, CutIs, CutClean DEF Code, Newline
<1>3. CutStore(db) \in [DOMAIN db -> ValLike]
  BY <1>2 DEF CutStore, ValLike
<1>. QED BY <1>1, <1>3 DEF Stores

-----------------------------------------------------------------------------
(* The invariant of the updates: the file reads back as the cut of what    *)
(* was asked for.                                                          *)

\* The keys and the values that one line can hold: a key is one word of the console's
\* line with no '=' in it, a value has no end of line.
Separable == /\ KeyTexts \subseteq {k \in KeyLike : Without(k, Space)}
             /\ ValTexts \subseteq ValLike

FormatInv == Readable(file) /\ want \in Stores /\ to_db(file) = CutStore(want)

LEMMA EmptyFile == Readable(<<>>) /\ NoEntries \in Stores /\ to_db(<<>>) = CutStore(NoEntries)
<1>1. NoEntries \in Stores /\ DOMAIN NoEntries = {}
  <2>1. IsFiniteSet({}) /\ NoEntries \in [{} -> ValLike]
    BY FS_EmptySet DEF NoEntries
  <2>. QED BY <2>1 DEF Stores, NoEntries
<1>2. CutStore(NoEntries) = NoEntries
  BY <1>1 DEF CutStore, NoEntries
<1>. DEFINE e == <<>>
            ls == Lines(e)
<1>3. Longer(ls, e, e) /\ e \in Readables /\ e \in Seq(Readables) /\ ls \in Seq(Readables)
  <2>1. ls = <<e>>
    BY TokenizeEmpty DEF Lines
  <2>2. e \in Readables
    BY DEF Readables, Text
  <2>. HIDE DEF ls
  <2>. QED BY <2>1, <2>2 DEF Longer
<1>4. Gives(to_db(e), Maps, ls, NoEntries, Parses)
  BY <1>3, ToDbGives
<1>5. Readable(e)
  BY <1>3 DEF Readable, Readables
<1>. HIDE DEF ls
<1>6. \A db2 : After(Parses, db2, e) = Parses[<<db2, e>>]
  BY DEF After
<1>7. PICK v : Gives(v, Maps, e, NoEntries, Parses)
  BY <1>3, <1>4, GivesBefore
<1>8. v = NoEntries
  BY <1>7, GivesFirst
<1>9. v \in Maps /\ to_db(e) = After(Parses, v, e)
  <2>. DEFINE w == to_db(e)
  <2>1. Gives(w, Maps, ls, NoEntries, Parses)
    BY <1>4
  <2>2. Gives(v, Maps, e, NoEntries, Parses)
    BY <1>7
  <2>. HIDE DEF e, w
  <2>3. v \in Maps /\ w = After(Parses, v, e)
    BY <1>3, <2>1, <2>2, GivesNext
  <2>. QED BY <2>3 DEF w
<1>10. to_db(e) = Parsed(v, e)
  BY <1>3, <1>6, <1>9 DEF Parses
<1>11. Parsed(v, e) = v
  BY DEF Parsed
<1>. QED BY <1>1, <1>2, <1>5, <1>8, <1>10, <1>11

\* A set that takes the key and the value as they were asked for.
LEMMA SetKeeps ==
  ASSUME FormatInv, NEW key \in KeyLike, NEW val \in ValLike, Set(key, val, key, val)
  PROVE  FormatInv'
<1>. DEFINE db == Put(CutStore(want), key, val)
<1>1. want \in Stores /\ CutStore(want) \in Stores
  BY StoreCut DEF FormatInv
<1>2. db \in Stores /\ file' = to_file(db) /\ want' = Put(want, key, val)
  BY <1>1, StorePut DEF Set, FormatInv
<1>3. want' \in Stores /\ CutStore(db) = CutStore(want')
  BY <1>1, <1>2, StorePut
<1>. HIDE DEF db
<1>4. Readable(file') /\ to_db(file') = CutStore(db)
  BY <1>2, RoundTrip
<1>. QED BY <1>3, <1>4 DEF FormatInv

LEMMA FormatInvHolds == ASSUME Separable PROVE TextSpec => []FormatInv
<1>1. TextInit => FormatInv
  BY EmptyFile DEF TextInit, FormatInv
<1>2. ASSUME FormatInv, [TextNext]_textVars PROVE FormatInv'
  <2>1. \A key \in KeyTexts : key \in Text /\ key \in KeyLike /\ Without(key, Space)
    BY DEF Separable, KeyLike
  <2>2. \A val \in ValTexts : val \in Text /\ val \in ValLike
    BY DEF Separable, ValLike
  <2>3. ASSUME NEW key \in KeyTexts, NEW val \in ValTexts, cmd_cb_set(key, val) PROVE FormatInv'
    <3>1. Set(key, val, key, val)
      BY <2>1, <2>2, <2>3, Retyped DEF cmd_cb_set
    <3>. QED BY <1>2, <2>1, <2>2, <3>1, SetKeeps
  <2>4. ASSUME NEW key \in KeyTexts, NEW val \in ValTexts, handle_put(key, val) PROVE FormatInv'
    BY <1>2, <2>1, <2>2, <2>4, SetKeeps DEF handle_put
  <2>5. ASSUME NEW key \in KeyTexts, Delete(key) PROVE FormatInv'
    <3>. DEFINE db == Del(CutStore(want), key)
    <3>1. want \in Stores /\ CutStore(want) \in Stores
      BY <1>2, StoreCut DEF FormatInv
    <3>2. db \in Stores /\ file' = to_file(db) /\ want' = Del(want, key)
      BY <1>2, <2>5, <3>1, StoreDel DEF Delete, FormatInv
    <3>3. want' \in Stores /\ CutStore(db) = CutStore(want')
      BY <3>1, <3>2, StoreDel
    <3>. HIDE DEF db
    <3>4. Readable(file') /\ to_db(file') = CutStore(db)
      BY <3>2, RoundTrip
    <3>. QED BY <3>3, <3>4 DEF FormatInv
  <2>6. CASE UNCHANGED textVars
    BY <1>2, <2>6 DEF FormatInv, textVars
  <2>. QED BY <1>2, <2>3, <2>4, <2>5, <2>6 DEF TextNext
<1>. QED BY <1>1, <1>2, PTL DEF TextSpec

\* Whatever keys and values that fit in a line are set and deleted, through the console
\* or by a PUT, to_db() finds a '=' on every line that is not empty.
THEOREM FileStaysReadable == ASSUME Separable PROVE TextSpec => []AlwaysReadable
<1>1. FormatInv => AlwaysReadable
  BY DEF FormatInv, AlwaysReadable
<1>. QED BY <1>1, FormatInvHolds, PTL

\* The same keys are in the file as were set, and a value without a '=' reads back whole.
THEOREM CleanEntriesStay == ASSUME Separable PROVE TextSpec => []CleanEntriesKept
<1>1. ASSUME FormatInv PROVE CleanEntriesKept
  <2>1. want \in Stores /\ DOMAIN to_db(file) = DOMAIN want
    BY <1>1 DEF FormatInv, CutStore
  <2>2. ASSUME NEW k \in DOMAIN want, Clean(want[k]) PROVE to_db(file)[k] = want[k]
    <3>1. want[k] \in Text
      BY <2>1, StoreType DEF ValLike
    <3>2. Without(want[k], Equals)
      <4>1. DOMAIN want[k] = 1 .. Len(want[k])
        BY <3>1 DEF Text
      <4>. QED BY <2>2, <4>1 DEF Clean, Without
    <3>3. to_db(file)[k] = Cut(want[k])
      BY <1>1 DEF FormatInv, CutStore
    <3>. QED BY <3>1, <3>2, <3>3, CutClean
  <2>. QED BY <2>1, <2>2 DEF CleanEntriesKept
<1>. QED BY <1>1, FormatInvHolds, PTL

\* A value reads back as exactly what it has before its first '='.
THEOREM ValuesCutAtEquals == ASSUME Separable PROVE TextSpec => []CutAtEquals
<1>1. ASSUME FormatInv PROVE CutAtEquals
  <2>1. ASSUME NEW k \in DOMAIN want
        PROVE  LET left == to_db(file)[k]
               IN  /\ IsPrefix(left, want[k]) /\ Clean(left)
                   /\ Len(left) < Len(want[k]) => want[k][Len(left) + 1] = Equals
    <3>. DEFINE v == want[k]
                c == Cut(v)
    <3>1. v \in Text /\ Without(v, Newline)
      BY <1>1, StoreType DEF FormatInv, ValLike
    <3>2. to_db(file)[k] = c
      BY <1>1 DEF FormatInv, CutStore
    <3>. HIDE DEF v
    <3>3. /\ c \in Text /\ Len(c) <= Len(v) /\ \A i \in 1 .. Len(c) : c[i] = v[i]
          /\ Without(c, Equals) /\ Without(c, Newline)
          /\ Len(c) < Len(v) => v[Len(c) + 1] = Equals
      BY <3>1, CutIs, CutClean DEF StartsWith, Code, Newline
    <3>. HIDE DEF c
    <3>4. Len(c) \in Nat /\ DOMAIN c = 1 .. Len(c)
      BY <3>3 DEF Text
    <3>5. SubSeq(c, 1, Len(c)) = SubSeq(v, 1, Len(c))
      BY <3>1, <3>3, <3>4, SamePrefix
    <3>6. IsPrefix(c, v)
      <4>1. c = SubSeq(v, 1, Len(c))
        BY <3>3, <3>5 DEF Text
      <4>. QED BY <3>3, <4>1 DEF IsPrefix
    <3>7. Clean(c)
      BY <3>3, <3>4 DEF Clean, Without
    <3>. QED BY <3>2, <3>3, <3>6, <3>7 DEF v
  <2>. QED BY <2>1 DEF CutAtEquals
<1>. QED BY <1>1, FormatInvHolds, PTL

=============================================================================
