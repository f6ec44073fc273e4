------------------------- MODULE ResourcePutProofs -------------------------
(***************************************************************************)
(* Proofs about ResourcePut, for any geo resources, values, defaults and   *)
(* size of the event queue: the types, and that once the handlers of a     *)
(* resource have run, a geo key holds the last value PUT, and the three    *)
(* copies of the label agree, unless a lost call, a console command or a   *)
(* failure of the keystore is to blame.                                    *)
(***************************************************************************)
EXTENDS ResourcePut, TLAPS

\* What is known while the init thread has not loaded the resources: no PUT so far.
Quiet == unset # {} => /\ notify = {} /\ evq = <<>> /\ hpc \in {"idle", "console"}
                       /\ \A r \in Resources : asked[r] = NoVal

\* The client thread reports one PUT at a time.
OneAtATime == \A p, q \in notify : p = q

\* A PUT of r waits to be reported or to be handled.
Pending(r) == r \in notify \/ r \in Range(evq)

\* What is PUT to a geo resource stays there: no handler writes it back.
GeoHolds == \A r \in Geo : asked[r] # NoVal => res[r] = asked[r]

\* The value the running handler of r has read is the last one, or another will read it.
Fresh == \A r \in Geo : Handling(r) /\ r \notin apart => Pending(r) \/ hval = res[r]

\* The last value is in the keystore, or a handler that runs or waits will store it.
GeoInv == \A r \in Geo : asked[r] \notin {NoVal, Blank} /\ Followed(r)
             => \/ Pending(r)
                \/ hpc = "store" /\ hres = r
                \/ store[r] = Stored(r, asked[r])

\* Only the handler of the label shows anything: what it has just stored.
ShowInv == /\ hpc = "show" => hres = Label /\ (Label \notin lost => store[Label] = hval)
           /\ hpc \in {"store", "show"} => hval # Blank

\* The copies of the label agree unless a PUT waits or the handler is running.
LabelInv == /\ unset = {} /\ Followed(Label) /\ res[Label] # Blank
               => \/ Pending(Label)
                  \/ Handling(Label)
                  \/ res[Label] = BootValue(Label) /\ shown = res[Label]
            /\ unset # {} /\ Label \notin unset /\ Followed(Label)
               => res[Label] = BootValue(Label) /\ shown = res[Label]

Others == Quiet /\ OneAtATime /\ GeoHolds /\ Fresh /\ GeoInv /\ ShowInv /\ LabelInv
Inv    == TypeOK /\ Others

-----------------------------------------------------------------------------
(* The event queue as a sequence *)

LEMMA RangeAppend ==
  ASSUME NEW S, NEW s \in Seq(S), NEW x \in S
  PROVE  Append(s, x) \in Seq(S) /\ Range(Append(s, x)) = Range(s) \cup {x}
<1>1. /\ Append(s, x) \in Seq(S) /\ Len(Append(s, x)) = Len(s) + 1 /\ Len(s) \in Nat
      /\ \A i \in 1..Len(s) : Append(s, x)[i] = s[i]
      /\ Append(s, x)[Len(s) + 1] = x
  OBVIOUS
<1>2. DOMAIN s = 1..Len(s) /\ DOMAIN Append(s, x) = 1..(Len(s) + 1)
  BY <1>1
<1>3. \A i \in 1..(Len(s) + 1) : i \in 1..Len(s) \/ i = Len(s) + 1
  BY <1>1
<1>4. 1..Len(s) \subseteq 1..(Len(s) + 1) /\ Len(s) + 1 \in 1..(Len(s) + 1)
  BY <1>1
<1>. QED BY <1>1, <1>2, <1>3, <1>4, Zenon DEF Range

LEMMA RangeTail ==
  ASSUME NEW S, NEW s \in Seq(S), s # <<>>
  PROVE  /\ Tail(s) \in Seq(S) /\ Head(s) \in S /\ Len(Tail(s)) <= Len(s)
         /\ Range(s) = Range(Tail(s)) \cup {Head(s)}
<1>1. Tail(s) \in Seq(S) /\ Head(s) \in S /\ Len(Tail(s)) = Len(s) - 1
      /\ \A i \in 1..Len(Tail(s)) : Tail(s)[i] = s[i + 1]
  OBVIOUS
<1>2. Len(s) \in Nat \ {0} /\ s[1] = Head(s)
  OBVIOUS
<1>3. ASSUME NEW x \in Range(s) PROVE x \in Range(Tail(s)) \cup {Head(s)}
  <2>1. PICK i \in 1..Len(s) : x = s[i]
    BY <1>3 DEF Range
  <2>2. CASE i = 1
    BY <2>1, <2>2, <1>2
  <2>3. CASE i # 1
    <3>1. i - 1 \in 1..Len(Tail(s)) /\ Tail(s)[i - 1] = s[i]
      BY <2>3, <1>1, <1>2
    <3>2. Len(Tail(s)) \in Nat /\ DOMAIN Tail(s) = 1..Len(Tail(s))
      BY <1>1
    <3>. QED BY <2>1, <3>1, <3>2, Zenon DEF Range
  <2>. QED BY <2>2, <2>3
<1>4. ASSUME NEW x \in Range(Tail(s)) PROVE x \in Range(s)
  <2>1. PICK i \in 1..Len(Tail(s)) : x = Tail(s)[i]
    BY <1>1, <1>4 DEF Range
  <2>2. i + 1 \in 1..Len(s) /\ x = s[i + 1]
    BY <2>1, <1>1, <1>2
  <2>. QED BY <2>2 DEF Range
<1>5. Head(s) \in Range(s)
  BY <1>2 DEF Range
<1>. QED BY <1>1, <1>3, <1>4, <1>5

LEMMA EmptyQueue == <<>> \in Seq(Resources) /\ Len(<<>>) = 0
OBVIOUS

-----------------------------------------------------------------------------
(* The keystore, which failures may damage *)

Map == [Resources -> Texts \cup {NoVal}]

\* What is left of a store is one: a cut value reads as some text.
LEMMA StaysMap == Store!Empty \in Map /\ \A db \in Map : Store!Damaged(db) \subseteq Map
BY ResourceAssumption DEF Map, Store!Empty, Store!Damaged, Store!Db

\* So is what a reader gets.
LEMMA ReadsMap ==
  ASSUME TypeOK, NEW db \in Reads
  PROVE  db \in Map
BY StaysMap DEF Reads, TypeOK, Map

\* write() leaves what it should, but for the entries it reports lost.
LEMMA WriteEffect ==
  ASSUME TypeOK, NEW want \in Map, write(want)
  PROVE  /\ store' \in Map
         /\ lost \subseteq lost' /\ lost' \subseteq Resources
         /\ \A r \in Resources : r \in lost' \/ store'[r] = want[r]
BY StaysMap DEF write, TypeOK, Map

\* A console command changes the entries that it sets apart, or that are lost.
LEMMA ConsoleEffect ==
  ASSUME TypeOK, Console
  PROVE  /\ store' \in Map
         /\ apart \subseteq apart' /\ apart' \subseteq Resources
         /\ lost \subseteq lost' /\ lost' \subseteq Resources
         /\ \A r \in Resources : r \in apart' \/ r \in lost' \/ store'[r] = store[r]
         /\ hpc \in {"idle", "console"} /\ hpc' \in {"idle", "console"}
         /\ hres' \in Resources /\ hval' \in Texts
         /\ UNCHANGED <<res, shown, unset, notify, evq, asked>>
<1>. USE ResourceAssumption
<1>1. ASSUME NEW r \in Resources, NEW v \in Texts \cup {NoVal}, Change(r, v)
      PROVE  /\ store' \in Map
             /\ lost \subseteq lost' /\ lost' \subseteq Resources
             /\ \A q \in Resources : q = r \/ q \in lost' \/ store'[q] = store[q]
  <2>1. [store EXCEPT ![r] = v] \in Map
    BY <1>1 DEF TypeOK, Map
  <2>2. \A q \in Resources : q = r \/ [store EXCEPT ![r] = v][q] = store[q]
    BY DEF TypeOK
  <2>. QED BY <1>1, <2>1, <2>2, WriteEffect DEF Change
<1>2. CASE \E r \in Resources : cmd_cb_del(r) \/ \E v \in Texts : cmd_cb_set(r, v)
  <2>1. PICK r \in Resources, v \in Texts \cup {NoVal} : Change(r, v)
    BY <1>2 DEF cmd_cb_del, cmd_cb_set
  <2>2. apart' = apart \cup {r} /\ hpc = "idle" /\ hpc' = "console"
        /\ UNCHANGED <<res, shown, unset, notify, evq, hres, hval, asked>>
    BY <2>1 DEF Change
  <2>. QED BY <1>1, <2>1, <2>2 DEF TypeOK
<1>3. CASE Renamed
  BY <1>3, StaysMap DEF Renamed, Returned, TypeOK, Map, Store!Empty, Resources, Texts
<1>4. CASE Emptied
  <2>1. store' \in {Store!Empty, store}
    BY <1>4 DEF Emptied
  <2>. QED BY <1>4, <2>1, StaysMap DEF Emptied, TypeOK, Map
<1>. QED BY <1>2, <1>3, <1>4 DEF Console, cmd_cb_reset, cmd_cb_format

-----------------------------------------------------------------------------
\* Nothing is loaded, PUT or shown at first.
LEMMA InitInv ==
  ASSUME Init
  PROVE  Inv
<1>1. TypeOK
  BY EmptyQueue, ResourceAssumption DEF Init, TypeOK, Resources, Texts
<1>2. Quiet /\ OneAtATime /\ GeoHolds /\ Fresh /\ GeoInv /\ ShowInv
  BY ResourceAssumption DEF Init, Quiet, OneAtATime, GeoHolds, Fresh, GeoInv, ShowInv, Resources
<1>3. LabelInv
  BY DEF Init, LabelInv, Resources
<1>. QED BY <1>1, <1>2, <1>3 DEF Inv, Others

\* Every step keeps the types.
LEMMA TypeStep ==
  ASSUME TypeOK, Next
  PROVE  TypeOK'
<1>. USE ResourceAssumption DEF Resources, Texts
<1>1. CASE InitAppLabel
  <2>1. PICK db \in Map :
           /\ res' = [res EXCEPT ![Label] = BootFrom(db, Label)] /\ shown' = BootFrom(db, Label)
           /\ unset' = unset \ {Label}
           /\ lost' = lost \cup {r \in {Label} : db[r] # store[r]}
           /\ UNCHANGED <<store, notify, evq, hpc, hres, hval, asked, apart>>
    BY <1>1, ReadsMap DEF InitAppLabel, set_resource_value
  <2>2. BootFrom(db, Label) \in Texts
    BY DEF BootFrom, Map
  <2>. QED BY <2>1, <2>2 DEF TypeOK
<1>2. CASE InitGeo
  <2>1. PICK db \in Map :
           /\ res' = [r \in Resources |-> IF r \in Geo THEN BootFrom(db, r) ELSE res[r]]
           /\ unset' = {}
           /\ UNCHANGED <<store, shown, notify, evq, hpc, hres, hval, asked, apart, lost>>
    BY <1>2, ReadsMap DEF InitGeo
  <2>2. \A r \in Resources : BootFrom(db, r) \in Texts
    BY DEF BootFrom, Map
  <2>. QED BY <2>1, <2>2 DEF TypeOK
<1>3. ASSUME NEW r \in Resources, NEW v \in Texts, Put(r, v) PROVE TypeOK'
  BY <1>3 DEF Put, TypeOK, set_resource_value
<1>4. CASE ResourceUpdated
  <2>1. PICK r \in notify : on_resource_updated(r) /\ notify' = {}
                            /\ UNCHANGED <<res, store, shown, unset, hpc, hres, hval, asked, lost>>
    BY <1>4 DEF ResourceUpdated
  <2>2. r \in Resources
    BY <2>1 DEF TypeOK
  <2>3. evq' \in Seq(Resources) /\ Len(evq') <= QueueSize /\ apart' \in SUBSET Resources
    <3>1. CASE Len(evq) < QueueSize /\ evq' = Append(evq, r) /\ apart' = apart
      <4>1. Append(evq, r) \in Seq(Resources) /\ Len(Append(evq, r)) = Len(evq) + 1
        BY <2>2 DEF TypeOK
      <4>. QED BY <3>1, <4>1 DEF TypeOK
    <3>2. CASE apart' = apart \cup {r} /\ evq' = evq
      BY <2>2, <3>2 DEF TypeOK
    <3>. QED BY <2>1, <3>1, <3>2 DEF on_resource_updated
  <2>. QED BY <2>1, <2>3 DEF TypeOK
<1>5. CASE HandlerRead
  <2>1. evq' \in Seq(Resources) /\ Len(evq') <= QueueSize /\ Head(evq) \in Resources
    BY <1>5, RangeTail DEF HandlerRead, TypeOK
  <2>. QED BY <1>5, <2>1 DEF HandlerRead, Started, Returned, TypeOK
<1>6. CASE HandlerStore
  <2>1. [store EXCEPT ![hres] = Stored(hres, hval)] \in Map
    BY DEF TypeOK, Stored, Map
  <2>. QED BY <1>6, <2>1, WriteEffect DEF HandlerStore, Returned, TypeOK, Map
<1>7. CASE HandlerShow
  BY <1>7 DEF HandlerShow, Returned, TypeOK, set_resource_value
<1>8. CASE Console
  BY <1>8, ConsoleEffect DEF TypeOK, Map
<1>9. CASE Reboot
  BY <1>9, EmptyQueue, StaysMap DEF Reboot, Returned, TypeOK, Map
<1>. QED BY <1>1, <1>2, <1>3, <1>4, <1>5, <1>6, <1>7, <1>8, <1>9 DEF Next, MainStep

\* The init thread loads the resources before any PUT.
LEMMA LoadStep ==
  ASSUME Inv, InitAppLabel \/ InitGeo
  PROVE  Others'
<1>. USE ResourceAssumption DEF Resources, Texts, Inv, TypeOK, Others, OneAtATime, Handling, Followed
<1>1. CASE InitAppLabel
  <2>1. PICK db \in Map :
           /\ Label \in unset
           /\ res' = [res EXCEPT ![Label] = BootFrom(db, Label)] /\ shown' = BootFrom(db, Label)
           /\ unset' = unset \ {Label}
           /\ lost' = lost \cup {r \in {Label} : db[r] # store[r]}
           /\ UNCHANGED <<store, notify, evq, hpc, hres, hval, asked, apart>>
    BY <1>1, ReadsMap DEF InitAppLabel, set_resource_value
  <2>2. Quiet' /\ OneAtATime' /\ GeoHolds' /\ Fresh' /\ GeoInv' /\ ShowInv'
    BY <2>1 DEF Quiet, GeoHolds, Fresh, GeoInv, ShowInv, Pending
  <2>3. LabelInv'
    BY <2>1 DEF LabelInv, BootFrom, BootValue, Pending
  <2>. QED BY <2>2, <2>3 DEF Others
<1>2. CASE InitGeo
  <2>1. PICK db \in Map :
           /\ Label \notin unset /\ unset # {}
           /\ res' = [r \in Resources |-> IF r \in Geo THEN BootFrom(db, r) ELSE res[r]]
           /\ unset' = {}
           /\ UNCHANGED <<store, shown, notify, evq, hpc, hres, hval, asked, apart, lost>>
    BY <1>2, ReadsMap DEF InitGeo
  <2>2. Quiet' /\ OneAtATime' /\ GeoHolds' /\ Fresh' /\ GeoInv' /\ ShowInv'
    BY <2>1 DEF Quiet, GeoHolds, Fresh, GeoInv, ShowInv, Pending
  <2>3. LabelInv'
    BY <2>1 DEF LabelInv, BootFrom, BootValue, Pending
  <2>. QED BY <2>2, <2>3 DEF Others
<1>. QED BY <1>1, <1>2

\* A PUT waits to be reported.
LEMMA PutStep ==
  ASSUME Inv, NEW r \in Resources, NEW v \in Texts, Put(r, v)
  PROVE  Others'
<1>. USE ResourceAssumption DEF Resources, Texts, Inv, TypeOK, Others, OneAtATime, Handling, Followed
<1>1. Quiet' /\ OneAtATime' /\ GeoHolds' /\ ShowInv'
  BY DEF Put, Quiet, GeoHolds, ShowInv, set_resource_value
<1>2. Fresh' /\ GeoInv'
  BY DEF Put, Fresh, GeoInv, set_resource_value, Pending, Stored
<1>3. LabelInv'
  BY DEF Put, LabelInv, set_resource_value, BootFrom, BootValue, Pending
<1>. QED BY <1>1, <1>2, <1>3 DEF Others

\* Once reported it waits in the queue, or is set apart.
LEMMA ReportStep ==
  ASSUME Inv, ResourceUpdated
  PROVE  Others'
<1>. USE ResourceAssumption DEF Inv, TypeOK, Others, Handling, Followed
<1>1. PICK r \in notify : on_resource_updated(r) /\ notify' = {}
                          /\ UNCHANGED <<res, store, shown, unset, hpc, hres, hval, asked, lost>>
  BY DEF ResourceUpdated
<1>2. ASSUME NEW q \in Resources, Pending(q) PROVE Pending(q)' \/ q \in apart'
  <2>1. CASE evq' = Append(evq, r)
    <3>1. Range(evq') = Range(evq) \cup {r}
      BY <1>1, <2>1, RangeAppend
    <3>. QED BY <1>1, <1>2, <3>1 DEF Pending, OneAtATime
  <2>2. CASE apart' = apart \cup {r} /\ evq' = evq
    BY <1>1, <1>2, <2>2 DEF Pending, OneAtATime
  <2>. QED BY <1>1, <2>1, <2>2 DEF on_resource_updated
<1>3. Quiet' /\ OneAtATime' /\ GeoHolds' /\ ShowInv'
  BY <1>1 DEF Quiet, OneAtATime, GeoHolds, ShowInv
<1>4. r \in apart' \/ apart' = apart
  BY <1>1 DEF on_resource_updated
<1>5. apart \subseteq apart'
  BY <1>1 DEF on_resource_updated
<1>6. Fresh' /\ GeoInv'
  BY <1>1, <1>2, <1>5 DEF Fresh, GeoInv, Stored, Resources, Pending
<1>7. LabelInv'
  BY <1>1, <1>2, <1>5 DEF LabelInv, BootFrom, BootValue, Resources, Pending
<1>. QED BY <1>3, <1>6, <1>7

\* The handler that starts is for a resource that waits.
LEMMA ReadStep ==
  ASSUME Inv, HandlerRead
  PROVE  Others'
<1>. USE ResourceAssumption DEF Inv, TypeOK, Others, HandlerRead, Started, Returned, Handling, Followed
<1>1. Head(evq) \in Resources /\ Range(evq) = Range(evq') \cup {Head(evq)}
  BY RangeTail
<1>0. unset = {}
  BY DEF Quiet
<1>2. ASSUME NEW q \in Resources, Pending(q) PROVE Pending(q)' \/ q = Head(evq)
  BY <1>1, <1>2 DEF Pending
<1>3. Quiet' /\ OneAtATime' /\ GeoHolds' /\ ShowInv'
  BY DEF Quiet, OneAtATime, GeoHolds, ShowInv
<1>4. Fresh'
  BY <1>1 DEF Fresh, Pending
<1>5. GeoInv'
  <2>1. SUFFICES ASSUME NEW r \in Geo, asked[r] \notin {NoVal, Blank}, r \notin apart' \cup lost',
                        ~Pending(r)', ~(hpc' = "store" /\ hres' = r)
                 PROVE  store[r] = Stored(r, asked[r])
    BY DEF GeoInv, Stored
  <2>2. CASE r = Head(evq)
    <3>1. res[r] = asked[r]
      BY <2>1 DEF GeoHolds
    <3>2. hpc' = "store" /\ hres' = r
      BY <2>1, <2>2, <3>1
    <3>. QED BY <2>1, <3>2
  <2>3. CASE r # Head(evq)
    BY <1>2, <2>1, <2>3 DEF GeoInv, Resources
  <2>. QED BY <2>2, <2>3
<1>6. LabelInv'
  <2>1. unset = {}
    BY DEF Quiet
  <2>2. SUFFICES ASSUME Label \notin apart' \cup lost', res[Label] # Blank,
                        ~Pending(Label)', ~Handling(Label)'
                 PROVE  res[Label] = BootValue(Label) /\ shown = res[Label]
    BY <2>1 DEF LabelInv, BootFrom, BootValue
  <2>3. Label # Head(evq)
    BY <2>2
  <2>. QED BY <1>2, <2>1, <2>2, <2>3 DEF LabelInv, Resources
<1>. QED BY <1>3, <1>4, <1>5, <1>6

\* The handler stores what is right, or another is to come.
LEMMA StoreStep ==
  ASSUME Inv, HandlerStore
  PROVE  Others'
<1>. USE ResourceAssumption DEF Inv, TypeOK, Others, HandlerStore, Returned, Resources, Handling, Followed
<1>1. unset = {} /\ UNCHANGED <<res, shown, unset, notify, evq, asked, apart>>
  BY DEF Quiet
<1>2. /\ lost \subseteq lost' /\ hres \in Resources
      /\ hres \in lost' \/ store'[hres] = Stored(hres, hval)
      /\ \A r \in Resources : r = hres \/ r \in lost' \/ store'[r] = store[r]
  <2>1. [store EXCEPT ![hres] = Stored(hres, hval)] \in Map
    BY DEF Stored, Map
  <2>2. /\ [store EXCEPT ![hres] = Stored(hres, hval)][hres] = Stored(hres, hval)
        /\ \A r \in Resources : r = hres \/ [store EXCEPT ![hres] = Stored(hres, hval)][r] = store[r]
    OBVIOUS
  <2>. QED BY <2>1, <2>2, WriteEffect
<1>3. \/ hres = Label /\ hpc' = "show" /\ hres' = Label /\ hval' = hval
      \/ hres # Label /\ hpc' = "idle"
  OBVIOUS
<1>4. Quiet' /\ OneAtATime' /\ GeoHolds' /\ ShowInv'
  BY <1>1, <1>2, <1>3 DEF Quiet, OneAtATime, GeoHolds, ShowInv, Stored
<1>5. Fresh' /\ GeoInv'
  BY <1>1, <1>2, <1>3 DEF Fresh, GeoInv, GeoHolds, Stored, Pending
<1>6. LabelInv'
  BY <1>1, <1>2, <1>3 DEF LabelInv, BootFrom, BootValue, Pending
<1>. QED BY <1>4, <1>5, <1>6

\* The label is shown and written back as it was stored.
LEMMA ShowStep ==
  ASSUME Inv, HandlerShow
  PROVE  Others'
<1>. USE ResourceAssumption DEF Inv, TypeOK, Others, HandlerShow, Returned, Resources, Handling, Followed
<1>1. Quiet' /\ OneAtATime' /\ GeoHolds' /\ ShowInv'
  BY DEF Quiet, OneAtATime, GeoHolds, ShowInv, set_resource_value
<1>2. Fresh' /\ GeoInv'
  BY DEF Fresh, GeoInv, ShowInv, Stored, Pending, set_resource_value
<1>3. LabelInv'
  BY DEF LabelInv, ShowInv, Quiet, BootFrom, BootValue, Pending, set_resource_value, Texts
<1>. QED BY <1>1, <1>2, <1>3

\* The console sets apart what it changes; a restart forgets what was PUT.
LEMMA ConsoleStep ==
  ASSUME Inv, Console \/ Reboot
  PROVE  Others'
<1>. USE ResourceAssumption DEF Inv, TypeOK, Others, Resources, Handling, Followed
<1>1. CASE Console
  <2>1. /\ apart \subseteq apart' /\ lost \subseteq lost'
        /\ \A r \in Resources : r \in apart' \/ r \in lost' \/ store'[r] = store[r]
        /\ hpc \in {"idle", "console"} /\ hpc' \in {"idle", "console"}
        /\ UNCHANGED <<res, shown, unset, notify, evq, asked>>
    BY <1>1, ConsoleEffect
  <2>2. Quiet' /\ OneAtATime' /\ GeoHolds' /\ ShowInv'
    BY <2>1 DEF Quiet, OneAtATime, GeoHolds, ShowInv
  <2>3. Fresh' /\ GeoInv'
    BY <2>1 DEF Fresh, GeoInv, Stored, Pending
  <2>4. LabelInv'
    BY <2>1 DEF LabelInv, BootFrom, BootValue, Pending
  <2>. QED BY <2>2, <2>3, <2>4
<1>2. CASE Reboot
  <2>1. Quiet' /\ OneAtATime' /\ GeoHolds' /\ Fresh' /\ GeoInv' /\ ShowInv'
    BY <1>2 DEF Reboot, Returned, Quiet, OneAtATime, GeoHolds, Fresh, GeoInv, ShowInv
  <2>2. LabelInv'
    <3>1. unset' = Geo \cup {Label} /\ Label \in unset'
      BY <1>2 DEF Reboot
    <3>2. unset' # {}
      BY <3>1, Zenon
    <3>. QED BY <3>1, <3>2, Zenon DEF LabelInv
  <2>. QED BY <2>1, <2>2
<1>. QED BY <1>1, <1>2

\* The invariant holds in every state.
THEOREM Invariance == Spec => []Inv
<1>1. Init => Inv
  BY InitInv
<1>2. Inv /\ [Next]_vars => Inv'
  <2>1. CASE UNCHANGED vars
    BY <2>1 DEF vars, Inv, Others, TypeOK, Quiet, OneAtATime, GeoHolds, Fresh, GeoInv, ShowInv,
                LabelInv, Pending, Stored, BootFrom, BootValue, Handling, Followed
  <2>2. CASE Inv /\ Next
    <3>1. TypeOK'
      BY <2>2, TypeStep DEF Inv
    <3>2. Others'
      BY <2>2, LoadStep, PutStep, ReportStep, ReadStep, StoreStep, ShowStep, ConsoleStep
         DEF Next, MainStep
    <3>. QED BY <3>1, <3>2 DEF Inv
  <2>. QED BY <2>1, <2>2
<1>. QED BY <1>1, <1>2, PTL DEF Spec

\* Every variable keeps its type, and the event queue its bound.
THEOREM TypeCorrect == Spec => []TypeOK
BY Invariance, PTL DEF Inv

\* Once the handlers of a geo resource have run, the keystore holds the last value PUT to
\* it, however many PUTs came meanwhile (main.cpp:615-674).
THEOREM GeoKeysConverge == Spec => []GeoConverges
<1>1. Inv => GeoConverges
  BY DEF Inv, Others, GeoConverges, GeoInv, Landed, Settled, Pending, Handling
<1>. QED BY <1>1, Invariance, PTL

\* Once the handlers of the label have run, the resource, the display and the keystore
\* agree on it (main.cpp:583-599).
THEOREM LabelCopiesAgree == Spec => []LabelAgrees
<1>1. Inv => LabelAgrees
  BY DEF Inv, Others, LabelAgrees, LabelInv, Settled, Pending
<1>. QED BY <1>1, Invariance, PTL

=============================================================================
