---------------------------- MODULE ResourcePut ----------------------------
(***************************************************************************)
(* The user-writable M2M resources - the application label and the three   *)
(* geo resources - and how a value gets from the cloud to the keystore:    *)
(* the mbed client thread puts the value in the resource and reports it,   *)
(* on_resource_updated() posts a handler to the event queue of main(), and *)
(* the handler, when its turn comes, reads the resource again, stores it   *)
(* and, for the label, writes it back to the resource and to the display.  *)
(*                                                                         *)
(* The keystore is the map that Keystore.tla is shown to implement: the    *)
(* main thread updates it, one update at a time; write() may give up, and  *)
(* what fails may damage entries; a reader may come between its remove()   *)
(* and its rename().                                                       *)
(***************************************************************************)
EXTENDS Naturals, Sequences, Functions

CONSTANTS Label,      \* the application label, M2MClientResourceAppLabel
          Geo,        \* the geo resources
          Values,     \* values that are neither "" nor "-"
          Blank,      \* the value ""
          Dash,       \* the value "-"
          NoVal,      \* not in the keystore; no PUT so far
          Junk,       \* what a value cut short in the keystore reads as: some text
          Failing,    \* may operations of the keystore fail?
          Default,    \* Default[r]: what a resource holds when no key is stored
          QueueSize   \* bound: handlers waiting in the event queue

Resources == Geo \cup {Label}
Texts     == Values \cup {Blank, Dash}

ASSUME ResourceAssumption ==
          /\ Label \notin Geo
          /\ Blank \notin Values /\ Dash \notin Values /\ Blank # Dash
          /\ NoVal \notin Texts
          /\ Junk \in Texts
          /\ Failing \in BOOLEAN
          /\ Default \in [Resources -> Texts]
          /\ QueueSize \in Nat \ {0}

VARIABLES res,    \* the value each resource holds in the mbed client
          store,  \* the keystore
          shown,  \* the label on the display
          unset,  \* resources init_app has not loaded yet
          notify, \* resources whose PUT the client thread is about to report: at most one
          evq,    \* handlers posted to the event queue
          hpc,    \* where the main thread is: "idle", in a handler at "store" or
                  \* "show", in a console command before the rename() of "console"
          hres,   \* the resource its handler is for
          hval,   \* the value its handler read
          asked,  \* history: last value PUT to each resource since the start
          apart,  \* history: resources the console changed in the keystore since, or
                  \* whose PUT found the event queue full
          lost    \* history: resources whose entry a failure left wrong since

vars == <<res, store, shown, unset, notify, evq, hpc, hres, hval, asked, apart, lost>>

Store == INSTANCE StoreMaps WITH Keys <- Resources, Vals <- Texts

\* the value of r at the start, from what open() read
BootFrom(db, r) == IF db[r] = NoVal THEN Default[r] ELSE db[r]
BootValue(r)    == BootFrom(store, r)

\* what a PUT of v makes of the key: "-" deletes a geo key
Stored(r, v) == IF r \in Geo /\ v = Dash THEN NoVal ELSE v

\* M2MClient::set_resource_value()
set_resource_value(r, v) == res' = [res EXCEPT ![r] = v]

\* what another thread's open() may read: nothing between remove() and rename()
Reads == {IF hpc = "console" THEN Store!Empty ELSE store}
            \cup {db \in Store!Damaged(store) : Failing}

\* open(), set() or del() and write(), their results not looked at, to make the map want:
\* it gives up and leaves the store, or it damages entries by what it read or wrote
write(want) == /\ store' \in {want} \cup {db \in Store!Damaged(want) \cup {store} : Failing}
               /\ lost' = lost \cup {r \in Resources : store'[r] # want[r]}

Init == /\ store \in [Resources -> Values \cup {NoVal}]
        /\ res = [r \in Resources |-> Blank]
        /\ shown = Blank
        /\ unset = Resources
        /\ notify = {}
        /\ evq = <<>>
        /\ hpc = "idle" /\ hres = Label /\ hval = Blank
        /\ asked = [r \in Resources |-> NoVal]
        /\ apart = {} /\ lost = {}

-----------------------------------------------------------------------------
(* The init thread *)

InitAppLabel == \E db \in Reads :
                   /\ Label \in unset
                   /\ unset' = unset \ {Label}
                   /\ set_resource_value(Label, BootFrom(db, Label))
                   /\ shown' = BootFrom(db, Label)
                   /\ lost' = lost \cup {r \in {Label} : db[r] # store[r]}
                   /\ UNCHANGED <<store, notify, evq, hpc, hres, hval, asked, apart>>

InitGeo == \E db \in Reads :
              /\ Label \notin unset
              /\ unset # {}
              /\ unset' = {}
              /\ res' = [r \in Resources |-> IF r \in Geo THEN BootFrom(db, r) ELSE res[r]]
              /\ UNCHANGED <<store, shown, notify, evq, hpc, hres, hval, asked, apart, lost>>

-----------------------------------------------------------------------------
(* The mbed client thread, once registered *)

\* the client library writes the value of a PUT request to the resource ...
Put(r, v) == /\ unset = {}
             /\ notify = {}
             /\ set_resource_value(r, v)
             /\ asked' = [asked EXCEPT ![r] = v]
             /\ notify' = {r}
             /\ UNCHANGED <<store, shown, unset, evq, hpc, hres, hval, apart, lost>>

\* mutant: the room in the queue is not looked at
post_unchecked(r) == evq' = Append(evq, r) /\ UNCHANGED apart

\* mbed_client_on_resource_updated() posts the handler.  All events share the queue, so
\* that it may be full at any time; then the call fails, which nobody looks at.
on_resource_updated(r) == \/ /\ Len(evq) < QueueSize
                             /\ evq' = Append(evq, r)
                             /\ UNCHANGED apart
                          \/ /\ apart' = apart \cup {r}
                             /\ UNCHANGED evq

\* ... and reports it by value_updated()
ResourceUpdated == \E r \in notify :
    /\ notify' = {}
    /\ on_resource_updated(r)
    /\ UNCHANGED <<res, store, shown, unset, hpc, hres, hval, asked, lost>>

-----------------------------------------------------------------------------
(* The main thread *)

\* a handler ends, and with it what it has read
Returned == hpc' = "idle" /\ hres' = Label /\ hval' = Blank

\* a handler starts for r, which has the value v: an empty one is nothing to store
Started(r, v) == IF v = Blank
                 THEN Returned /\ UNCHANGED <<apart, lost>>
                 ELSE /\ hpc' = "store" /\ hres' = r /\ hval' = v
                      /\ apart' = apart \ {r} /\ lost' = lost \ {r}

\* mutant: "-" is ignored as "" is
ReadIgnoringDash ==
    /\ hpc = "idle"
    /\ evq # <<>>
    /\ evq' = Tail(evq)
    /\ IF res[Head(evq)] = Dash
       THEN Returned /\ UNCHANGED <<apart, lost>>
       ELSE Started(Head(evq), res[Head(evq)])
    /\ UNCHANGED <<res, store, shown, unset, notify, asked>>

\* a handler starts: it reads the resource as it is now, not as it was when posted
HandlerRead ==
    /\ hpc = "idle"
    /\ evq # <<>>
    /\ evq' = Tail(evq)
    /\ Started(Head(evq), res[Head(evq)])
    /\ UNCHANGED <<res, store, shown, unset, notify, asked>>

\* mutant: "-" is stored like any other value
StoreLiterally ==
    /\ hpc = "store"
    /\ write([store EXCEPT ![hres] = hval])
    /\ IF hres = Label THEN hpc' = "show" /\ UNCHANGED <<hres, hval>> ELSE Returned
    /\ UNCHANGED <<res, shown, unset, notify, evq, asked, apart>>

\* the handler stores the value; init_app has read what it needs by then
HandlerStore ==
    /\ hpc = "store"
    /\ write([store EXCEPT ![hres] = Stored(hres, hval)])
    /\ IF hres = Label THEN hpc' = "show" /\ UNCHANGED <<hres, hval>> ELSE Returned
    /\ UNCHANGED <<res, shown, unset, notify, evq, asked, apart>>

\* mutant: the label is not shown
ShowNothing ==
    /\ hpc = "show"
    /\ set_resource_value(Label, hval)
    /\ Returned
    /\ UNCHANGED <<store, shown, unset, notify, evq, asked, apart, lost>>

\* set_app_label()
HandlerShow ==
    /\ hpc = "show"
    /\ shown' = hval
    /\ set_resource_value(Label, hval)
    /\ Returned
    /\ UNCHANGED <<store, unset, notify, evq, asked, apart, lost>>

-----------------------------------------------------------------------------
(* The console commands, which leave the resources alone *)

\* set and del, up to the rename() of write()
Change(r, v) ==
    /\ hpc = "idle"
    /\ write([store EXCEPT ![r] = v])
    /\ apart' = apart \cup {r}
    /\ hpc' = "console"
    /\ UNCHANGED <<res, shown, unset, notify, evq, hres, hval, asked>>

cmd_cb_set(r, v) == Change(r, v)
cmd_cb_del(r)    == Change(r, NoVal)

\* rename(), which may fail and leave no file
Renamed ==
    /\ hpc = "console"
    /\ \/ UNCHANGED <<store, lost>>
       \/ /\ Failing
          /\ store' = Store!Empty
          /\ lost' = lost \cup {r \in Resources : store[r] # NoVal}
    /\ Returned
    /\ UNCHANGED <<res, shown, unset, notify, evq, asked, apart>>

\* the whole store goes: kill_all() of reset, or fs_format() of format; unless they fail
Emptied ==
    /\ hpc = "idle"
    /\ store' \in {Store!Empty} \cup {db \in {store} : Failing}
    /\ apart' = Resources
    /\ UNCHANGED <<res, shown, unset, notify, evq, hpc, hres, hval, asked, lost>>

cmd_cb_reset  == Emptied
cmd_cb_format == Emptied

Console == \/ \E r \in Resources : cmd_cb_del(r) \/ \E v \in Texts : cmd_cb_set(r, v)
           \/ Renamed
           \/ cmd_cb_reset
           \/ cmd_cb_format

\* reboot command, watchdog or power loss; in write() the latter may cost the store
Reboot ==
    /\ \/ UNCHANGED store
       \/ hpc \in {"store", "console"} /\ store' = Store!Empty
    /\ res' = [r \in Resources |-> Blank]
    /\ shown' = Blank
    /\ unset' = Resources
    /\ notify' = {}
    /\ evq' = <<>>
    /\ Returned
    /\ asked' = [r \in Resources |-> NoVal]
    /\ apart' = {}
    /\ lost' = {}

MainStep == HandlerRead \/ HandlerStore \/ HandlerShow

Next == \/ InitAppLabel
        \/ InitGeo
        \/ \E r \in Resources, v \in Texts : Put(r, v)
        \/ ResourceUpdated
        \/ MainStep
        \/ Console
        \/ Reboot

Spec == Init /\ [][Next]_vars

\* The client thread returns from its callback, the main thread from its file operations and
\* the display; and the queue is first in first out, so that a handler has its turn whatever
\* commands are typed.
FairSpec == /\ Spec
            /\ WF_vars(ResourceUpdated)
            /\ WF_vars(HandlerStore \/ HandlerShow) /\ WF_vars(Renamed)
            /\ SF_vars(HandlerRead)

-----------------------------------------------------------------------------
(* Properties *)

TypeOK == /\ res \in [Resources -> Texts]
          /\ store \in [Resources -> Texts \cup {NoVal}]
          /\ shown \in Texts
          /\ unset \in SUBSET Resources
          /\ notify \in SUBSET Resources
          /\ evq \in Seq(Resources) /\ Len(evq) <= QueueSize
          /\ hpc \in {"idle", "store", "show", "console"}
          /\ hres \in Resources /\ hval \in Texts
          /\ asked \in [Resources -> Texts \cup {NoVal}]
          /\ apart \in SUBSET Resources /\ lost \in SUBSET Resources

Handling(r) == hpc \in {"store", "show"} /\ hres = r

\* no PUT of r is on its way to the keystore
Settled(r) == /\ unset = {}
              /\ r \notin notify
              /\ r \notin Range(evq)
              /\ ~Handling(r)

\* no lost call, console command or failure of the store is to blame
Followed(r) == r \notin apart \cup lost

Landed(r) == Settled(r) /\ Followed(r) /\ asked[r] \notin {NoVal, Blank}
                => store[r] = Stored(r, asked[r])

\* Once the handlers of a geo resource have run, the keystore holds the last value
\* PUT to it, however many PUTs came in while they were waiting or running, unless a call
\* found the queue full or the store failed on that entry.
GeoConverges == \A r \in Geo : Landed(r)

\* Once the handlers of the label have run, the resource, the display and the label
\* the next start will load agree, whichever of the PUTs won - with the same exceptions.
LabelAgrees == Settled(Label) /\ Followed(Label) /\ res[Label] # Blank
                  => res[Label] = BootValue(Label) /\ shown = res[Label]

\* The label "can be read and written ... through M2M PUT requests" (README.md:337-352):
\* the last value PUT is the one that stays.
LabelConverges == Landed(Label)

\* A PUT to a geo resource whose handler is queued reaches the keystore, unless another
\* PUT or a restart comes in between, or the store fails on that entry.
GeoPutStored ==
    \A r \in Geo, v \in Values \cup {Dash} :
        (r \in Range(evq) /\ asked[r] = v)
            ~> (store[r] = Stored(r, v) \/ asked[r] # v \/ r \in lost)
=============================================================================
