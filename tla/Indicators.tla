----------------------------- MODULE Indicators -----------------------------
(***************************************************************************)
(* The cloud indicator: the LED that tells the state of the connection,    *)
(* set by the callbacks of the mbed client thread (displayman.cpp), made   *)
(* to flash by the main thread for every sample of a sensor, and put on    *)
(* the hardware by the main thread at each refresh (ledman.cpp).           *)
(*                                                                         *)
(* LED_COLOR and LED_COLOR_TEMP are two words, each a colour and, above    *)
(* it, the flags.  No lock guards them: each load and each store of one is *)
(* a step, and each &=, |= or copy a load and a store.  (A compiler that   *)
(* merges two accesses makes a behaviour in which nothing comes between.)  *)
(***************************************************************************)
CONSTANT Preempt   \* may a thread run between two accesses of the other?

ASSUME IndicatorAssumption == Preempt \in BOOLEAN

VARIABLES led,        \* LED_COLOR[IND_CLOUD] and LED_COLOR_TEMP[IND_CLOUD]
          hardware,   \* LED_HARDWARE[IND_CLOUD]
          registered, \* _cloud_registered
          pc,         \* for each thread, the access it is about to make
          loaded,     \* for each thread, has that one, a load and a store, loaded its word?
          held,       \* for each thread, the word it loaded last
          call,       \* for each thread, the arguments it passed to set_color() or clear_flag()
          color,      \* the local variable of led_post()
          status      \* history: the state of the connection last reported

shared == <<led, hardware, registered>>
locals == <<loaded, held, color>>
vars   == <<shared, locals, pc, call, status>>

Threads == {"main", "cloud"}
Colors  == {"off", "in_progress", "failed", "success", "sensor_data"}
Flags   == {"blink", "once", "later"}
Words   == [color : Colors, flags : SUBSET Flags]
Word(c, flags) == [color |-> c, flags |-> flags]

InProgress == Word("in_progress", {"blink"})     \* set_cloud_in_progress()
Success    == Word("success", {})                \* set_cloud_registered()
Failed     == Word("failed", {})                 \* set_cloud_error()
Off        == Word("off", {})                    \* set_cloud_unregistered()
Flash      == Word("sensor_data", {"once", "later"})  \* set_sensor_status()

\* The read-modify-writes: which word is loaded, which is stored and what, and what follows.
\* Those of set_color() are "mask" to "or_temp"; "copy" is of led_post(), the others are of
\* clear_flag().
Updates == {"mask", "or", "mask_temp", "or_temp", "clear", "clear_temp", "copy"}

\* where a thread can be
Points == Updates \cup {"idle", "set", "registered", "fetch", "blink", "later", "later_once", "once",
                        "take", "show"}

Loads(u)  == IF u \in {"mask_temp", "or_temp", "clear_temp", "copy"} THEN "temp" ELSE "word"
Stores(u) == IF u \in {"mask_temp", "or_temp", "clear_temp"} THEN "temp" ELSE "word"

Updated(u, w, flags) == CASE u \in {"mask", "mask_temp"}   -> Word(w.color, {})
                          [] u \in {"or", "or_temp"}       -> Word(w.color, w.flags \cup flags)
                          [] u \in {"clear", "clear_temp"} -> Word(w.color, w.flags \ flags)
                          [] u = "copy"                    -> w

Follows(u, t) == CASE u = "mask"       -> "or"
                   [] u = "or"         -> "mask_temp"
                   [] u = "mask_temp"  -> "or_temp"
                   [] u = "or_temp"    -> IF t = "cloud" THEN "registered" ELSE "idle"
                   [] u = "copy"       -> "clear"
                   [] u = "clear"      -> "clear_temp"
                   [] u = "clear_temp" -> "show"

Init == /\ led = [x \in {"word", "temp"} |-> Off]
        /\ hardware = "off"
        /\ registered = FALSE
        /\ pc = [t \in Threads |-> IF t = "cloud" THEN "set" ELSE "idle"]
        /\ call = [t \in Threads |-> IF t = "cloud" THEN InProgress ELSE Off]
        /\ loaded = [t \in Threads |-> FALSE]
        /\ held = [t \in Threads |-> Off]
        /\ color = "off"
        /\ status = "in_progress"

Goto(t, p) == pc' = [pc EXCEPT ![t] = p]

-----------------------------------------------------------------------------
(* set_color(), and the updates of a word by flags_set(), clear_flag() and led_post() *)

\* mutant: a flash overwrites the colour it should come back to
set_color_direct(t) == /\ pc[t] = "set"
                       /\ led' = [led EXCEPT !["word"] = Word(call[t].color, {})]
                       /\ Goto(t, "mask")
                       /\ UNCHANGED <<hardware, registered, locals, call, status>>

\* mutant: any flag sends the colour to the second word
set_color_flagged(t) ==
    /\ pc[t] = "set"
    /\ LET x == IF call[t].flags # {} THEN "temp" ELSE "word"
       IN  led' = [led EXCEPT ![x] = Word(call[t].color, {})]
    /\ Goto(t, "mask")
    /\ UNCHANGED <<hardware, registered, locals, call, status>>

\* set_color(): the colour goes to one of the two words, flags_set() follows
set_color(t) ==
    /\ pc[t] = "set"
    /\ LET x == IF call[t].flags \cap {"once", "later"} # {} THEN "temp" ELSE "word"
       IN  led' = [led EXCEPT ![x] = Word(call[t].color, {})]
    /\ Goto(t, "mask")
    /\ UNCHANGED <<hardware, registered, locals, call, status>>

Load(t) == /\ pc[t] \in Updates /\ ~loaded[t]
           /\ held' = [held EXCEPT ![t] = led[Loads(pc[t])]]
           /\ loaded' = [loaded EXCEPT ![t] = TRUE]
           /\ UNCHANGED <<shared, color, pc, call, status>>

Store(t) == /\ pc[t] \in Updates /\ loaded[t]
            /\ led' = [led EXCEPT ![Stores(pc[t])] = Updated(pc[t], held[t], call[t].flags)]
            /\ loaded' = [loaded EXCEPT ![t] = FALSE]
            /\ Goto(t, Follows(pc[t], t))
            /\ UNCHANGED <<hardware, registered, held, color, call, status>>

\* the end of a callback; set_cloud_unregistered() comes second after a network error
SetRegistered ==
    /\ pc["cloud"] = "registered"
    /\ registered' = (call["cloud"] = Success)
    /\ IF status = "disconnected" /\ call["cloud"] = Failed
       THEN Goto("cloud", "set") /\ call' = [call EXCEPT !["cloud"] = Off]
       ELSE Goto("cloud", "idle") /\ UNCHANGED call
    /\ UNCHANGED <<led, hardware, locals, status>>

-----------------------------------------------------------------------------
(* The main thread: led_post() and set_sensor_status() *)

\* a handler or a callback starts
MayRun(t) == /\ pc[t] = "idle"
             /\ Preempt \/ \A u \in Threads : pc[u] = "idle"

\* display_refresh()
Refresh == /\ MayRun("main")
           /\ Goto("main", "fetch")
           /\ UNCHANGED <<shared, locals, call, status>>

Fetch == /\ pc["main"] = "fetch"
         /\ color' = led["word"].color
         /\ Goto("main", "blink")
         /\ UNCHANGED <<shared, loaded, held, call, status>>

Has(flag) == flag \in led["word"].flags

Blink == /\ pc["main"] = "blink"
         /\ color' = IF Has("blink") /\ hardware # "off" THEN "off" ELSE color
         /\ Goto("main", "later")
         /\ UNCHANGED <<shared, loaded, held, call, status>>

\* clear_flag(flag)
Clear(flag) == call' = [call EXCEPT !["main"] = Word("off", {flag})]

Later == /\ pc["main"] = "later"
         /\ Goto("main", IF Has("later") THEN "later_once" ELSE "once")
         /\ UNCHANGED <<shared, locals, call, status>>

LaterOnce == /\ pc["main"] = "later_once"
             /\ Goto("main", IF Has("once") THEN "clear" ELSE "copy")
             /\ Clear("later")
             /\ UNCHANGED <<shared, locals, status>>

Once == /\ pc["main"] = "once"
        /\ Goto("main", IF Has("once") THEN "take" ELSE "show")
        /\ UNCHANGED <<shared, locals, call, status>>

\* mutant: "once" is never cleared
TakeForever == /\ pc["main"] = "take"
               /\ color' = led["temp"].color
               /\ Goto("main", "show")
               /\ UNCHANGED <<shared, loaded, held, call, status>>

Take == /\ pc["main"] = "take"
        /\ color' = led["temp"].color
        /\ Clear("once")
        /\ Goto("main", "clear")
        /\ UNCHANGED <<shared, loaded, held, status>>

Show == /\ pc["main"] = "show"
        /\ hardware' = color
        /\ Goto("main", "idle")
        /\ UNCHANGED <<led, registered, locals, call, status>>

\* light_read() or dht_read(): a sample flashes the LED if the cloud is registered
Sample == /\ registered
          /\ MayRun("main")
          /\ Goto("main", "set")
          /\ call' = [call EXCEPT !["main"] = Flash]
          /\ UNCHANGED <<shared, locals, status>>

-----------------------------------------------------------------------------
(* The callbacks *)

Report(s, w) == /\ MayRun("cloud")
                /\ status' = s
                /\ Goto("cloud", "set")
                /\ call' = [call EXCEPT !["cloud"] = w]
                /\ UNCHANGED <<shared, locals>>

Registered   == status \in {"in_progress", "failed"} /\ Report("success", Success)
Unregistered == status = "success" /\ Report("off", Off)
ClientError  == status \in {"in_progress", "success"} /\ Report("failed", Failed)

\* on_error() for a network error, up to sync_network_connect() and after it
NetworkError == status \in {"in_progress", "success", "failed"} /\ Report("disconnected", Failed)
Reconnected  == status = "disconnected" /\ Report("in_progress", InProgress)

\* the accesses that both threads make
Access(t) == set_color(t) \/ Load(t) \/ Store(t)

Post == Fetch \/ Blink \/ Later \/ LaterOnce \/ Once \/ Take \/ Show

Next == \/ Refresh \/ Sample \/ Post \/ SetRegistered
        \/ \E t \in Threads : Access(t)
        \/ Registered \/ Unregistered \/ ClientError \/ NetworkError \/ Reconnected

Spec == Init /\ [][Next]_vars

\* Both threads run, and the periodic refresh has its turn again and again.
FairSpec == /\ Spec
            /\ WF_vars(Post \/ Access("main"))
            /\ WF_vars(SetRegistered \/ Access("cloud"))
            /\ SF_vars(Refresh)

-----------------------------------------------------------------------------
(* Properties *)

\* The second word only ever has the colour of a sample.
TypeOK == /\ led \in [{"word", "temp"} -> Words]
          /\ led["temp"].color \in {"off", "sensor_data"}
          /\ hardware \in Colors /\ color \in Colors
          /\ registered \in BOOLEAN
          /\ pc \in [Threads -> Points]
          /\ pc["main"] # "registered"
          /\ pc["cloud"] \in {"idle", "set", "mask", "or", "mask_temp", "or_temp", "registered"}
          /\ loaded \in [Threads -> BOOLEAN] /\ held \in [Threads -> Words]
          /\ call \in [Threads -> Words]
          /\ status \in {"off", "in_progress", "failed", "success", "disconnected"}

Idle == \A t \in Threads : pc[t] = "idle"

StatusColor == IF status = "disconnected" THEN "off" ELSE status

\* Between callbacks the LED is set to the colour of the state last reported, and
\* blinks when it should (docs/software.md:162-173), whatever flashes went over it.
StatusKept == Idle => /\ led["word"].color = StatusColor
                      /\ Has("blink") = (status = "in_progress")

\* A flash is shown for one refresh, "once", before the LED turns back (ledman.h:97).
FlashReverts == [][Show /\ hardware = "sensor_data" => hardware' # "sensor_data"]_vars


\* "Cloud failed | Lost connection to Mbed Cloud": the cloud LED is red
\* (docs/software.md:173) once the callback that reports it has returned.
FailureShown == Idle /\ status = "failed" => led["word"].color = "failed"
=============================================================================
