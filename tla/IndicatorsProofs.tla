-------------------------- MODULE IndicatorsProofs --------------------------
(***************************************************************************)
(* Proofs about Indicators: for any interleaving of the two threads, the   *)
(* types; when callbacks and handlers take turns, that the LED keeps the   *)
(* state last reported, and that a flash is over after one refresh.        *)
(*                                                                         *)
(* The strengthening says what a word that is being rewritten holds at     *)
(* each access, in the thread that rewrites it and in its local copy.      *)
(***************************************************************************)
EXTENDS Indicators, TLAPS

Setting  == {"set", "mask", "or", "mask_temp", "or_temp"}
Clearing == {"clear", "clear_temp"}

\* The types, what the threads set, and that a copy of the second word is one of its values.
Types == /\ TypeOK
         /\ call["cloud"] \in {InProgress, Success, Failed, Off}
         /\ pc["main"] \in Setting => call["main"] = Flash
         /\ \A t \in Threads : loaded[t] => pc[t] \in Updates
         /\ \A t \in Threads :
               loaded[t] /\ pc[t] \in {"mask_temp", "or_temp", "clear_temp", "copy"}
                  => held[t].color \in {"off", "sensor_data"}

LEMMA Calls ==
  /\ {InProgress, Success, Failed, Off} \subseteq Words
  /\ \A flag \in Flags : Word("off", {flag}) \in Words
  /\ Off.color = "off"
<1>1. \A c \in Colors, flags \in SUBSET Flags : Word(c, flags) \in Words
  BY DEF Word, Words
<1>. QED BY <1>1 DEF InProgress, Success, Failed, Off, Colors, Flags, Word

LEMMA InitTypes == Init => Types
<1>. SUFFICES ASSUME Init PROVE Types
  OBVIOUS
<1>1. led \in [{"word", "temp"} -> Words] /\ held \in [Threads -> Words] /\ call \in [Threads -> Words]
  BY Calls DEF Init
<1>. QED BY <1>1, Calls DEF Init, Types, TypeOK, Colors, Threads, Setting, Updates, Points

LEMMA AccessTypes ==
  ASSUME Types, NEW t \in Threads, Access(t)
  PROVE  Types'
<1>. USE DEF Types, TypeOK, Words, Word, Colors, Flags, Threads, Setting, Points
<1>1. CASE set_color(t)
  <2>1. call[t].flags \cap {"once", "later"} # {} => call[t].color = "sensor_data"
    BY <1>1 DEF set_color, InProgress, Success, Failed, Off, Flash
  <2>. QED BY <1>1, <2>1 DEF set_color, Goto, Updates, locals
<1>2. CASE Load(t)
  BY <1>2 DEF Load, Loads, Updates, shared
<1>3. CASE Store(t)
  <2>1. pc[t] \in Updates /\ loaded[t]
    BY <1>3 DEF Store
  <2>2. /\ Updated(pc[t], held[t], call[t].flags) \in Words
        /\ Updated(pc[t], held[t], call[t].flags).color = held[t].color
    BY <2>1 DEF Updates, Updated
  <2>3. Stores(pc[t]) = "temp" => held[t].color \in {"off", "sensor_data"}
    BY <2>1 DEF Updates, Stores
  <2>4. led' \in [{"word", "temp"} -> Words] /\ led'["temp"].color \in {"off", "sensor_data"}
    BY <1>3, <2>2, <2>3 DEF Store, Stores
  <2>5. /\ t = "main" => pc'["main"] \in {"or", "mask_temp", "or_temp", "idle", "clear",
                                          "clear_temp", "show"}
        /\ t = "main" /\ pc'["main"] \in Setting => pc["main"] \in Setting
        /\ t = "cloud" => pc'["cloud"] \in {"or", "mask_temp", "or_temp", "registered"}
        /\ \A u \in Threads \ {t} : pc'[u] = pc[u]
    BY <1>3 DEF Store, Goto, Follows, Updates
  <2>. QED BY <1>3, <2>4, <2>5 DEF Store, Goto, Updates
<1>. QED BY <1>1, <1>2, <1>3 DEF Access

LEMMA OtherTypes ==
  ASSUME Types,
         \/ Refresh \/ Sample \/ Post \/ SetRegistered \/ UNCHANGED vars
         \/ Registered \/ Unregistered \/ ClientError \/ NetworkError \/ Reconnected
  PROVE  Types'
<1>. USE DEF Types, TypeOK, Words, Word, Colors, Flags, Threads, Setting, Updates, Points,
             InProgress, Success, Failed, Off, shared, locals, Goto
<1>1. CASE Refresh \/ Sample
  BY <1>1 DEF Refresh, Sample, MayRun, Flash
<1>2. CASE Fetch \/ Blink \/ Later \/ Once \/ Show
  BY <1>2 DEF Fetch, Blink, Later, Once, Show, Has
<1>3. CASE LaterOnce \/ Take
  <2>1. PICK flag \in Flags : Clear(flag)
    BY <1>3 DEF LaterOnce, Take
  <2>2. call' \in [Threads -> Words] /\ call'["cloud"] = call["cloud"]
    <3>1. Word("off", {flag}) \in Words
      BY Calls
    <3>. QED BY <2>1, <3>1 DEF Clear
  <2>3. pc' \in [Threads -> Points] /\ pc'["main"] \in {"clear", "copy"} /\ pc'["cloud"] = pc["cloud"]
    BY <1>3 DEF LaterOnce, Take
  <2>. QED BY <1>3, <2>2, <2>3 DEF LaterOnce, Take
<1>4. CASE SetRegistered
  BY <1>4 DEF SetRegistered
<1>5. CASE Registered \/ Unregistered \/ ClientError \/ NetworkError \/ Reconnected
  BY <1>5 DEF Registered, Unregistered, ClientError, NetworkError, Reconnected, Report, MayRun
<1>6. CASE UNCHANGED vars
  BY <1>6 DEF vars
<1>. QED BY <1>1, <1>2, <1>3, <1>4, <1>5, <1>6 DEF Post

LEMMA TypesStep == Types /\ [Next]_vars => Types'
BY AccessTypes, OtherTypes DEF Next

\* The words hold a colour and flags, the second one never but the colour of a sample, and
\* each thread is at an access it can make (ledman.cpp:47-132), however the two interleave.
THEOREM TypeCorrect == Spec => []TypeOK
<1>1. Types => TypeOK
  BY DEF Types
<1>. QED BY <1>1, InitTypes, TypesStep, PTL DEF Spec

-----------------------------------------------------------------------------
(* Taking turns *)

Reported == CASE status = "in_progress" -> InProgress
              [] status = "success"     -> Success
              [] status = "failed"      -> Failed
              [] OTHER                  -> Off

\* What a word says of the state last reported, and that "later" comes with "once".
Tells(w) == /\ w.color = StatusColor
            /\ "blink" \in w.flags <=> status = "in_progress"
            /\ "later" \in w.flags => "once" \in w.flags

\* A flash that the next led_post() is to show.
Due(w) == "once" \in w.flags /\ "later" \notin w.flags

\* A callback sets what it reports, or first the error before it: what it has done by each
\* access stays.
CloudSets ==
  pc["cloud"] # "idle" =>
     /\ call["cloud"] = Reported \/ (status = "disconnected" /\ call["cloud"] = Failed)
     /\ pc["cloud"] = "mask" =>
           /\ led["word"].color = call["cloud"].color
           /\ loaded["cloud"] => held["cloud"].color = call["cloud"].color
     /\ pc["cloud"] = "or" =>
           /\ led["word"] = Word(call["cloud"].color, {})
           /\ loaded["cloud"] => held["cloud"] = led["word"]
     /\ pc["cloud"] \in {"mask_temp", "or_temp", "registered"} => led["word"] = call["cloud"]

\* Main runs when the LED tells the state, and writes back only what tells it.  A flash takes
\* the flags of the word for its own: there is none while the LED blinks.
MainKeeps ==
  pc["cloud"] = "idle" =>
     /\ Tells(led["word"])
     /\ registered = (status = "success")
     /\ pc["main"] \in Setting => status = "success"
     /\ pc["main"] \in {"mask", "or", "clear"} /\ loaded["main"] => Tells(held["main"])
     /\ pc["main"] # "copy"
     /\ pc["main"] = "later_once" => {"once", "later"} \subseteq led["word"].flags
     /\ pc["main"] \in {"once", "take"} => "later" \notin led["word"].flags
     /\ pc["main"] = "take" => "once" \in led["word"].flags
     /\ pc["main"] \in Clearing => call["main"].flags \in {{"once"}, {"later"}}
     /\ pc["main"] \in Clearing /\ call["main"].flags = {"once"} =>
           /\ "later" \notin led["word"].flags
           /\ pc["main"] = "clear" /\ loaded["main"] => "later" \notin held["main"].flags
           /\ pc["main"] = "clear_temp" => "once" \notin led["word"].flags

\* While the LED flashes no refresh is to flash it again; one that has chosen to flash it
\* found it without a flash, and has cleared "once" before it shows it.
Flashes ==
  /\ hardware = "sensor_data"
     /\ pc["main"] \in Setting \cup {"idle", "fetch", "blink", "later", "once"}
        => ~Due(led["word"])
  /\ pc["main"] \in {"blink", "later", "later_once", "once"} => color # "sensor_data"
  /\ pc["main"] = "take" => hardware # "sensor_data"
  /\ pc["main"] \in Clearing =>
        IF call["main"].flags = {"once"} THEN hardware # "sensor_data"
                                         ELSE color # "sensor_data"
  /\ pc["main"] = "show" /\ color = "sensor_data" =>
        hardware # "sensor_data" /\ "once" \notin led["word"].flags

Alone == pc["main"] = "idle" \/ pc["cloud"] = "idle"

Turns == Types /\ Alone /\ CloudSets /\ MainKeeps /\ Flashes

LEMMA TurnsInit == Init => Turns
<1>. SUFFICES ASSUME Init PROVE Turns
  OBVIOUS
<1>1. Types
  BY InitTypes
<1>. QED BY <1>1 DEF Turns, Init, Alone, CloudSets, MainKeeps, Flashes, Reported, InProgress, Off,
                     Word, Threads, Due, Setting, Clearing

\* The steps of a callback.
LEMMA TurnsCloud ==
  ASSUME Turns, Access("cloud") \/ SetRegistered
  PROVE  Turns'
<1>. USE DEF Turns, Alone, CloudSets, MainKeeps, Flashes, Types, TypeOK, Threads, Setting,
             Clearing, Due, Word, Words, Goto
<1>0. Types'
  BY AccessTypes, OtherTypes
<1>1. pc["cloud"] # "idle" /\ pc["main"] = "idle" /\ call["cloud"].flags \subseteq {"blink"}
  BY DEF Access, set_color, Load, Store, SetRegistered, Updates, InProgress, Success, Failed, Off
<1>2. CASE set_color("cloud")
  <2>1. call["cloud"].flags \cap {"once", "later"} = {}
    BY <1>1
  <2>2. led'["word"] = Word(call["cloud"].color, {})
    BY <1>2, <2>1 DEF set_color
  <2>3. pc'["main"] = "idle" /\ pc'["cloud"] = "mask" /\ led'["word"].color = call["cloud"].color
        /\ ~loaded'["cloud"] /\ ~Due(led'["word"])
    BY <1>1, <1>2, <2>2 DEF set_color, locals, Updates
  <2>. QED BY <1>0, <1>1, <1>2, <2>3 DEF set_color, locals, Reported
<1>3. CASE Load("cloud")
  BY <1>0, <1>1, <1>3 DEF Load, Loads, shared, Reported
<1>4. CASE Store("cloud")
  <2>1. pc["cloud"] \in {"mask", "or", "mask_temp", "or_temp"}
    BY <1>4 DEF Store, Updates
  <2>2. CASE pc["cloud"] = "mask"
    <3>1. led'["word"] = Word(call["cloud"].color, {}) /\ pc'["cloud"] = "or"
      BY <1>4, <2>2 DEF Store, Stores, Updated, Follows
    <3>. QED BY <1>0, <1>1, <1>4, <3>1 DEF Store, Reported
  <2>3. CASE pc["cloud"] = "or"
    <3>1. led'["word"] = Word(call["cloud"].color, {} \cup call["cloud"].flags)
          /\ pc'["cloud"] = "mask_temp"
      BY <1>4, <2>3 DEF Store, Stores, Updated, Follows
    <3>2. led'["word"] = call["cloud"]
      BY <3>1 DEF InProgress, Success, Failed, Off
    <3>. QED BY <1>0, <1>1, <1>4, <3>1, <3>2 DEF Store, Reported
  <2>4. CASE pc["cloud"] \in {"mask_temp", "or_temp"}
    <3>1. led'["word"] = led["word"] /\ pc'["cloud"] \in {"or_temp", "registered"}
      BY <1>4, <2>4 DEF Store, Stores, Follows
    <3>. QED BY <1>0, <1>1, <1>4, <2>4, <3>1 DEF Store, Reported
  <2>. QED BY <2>1, <2>2, <2>3, <2>4
<1>5. CASE SetRegistered
  <2>1. led["word"] = call["cloud"] /\ UNCHANGED <<led, status, hardware, loaded, held, color>>
    BY <1>5 DEF SetRegistered, locals
  <2>2. CASE status = "disconnected" /\ call["cloud"] = Failed
    BY <1>0, <1>1, <1>5, <2>1, <2>2 DEF SetRegistered, Reported, Failed, Off
  <2>3. CASE ~(status = "disconnected" /\ call["cloud"] = Failed)
    <3>1. call["cloud"] = Reported /\ pc'["cloud"] = "idle" /\ pc'["main"] = "idle"
      BY <1>1, <1>5, <2>3 DEF SetRegistered
    <3>2. Tells(led["word"])' /\ registered' = (status = "success")
      BY <1>5, <2>1, <3>1 DEF SetRegistered, Reported, Tells, StatusColor, InProgress, Success,
                              Failed, Off
    <3>. QED BY <1>0, <1>1, <2>1, <3>1, <3>2
  <2>. QED BY <2>2, <2>3
<1>. QED BY <1>2, <1>3, <1>4, <1>5 DEF Access

\* The start of a callback or of a handler.
LEMMA TurnsStart ==
  ASSUME Preempt = FALSE, Turns,
         \/ Refresh \/ Sample
         \/ Registered \/ Unregistered \/ ClientError \/ NetworkError \/ Reconnected
  PROVE  Turns'
<1>. USE DEF Turns, Alone, CloudSets, MainKeeps, Flashes, Types, TypeOK, Threads, Setting,
             Clearing, Due, Goto, shared, locals
<1>0. Types'
  BY OtherTypes
<1>1. pc["main"] = "idle" /\ pc["cloud"] = "idle"
  BY DEF Refresh, Sample, Registered, Unregistered, ClientError, NetworkError, Reconnected, Report,
         MayRun
<1>2. CASE Refresh
  BY <1>0, <1>1, <1>2 DEF Refresh, Tells, StatusColor
<1>3. CASE Sample
  BY <1>0, <1>1, <1>3 DEF Sample, Tells, StatusColor
<1>4. CASE Registered \/ Unregistered \/ ClientError \/ NetworkError \/ Reconnected
  BY <1>0, <1>1, <1>4 DEF Registered, Unregistered, ClientError, NetworkError, Reconnected, Report,
                          Reported
<1>. QED BY <1>2, <1>3, <1>4

\* The accesses of a handler.
LEMMA TurnsAccess ==
  ASSUME Turns, Access("main")
  PROVE  Turns'
<1>. USE DEF Turns, Alone, CloudSets, MainKeeps, Flashes, Types, TypeOK, Threads, Setting,
             Clearing, Due, Word, Words, Goto, Tells, StatusColor
<1>0. Types'
  BY AccessTypes
<1>1. pc["main"] # "idle" /\ pc["cloud"] = "idle"
  BY DEF Access, set_color, Load, Store, Updates
<1>2. CASE set_color("main")
  <2>1. call["main"] = Flash
    BY <1>2 DEF set_color
  <2>2. led'["word"] = led["word"]
    BY <1>2, <2>1 DEF set_color, Flash
  <2>3. pc'["cloud"] = "idle" /\ pc'["main"] = "mask" /\ ~loaded'["main"]
    BY <1>1, <1>2 DEF set_color, locals, Updates
  <2>. QED BY <1>0, <1>1, <1>2, <2>2, <2>3 DEF set_color, locals
<1>3. CASE Load("main")
  BY <1>0, <1>1, <1>3 DEF Load, Loads, shared
<1>4. CASE Store("main")
  <2>1. /\ loaded["main"] /\ UNCHANGED <<hardware, registered, held, color, call, status>>
        /\ pc'["cloud"] = "idle" /\ pc'["main"] = Follows(pc["main"], "main")
        /\ loaded' = [loaded EXCEPT !["main"] = FALSE]
    BY <1>1, <1>4 DEF Store
  <2>2. pc["main"] \in Updates \ {"copy"}
    BY <1>1, <1>4 DEF Store
  <2>3. CASE pc["main"] = "mask"
    <3>1. led'["word"] = Word(held["main"].color, {}) /\ pc'["main"] = "or"
      BY <1>4, <2>1, <2>3 DEF Store, Stores, Updated, Follows
    <3>. QED BY <1>0, <1>1, <2>1, <2>3, <3>1
  <2>4. CASE pc["main"] = "or"
    <3>1. led'["word"] = Word(held["main"].color, held["main"].flags \cup {"once", "later"})
          /\ pc'["main"] = "mask_temp"
      BY <1>4, <2>1, <2>4 DEF Store, Stores, Updated, Follows, Flash
    <3>. QED BY <1>0, <1>1, <2>1, <2>4, <3>1
  <2>5. CASE pc["main"] \in {"mask_temp", "or_temp"}
    <3>1. led'["word"] = led["word"] /\ pc'["main"] \in {"or_temp", "idle"}
      BY <1>4, <2>1, <2>5 DEF Store, Stores, Follows
    <3>. QED BY <1>0, <1>1, <2>1, <2>5, <3>1
  <2>6. CASE pc["main"] = "clear"
    <3>1. led'["word"] = Word(held["main"].color, held["main"].flags \ call["main"].flags)
          /\ pc'["main"] = "clear_temp"
      BY <1>4, <2>1, <2>6 DEF Store, Stores, Updated, Follows
    <3>. QED BY <1>0, <1>1, <2>1, <2>6, <3>1
  <2>7. CASE pc["main"] = "clear_temp"
    <3>1. led'["word"] = led["word"] /\ pc'["main"] = "show"
      BY <1>4, <2>1, <2>7 DEF Store, Stores, Follows
    <3>. QED BY <1>0, <1>1, <2>1, <2>7, <3>1
  <2>. QED BY <2>2, <2>3, <2>4, <2>5, <2>6, <2>7 DEF Updates
<1>. QED BY <1>2, <1>3, <1>4 DEF Access

\* The rest of led_post().
LEMMA TurnsPost ==
  ASSUME Turns, Post
  PROVE  Turns'
<1>. USE DEF Turns, Alone, CloudSets, MainKeeps, Flashes, Types, TypeOK, Threads, Setting,
             Clearing, Due, Goto, Tells, StatusColor, shared, locals, Has
<1>0. Types'
  BY OtherTypes
<1>1. pc["main"] # "idle" /\ pc["cloud"] = "idle"
  BY DEF Post, Fetch, Blink, Later, LaterOnce, Once, Take, Show
<1>2. CASE Fetch
  BY <1>0, <1>1, <1>2 DEF Fetch
<1>3. CASE Blink
  BY <1>0, <1>1, <1>3 DEF Blink
<1>4. CASE Later
  BY <1>0, <1>1, <1>4 DEF Later
<1>5. CASE LaterOnce
  <2>1. /\ pc["main"] = "later_once" /\ pc'["main"] = "clear" /\ pc'["cloud"] = "idle"
        /\ call'["main"].flags = {"later"}
    BY <1>1, <1>5 DEF LaterOnce, Clear, Word
  <2>2. UNCHANGED <<led, hardware, registered, loaded, held, color, status>> /\ ~loaded["main"]
    BY <1>5 DEF LaterOnce, Updates
  <2>. QED BY <1>0, <2>1, <2>2
<1>6. CASE Once
  BY <1>0, <1>1, <1>6 DEF Once
<1>7. CASE Take
  <2>1. /\ pc["main"] = "take" /\ pc'["main"] = "clear" /\ pc'["cloud"] = "idle"
        /\ call'["main"].flags = {"once"}
    BY <1>1, <1>7 DEF Take, Clear, Word
  <2>2. UNCHANGED <<led, hardware, registered, loaded, held, status>> /\ ~loaded["main"]
    BY <1>7 DEF Take, Updates
  <2>. QED BY <1>0, <2>1, <2>2
<1>8. CASE Show
  BY <1>0, <1>1, <1>8 DEF Show
<1>. QED BY <1>2, <1>3, <1>4, <1>5, <1>6, <1>7, <1>8 DEF Post

LEMMA TurnsStep ==
  ASSUME Preempt = FALSE
  PROVE  Turns /\ [Next]_vars => Turns'
<1>. SUFFICES ASSUME Turns, [Next]_vars PROVE Turns'
  OBVIOUS
<1>1. CASE UNCHANGED vars
  BY <1>1, OtherTypes DEF vars, shared, locals, Turns, Alone, CloudSets, MainKeeps, Flashes, Reported,
                          Tells, StatusColor, Due
<1>. QED BY <1>1, TurnsCloud, TurnsStart, TurnsAccess, TurnsPost DEF Next, Threads

\* Between callbacks the LED has the colour of the state last reported, and blinks while the
\* connection is in progress (docs/software.md:162-173), if the callbacks and the handlers of
\* main take turns: no flash leaves its colour, and none takes the blinking away.
THEOREM StatusIsKept ==
  ASSUME Preempt = FALSE
  PROVE  Spec => []StatusKept
<1>1. Turns => StatusKept
  BY DEF Turns, MainKeeps, Tells, StatusKept, Idle, Threads, Has
<1>. QED BY <1>1, TurnsInit, TurnsStep, PTL DEF Spec

\* A flash lasts one refresh (ledman.h:97), if the callbacks and the handlers of main take
\* turns: led_post() never shows the colour of a sample twice in a row.
THEOREM FlashesRevert ==
  ASSUME Preempt = FALSE
  PROVE  Spec => FlashReverts
<1>1. Turns /\ [Next]_vars => [Show /\ hardware = "sensor_data" => hardware' # "sensor_data"]_vars
  BY DEF Turns, Flashes, Show
<1>. QED BY <1>1, TurnsInit, TurnsStep, PTL DEF Spec, FlashReverts
=============================================================================
