---------------------------- MODULE DisplayProofs ----------------------------
(***************************************************************************)
(* Proofs about Display, for any statuses of the sensors, any size of an   *)
(* image and any two periods.                                              *)
(*                                                                         *)
(* As in FirmwareUpdateProofs a thread is at a place.  That of init_app()  *)
(* is the number of its statement; main and the client run short lists,    *)
(* and each suffix of one has a name.                                      *)
(***************************************************************************)
EXTENDS Display, ListLemmas

\* what is left of init_app() from its k-th statement on, which may have begun and have
\* its second half left
Rest(k)     == SubSeq(init_app, k, 12)
Halves(stm) == {stm} \cup {x \in {Do("replace", stm.with)} : stm.do = "register"}
                     \cup {x \in {Do("assign", stm.with)} : stm.do = "status"}
InitAt(k)   == IF k = 13 THEN todo["init"] = <<>>
               ELSE /\ todo["init"] # <<>>
                    /\ Head(todo["init"]) \in Halves(init_app[k])
                    /\ Tail(todo["init"]) = Rest(k + 1)

MainNames   == {"idle", "refresh", "authorize", "remember", "grant", "light", "dht", "humidity",
                "label"}
MainList(m) == CASE m = "idle"      -> << >>
                 [] m = "refresh"   -> << Do("refresh", "lcd") >>
                 [] m = "authorize" -> << Do("refresh", "lcd"), Do("grant", "download") >>
                 [] m = "remember"  -> << Do("remember", "lcd"), Do("grant", "download") >>
                 [] m = "grant"     -> << Do("grant", "download") >>
                 [] m = "light"     -> << Do("set", "Light") >>
                 [] m = "dht"       -> << Do("set", "Temp"), Do("set", "Humidity") >>
                 [] m = "humidity"  -> << Do("set", "Humidity") >>
                 [] m = "label"     -> << Do("set", "Label") >>

\* "last" is the report that everything was downloaded, "progress" any other
ClientNames   == {"idle", "reconnect", "connected", "assign", "restart", "progress", "last",
                  "saving", "refresh", "remember"}
ClientList(c) == CASE c = "idle"      -> << >>
                   [] c = "reconnect" -> << Do("sampling", "off"), Do("status", "WiFi"),
                                            Do("sampling", "on") >>
                   [] c = "connected" -> << Do("status", "WiFi"), Do("sampling", "on") >>
                   [] c = "assign"    -> << Do("assign", "WiFi"), Do("sampling", "on") >>
                   [] c = "restart"   -> << Do("sampling", "on") >>
                   [] c = "last"      -> << DoN("progress", Total), DoN("saving", 0),
                                            Do("refresh", "lcd") >>
                   [] c = "saving"    -> << DoN("saving", 0), Do("refresh", "lcd") >>
                   [] c = "refresh"   -> << Do("refresh", "lcd") >>
                   [] c = "remember"  -> << Do("remember", "lcd") >>
ClientAt(c)   == IF c = "progress"
                 THEN \E n \in 0 .. Total - 1 :
                          todo["client"] = << DoN("progress", n), Do("refresh", "lcd") >>
                 ELSE todo["client"] = ClientList(c)

Where(k, m, c) == InitAt(k) /\ todo["main"] = MainList(m) /\ ClientAt(c)

\* The types of what TypeOK leaves out.
Entries  == [name : Names, status : Nat]
Messages == {<<Line("download", 0), Line("bar", n)>> : n \in Int}
            \cup {<<Line("saving", 0), Line("bar", 0)>>}
Typed    == /\ TypeOK
            /\ sensors \in Seq(Entries) /\ spare \in Seq(Entries)
            /\ sensors = <<>> => active = 0
            /\ given \in [Names -> Nat]
            /\ DOMAIN todo = Threads
            /\ lcd = <<lcd[1], lcd[2]>>
            /\ buffer \in {Nothing} \cup Messages /\ previous \in {Nothing} \cup Messages

\* the sensors that init_app() has registered at its k-th statement
Known(k) == CASE k = 1        -> {}
              [] k \in 2..3   -> {"WiFi"}
              [] k \in 4..6   -> {"WiFi", "Label"}
              [] k = 7        -> {"WiFi", "Label", "Temp"}
              [] k \in 8..10  -> {"WiFi", "Label", "Temp", "Humidity"}
              [] k \in 11..13 -> Names

\* Each sensor has the status it was given; the array that push_back() fills has the same
\* sensors as the one it replaces, and one more.
Listed(k) == /\ \A s \in Names : Registered(s) <=> s \in Known(k)
             /\ \A i \in 1 .. Len(sensors) : sensors[i].status = given[sensors[i].name]
             /\ \A s \in Names \ Known(k) : given[s] = 0
             /\ k <= 12 /\ Head(todo["init"]).do = "replace"
                    => spare = Append(sensors, Sensor(init_app[k].with, 0))

\* While init_app() registers sensors no other thread sets a status, and there is no
\* client before it ends.
Starting(k, m, c) == /\ k <= 10 => ~sampling /\ m \in {"idle", "refresh"}
                     /\ k <= 12 => ~online
                     /\ ~online => c = "idle" /\ update = "none"

\* Which view there is at which stage of the update, and who refreshes it then.
Staged(m, c) == /\ m \in {"authorize", "remember", "grant"} => update = "granting"
                /\ m = "refresh" => view # "download"
                /\ view = "download" => ~tick
                /\ view = "install" <=> update = "installing"
                /\ update \in {"granting", "loading", "loaded", "ready"} => view = "download"
                /\ c # "idle" => update \notin {"ready", "installing"}
                /\ c = "progress" => update = "loading"
                /\ c \in {"last", "saving"} => update = "loaded"
                /\ c \in {"refresh", "remember"} => update \in {"loading", "loaded"}

\* Before the first download nothing was written by LCDProgress, and the cursor is in the
\* first place once a sensor was shown.  In the download view the LCD shows _previous, and
\* _previous is _buffer but for the report under way.
Shown(c) ==
    /\ view = "sensor" => /\ buffer = Nothing /\ previous = Nothing
                          /\ lcd[2] # Blank => home /\ sensors # <<>>
                          /\ update # "none" => lcd[2] # Blank
    /\ view = "download" =>
          /\ c \notin {"saving", "refresh", "remember"} => /\ previous = buffer
                                                           /\ buffer = Nothing => home
                                                           /\ buffer # Nothing => lcd = buffer
          /\ c \in {"saving", "refresh"} => /\ buffer # Nothing
                                            /\ previous = Nothing => home
                                            /\ previous # Nothing => lcd = previous
          /\ c = "remember" => buffer # Nothing /\ lcd = buffer
    /\ view = "install" => lcd = Install

\* The bar is full from the last report on until "saving" replaces it.
Bar(c) == buffer[2].kind = "bar" => /\ buffer[2].n \in 0..80
                                    /\ buffer[2].n = 80 => update = "loaded" /\ c = "saving"

Asserted(k, m, c) == Listed(k) /\ Starting(k, m, c) /\ Staged(m, c) /\ Shown(c) /\ Bar(c)

Inv == Typed /\ \E k \in 1..13, m \in MainNames, c \in ClientNames :
                    Where(k, m, c) /\ Asserted(k, m, c)

-----------------------------------------------------------------------------
(* The lists *)

\* init_app() as one list.
LEMMA InitAppIs ==
  init_app = << Do("register", "WiFi"), Do("status", "WiFi"),
                Do("register", "Label"), Do("status", "Label"), Do("status", "WiFi"),
                Do("register", "Temp"), Do("register", "Humidity"),
                Do("status", "Temp"), Do("status", "Humidity"), Do("register", "Light"),
                Do("sampling", "on"), Do("online", "on") >>
<1>. DEFINE p1 == << Do("register", "WiFi"), Do("status", "WiFi"), Do("register", "Label"),
                     Do("status", "Label"), Do("status", "WiFi") >>
            p2 == << Do("register", "Temp"), Do("register", "Humidity"), Do("status", "Temp"),
                     Do("status", "Humidity"), Do("register", "Light") >>
            p3 == << Do("sampling", "on"), Do("online", "on") >>
            u2 == << Do("register", "WiFi"), Do("status", "WiFi"), Do("register", "Label"),
                     Do("status", "Label"), Do("status", "WiFi"),
                     Do("register", "Temp"), Do("register", "Humidity"), Do("status", "Temp"),
                     Do("status", "Humidity"), Do("register", "Light") >>
<1>1. p1 \o p2 = u2
  BY Concat5And5
<1>2. u2 \o p3 = << Do("register", "WiFi"), Do("status", "WiFi"),
                    Do("register", "Label"), Do("status", "Label"), Do("status", "WiFi"),
                    Do("register", "Temp"), Do("register", "Humidity"),
                    Do("status", "Temp"), Do("status", "Humidity"), Do("register", "Light"),
                    Do("sampling", "on"), Do("online", "on") >>
  BY Concat10And2
<1>3. init_app = (p1 \o p2) \o p3
  BY DEF init_app, network_init, sensors_init
<1>. HIDE DEF p1, p2, p3, u2
<1>. QED BY <1>1, <1>2, <1>3

\* Its statements, and what each is about.
InitSteps == { <<1, "register", "WiFi">>,      <<2, "status", "WiFi">>,
               <<3, "register", "Label">>,     <<4, "status", "Label">>,
               <<5, "status", "WiFi">>,        <<6, "register", "Temp">>,
               <<7, "register", "Humidity">>,  <<8, "status", "Temp">>,
               <<9, "status", "Humidity">>,    <<10, "register", "Light">>,
               <<11, "sampling", "on">>,       <<12, "online", "on">> }

InitStatements == {Do(a, b) : a \in {"register", "status", "sampling", "online"},
                              b \in Names \cup {"on"}}

\* It has twelve, the ones of that table.
LEMMA InitTable ==
  /\ Len(init_app) = 12 /\ DOMAIN init_app = 1 .. 12
  /\ init_app \in Seq(InitStatements)
  /\ \A k \in 1 .. 12 : <<k, init_app[k].do, init_app[k].with>> \in InitSteps
<1>1. \A k \in 1 .. 12 : <<k, init_app[k].do, init_app[k].with>> \in InitSteps
  <2>. SUFFICES ASSUME NEW k \in 1 .. 12
                PROVE  <<k, init_app[k].do, init_app[k].with>> \in InitSteps
    OBVIOUS
  <2>1. k \in {1, 2, 3, 4, 5, 6, 7, 8, 9, 10, 11, 12}
    OBVIOUS
  <2>. QED BY <2>1, InitAppIs DEF InitSteps, Do
<1>2. Len(init_app) = 12 /\ DOMAIN init_app = 1 .. 12 /\ init_app \in Seq(InitStatements)
  <2>1. \A a \in {"register", "status", "sampling", "online"}, b \in Names \cup {"on"} :
           Do(a, b) \in InitStatements
    BY DEF InitStatements
  <2>2. {"WiFi", "Label", "Temp", "Humidity", "Light"} \subseteq Names
    BY DEF Names
  <2>. QED BY <2>1, <2>2, InitAppIs
<1>. QED BY <1>1, <1>2

\* A statement that registers a sensor adds it to those that are known, no other does.
LEMMA KnownNext ==
  ASSUME NEW k \in 1 .. 12
  PROVE  /\ Known(k) \subseteq Names
         /\ init_app[k].do = "register" => /\ init_app[k].with \in Names \ Known(k)
                                           /\ Known(k + 1) = Known(k) \cup {init_app[k].with}
         /\ init_app[k].do # "register" => Known(k + 1) = Known(k)
<1>1. <<k, init_app[k].do, init_app[k].with>> \in InitSteps
  <2>. HIDE DEF InitSteps
  <2>. QED BY InitTable, Zenon
<1>2. k \in {1, 2, 3, 4, 5, 6, 7, 8, 9, 10, 11, 12}
  OBVIOUS
<1>. QED BY <1>1, <1>2 DEF InitSteps, Known, Names

\* What is left after the k-th statement, and a list with another first statement.
LEMMA RestIs ==
  ASSUME NEW k \in 1 .. 12
  PROVE  /\ Rest(k + 1) \in Seq(InitStatements)
         /\ k = 12 => Rest(k + 1) = << >>
         /\ k < 12 => /\ Rest(k + 1) # << >> /\ Head(Rest(k + 1)) = init_app[k + 1]
                      /\ Tail(Rest(k + 1)) = Rest(k + 2)
<1>1. init_app \in Seq(InitStatements) /\ Len(init_app) = 12
  BY InitTable
<1>2. CASE k = 12
  <2>1. Rest(k + 1) = << >>
    BY <1>2, SubSeqEmpty DEF Rest
  <2>2. Rest(k + 1) \in Seq(InitStatements)
    BY <2>1, EmptySeq
  <2>. QED BY <1>2, <2>1, <2>2
<1>3. CASE k < 12
  <2>1. k + 1 \in 1 .. Len(init_app) /\ (k + 1) + 1 = k + 2
    BY <1>1, <1>3
  <2>2. LET left == SubSeq(init_app, k + 1, Len(init_app))
        IN  /\ left \in Seq(InitStatements) /\ left # << >>
            /\ Head(left) = init_app[k + 1]
            /\ Tail(left) = SubSeq(init_app, (k + 1) + 1, Len(init_app))
    BY <1>1, <2>1, RestOfList
  <2>. QED BY <1>1, <1>3, <2>1, <2>2 DEF Rest
<1>. QED BY <1>2, <1>3

\* A statement in front of a list.
LEMMA FrontOf ==
  ASSUME NEW S, NEW s \in Seq(S), NEW x
  PROVE  /\ << x >> \o s # << >>
         /\ Head(<< x >> \o s) = x
         /\ Tail(<< x >> \o s) = s
<1>. DEFINE T == S \cup {x}
<1>1. << x >> \in Seq(T) /\ s \in Seq(T) /\ Len(<< x >>) = 1 /\ << x >>[1] = x
  BY SeqMonotonic
<1>. HIDE DEF T
<1>2. /\ << x >> \o s \in Seq(T) /\ Len(<< x >> \o s) = 1 + Len(s) /\ Len(s) \in Nat
      /\ \A i \in 1 .. 1 + Len(s) : (<< x >> \o s)[i] = IF i <= 1 THEN x ELSE s[i - 1]
  BY <1>1, ConcatProperties, LenProperties
<1>3. << x >> \o s # << >>
  BY <1>2, EmptySeq
<1>4. Head(<< x >> \o s) = x
  BY <1>2, <1>3
<1>5. /\ Tail(<< x >> \o s) \in Seq(T) /\ Len(Tail(<< x >> \o s)) = Len(s)
      /\ \A i \in 1 .. Len(s) : Tail(<< x >> \o s)[i] = (<< x >> \o s)[i + 1]
  BY <1>2, <1>3, HeadTailProperties
<1>6. \A i \in 1 .. Len(s) : Tail(<< x >> \o s)[i] = s[i]
  BY <1>2, <1>5
<1>7. Tail(<< x >> \o s) = s
  BY <1>1, <1>5, <1>6, SeqEqual
<1>. QED BY <1>3, <1>4, <1>7

\* What the main thread and the client thread run next, and what they have left then.
MainSteps == { <<"refresh",   "refresh",  "lcd",      "idle">>,
               <<"authorize", "refresh",  "lcd",      "grant">>,
               <<"remember",  "remember", "lcd",      "grant">>,
               <<"grant",     "grant",    "download", "idle">>,
               <<"light",     "set",      "Light",    "idle">>,
               <<"dht",       "set",      "Temp",     "humidity">>,
               <<"humidity",  "set",      "Humidity", "idle">>,
               <<"label",     "set",      "Label",    "idle">> }

ClientSteps == { <<"reconnect", "sampling", "off",  "connected">>,
                 <<"connected", "status",   "WiFi", "restart">>,
                 <<"assign",    "assign",   "WiFi", "restart">>,
                 <<"restart",   "sampling", "on",   "idle">>,
                 <<"progress",  "progress", "none", "refresh">>,
                 <<"last",      "progress", "none", "saving">>,
                 <<"saving",    "saving",   "none", "refresh">>,
                 <<"refresh",   "refresh",  "lcd",  "idle">>,
                 <<"remember",  "remember", "lcd",  "idle">> }

\* The step of the main thread from each of its lists.
LEMMA MainStep ==
  ASSUME NEW m \in MainNames, todo["main"] = MainList(m), todo["main"] # << >>
  PROVE  /\ m # "idle"
         /\ \E nx \in MainNames : /\ <<m, Head(todo["main"]).do, With("main"), nx>> \in MainSteps
                                  /\ Tail(todo["main"]) = MainList(nx)
<1>1. m # "idle"
  BY DEF MainList
<1>2. CASE m = "refresh"
  <2>1. todo["main"] = << Do("refresh", "lcd") >>
    BY <1>2 DEF MainList
  <2>2. /\ <<m, Head(todo["main"]).do, With("main"), "idle">> \in MainSteps
        /\ Tail(todo["main"]) = MainList("idle")
    BY <1>2, <2>1 DEF MainList, MainSteps, With, Do
  <2>. QED BY <1>1, <1>2, <2>2 DEF MainNames
<1>3. CASE m = "authorize"
  <2>1. todo["main"] = << Do("refresh", "lcd"), Do("grant", "download") >>
    BY <1>3 DEF MainList
  <2>2. /\ <<m, Head(todo["main"]).do, With("main"), "grant">> \in MainSteps
        /\ Tail(todo["main"]) = MainList("grant")
    BY <1>3, <2>1 DEF MainList, MainSteps, With, Do
  <2>. QED BY <1>1, <1>3, <2>2 DEF MainNames
<1>4. CASE m = "remember"
  <2>1. todo["main"] = << Do("remember", "lcd"), Do("grant", "download") >>
    BY <1>4 DEF MainList
  <2>2. /\ <<m, Head(todo["main"]).do, With("main"), "grant">> \in MainSteps
        /\ Tail(todo["main"]) = MainList("grant")
    BY <1>4, <2>1 DEF MainList, MainSteps, With, Do
  <2>. QED BY <1>1, <1>4, <2>2 DEF MainNames
<1>5. CASE m = "grant"
  <2>1. todo["main"] = << Do("grant", "download") >>
    BY <1>5 DEF MainList
  <2>2. /\ <<m, Head(todo["main"]).do, With("main"), "idle">> \in MainSteps
        /\ Tail(todo["main"]) = MainList("idle")
    BY <1>5, <2>1 DEF MainList, MainSteps, With, Do
  <2>. QED BY <1>1, <1>5, <2>2 DEF MainNames
<1>6. CASE m = "light"
  <2>1. todo["main"] = << Do("set", "Light") >>
    BY <1>6 DEF MainList
  <2>2. /\ <<m, Head(todo["main"]).do, With("main"), "idle">> \in MainSteps
        /\ Tail(todo["main"]) = MainList("idle")
    BY <1>6, <2>1 DEF MainList, MainSteps, With, Do
  <2>. QED BY <1>1, <1>6, <2>2 DEF MainNames
<1>7. CASE m = "dht"
  <2>1. todo["main"] = << Do("set", "Temp"), Do("set", "Humidity") >>
    BY <1>7 DEF MainList
  <2>2. /\ <<m, Head(todo["main"]).do, With("main"), "humidity">> \in MainSteps
        /\ Tail(todo["main"]) = MainList("humidity")
    BY <1>7, <2>1 DEF MainList, MainSteps, With, Do
  <2>. QED BY <1>1, <1>7, <2>2 DEF MainNames
<1>8. CASE m = "humidity"
  <2>1. todo["main"] = << Do("set", "Humidity") >>
    BY <1>8 DEF MainList
  <2>2. /\ <<m, Head(todo["main"]).do, With("main"), "idle">> \in MainSteps
        /\ Tail(todo["main"]) = MainList("idle")
    BY <1>8, <2>1 DEF MainList, MainSteps, With, Do
  <2>. QED BY <1>1, <1>8, <2>2 DEF MainNames
<1>9. CASE m = "label"
  <2>1. todo["main"] = << Do("set", "Label") >>
    BY <1>9 DEF MainList
  <2>2. /\ <<m, Head(todo["main"]).do, With("main"), "idle">> \in MainSteps
        /\ Tail(todo["main"]) = MainList("idle")
    BY <1>9, <2>1 DEF MainList, MainSteps, With, Do
  <2>. QED BY <1>1, <1>9, <2>2 DEF MainNames
<1>. QED BY <1>1, <1>2, <1>3, <1>4, <1>5, <1>6, <1>7, <1>8, <1>9 DEF MainNames

\* The step of the client thread.
LEMMA ClientStep ==
  ASSUME NEW c \in ClientNames, ClientAt(c), todo["client"] # << >>
  PROVE  /\ c # "idle"
         /\ \E nx \in ClientNames \ {"progress"} :
                /\ <<c, Head(todo["client"]).do, With("client"), nx>> \in ClientSteps
                /\ Tail(todo["client"]) = ClientList(nx)
         /\ c = "progress" => Head(todo["client"]).n \in 0 .. Total - 1
         /\ c = "last" => Head(todo["client"]).n = Total
<1>1. c # "idle"
  BY DEF ClientAt, ClientList
<1>2. CASE c = "progress"
  <2>1. PICK n \in 0 .. Total - 1 :
           todo["client"] = << DoN("progress", n), Do("refresh", "lcd") >>
    BY <1>2 DEF ClientAt
  <2>2. /\ <<c, Head(todo["client"]).do, With("client"), "refresh">> \in ClientSteps
        /\ Tail(todo["client"]) = ClientList("refresh")
        /\ Head(todo["client"]).n = n
    BY <1>2, <2>1 DEF ClientList, ClientSteps, With, Do, DoN
  <2>. QED BY <1>1, <1>2, <2>2 DEF ClientNames
<1>3. CASE c = "reconnect"
  <2>1. todo["client"] = << Do("sampling", "off"), Do("status", "WiFi"), Do("sampling", "on") >>
    BY <1>3 DEF ClientAt, ClientList
  <2>2. /\ <<c, Head(todo["client"]).do, With("client"), "connected">> \in ClientSteps
        /\ Tail(todo["client"]) = ClientList("connected")
    BY <1>3, <2>1 DEF ClientList, ClientSteps, With, Do, DoN
  <2>. QED BY <1>1, <1>3, <2>2 DEF ClientNames
<1>4. CASE c = "connected"
  <2>1. todo["client"] = << Do("status", "WiFi"), Do("sampling", "on") >>
    BY <1>4 DEF ClientAt, ClientList
  <2>2. /\ <<c, Head(todo["client"]).do, With("client"), "restart">> \in ClientSteps
        /\ Tail(todo["client"]) = ClientList("restart")
    BY <1>4, <2>1 DEF ClientList, ClientSteps, With, Do, DoN
  <2>. QED BY <1>1, <1>4, <2>2 DEF ClientNames
<1>5. CASE c = "assign"
  <2>1. todo["client"] = << Do("assign", "WiFi"), Do("sampling", "on") >>
    BY <1>5 DEF ClientAt, ClientList
  <2>2. /\ <<c, Head(todo["client"]).do, With("client"), "restart">> \in ClientSteps
        /\ Tail(todo["client"]) = ClientList("restart")
    BY <1>5, <2>1 DEF ClientList, ClientSteps, With, Do, DoN
  <2>. QED BY <1>1, <1>5, <2>2 DEF ClientNames
<1>6. CASE c = "restart"
  <2>1. todo["client"] = << Do("sampling", "on") >>
    BY <1>6 DEF ClientAt, ClientList
  <2>2. /\ <<c, Head(todo["client"]).do, With("client"), "idle">> \in ClientSteps
        /\ Tail(todo["client"]) = ClientList("idle")
    BY <1>6, <2>1 DEF ClientList, ClientSteps, With, Do, DoN
  <2>. QED BY <1>1, <1>6, <2>2 DEF ClientNames
<1>7. CASE c = "last"
  <2>1. todo["client"] = << DoN("progress", Total), DoN("saving", 0), Do("refresh", "lcd") >>
    BY <1>7 DEF ClientAt, ClientList
  <2>2. /\ <<c, Head(todo["client"]).do, With("client"), "saving">> \in ClientSteps
        /\ Tail(todo["client"]) = ClientList("saving")
        /\ Head(todo["client"]).n = Total
    BY <1>7, <2>1 DEF ClientList, ClientSteps, With, Do, DoN
  <2>. QED BY <1>1, <1>7, <2>2 DEF ClientNames
<1>8. CASE c = "saving"
  <2>1. todo["client"] = << DoN("saving", 0), Do("refresh", "lcd") >>
    BY <1>8 DEF ClientAt, ClientList
  <2>2. /\ <<c, Head(todo["client"]).do, With("client"), "refresh">> \in ClientSteps
        /\ Tail(todo["client"]) = ClientList("refresh")
    BY <1>8, <2>1 DEF ClientList, ClientSteps, With, Do, DoN
  <2>. QED BY <1>1, <1>8, <2>2 DEF ClientNames
<1>9. CASE c = "refresh"
  <2>1. todo["client"] = << Do("refresh", "lcd") >>
    BY <1>9 DEF ClientAt, ClientList
  <2>2. /\ <<c, Head(todo["client"]).do, With("client"), "idle">> \in ClientSteps
        /\ Tail(todo["client"]) = ClientList("idle")
    BY <1>9, <2>1 DEF ClientList, ClientSteps, With, Do, DoN
  <2>. QED BY <1>1, <1>9, <2>2 DEF ClientNames
<1>10. CASE c = "remember"
  <2>1. todo["client"] = << Do("remember", "lcd") >>
    BY <1>10 DEF ClientAt, ClientList
  <2>2. /\ <<c, Head(todo["client"]).do, With("client"), "idle">> \in ClientSteps
        /\ Tail(todo["client"]) = ClientList("idle")
    BY <1>10, <2>1 DEF ClientList, ClientSteps, With, Do, DoN
  <2>. QED BY <1>1, <1>10, <2>2 DEF ClientNames
<1>. QED BY <1>1, <1>2, <1>3, <1>4, <1>5, <1>6, <1>7, <1>8, <1>9, <1>10 DEF ClientNames

\* The step of init_app(): a statement, or one of its halves.
LEMMA InitStep ==
  ASSUME NEW k \in 1 .. 13, InitAt(k), todo["init"] # << >>
  PROVE  /\ k \in 1 .. 12
         /\ <<k, init_app[k].do, init_app[k].with>> \in InitSteps
         /\ Head(todo["init"]) \in Halves(init_app[k])
         /\ Tail(todo["init"]) = Rest(k + 1)
         /\ With("init") = init_app[k].with
         /\ \/ Head(todo["init"]).do = init_app[k].do
            \/ init_app[k].do = "register" /\ Head(todo["init"]).do = "replace"
            \/ init_app[k].do = "status" /\ Head(todo["init"]).do = "assign"
<1>1. /\ k \in 1 .. 12 /\ Head(todo["init"]) \in Halves(init_app[k])
      /\ Tail(todo["init"]) = Rest(k + 1)
  BY DEF InitAt
<1>2. <<k, init_app[k].do, init_app[k].with>> \in InitSteps
  <2>. HIDE DEF InitSteps
  <2>. QED BY <1>1, InitTable, Zenon
<1>. QED BY <1>1, <1>2 DEF Halves, With, Do

\* init_app() goes to its next statement, or to the second half of this one.
LEMMA InitMoves ==
  ASSUME NEW k \in 1 .. 12, NEW m, NEW c, Where(k, m, c), DOMAIN todo = Threads
  PROVE  /\ Return("init")
                => /\ Where(k + 1, m, c)'
                   /\ k + 1 <= 12 => Head(todo["init"])'.do # "replace"
         /\ \A x \in Halves(init_app[k]) :
                Then("init", x) => Where(k, m, c)' /\ Head(todo["init"])' = x
<1>1. /\ "init" \in Threads /\ "main" \in Threads /\ "client" \in Threads
      /\ Tail(todo["init"]) = Rest(k + 1)
  BY DEF Threads, Where, InitAt
<1>2. ASSUME Return("init")
      PROVE  /\ Where(k + 1, m, c)'
             /\ k + 1 <= 12 => Head(todo["init"])'.do # "replace"
  <2>1. /\ todo'["init"] = Rest(k + 1) /\ todo'["main"] = todo["main"]
        /\ todo'["client"] = todo["client"]
    BY <1>1, <1>2 DEF Return
  <2>2. CASE k = 12
    <3>1. InitAt(k + 1)'
      BY <2>1, <2>2, RestIs DEF InitAt
    <3>. QED BY <2>1, <2>2, <3>1 DEF Where, ClientAt
  <2>3. CASE k < 12
    <3>1. /\ Rest(k + 1) # << >> /\ Head(Rest(k + 1)) = init_app[k + 1]
          /\ Tail(Rest(k + 1)) = Rest(k + 2)
      BY <2>3, RestIs
    <3>2. k + 1 \in 1 .. 12 /\ k + 1 # 13 /\ (k + 1) + 1 = k + 2
      BY <2>3
    <3>3. InitAt(k + 1)'
      BY <2>1, <3>1, <3>2 DEF InitAt, Halves
    <3>4. <<k + 1, init_app[k + 1].do, init_app[k + 1].with>> \in InitSteps
      <4>. HIDE DEF InitSteps
      <4>. QED BY <3>2, InitTable, Zenon
    <3>5. Head(todo["init"])'.do # "replace"
      BY <2>1, <3>1, <3>4 DEF InitSteps
    <3>. QED BY <2>1, <3>3, <3>5 DEF Where, ClientAt
  <2>. QED BY <2>2, <2>3
<1>3. ASSUME NEW x \in Halves(init_app[k]), Then("init", x)
      PROVE  Where(k, m, c)' /\ Head(todo["init"])' = x
  <2>1. /\ todo'["init"] = << x >> \o Rest(k + 1) /\ todo'["main"] = todo["main"]
        /\ todo'["client"] = todo["client"]
    BY <1>1, <1>3 DEF Then
  <2>2. Rest(k + 1) \in Seq(InitStatements)
    BY RestIs
  <2>3. /\ << x >> \o Rest(k + 1) # << >> /\ Head(<< x >> \o Rest(k + 1)) = x
        /\ Tail(<< x >> \o Rest(k + 1)) = Rest(k + 1)
    BY <2>2, FrontOf
  <2>4. InitAt(k)' /\ Head(todo["init"])' = x
    BY <2>1, <2>3 DEF InitAt
  <2>. QED BY <2>1, <2>4 DEF Where, ClientAt
<1>. QED BY <1>2, <1>3

\* The main thread goes on with another of its lists.
LEMMA MainMoves ==
  ASSUME NEW k, NEW m, NEW c, NEW nx, Where(k, m, c), DOMAIN todo = Threads,
         todo' = [todo EXCEPT !["main"] = MainList(nx)]
  PROVE  Where(k, nx, c)'
<1>1. /\ todo'["init"] = todo["init"] /\ todo'["main"] = MainList(nx)
      /\ todo'["client"] = todo["client"]
  BY DEF Threads
<1>. QED BY <1>1 DEF Where, InitAt, ClientAt

\* The client thread goes on with another of its lists.
LEMMA ClientMoves ==
  ASSUME NEW k, NEW m, NEW c, NEW nx, nx # "progress", Where(k, m, c), DOMAIN todo = Threads,
         todo' = [todo EXCEPT !["client"] = ClientList(nx)]
  PROVE  Where(k, m, nx)'
<1>1. /\ todo'["init"] = todo["init"] /\ todo'["main"] = todo["main"]
      /\ todo'["client"] = ClientList(nx)
  BY DEF Threads
<1>. QED BY <1>1 DEF Where, InitAt, ClientAt

\* Nothing moves.
LEMMA Stays ==
  ASSUME NEW k, NEW m, NEW c, Where(k, m, c), UNCHANGED todo
  PROVE  Where(k, m, c)'
BY DEF Where, InitAt, ClientAt

-----------------------------------------------------------------------------
(* The operators of the model *)

\* The number of refreshes that a page lasts.
LEMMA Pages ==
  /\ Threshold \in Nat \ {0}
  /\ \A n \in 0 .. Threshold : Counted(n) \in 0 .. Threshold
<1>1. Threshold \in Nat \ {0}
  BY DisplayAssumption DEF Threshold
<1>. QED BY <1>1 DEF Counted

\* What was divided is bounded by a multiple of the divisor.
LEMMA QuotientBound ==
  ASSUME NEW d \in Nat \ {0}, NEW a \in Nat
  PROVE  /\ a \div d \in Nat
         /\ a <= 80 * d => a \div d <= 80
         /\ a < 80 * d => a \div d < 80
<1>1. a \div d \in Nat
  OBVIOUS
<1>2. ASSUME a <= 80 * d
      PROVE  a \div d <= 80
  BY <1>2
<1>3. ASSUME a < 80 * d
      PROVE  a \div d < 80
  BY <1>3
<1>. QED BY <1>1, <1>2, <1>3

\* The product fits 32 bits, and the bar is full when everything was downloaded.
LEMMA LinesFit ==
  ASSUME NEW n \in 0 .. Total
  PROVE  lines(n) \in 0 .. 80 /\ (n < Total => lines(n) < 80)
<1>. DEFINE a == n * 80
<1>1. /\ a \in Nat /\ a < Word /\ a <= 80 * Total /\ Total \in Nat \ {0}
      /\ n < Total => a < 80 * Total
  BY DisplayAssumption
<1>2. a % Word = a
  BY <1>1, DisplayAssumption
<1>3. lines(n) = a \div Total
  BY <1>2 DEF lines
<1>. HIDE DEF a
<1>4. /\ a \div Total \in Nat /\ a \div Total <= 80
      /\ a < 80 * Total => a \div Total < 80
  BY <1>1, QuotientBound
<1>. QED BY <1>1, <1>3, <1>4

\* A sensor is added behind the others.
LEMMA Appended ==
  ASSUME Typed, NEW w \in Names, sensors' = Append(sensors, Sensor(w, 0))
  PROVE  /\ sensors' \in Seq(Entries) /\ Len(sensors') = Len(sensors) + 1 /\ sensors' # << >>
         /\ \A i \in 1 .. Len(sensors) : sensors'[i] = sensors[i]
         /\ sensors'[Len(sensors) + 1] = Sensor(w, 0)
         /\ \A s : Registered(s)' <=> Registered(s) \/ s = w
<1>1. sensors \in Seq(Entries) /\ Sensor(w, 0) \in Entries /\ Len(sensors) \in Nat
  BY DEF Typed, Entries, Sensor
<1>2. /\ sensors' \in Seq(Entries) /\ Len(sensors') = Len(sensors) + 1 /\ sensors' # << >>
      /\ \A i \in 1 .. Len(sensors) : sensors'[i] = sensors[i]
      /\ sensors'[Len(sensors) + 1] = Sensor(w, 0)
  BY <1>1
<1>3. Sensor(w, 0).name = w
  BY DEF Sensor
<1>4. ASSUME NEW s
      PROVE  Registered(s)' <=> Registered(s) \/ s = w
  BY <1>1, <1>2, <1>3 DEF Registered
<1>. QED BY <1>2, <1>4

-----------------------------------------------------------------------------
(* The list of sensors *)

\* What a sensor's status may be.
StatusesTyped == \A i \in 1 .. Len(sensors) :
                     sensors[i].status \in Statuses[sensors[i].name] \cup {0}

\* A status is set: the list keeps its sensors, and each has what it was given.
LEMMA StatusSet ==
  ASSUME Typed, NEW k \in 1 .. 13, NEW k2 \in 1 .. 13, Known(k2) = Known(k), Listed(k),
         NEW name \in Names, name \in Known(k), NEW v \in Statuses[name],
         set_sensor_status(name, v), k2 <= 12 => Head(todo["init"])'.do # "replace"
  PROVE  /\ sensors' \in Seq(Entries) /\ Len(sensors') = Len(sensors)
         /\ given' \in [Names -> Nat] /\ StatusesTyped' /\ Listed(k2)'
<1>1. /\ sensors \in Seq(Entries) /\ Len(sensors) \in Nat /\ given \in [Names -> Nat]
      /\ \A i \in 1 .. Len(sensors) : sensors[i] \in Entries
  BY DEF Typed
<1>2. v \in Nat /\ Sensor(name, v) \in Entries
  BY DisplayAssumption DEF Entries, Sensor
<1>3. Registered(name)
  BY DEF Listed
<1>4. /\ sensors' = [i \in 1 .. Len(sensors) |->
                        IF sensors[i].name = name THEN Sensor(name, v) ELSE sensors[i]]
      /\ given' = [given EXCEPT ![name] = v]
  BY <1>3 DEF set_sensor_status
<1>5. /\ sensors' \in [1 .. Len(sensors) -> Entries]
      /\ \A i \in 1 .. Len(sensors) :
             sensors'[i] = IF sensors[i].name = name THEN Sensor(name, v) ELSE sensors[i]
  BY <1>1, <1>2, <1>4
<1>6. sensors' \in Seq(Entries) /\ Len(sensors') = Len(sensors)
  <2>1. sensors' \in UNION {[1 .. n -> Entries] : n \in Nat}
    BY <1>1, <1>5
  <2>2. sensors' \in Seq(Entries)
    BY <2>1, SeqDef
  <2>. QED BY <1>1, <1>5, <2>2
<1>7. given' \in [Names -> Nat]
  BY <1>1, <1>2, <1>4
<1>8. \A i \in 1 .. Len(sensors) :
          /\ sensors'[i].name = sensors[i].name
          /\ sensors'[i].status = IF sensors[i].name = name THEN v ELSE sensors[i].status
  BY <1>5 DEF Sensor
<1>9. StatusesTyped'
  <2>1. \A i \in 1 .. Len(sensors) : sensors[i].status \in Statuses[sensors[i].name] \cup {0}
    BY DEF Typed, TypeOK
  <2>. QED BY <1>6, <1>8, <2>1 DEF StatusesTyped
<1>10. Listed(k2)'
  <2>1. \A s \in Names : Registered(s)' <=> s \in Known(k2)'
    <3>1. Known(k2)' = Known(k2)
      BY DEF Known
    <3>2. \A s \in Names : Registered(s)' <=> Registered(s)
      BY <1>6, <1>8 DEF Registered
    <3>. QED BY <3>1, <3>2 DEF Listed
  <2>2. \A i \in 1 .. Len(sensors)' : sensors'[i].status = given'[sensors'[i].name]
    <3>. SUFFICES ASSUME NEW i \in 1 .. Len(sensors)
                  PROVE  sensors'[i].status = given'[sensors'[i].name]
      BY <1>6
    <3>1. sensors[i].name \in Names /\ sensors[i].status = given[sensors[i].name]
      BY <1>1 DEF Listed, Entries
    <3>. QED BY <1>1, <1>4, <1>8, <3>1
  <2>3. \A s \in Names \ Known(k2) : given'[s] = 0
    BY <1>1, <1>4 DEF Listed
  <2>. QED BY <2>1, <2>2, <2>3 DEF Listed, Known
<1>. QED BY <1>6, <1>7, <1>9, <1>10

\* Nothing happens to the list.
LEMMA ListedKept ==
  ASSUME NEW k \in 1 .. 13, NEW k2 \in 1 .. 13, Known(k2) = Known(k), Listed(k),
         UNCHANGED <<sensors, spare, given>>,
         \/ k2 <= 12 => Head(todo["init"])'.do # "replace"
         \/ k2 = k /\ UNCHANGED todo["init"]
  PROVE  Listed(k2)'
<1>1. \A s \in Names : Registered(s)' <=> s \in Known(k2)'
  BY DEF Listed, Registered, Known
<1>2. init_app[k2]' = init_app[k2]
  BY DEF init_app, network_init, sensors_init, Do
<1>. QED BY <1>1, <1>2 DEF Listed, Known

\* One more sensor, whose status was not set.
LEMMA Grown ==
  ASSUME Typed, NEW k \in 1 .. 12, Listed(k), init_app[k].do = "register",
         sensors' = Append(sensors, Sensor(init_app[k].with, 0)), UNCHANGED given,
         k + 1 <= 12 => Head(todo["init"])'.do # "replace"
  PROVE  /\ sensors' \in Seq(Entries) /\ Len(sensors') = Len(sensors) + 1 /\ sensors' # << >>
         /\ StatusesTyped' /\ Listed(k + 1)'
<1>. DEFINE w == init_app[k].with
<1>1. /\ w \in Names /\ w \notin Known(k) /\ Known(k + 1) = Known(k) \cup {w}
      /\ given[w] = 0
  BY KnownNext DEF Listed
<1>2. /\ sensors' \in Seq(Entries) /\ Len(sensors') = Len(sensors) + 1 /\ sensors' # << >>
      /\ \A i \in 1 .. Len(sensors) : sensors'[i] = sensors[i]
      /\ sensors'[Len(sensors) + 1] = Sensor(w, 0)
      /\ \A s : Registered(s)' <=> Registered(s) \/ s = w
  BY <1>1, Appended
<1>3. Len(sensors) \in Nat /\ Sensor(w, 0).name = w /\ Sensor(w, 0).status = 0
  BY DEF Typed, Sensor
<1>. HIDE DEF w
<1>4. \A i \in 1 .. Len(sensors)' : i \in 1 .. Len(sensors) \/ i = Len(sensors) + 1
  BY <1>2, <1>3
<1>5. StatusesTyped'
  BY <1>2, <1>3, <1>4 DEF Typed, TypeOK, StatusesTyped
<1>6. \A i \in 1 .. Len(sensors)' : sensors'[i].status = given'[sensors'[i].name]
  BY <1>1, <1>2, <1>3, <1>4 DEF Listed
<1>7. \A s \in Names : Registered(s)' <=> s \in Known(k + 1)
  BY <1>1, <1>2 DEF Listed
<1>8. \A s \in Names \ Known(k + 1) : given'[s] = 0
  BY <1>1 DEF Listed
<1>9. Known(k + 1)' = Known(k + 1)
  BY DEF Known
<1>. QED BY <1>2, <1>5, <1>6, <1>7, <1>8, <1>9 DEF Listed

\* Nothing happens to the display and the update.
LEMMA ScreenKept ==
  ASSUME NEW m, NEW c, Staged(m, c), Shown(c), Bar(c),
         UNCHANGED <<view, screen, prog, tick, update>>, sensors # << >> => sensors' # << >>
  PROVE  Staged(m, c)' /\ Shown(c)' /\ Bar(c)'
BY DEF Staged, Shown, Bar, screen, prog

\* Nothing happens but to the list.
LEMMA TypedKept ==
  ASSUME Typed, UNCHANGED <<pages, view, screen, prog, tick, sampling, online, update>>,
         sensors' \in Seq(Entries), spare' \in Seq(Entries), given' \in [Names -> Nat],
         Len(sensors') >= Len(sensors), StatusesTyped', DOMAIN todo' = Threads
  PROVE  Typed' /\ (sensors # << >> => sensors' # << >>)
<1>1. Len(sensors) \in Nat /\ Len(sensors') \in Nat /\ sensors \in Seq(Entries)
  BY DEF Typed
<1>2. sensors # << >> => sensors' # << >>
  BY <1>1, EmptySeq
<1>3. TypeOK'
  BY <1>1, <1>2 DEF Typed, TypeOK, StatusesTyped, pages, screen, Threshold
<1>. QED BY <1>2, <1>3 DEF Typed, pages, screen, prog, Messages, Entries

-----------------------------------------------------------------------------
(* The steps of init_app() *)

\* A status that init_app() sets is that of a sensor it has registered.
LEMMA StatusKnown ==
  ASSUME NEW k \in 1 .. 12, init_app[k].do = "status"
  PROVE  /\ init_app[k].with \in Known(k) /\ init_app[k].with \in Names
         /\ Known(k + 1) = Known(k)
<1>1. <<k, init_app[k].do, init_app[k].with>> \in InitSteps
  <2>. HIDE DEF InitSteps
  <2>. QED BY InitTable, Zenon
<1>2. k \in {1, 2, 3, 4, 5, 6, 7, 8, 9, 10, 11, 12}
  OBVIOUS
<1>3. init_app[k].with \in Known(k)
  BY <1>1, <1>2 DEF InitSteps, Known
<1>. QED BY <1>3, KnownNext

\* The statements of init_app() are neither those of main nor those of the client.
LEMMA InitDoes ==
  ASSUME NEW k \in 1 .. 13, InitAt(k), Statement("init")
  PROVE  /\ todo["init"] # << >>
         /\ \/ Register("init") \/ Replace("init") \/ BeginStatus("init")
            \/ EndStatus("init") \/ Switch("init")
<1>1. todo["init"] # << >>
  BY DEF Statement, Register, Replace, BeginStatus, EndStatus, Set, Switch, SetProgress, Grant,
         Remember, RefreshSensor, RefreshDownload, RefreshInstall, At
<1>2. Head(todo["init"]).do \in {"register", "replace", "status", "assign", "sampling", "online"}
  BY <1>1, InitStep DEF InitSteps
<1>3. ~(\/ Set("init") \/ SetProgress("init") \/ Grant("init") \/ Remember("init")
        \/ RefreshSensor("init") \/ RefreshDownload("init") \/ RefreshInstall("init"))
  BY <1>2 DEF Set, SetProgress, Grant, Remember, RefreshSensor, RefreshDownload, RefreshInstall,
              At
<1>. QED BY <1>1, <1>3 DEF Statement

\* A statement of init_app() preserves the invariant.
LEMMA InitRuns ==
  ASSUME Typed, NEW k \in 1 .. 13, NEW m \in MainNames, NEW c \in ClientNames,
         Where(k, m, c), Asserted(k, m, c), Statement("init")
  PROVE  Inv'
<1>. DEFINE w == init_app[k].with
<1>1. InitAt(k) /\ DOMAIN todo = Threads /\ "init" \in Threads
  BY DEF Where, Typed, Threads
<1>2. /\ todo["init"] # << >>
      /\ \/ Register("init") \/ Replace("init") \/ BeginStatus("init")
         \/ EndStatus("init") \/ Switch("init")
  BY <1>1, InitDoes, Zenon
<1>3. /\ k \in 1 .. 12 /\ k + 1 \in 1 .. 13 /\ With("init") = w
      /\ <<k, init_app[k].do, w>> \in InitSteps
      /\ \/ Head(todo["init"]).do = init_app[k].do
         \/ init_app[k].do = "register" /\ Head(todo["init"]).do = "replace"
         \/ init_app[k].do = "status" /\ Head(todo["init"]).do = "assign"
  <2>. HIDE DEF InitSteps
  <2>1. /\ k \in 1 .. 12
        /\ <<k, init_app[k].do, init_app[k].with>> \in InitSteps
        /\ With("init") = init_app[k].with
        /\ \/ Head(todo["init"]).do = init_app[k].do
           \/ init_app[k].do = "register" /\ Head(todo["init"]).do = "replace"
           \/ init_app[k].do = "status" /\ Head(todo["init"]).do = "assign"
    BY <1>1, <1>2, InitStep, Zenon
  <2>2. k + 1 \in 1 .. 13
    BY <2>1
  <2>. QED BY <2>1, <2>2
<1>4. Return("init") => /\ Where(k + 1, m, c)' /\ DOMAIN todo' = Threads
                        /\ k + 1 <= 12 => Head(todo["init"])'.do # "replace"
  BY <1>1, <1>3, InitMoves DEF Return
<1>5. \A x \in Halves(init_app[k]) :
         Then("init", x) => /\ Where(k, m, c)' /\ Head(todo["init"])' = x
                            /\ DOMAIN todo' = Threads
  BY <1>1, <1>3, InitMoves DEF Then
<1>6. /\ sensors \in Seq(Entries) /\ spare \in Seq(Entries) /\ given \in [Names -> Nat]
      /\ Len(sensors) \in Nat /\ StatusesTyped
  BY DEF Typed, TypeOK, StatusesTyped
<1>7. Listed(k) /\ Starting(k, m, c) /\ Staged(m, c) /\ Shown(c) /\ Bar(c)
  BY DEF Asserted
<1>8. UNCHANGED <<sampling, online, update>> => Starting(k, m, c)' /\ Starting(k + 1, m, c)'
  BY <1>3, <1>7 DEF Starting
<1>. HIDE DEF w
<1>9. CASE Register("init")
  <2>1. /\ init_app[k].do = "register" /\ w \in Names
        /\ UNCHANGED <<given, pages, view, screen, prog, tick, sampling, online, update>>
    BY <1>3, <1>9, KnownNext DEF Register, At, InitSteps, flow, w
  <2>2. CASE Len(sensors) \in {0, 1, 2, 4}
    <3>1. /\ spare' = Append(sensors, Sensor(w, 0)) /\ UNCHANGED sensors
          /\ Then("init", Do("replace", w))
      BY <1>3, <1>9, <2>2 DEF Register
    <3>2. Do("replace", w) \in Halves(init_app[k])
      BY <2>1 DEF Halves, w
    <3>3. Where(k, m, c)' /\ DOMAIN todo' = Threads
      BY <1>5, <3>1, <3>2
    <3>4. spare' \in Seq(Entries) /\ StatusesTyped' /\ Len(sensors') >= Len(sensors)
      BY <1>6, <2>1, <3>1 DEF Entries, Sensor, StatusesTyped
    <3>5. Typed' /\ (sensors # << >> => sensors' # << >>)
      BY <1>6, <2>1, <3>1, <3>3, <3>4, TypedKept
    <3>6. Staged(m, c)' /\ Shown(c)' /\ Bar(c)'
      BY <1>7, <2>1, <3>5, ScreenKept
    <3>7. Listed(k)'
      <4>1. \A s \in Names : Registered(s)' <=> s \in Known(k)'
        BY <1>7, <3>1 DEF Listed, Registered, Known
      <4>2. (spare = Append(sensors, Sensor(init_app[k].with, 0)))'
        <5>1. init_app[k]' = init_app[k]
          BY DEF init_app, network_init, sensors_init, Do
        <5>. QED BY <3>1, <5>1 DEF w
      <4>3. Known(k)' = Known(k)
        BY DEF Known
      <4>4. \A i \in 1 .. Len(sensors)' : sensors'[i].status = given'[sensors'[i].name]
        BY <1>7, <2>1, <3>1 DEF Listed
      <4>5. \A s \in Names \ Known(k)' : given'[s] = 0
        BY <1>7, <2>1, <4>3 DEF Listed
      <4>. QED BY <4>1, <4>2, <4>4, <4>5 DEF Listed
    <3>8. Asserted(k, m, c)'
      BY <1>8, <2>1, <3>6, <3>7 DEF Asserted
    <3>. QED BY <3>3, <3>5, <3>8 DEF Inv
  <2>3. CASE Len(sensors) \notin {0, 1, 2, 4}
    <3>1. sensors' = Append(sensors, Sensor(w, 0)) /\ UNCHANGED spare /\ Return("init")
      BY <1>3, <1>9, <2>3 DEF Register
    <3>2. /\ sensors' \in Seq(Entries) /\ Len(sensors') = Len(sensors) + 1
          /\ StatusesTyped' /\ Listed(k + 1)'
      BY <1>3, <1>4, <1>7, <2>1, <3>1, Grown DEF w
    <3>3. Typed' /\ (sensors # << >> => sensors' # << >>)
      BY <1>4, <1>6, <2>1, <3>1, <3>2, TypedKept
    <3>4. Staged(m, c)' /\ Shown(c)' /\ Bar(c)'
      BY <1>7, <2>1, <3>3, ScreenKept
    <3>5. Asserted(k + 1, m, c)'
      BY <1>8, <2>1, <3>2, <3>4 DEF Asserted
    <3>. QED BY <1>3, <1>4, <3>1, <3>3, <3>5 DEF Inv
  <2>. QED BY <2>2, <2>3
<1>10. CASE Replace("init")
  <2>1. /\ init_app[k].do = "register" /\ Head(todo["init"]).do = "replace"
        /\ sensors' = spare /\ spare' = << >> /\ Return("init")
        /\ UNCHANGED <<given, pages, view, screen, prog, tick, sampling, online, update>>
    BY <1>3, <1>10 DEF Replace, At, InitSteps, flow
  <2>2. sensors' = Append(sensors, Sensor(init_app[k].with, 0))
    BY <1>3, <1>7, <2>1 DEF Listed
  <2>3. /\ sensors' \in Seq(Entries) /\ Len(sensors') = Len(sensors) + 1
        /\ StatusesTyped' /\ Listed(k + 1)' /\ spare' \in Seq(Entries)
    <3>1. spare' \in Seq(Entries)
      BY <2>1, EmptySeq
    <3>. QED BY <1>3, <1>4, <1>7, <2>1, <2>2, <3>1, Grown
  <2>4. Typed' /\ (sensors # << >> => sensors' # << >>)
    BY <1>4, <1>6, <2>1, <2>3, TypedKept
  <2>5. Staged(m, c)' /\ Shown(c)' /\ Bar(c)'
    BY <1>7, <2>1, <2>4, ScreenKept
  <2>6. Asserted(k + 1, m, c)'
    BY <1>8, <2>1, <2>3, <2>5 DEF Asserted
  <2>. QED BY <1>3, <1>4, <2>1, <2>4, <2>6 DEF Inv
<1>11. CASE BeginStatus("init")
  <2>1. /\ init_app[k].do = "status" /\ Then("init", Do("assign", w))
        /\ UNCHANGED <<sensors, spare, given>>
        /\ UNCHANGED <<pages, view, screen, prog, tick, sampling, online, update>>
    BY <1>3, <1>11 DEF BeginStatus, At, InitSteps, flow
  <2>2. Do("assign", w) \in Halves(init_app[k])
    BY <2>1 DEF Halves, w
  <2>3. Where(k, m, c)' /\ DOMAIN todo' = Threads /\ Head(todo["init"])'.do # "replace"
    BY <1>5, <2>1, <2>2 DEF Do
  <2>4. StatusesTyped' /\ Len(sensors') >= Len(sensors)
    BY <1>6, <2>1 DEF StatusesTyped
  <2>5. Typed' /\ (sensors # << >> => sensors' # << >>)
    BY <1>6, <2>1, <2>3, <2>4, TypedKept
  <2>6. Staged(m, c)' /\ Shown(c)' /\ Bar(c)'
    BY <1>7, <2>1, <2>5, ScreenKept
  <2>7. Listed(k)'
    BY <1>7, <2>1, <2>3, ListedKept
  <2>8. Asserted(k, m, c)'
    BY <1>8, <2>1, <2>6, <2>7 DEF Asserted
  <2>. QED BY <2>3, <2>5, <2>8 DEF Inv
<1>12. CASE EndStatus("init")
  <2>1. /\ init_app[k].do = "status" /\ Return("init") /\ UNCHANGED spare
        /\ \E v \in Statuses[w] : set_sensor_status(w, v)
        /\ UNCHANGED <<pages, view, screen, prog, tick, sampling, online, update>>
    BY <1>3, <1>12 DEF EndStatus, At, InitSteps, flow
  <2>2. PICK v \in Statuses[w] : set_sensor_status(w, v)
    BY <2>1
  <2>3. w \in Known(k) /\ w \in Names /\ Known(k + 1) = Known(k)
    BY SMTT(30), <1>3, <2>1, StatusKnown DEF w
  <2>4. /\ sensors' \in Seq(Entries) /\ Len(sensors') = Len(sensors)
        /\ given' \in [Names -> Nat] /\ StatusesTyped' /\ Listed(k + 1)'
    BY <1>3, <1>4, <1>7, <2>1, <2>2, <2>3, StatusSet
  <2>5. Typed' /\ (sensors # << >> => sensors' # << >>)
    BY <1>4, <1>6, <2>1, <2>4, TypedKept
  <2>6. Staged(m, c)' /\ Shown(c)' /\ Bar(c)'
    BY <1>7, <2>1, <2>5, ScreenKept
  <2>7. Asserted(k + 1, m, c)'
    BY <1>8, <2>1, <2>4, <2>6 DEF Asserted
  <2>. QED BY <1>3, <1>4, <2>1, <2>5, <2>7 DEF Inv
<1>13. CASE Switch("init")
  <2>1. /\ \/ k = 11 /\ w = "on" /\ sampling' = TRUE /\ UNCHANGED online
           \/ k = 12 /\ online' = TRUE /\ UNCHANGED sampling
        /\ Return("init") /\ UNCHANGED <<sensors, spare, given, update>>
        /\ UNCHANGED <<pages, view, screen, prog, tick>>
    BY <1>3, <1>13 DEF Switch, At, InitSteps, list
  <2>2. Known(k + 1) = Known(k)
    BY <2>1 DEF Known
  <2>3. Typed'
    <3>1. sampling' \in BOOLEAN /\ online' \in BOOLEAN
      BY <2>1 DEF Typed, TypeOK
    <3>2. TypeOK'
      BY <2>1, <3>1 DEF Typed, TypeOK, pages, screen, Threshold
    <3>. QED BY <1>3, <1>4, <2>1, <3>2 DEF Typed, pages, screen, prog, Messages, Entries
  <2>4. Staged(m, c)' /\ Shown(c)' /\ Bar(c)'
    BY <1>7, <2>1, ScreenKept
  <2>5. Listed(k + 1)'
    BY <1>3, <1>4, <1>7, <2>1, <2>2, ListedKept
  <2>6. Starting(k + 1, m, c)'
    BY <1>7, <2>1 DEF Starting
  <2>7. Asserted(k + 1, m, c)'
    BY <2>4, <2>5, <2>6 DEF Asserted
  <2>. QED BY <1>3, <1>4, <2>1, <2>3, <2>7 DEF Inv
<1>. QED BY <1>2, <1>9, <1>10, <1>11, <1>12, <1>13

-----------------------------------------------------------------------------
(* The steps of the main thread *)

\* Nothing happens to the list, and all else has its type.
LEMMA TypedElse ==
  ASSUME Typed, UNCHANGED list, DOMAIN todo' = Threads,
         active' \in Nat, sensors # << >> => active' < Len(sensors),
         sensors = << >> => active' = 0, count' \in 0 .. Threshold,
         view' \in {"sensor", "download", "install"}, home' \in BOOLEAN, tick' \in BOOLEAN,
         sampling' \in BOOLEAN, online' \in BOOLEAN,
         update' \in {"none", "asked", "granting", "loading", "loaded", "ready", "installing"},
         lcd' = <<lcd'[1], lcd'[2]>>,
         buffer' \in {Nothing} \cup Messages, previous' \in {Nothing} \cup Messages
  PROVE  Typed'
<1>1. TypeOK'
  BY DEF Typed, TypeOK, list, Threshold
<1>2. Nothing' = Nothing /\ Messages' = Messages /\ Entries' = Entries
  BY DEF Nothing, Messages, Entries, Blank, Line
<1>. QED BY <1>1, <1>2 DEF Typed, list

\* The types of the variables that a step may leave alone.
LEMMA TypesOf ==
  ASSUME Typed
  PROVE  /\ active \in Nat /\ (sensors # << >> => active < Len(sensors))
         /\ (sensors = << >> => active = 0) /\ count \in 0 .. Threshold
         /\ view \in {"sensor", "download", "install"} /\ home \in BOOLEAN /\ tick \in BOOLEAN
         /\ sampling \in BOOLEAN /\ online \in BOOLEAN
         /\ update \in {"none", "asked", "granting", "loading", "loaded", "ready", "installing"}
         /\ lcd = <<lcd[1], lcd[2]>>
         /\ buffer \in {Nothing} \cup Messages /\ previous \in {Nothing} \cup Messages
         /\ DOMAIN todo = Threads
BY DEF Typed, TypeOK

\* The thread of init_app() and its list stay where they are.
LEMMA ListStays ==
  ASSUME NEW k \in 1 .. 13, Listed(k), UNCHANGED list, UNCHANGED todo["init"]
  PROVE  Listed(k)'
<1>1. UNCHANGED <<sensors, spare, given>>
  BY DEF list
<1>. QED BY <1>1, ListedKept

\* The statements of main are not those of the other threads.
LEMMA MainDoes ==
  ASSUME NEW m \in MainNames, todo["main"] = MainList(m), Statement("main")
  PROVE  /\ todo["main"] # << >>
         /\ \/ Set("main") \/ Grant("main") \/ Remember("main") \/ RefreshSensor("main")
            \/ RefreshDownload("main") \/ RefreshInstall("main")
<1>1. todo["main"] # << >>
  BY DEF Statement, Register, Replace, BeginStatus, EndStatus, Set, Switch, SetProgress, Grant,
         Remember, RefreshSensor, RefreshDownload, RefreshInstall, At
<1>2. Head(todo["main"]).do \in {"refresh", "remember", "grant", "set"}
  BY <1>1, MainStep DEF MainSteps
<1>3. ~(\/ Register("main") \/ Replace("main") \/ BeginStatus("main") \/ EndStatus("main")
        \/ Switch("main") \/ SetProgress("main"))
  BY <1>2 DEF Register, Replace, BeginStatus, EndStatus, Switch, SetProgress, At
<1>. QED BY <1>1, <1>3 DEF Statement

\* A statement of main preserves the invariant.
LEMMA MainRuns ==
  ASSUME Typed, NEW k \in 1 .. 13, NEW m \in MainNames, NEW c \in ClientNames,
         Where(k, m, c), Asserted(k, m, c), Statement("main")
  PROVE  Inv'
<1>1. todo["main"] = MainList(m) /\ DOMAIN todo = Threads
  BY DEF Where, Typed
<1>2. /\ todo["main"] # << >>
      /\ \/ Set("main") \/ Grant("main") \/ Remember("main") \/ RefreshSensor("main")
         \/ RefreshDownload("main") \/ RefreshInstall("main")
  BY <1>1, MainDoes, Zenon
<1>3. PICK nx \in MainNames : /\ <<m, Head(todo["main"]).do, With("main"), nx>> \in MainSteps
                              /\ Tail(todo["main"]) = MainList(nx)
  <2>. HIDE DEF MainSteps
  <2>. QED BY <1>1, <1>2, MainStep, Zenon
<1>4. Return("main") => Where(k, nx, c)' /\ DOMAIN todo' = Threads /\ UNCHANGED todo["init"]
  <2>. SUFFICES ASSUME Return("main")
                PROVE  Where(k, nx, c)' /\ DOMAIN todo' = Threads /\ UNCHANGED todo["init"]
    OBVIOUS
  <2>1. todo' = [todo EXCEPT !["main"] = MainList(nx)]
    BY <1>3 DEF Return
  <2>2. Where(k, nx, c)'
    BY <1>1, <2>1, MainMoves
  <2>. QED BY <1>1, <2>1, <2>2 DEF Threads
<1>5. /\ active \in Nat /\ (sensors # << >> => active < Len(sensors))
      /\ (sensors = << >> => active = 0) /\ count \in 0 .. Threshold
      /\ view \in {"sensor", "download", "install"} /\ home \in BOOLEAN /\ tick \in BOOLEAN
      /\ sampling \in BOOLEAN /\ online \in BOOLEAN
      /\ update \in {"none", "asked", "granting", "loading", "loaded", "ready", "installing"}
      /\ lcd = <<lcd[1], lcd[2]>>
      /\ buffer \in {Nothing} \cup Messages /\ previous \in {Nothing} \cup Messages
  BY TypesOf
<1>6. Listed(k) /\ Starting(k, m, c) /\ Staged(m, c) /\ Shown(c) /\ Bar(c)
  BY DEF Asserted
<1>7. \A n \in 0 .. Threshold : Counted(n) \in 0 .. Threshold
  BY Pages
<1>8. CASE Set("main")
  <2>1. /\ m \in {"light", "dht", "humidity", "label"} /\ nx \in {"idle", "humidity"}
        /\ With("main") \in Names /\ Return("main") /\ UNCHANGED spare
        /\ \E v \in Statuses[With("main")] : set_sensor_status(With("main"), v)
        /\ UNCHANGED <<pages, view, screen, prog, tick, sampling, online, update>>
    BY <1>3, <1>8 DEF Set, At, MainSteps, Names, flow
  <2>2. PICK v \in Statuses[With("main")] : set_sensor_status(With("main"), v)
    BY <2>1
  <2>3. k \in 11 .. 13 /\ Known(k) = Names
    BY <1>6, <2>1 DEF Starting, Known
  <2>4. k <= 12 => Head(todo["init"])'.do # "replace"
    <3>. SUFFICES ASSUME k <= 12 PROVE Head(todo["init"])'.do # "replace"
      OBVIOUS
    <3>1. k \in 1 .. 12 /\ InitAt(k) /\ todo["init"] # << >>
      BY DEF Where, InitAt
    <3>2. /\ <<k, init_app[k].do, init_app[k].with>> \in InitSteps
          /\ Head(todo["init"]) \in Halves(init_app[k])
      <4>. HIDE DEF InitSteps
      <4>. QED BY <3>1, InitStep, Zenon
    <3>. QED BY <1>4, <2>1, <2>3, <3>2 DEF InitSteps, Halves, Do
  <2>5. /\ sensors' \in Seq(Entries) /\ Len(sensors') = Len(sensors)
        /\ given' \in [Names -> Nat] /\ StatusesTyped' /\ Listed(k)'
    BY <1>6, <2>1, <2>2, <2>3, <2>4, StatusSet
  <2>6. Typed' /\ (sensors # << >> => sensors' # << >>)
    <3>1. spare' \in Seq(Entries) /\ Len(sensors') >= Len(sensors)
      BY <2>1, <2>5 DEF Typed
    <3>. QED BY <1>4, <2>1, <2>5, <3>1, TypedKept
  <2>7. Staged(m, c)' /\ Shown(c)' /\ Bar(c)'
    BY <1>6, <2>1, <2>6, ScreenKept
  <2>8. Staged(nx, c)' /\ Starting(k, nx, c)'
    BY <1>6, <2>1, <2>3, <2>7 DEF Staged, Starting
  <2>9. Asserted(k, nx, c)'
    BY <2>5, <2>7, <2>8 DEF Asserted
  <2>. QED BY <1>4, <2>1, <2>6, <2>9 DEF Inv
<1>9. CASE Grant("main")
  <2>1. /\ m = "grant" /\ nx = "idle" /\ Return("main") /\ update' = "loading"
        /\ UNCHANGED list
        /\ UNCHANGED <<active, count, view, lcd, home, buffer, previous, tick, sampling, online>>
    BY <1>3, <1>9 DEF Grant, At, MainSteps, pages, screen, prog
  <2>2. Typed'
    BY <1>4, <1>5, <2>1, TypedElse
  <2>3. Listed(k)'
    BY <1>4, <1>6, <2>1, ListStays
  <2>4. Starting(k, nx, c)' /\ Staged(nx, c)' /\ Shown(c)' /\ Bar(c)'
    BY <1>6, <2>1 DEF Starting, Staged, Shown, Bar, list
  <2>5. Asserted(k, nx, c)'
    BY <2>3, <2>4 DEF Asserted
  <2>. QED BY <1>4, <2>1, <2>2, <2>5 DEF Inv
<1>10. CASE Remember("main")
  <2>1. /\ m = "remember" /\ nx = "grant" /\ Return("main") /\ previous' = buffer
        /\ UNCHANGED list
        /\ UNCHANGED <<active, count, view, lcd, home, buffer, tick, sampling, online, update>>
    BY <1>3, <1>10 DEF Remember, At, MainSteps, pages, screen, flow
  <2>2. Typed'
    BY <1>4, <1>5, <2>1, TypedElse
  <2>3. Listed(k)'
    BY <1>4, <1>6, <2>1, ListStays
  <2>4. Starting(k, nx, c)' /\ Staged(nx, c)' /\ Shown(c)' /\ Bar(c)'
    BY <1>6, <2>1 DEF Starting, Staged, Shown, Bar, list
  <2>5. Asserted(k, nx, c)'
    BY <2>3, <2>4 DEF Asserted
  <2>. QED BY <1>4, <2>1, <2>2, <2>5 DEF Inv
<1>11. CASE RefreshInstall("main")
  <2>1. /\ m = "refresh" /\ nx = "idle" /\ Return("main") /\ count' = Counted(count)
        /\ UNCHANGED list
        /\ UNCHANGED <<active, view, lcd, home, buffer, previous, tick, sampling, online, update>>
    BY <1>3, <1>6, <1>11 DEF RefreshInstall, At, MainSteps, screen, prog, flow, Staged
  <2>2. Typed'
    BY <1>4, <1>5, <1>7, <2>1, TypedElse
  <2>3. Listed(k)'
    BY <1>4, <1>6, <2>1, ListStays
  <2>4. Starting(k, nx, c)' /\ Staged(nx, c)' /\ Shown(c)' /\ Bar(c)'
    BY <1>6, <2>1 DEF Starting, Staged, Shown, Bar, list
  <2>5. Asserted(k, nx, c)'
    BY <2>3, <2>4 DEF Asserted
  <2>. QED BY <1>4, <2>1, <2>2, <2>5 DEF Inv
<1>12. CASE RefreshDownload("main")
  <2>1. /\ m = "authorize" /\ nx = "grant" /\ count' = Counted(count) /\ RefreshProgress
        /\ Then("main", Do("remember", "lcd")) /\ view = "download"
        /\ UNCHANGED list
        /\ UNCHANGED <<active, view, buffer, previous, tick, sampling, online, update>>
    BY <1>3, <1>6, <1>12 DEF RefreshDownload, At, MainSteps, prog, flow, Staged
  <2>2. update = "granting" /\ c \notin {"progress", "last", "saving", "refresh", "remember"}
    BY <1>6, <2>1 DEF Staged
  <2>3. UNCHANGED <<lcd, home>>
    BY <1>6, <2>1, <2>2 DEF RefreshProgress, Shown, screen
  <2>4. /\ Where(k, "remember", c)' /\ DOMAIN todo' = Threads /\ UNCHANGED todo["init"]
    <3>1. << Do("remember", "lcd") >> \o << Do("grant", "download") >>
             = << Do("remember", "lcd"), Do("grant", "download") >>
      BY Concat1And1
    <3>2. /\ MainList("grant") = << Do("grant", "download") >>
          /\ MainList("remember") = << Do("remember", "lcd"), Do("grant", "download") >>
      BY DEF MainList
    <3>3. todo' = [todo EXCEPT !["main"] = MainList("remember")]
      BY <1>3, <2>1, <3>1, <3>2 DEF Then
    <3>4. Where(k, "remember", c)'
      BY <1>1, <3>3, MainMoves
    <3>. QED BY <1>1, <3>3, <3>4 DEF Threads
  <2>5. Typed'
    BY <1>5, <1>7, <2>1, <2>3, <2>4, TypedElse
  <2>6. Listed(k)'
    BY <1>6, <2>1, <2>4, ListStays
  <2>7. Starting(k, "remember", c)' /\ Staged("remember", c)' /\ Shown(c)' /\ Bar(c)'
    BY <1>6, <2>1, <2>2, <2>3 DEF Starting, Staged, Shown, Bar, list
  <2>8. Asserted(k, "remember", c)' /\ "remember" \in MainNames
    BY <2>6, <2>7 DEF Asserted, MainNames
  <2>. QED BY <2>4, <2>5, <2>8 DEF Inv
<1>13. CASE RefreshSensor("main")
  <2>1. /\ m = "refresh" /\ nx = "idle" /\ Return("main") /\ view = "sensor"
        /\ UNCHANGED list
        /\ UNCHANGED <<view, buffer, previous, tick, sampling, online, update>>
    BY <1>3, <1>6, <1>13 DEF RefreshSensor, At, MainSteps, prog, flow, Staged
  <2>2. /\ count' \in 0 .. Threshold /\ lcd' = <<lcd'[1], lcd'[2]>> /\ home' \in BOOLEAN
        /\ active' \in Nat /\ (sensors # << >> => active' < Len(sensors))
        /\ (sensors = << >> => active' = 0)
        /\ Shown(c)'
    <3>1. CASE count < Threshold
      <4>1. UNCHANGED <<active, lcd, home>> /\ count' = Counted(count)
        BY <1>5, <1>13, <3>1, Pages DEF RefreshSensor, screen
      <4>. QED BY <1>5, <1>6, <1>7, <2>1, <4>1 DEF Shown, list
    <3>2. CASE count >= Threshold /\ sensors = << >>
      <4>1. /\ lcd' = [lcd EXCEPT ![1] = Version] /\ home' = FALSE /\ UNCHANGED active
            /\ count' = Counted(0)
        BY <1>13, <3>2 DEF RefreshSensor, cycle_status
      <4>2. lcd' = <<Version, lcd[2]>>
        BY <1>5, <4>1
      <4>3. count' \in 0 .. Threshold
        BY <1>7, <4>1, Pages
      <4>4. lcd[2] = Blank /\ update = "none" /\ buffer = Nothing /\ previous = Nothing
        BY <1>6, <2>1, <3>2 DEF Shown
      <4>5. /\ lcd'[2] = lcd[2] /\ lcd' = <<lcd'[1], lcd'[2]>>
            /\ Blank' = Blank /\ Nothing' = Nothing
        BY <4>2 DEF Nothing, Blank, Line
      <4>6. Shown(c)'
        BY <2>1, <4>4, <4>5 DEF Shown
      <4>. QED BY <1>5, <3>2, <4>1, <4>3, <4>5, <4>6
    <3>3. CASE count >= Threshold /\ sensors # << >>
      <4>1. PICK page \in {Line(sensors[active + 1].name, sensors[active + 1].status)}
                          \cup {x \in {Line("garbage", 0)} : Raced(sensors[active + 1].name)} :
                 lcd' = <<Version, page>>
        BY <1>13, <3>3 DEF RefreshSensor, cycle_status
      <4>2. /\ home' = TRUE /\ active' = (active + 1) % Len(sensors) /\ count' = Counted(0)
        BY <1>13, <3>3 DEF RefreshSensor, cycle_status
      <4>3. /\ Len(sensors) \in Nat \ {0} /\ active + 1 \in 1 .. Len(sensors)
            /\ sensors[active + 1].name \in Names
        <5>1. sensors \in Seq(Entries) /\ Len(sensors) \in Nat /\ active < Len(sensors)
          BY <1>5, <3>3 DEF Typed
        <5>2. Len(sensors) \in Nat \ {0} /\ active + 1 \in 1 .. Len(sensors)
          BY <1>5, <5>1
        <5>3. sensors[active + 1] \in Entries
          BY <5>1, <5>2
        <5>. QED BY <5>2, <5>3 DEF Entries
      <4>4. active' \in Nat /\ active' < Len(sensors)
        BY <1>5, <4>2, <4>3
      <4>5. page # Blank
        BY <4>1, <4>3 DEF Blank, Line, Names
      <4>6. count' \in 0 .. Threshold
        BY <1>7, <4>2, Pages
      <4>7. UNCHANGED sensors
        BY <2>1 DEF list
      <4>. QED BY <1>5, <1>6, <2>1, <3>3, <4>1, <4>2, <4>4, <4>5, <4>6, <4>7 DEF Shown
    <3>. QED BY <1>5, <3>1, <3>2, <3>3, Pages
  <2>3. Typed'
    BY <1>4, <1>5, <2>1, <2>2, TypedElse
  <2>4. Listed(k)'
    BY <1>4, <1>6, <2>1, ListStays
  <2>5. Starting(k, nx, c)' /\ Staged(nx, c)' /\ Bar(c)'
    BY <1>6, <2>1 DEF Starting, Staged, Bar
  <2>6. Asserted(k, nx, c)'
    BY <2>2, <2>4, <2>5 DEF Asserted
  <2>. QED BY <1>4, <2>1, <2>3, <2>6 DEF Inv
<1>. QED BY <1>2, <1>8, <1>9, <1>10, <1>11, <1>12, <1>13

-----------------------------------------------------------------------------
(* The steps of the client thread *)

\* The statements of the client thread are not those of the others.
LEMMA ClientDoes ==
  ASSUME NEW c \in ClientNames, ClientAt(c), Statement("client")
  PROVE  /\ todo["client"] # << >>
         /\ \/ BeginStatus("client") \/ EndStatus("client") \/ Switch("client")
            \/ SetProgress("client") \/ Remember("client") \/ RefreshSensor("client")
            \/ RefreshDownload("client") \/ RefreshInstall("client")
<1>1. todo["client"] # << >>
  BY DEF Statement, Register, Replace, BeginStatus, EndStatus, Set, Switch, SetProgress, Grant,
         Remember, RefreshSensor, RefreshDownload, RefreshInstall, At
<1>2. Head(todo["client"]).do \in {"sampling", "status", "assign", "progress", "saving",
                                   "refresh", "remember"}
  BY <1>1, ClientStep DEF ClientSteps
<1>3. ~(Register("client") \/ Replace("client") \/ Set("client") \/ Grant("client"))
  BY <1>2 DEF Register, Replace, Set, Grant, At
<1>. QED BY <1>1, <1>3 DEF Statement

\* A statement of the client thread preserves the invariant.
LEMMA ClientRuns ==
  ASSUME Typed, NEW k \in 1 .. 13, NEW m \in MainNames, NEW c \in ClientNames,
         Where(k, m, c), Asserted(k, m, c), Statement("client")
  PROVE  Inv'
<1>1. ClientAt(c) /\ DOMAIN todo = Threads
  BY DEF Where, Typed
<1>2. /\ todo["client"] # << >>
      /\ \/ BeginStatus("client") \/ EndStatus("client") \/ Switch("client")
         \/ SetProgress("client") \/ Remember("client") \/ RefreshSensor("client")
         \/ RefreshDownload("client") \/ RefreshInstall("client")
  BY <1>1, ClientDoes, Zenon
<1>3. PICK nx \in ClientNames \ {"progress"} :
         /\ <<c, Head(todo["client"]).do, With("client"), nx>> \in ClientSteps
         /\ Tail(todo["client"]) = ClientList(nx)
  <2>. HIDE DEF ClientSteps
  <2>. QED BY <1>1, <1>2, ClientStep, Zenon
<1>4. \A c2 \in ClientNames \ {"progress"} :
         todo' = [todo EXCEPT !["client"] = ClientList(c2)] =>
             Where(k, m, c2)' /\ DOMAIN todo' = Threads /\ UNCHANGED todo["init"]
  BY <1>1, ClientMoves DEF Threads
<1>5. Return("client") =>
         Where(k, m, nx)' /\ DOMAIN todo' = Threads /\ UNCHANGED todo["init"]
  BY <1>3, <1>4 DEF Return
<1>6. /\ active \in Nat /\ (sensors # << >> => active < Len(sensors))
      /\ (sensors = << >> => active = 0) /\ count \in 0 .. Threshold
      /\ view \in {"sensor", "download", "install"} /\ home \in BOOLEAN /\ tick \in BOOLEAN
      /\ sampling \in BOOLEAN /\ online \in BOOLEAN
      /\ update \in {"none", "asked", "granting", "loading", "loaded", "ready", "installing"}
      /\ lcd = <<lcd[1], lcd[2]>>
      /\ buffer \in {Nothing} \cup Messages /\ previous \in {Nothing} \cup Messages
  BY TypesOf
<1>7. Listed(k) /\ Starting(k, m, c) /\ Staged(m, c) /\ Shown(c) /\ Bar(c)
  BY DEF Asserted
<1>8. c # "idle" /\ online /\ k = 13 /\ Known(k) = Names
  <2>1. c # "idle"
    BY <1>1, <1>2 DEF ClientAt, ClientList
  <2>. QED BY <1>7, <2>1 DEF Starting, Known
<1>9. CASE BeginStatus("client")
  <2>1. /\ c = "connected" /\ nx = "restart" /\ With("client") = "WiFi"
        /\ Then("client", Do("assign", "WiFi"))
        /\ UNCHANGED <<sensors, spare, given>>
        /\ UNCHANGED <<pages, view, screen, prog, tick, sampling, online, update>>
    BY <1>3, <1>9 DEF BeginStatus, At, ClientSteps, flow
  <2>2. /\ Where(k, m, "assign")' /\ DOMAIN todo' = Threads /\ UNCHANGED todo["init"]
    <3>1. << Do("assign", "WiFi") >> \o << Do("sampling", "on") >>
             = << Do("assign", "WiFi"), Do("sampling", "on") >>
      BY Concat1And1
    <3>2. /\ ClientList("restart") = << Do("sampling", "on") >>
          /\ ClientList("assign") = << Do("assign", "WiFi"), Do("sampling", "on") >>
      BY DEF ClientList
    <3>3. todo' = [todo EXCEPT !["client"] = ClientList("assign")]
      BY <1>3, <2>1, <3>1, <3>2 DEF Then
    <3>. QED BY <1>4, <3>3 DEF ClientNames
  <2>3. /\ sensors' \in Seq(Entries) /\ spare' \in Seq(Entries) /\ given' \in [Names -> Nat]
        /\ Len(sensors') >= Len(sensors) /\ StatusesTyped'
    BY <2>1 DEF Typed, TypeOK, StatusesTyped
  <2>4. Typed' /\ (sensors # << >> => sensors' # << >>)
    BY <2>1, <2>2, <2>3, TypedKept
  <2>5. Listed(k)'
    BY <1>7, <2>1, <2>2, ListedKept
  <2>6. Staged(m, c)' /\ Shown(c)' /\ Bar(c)'
    BY <1>7, <2>1, <2>4, ScreenKept
  <2>7. Starting(k, m, "assign")' /\ Staged(m, "assign")' /\ Shown("assign")' /\ Bar("assign")'
    BY <1>7, <1>8, <2>1, <2>6 DEF Starting, Staged, Shown, Bar
  <2>8. Asserted(k, m, "assign")' /\ "assign" \in ClientNames
    BY <2>5, <2>7 DEF Asserted, ClientNames
  <2>. QED BY <2>2, <2>4, <2>8 DEF Inv
<1>10. CASE EndStatus("client")
  <2>1. /\ c = "assign" /\ nx = "restart" /\ With("client") = "WiFi"
        /\ Return("client") /\ UNCHANGED spare
        /\ \E v \in Statuses["WiFi"] : set_sensor_status("WiFi", v)
        /\ UNCHANGED <<pages, view, screen, prog, tick, sampling, online, update>>
    BY <1>3, <1>10 DEF EndStatus, At, ClientSteps, flow
  <2>2. PICK v \in Statuses["WiFi"] : set_sensor_status("WiFi", v)
    BY <2>1
  <2>3. /\ sensors' \in Seq(Entries) /\ Len(sensors') = Len(sensors)
        /\ given' \in [Names -> Nat] /\ StatusesTyped' /\ Listed(k)'
    <3>1. "WiFi" \in Names /\ ~(k <= 12)
      BY <1>8 DEF Names
    <3>. QED BY <1>7, <1>8, <2>2, <3>1, StatusSet
  <2>4. Typed' /\ (sensors # << >> => sensors' # << >>)
    <3>1. spare' \in Seq(Entries) /\ Len(sensors') >= Len(sensors)
      BY <2>1, <2>3 DEF Typed
    <3>. QED BY <1>5, <2>1, <2>3, <3>1, TypedKept
  <2>5. Staged(m, c)' /\ Shown(c)' /\ Bar(c)'
    BY <1>7, <2>1, <2>4, ScreenKept
  <2>6. Starting(k, m, nx)' /\ Staged(m, nx)' /\ Shown(nx)' /\ Bar(nx)'
    BY <1>7, <1>8, <2>1, <2>5 DEF Starting, Staged, Shown, Bar
  <2>7. Asserted(k, m, nx)'
    BY <2>3, <2>6 DEF Asserted
  <2>. QED BY <1>5, <2>1, <2>4, <2>7 DEF Inv
<1>11. CASE Switch("client")
  <2>1. /\ \/ c = "reconnect" /\ nx = "connected"
           \/ c = "restart" /\ nx = "idle"
        /\ Return("client") /\ sampling' \in BOOLEAN /\ UNCHANGED list
        /\ UNCHANGED <<active, count, view, lcd, home, buffer, previous, tick, online, update>>
    BY <1>3, <1>11 DEF Switch, At, ClientSteps, pages, screen, prog
  <2>2. Typed'
    BY <1>5, <1>6, <2>1, TypedElse
  <2>3. Listed(k)'
    BY <1>5, <1>7, <2>1, ListStays
  <2>4. Starting(k, m, nx)' /\ Staged(m, nx)' /\ Shown(nx)' /\ Bar(nx)'
    BY <1>7, <1>8, <2>1 DEF Starting, Staged, Shown, Bar, list
  <2>5. Asserted(k, m, nx)'
    BY <2>3, <2>4 DEF Asserted
  <2>. QED BY <1>5, <2>1, <2>2, <2>5 DEF Inv
<1>12. CASE SetProgress("client")
  <2>1. /\ Return("client") /\ UNCHANGED list
        /\ UNCHANGED <<active, count, view, lcd, home, previous, tick, sampling, online, update>>
    BY <1>12 DEF SetProgress, pages, screen, flow
  <2>2. view = "download" /\ c \in {"progress", "last", "saving"}
    BY <1>3, <1>7, <1>12 DEF SetProgress, At, ClientSteps, Staged
  <2>3. \/ /\ c = "progress" /\ nx = "refresh"
           /\ \E n \in 0 .. 79 : buffer' = <<Line("download", 0), Line("bar", n)>>
        \/ /\ c = "last" /\ nx = "saving"
           /\ \E n \in 0 .. 80 : buffer' = <<Line("download", 0), Line("bar", n)>>
        \/ /\ c = "saving" /\ nx = "refresh"
           /\ buffer' = <<Line("saving", 0), Line("bar", 0)>>
    <3>1. CASE c = "progress"
      <4>1. nx = "refresh" /\ Head(todo["client"]).do = "progress"
        BY <1>3, <3>1 DEF ClientSteps
      <4>2. Head(todo["client"]).n \in 0 .. Total - 1
        BY <1>1, <1>2, <3>1, ClientStep, Zenon
      <4>3. lines(Head(todo["client"]).n) \in 0 .. 79
        <5>1. \A n \in 0 .. Total - 1 : n \in 0 .. Total /\ n < Total
          BY DisplayAssumption
        <5>. QED BY <4>2, <5>1, LinesFit
      <4>4. buffer' = <<Line("download", 0), Line("bar", lines(Head(todo["client"]).n))>>
        BY <1>12, <4>1 DEF SetProgress, At
      <4>. QED BY <3>1, <4>1, <4>3, <4>4
    <3>2. CASE c = "last"
      <4>1. nx = "saving" /\ Head(todo["client"]).do = "progress"
        BY <1>3, <3>2 DEF ClientSteps
      <4>2. Head(todo["client"]).n = Total
        BY <1>1, <1>2, <3>2, ClientStep, Zenon
      <4>3. lines(Head(todo["client"]).n) \in 0 .. 80
        <5>1. Total \in 0 .. Total
          BY DisplayAssumption
        <5>. QED BY <4>2, <5>1, LinesFit
      <4>4. buffer' = <<Line("download", 0), Line("bar", lines(Head(todo["client"]).n))>>
        BY <1>12, <4>1 DEF SetProgress, At
      <4>. QED BY <3>2, <4>1, <4>3, <4>4
    <3>3. CASE c = "saving"
      <4>1. nx = "refresh" /\ Head(todo["client"]).do = "saving"
        BY <1>3, <3>3 DEF ClientSteps
      <4>. QED BY <1>12, <3>3, <4>1 DEF SetProgress, At
    <3>. QED BY <2>2, <3>1, <3>2, <3>3
  <2>4. buffer' \in Messages /\ buffer' # Nothing
    BY <2>3 DEF Messages, Nothing, Blank, Line
  <2>5. Typed'
    BY <1>5, <1>6, <2>1, <2>4, TypedElse
  <2>6. Listed(k)'
    BY <1>5, <1>7, <2>1, ListStays
  <2>7. Starting(k, m, nx)' /\ Staged(m, nx)'
    BY <1>7, <1>8, <2>1, <2>2, <2>3 DEF Starting, Staged
  <2>8. Shown(nx)'
    <3>1. Nothing' = Nothing /\ view' = "download"
      BY <2>1, <2>2 DEF Nothing, Blank, Line
    <3>2. CASE nx = "saving"
      BY <1>7, <2>1, <2>2, <2>3, <2>4, <3>1, <3>2 DEF Shown
    <3>3. CASE nx = "refresh"
      BY <1>7, <2>1, <2>2, <2>3, <2>4, <3>1, <3>3 DEF Shown
    <3>. QED BY <2>3, <3>2, <3>3
  <2>9. Bar(nx)'
    <3>1. CASE c = "progress"
      BY <2>3, <3>1 DEF Bar, Line
    <3>2. CASE c = "last"
      BY <1>7, <2>1, <2>3, <3>2 DEF Bar, Line, Staged
    <3>3. CASE c = "saving"
      BY <2>3, <3>3 DEF Bar, Line
    <3>. QED BY <2>2, <3>1, <3>2, <3>3
  <2>10. Asserted(k, m, nx)'
    BY <2>6, <2>7, <2>8, <2>9 DEF Asserted
  <2>. QED BY <1>5, <2>1, <2>5, <2>10 DEF Inv
<1>13. CASE Remember("client")
  <2>1. /\ c = "remember" /\ nx = "idle" /\ Return("client") /\ previous' = buffer
        /\ UNCHANGED list
        /\ UNCHANGED <<active, count, view, lcd, home, buffer, tick, sampling, online, update>>
    BY <1>3, <1>13 DEF Remember, At, ClientSteps, pages, screen, flow
  <2>2. view = "download" /\ update \in {"loading", "loaded"}
    BY <1>7, <2>1 DEF Staged
  <2>3. Typed'
    BY <1>5, <1>6, <2>1, TypedElse
  <2>4. Listed(k)'
    BY <1>5, <1>7, <2>1, ListStays
  <2>5. Starting(k, m, nx)' /\ Staged(m, nx)' /\ Shown(nx)' /\ Bar(nx)'
    BY <1>7, <1>8, <2>1, <2>2 DEF Starting, Staged, Shown, Bar
  <2>6. Asserted(k, m, nx)'
    BY <2>4, <2>5 DEF Asserted
  <2>. QED BY <1>5, <2>1, <2>3, <2>6 DEF Inv
<1>14. CASE RefreshDownload("client")
  <2>1. /\ c = "refresh" /\ nx = "idle" /\ count' = Counted(count) /\ RefreshProgress
        /\ Then("client", Do("remember", "lcd")) /\ view = "download"
        /\ UNCHANGED list
        /\ UNCHANGED <<active, view, buffer, previous, tick, sampling, online, update>>
    BY <1>3, <1>14 DEF RefreshDownload, At, ClientSteps, prog, flow
  <2>2. /\ buffer # Nothing /\ buffer \in Messages
        /\ previous = Nothing => home
        /\ previous # Nothing => lcd = previous
    BY <1>6, <1>7, <2>1 DEF Shown
  <2>3. lcd' = buffer /\ home' \in BOOLEAN
    <3>1. buffer = <<buffer[1], buffer[2]>>
      BY <2>2 DEF Messages
    <3>2. CASE previous = Nothing
      BY <1>6, <2>1, <2>2, <3>2 DEF RefreshProgress, screen
    <3>3. CASE previous # Nothing /\ previous = buffer
      BY <1>6, <2>1, <2>2, <3>3 DEF RefreshProgress, screen
    <3>4. CASE previous # Nothing /\ previous # buffer
      <4>1. lcd' = <<Patched(1), Patched(2)>> /\ home' = FALSE
        BY <2>1, <3>4 DEF RefreshProgress
      <4>2. Patched(1) = buffer[1] /\ Patched(2) = buffer[2]
        BY <2>2, <3>4 DEF Patched
      <4>. QED BY <3>1, <4>1, <4>2
    <3>. QED BY <3>2, <3>3, <3>4
  <2>4. /\ Where(k, m, "remember")' /\ DOMAIN todo' = Threads /\ UNCHANGED todo["init"]
    <3>1. << Do("remember", "lcd") >> \o << >> = << Do("remember", "lcd") >>
      <4>. DEFINE one == << Do("remember", "lcd") >>
      <4>1. one \in Seq({Do("remember", "lcd")})
        OBVIOUS
      <4>. HIDE DEF one
      <4>2. one \o << >> = one
        BY <4>1, ConcatEmptySeq
      <4>. QED BY <4>2 DEF one
    <3>2. ClientList("idle") = << >> /\ ClientList("remember") = << Do("remember", "lcd") >>
      BY DEF ClientList
    <3>3. todo' = [todo EXCEPT !["client"] = ClientList("remember")]
      BY <1>3, <2>1, <3>1, <3>2 DEF Then
    <3>. QED BY <1>4, <3>3 DEF ClientNames
  <2>5. lcd' = <<lcd'[1], lcd'[2]>> /\ count' \in 0 .. Threshold
    BY <1>6, <2>1, <2>2, <2>3, Pages DEF Messages
  <2>6. Typed'
    BY <1>6, <2>1, <2>3, <2>4, <2>5, TypedElse
  <2>7. Listed(k)'
    BY <1>7, <2>1, <2>4, ListStays
  <2>8. Shown("remember")'
    <3>1. Nothing' = Nothing
      BY DEF Nothing, Blank, Line
    <3>. QED BY <2>1, <2>2, <2>3, <3>1 DEF Shown
  <2>9. Starting(k, m, "remember")' /\ Staged(m, "remember")' /\ Bar("remember")'
    BY <1>7, <1>8, <2>1 DEF Starting, Staged, Bar
  <2>10. Asserted(k, m, "remember")' /\ "remember" \in ClientNames
    BY <2>7, <2>8, <2>9 DEF Asserted, ClientNames
  <2>. QED BY <2>4, <2>6, <2>10 DEF Inv
<1>15. ~(RefreshSensor("client") \/ RefreshInstall("client"))
  BY <1>3, <1>7 DEF RefreshSensor, RefreshInstall, At, ClientSteps, Staged
<1>. QED BY <1>2, <1>9, <1>10, <1>11, <1>12, <1>13, <1>14, <1>15

-----------------------------------------------------------------------------
(* The event queue and the client library *)

\* A thread with nothing left to do is idle.
LEMMA Idle ==
  ASSUME NEW k, NEW m \in MainNames, NEW c \in ClientNames, Where(k, m, c)
  PROVE  /\ todo["main"] = << >> => m = "idle"
         /\ todo["client"] = << >> => c = "idle"
<1>1. ASSUME todo["main"] = << >>
      PROVE  m = "idle"
  <2>1. \A x, y : << x >> # << >> /\ << x, y >> # << >>
    OBVIOUS
  <2>. QED BY <1>1, <2>1 DEF Where, MainList, MainNames
<1>2. ASSUME todo["client"] = << >>
      PROVE  c = "idle"
  <2>1. \A x, y, z : << x >> # << >> /\ << x, y >> # << >> /\ << x, y, z >> # << >>
    OBVIOUS
  <2>2. CASE c = "progress"
    BY <1>2, <2>1, <2>2 DEF Where, ClientAt
  <2>3. CASE c # "progress"
    BY <1>2, <2>1, <2>3 DEF Where, ClientAt, ClientList, ClientNames
  <2>. QED BY <2>2, <2>3
<1>. QED BY <1>1, <1>2

\* What an event of the main thread runs.
LEMMA MainEvent ==
  ASSUME Typed, NEW k \in 1 .. 13, NEW m \in MainNames, NEW c \in ClientNames, Where(k, m, c),
         NEW nx \in MainNames, Run("main", MainList(nx))
  PROVE  m = "idle" /\ Where(k, nx, c)' /\ DOMAIN todo' = Threads /\ UNCHANGED todo["init"]
<1>1. todo["main"] = << >> /\ todo' = [todo EXCEPT !["main"] = MainList(nx)]
      /\ DOMAIN todo = Threads
  BY DEF Run, Typed
<1>2. m = "idle"
  BY <1>1, Idle
<1>3. Where(k, nx, c)'
  BY <1>1, MainMoves
<1>. QED BY <1>1, <1>2, <1>3 DEF Threads

\* An event that main takes from the queue preserves the invariant.
LEMMA MainTakes ==
  ASSUME Typed, NEW k \in 1 .. 13, NEW m \in MainNames, NEW c \in ClientNames,
         Where(k, m, c), Asserted(k, m, c),
         display_refresh \/ sample \/ put_app_label \/ fota_auth_download
  PROVE  Inv'
<1>1. /\ active \in Nat /\ (sensors # << >> => active < Len(sensors))
      /\ (sensors = << >> => active = 0) /\ count \in 0 .. Threshold
      /\ view \in {"sensor", "download", "install"} /\ home \in BOOLEAN /\ tick \in BOOLEAN
      /\ sampling \in BOOLEAN /\ online \in BOOLEAN
      /\ update \in {"none", "asked", "granting", "loading", "loaded", "ready", "installing"}
      /\ lcd = <<lcd[1], lcd[2]>>
      /\ buffer \in {Nothing} \cup Messages /\ previous \in {Nothing} \cup Messages
  BY TypesOf
<1>2. Listed(k) /\ Starting(k, m, c) /\ Staged(m, c) /\ Shown(c) /\ Bar(c)
  BY DEF Asserted
<1>3. ASSUME NEW nx \in {"refresh", "light", "dht", "label"}, Run("main", MainList(nx)),
             nx = "refresh" => tick, nx \in {"light", "dht"} => sampling, nx = "label" => online,
             UNCHANGED <<list, pages, view, screen, prog, flow>>
      PROVE  Inv'
  <2>1. nx \in MainNames
    BY DEF MainNames
  <2>2. m = "idle" /\ Where(k, nx, c)' /\ DOMAIN todo' = Threads /\ UNCHANGED todo["init"]
    BY <1>3, <2>1, MainEvent
  <2>3. /\ UNCHANGED list
        /\ UNCHANGED <<active, count, view, lcd, home, buffer, previous>>
        /\ UNCHANGED <<tick, sampling, online, update>>
    BY <1>3 DEF pages, screen, prog, flow
  <2>4. Typed'
    BY <1>1, <2>2, <2>3, TypedElse
  <2>5. Listed(k)'
    BY <1>2, <2>2, <2>3, ListStays
  <2>6. Starting(k, nx, c)' /\ Staged(nx, c)' /\ Shown(c)' /\ Bar(c)'
    BY <1>2, <1>3, <2>2, <2>3 DEF Starting, Staged, Shown, Bar, list
  <2>7. Asserted(k, nx, c)'
    BY <2>5, <2>6 DEF Asserted
  <2>. QED BY <2>1, <2>2, <2>4, <2>7 DEF Inv
<1>4. CASE display_refresh
  BY <1>3, <1>4 DEF display_refresh, MainList
<1>5. CASE sample
  BY <1>3, <1>5 DEF sample, MainList
<1>6. CASE put_app_label
  BY <1>3, <1>6 DEF put_app_label, MainList
<1>7. CASE fota_auth_download
  <2>1. /\ Run("main", MainList("authorize")) /\ update = "asked" /\ UNCHANGED list
        /\ sampling' = FALSE /\ tick' = FALSE /\ view' = "download" /\ update' = "granting"
        /\ UNCHANGED <<active, count, lcd, home, buffer, previous, online>>
    BY <1>7 DEF fota_auth_download, MainList, pages, screen, prog
  <2>2. "authorize" \in MainNames
    BY DEF MainNames
  <2>3. /\ m = "idle" /\ Where(k, "authorize", c)' /\ DOMAIN todo' = Threads
        /\ UNCHANGED todo["init"]
    BY <2>1, <2>2, MainEvent
  <2>4. Typed'
    BY <1>1, <2>1, <2>3, TypedElse
  <2>5. Listed(k)'
    BY <1>2, <2>1, <2>3, ListStays
  <2>6. online /\ k = 13 /\ c \notin {"progress", "last", "saving", "refresh", "remember"}
    BY <1>2, <2>1 DEF Starting, Staged
  <2>7. Starting(k, "authorize", c)' /\ Staged("authorize", c)' /\ Bar(c)'
    BY <1>2, <2>1, <2>6 DEF Starting, Staged, Bar
  <2>8. Shown(c)'
    <3>1. Nothing' = Nothing
      BY DEF Nothing, Blank, Line
    <3>2. view # "install"
      BY <1>2, <2>1 DEF Staged
    <3>3. CASE view = "sensor"
      BY <1>2, <2>1, <2>6, <3>1, <3>3 DEF Shown
    <3>4. CASE view = "download"
      BY <1>2, <2>1, <2>6, <3>1, <3>4 DEF Shown
    <3>. QED BY <1>1, <3>2, <3>3, <3>4
  <2>9. Asserted(k, "authorize", c)'
    BY <2>5, <2>7, <2>8 DEF Asserted
  <2>. QED BY <2>2, <2>3, <2>4, <2>9 DEF Inv
<1>. QED BY <1>4, <1>5, <1>6, <1>7

\* The install is asked for when the client has nothing left to report.
LEMMA InstallTaken ==
  ASSUME Typed, NEW k \in 1 .. 13, NEW m \in MainNames, NEW c \in ClientNames,
         Where(k, m, c), Asserted(k, m, c), fota_auth_install
  PROVE  Inv'
<1>1. /\ update = "ready" /\ m = "idle" /\ view' = "install" /\ lcd' = Install /\ home' = TRUE
      /\ tick' = TRUE /\ update' = "installing" /\ UNCHANGED list
      /\ UNCHANGED <<active, count, buffer, previous, sampling, online, todo>>
  BY Idle DEF fota_auth_install, pages, prog
<1>2. /\ active \in Nat /\ (sensors # << >> => active < Len(sensors))
      /\ (sensors = << >> => active = 0) /\ count \in 0 .. Threshold
      /\ sampling \in BOOLEAN /\ online \in BOOLEAN /\ DOMAIN todo = Threads
      /\ buffer \in {Nothing} \cup Messages /\ previous \in {Nothing} \cup Messages
  BY TypesOf
<1>3. lcd' = <<lcd'[1], lcd'[2]>>
  BY <1>1 DEF Install
<1>4. Typed'
  BY <1>1, <1>2, <1>3, TypedElse
<1>5. Listed(k) /\ Starting(k, m, c) /\ Staged(m, c) /\ Shown(c) /\ Bar(c)
  BY DEF Asserted
<1>6. Where(k, m, c)' /\ Listed(k)'
  BY <1>1, <1>5, Stays, ListStays
<1>7. Install' = Install
  BY DEF Install, Blank, Line
<1>8. Starting(k, m, c)' /\ Staged(m, c)' /\ Shown(c)' /\ Bar(c)'
  BY <1>1, <1>5, <1>7 DEF Starting, Staged, Shown, Bar
<1>. QED BY <1>4, <1>6, <1>8 DEF Inv, Asserted

\* A callback of the client library preserves the invariant.
LEMMA ClientTakes ==
  ASSUME Typed, NEW k \in 1 .. 13, NEW m \in MainNames, NEW c \in ClientNames,
         Where(k, m, c), Asserted(k, m, c),
         AskDownload \/ Progress \/ DownloadFailed \/ AskInstall \/ NetworkError
  PROVE  Inv'
<1>1. /\ active \in Nat /\ (sensors # << >> => active < Len(sensors))
      /\ (sensors = << >> => active = 0) /\ count \in 0 .. Threshold
      /\ view \in {"sensor", "download", "install"} /\ home \in BOOLEAN /\ tick \in BOOLEAN
      /\ sampling \in BOOLEAN /\ online \in BOOLEAN
      /\ update \in {"none", "asked", "granting", "loading", "loaded", "ready", "installing"}
      /\ lcd = <<lcd[1], lcd[2]>>
      /\ buffer \in {Nothing} \cup Messages /\ previous \in {Nothing} \cup Messages
      /\ DOMAIN todo = Threads
  BY TypesOf
<1>2. Listed(k) /\ Starting(k, m, c) /\ Staged(m, c) /\ Shown(c) /\ Bar(c)
  BY DEF Asserted
<1>3. /\ UNCHANGED list
      /\ UNCHANGED <<active, count, view, lcd, home, buffer, previous, tick, sampling, online>>
  BY DEF AskDownload, Progress, DownloadFailed, AskInstall, NetworkError, pages, screen, prog,
         flow
<1>4. online /\ todo["client"] = << >>
  BY DEF AskDownload, Progress, DownloadFailed, AskInstall, NetworkError, InClient
<1>5. c = "idle" /\ k = 13
  BY <1>2, <1>4, Idle DEF Starting
<1>6. ASSUME UNCHANGED todo, update' \in {"none", "asked", "ready"},
             update' = "none" => update = "loading",
             update' = "asked" => update = "none" /\ lcd[2] # Blank,
             update' = "ready" => update = "loaded"
      PROVE  Inv'
  <2>1. Where(k, m, c)' /\ Listed(k)'
    BY <1>2, <1>3, <1>6, Stays, ListStays
  <2>2. Typed'
    BY <1>1, <1>3, <1>6, TypedElse
  <2>3. Starting(k, m, c)' /\ Staged(m, c)' /\ Bar(c)'
    BY <1>2, <1>3, <1>4, <1>5, <1>6 DEF Starting, Staged, Bar
  <2>4. Shown(c)'
    BY <1>2, <1>3, <1>6 DEF Shown, Staged, list
  <2>. QED BY <2>1, <2>2, <2>3, <2>4 DEF Inv, Asserted
<1>7. CASE AskDownload \/ DownloadFailed \/ AskInstall
  BY <1>6, <1>7 DEF AskDownload, DownloadFailed, AskInstall
<1>8. CASE NetworkError
  <2>1. /\ todo' = [todo EXCEPT !["client"] = ClientList("reconnect")] /\ UNCHANGED update
        /\ update \notin {"ready", "installing"}
    BY <1>8 DEF NetworkError, Run, reconnect, ClientList, flow
  <2>2. /\ "reconnect" \in ClientNames /\ "reconnect" # "progress"
        /\ DOMAIN todo' = Threads /\ UNCHANGED todo["init"]
    BY <1>1, <2>1 DEF ClientNames, Threads
  <2>3. Where(k, m, "reconnect")'
    BY <1>1, <2>1, <2>2, ClientMoves
  <2>4. Typed' /\ Listed(k)'
    BY SMTT(30), <1>1, <1>2, <1>3, <2>1, <2>2, TypedElse, ListStays
  <2>5. /\ Starting(k, m, "reconnect")' /\ Staged(m, "reconnect")' /\ Shown("reconnect")'
        /\ Bar("reconnect")'
    BY <1>2, <1>3, <1>4, <1>5, <2>1 DEF Starting, Staged, Shown, Bar, list
  <2>. QED BY <2>2, <2>3, <2>4, <2>5 DEF Inv, Asserted
<1>9. CASE Progress
  <2>1. PICK n \in 0 .. Total : /\ Run("client", on_update_progress(n))
                                /\ update' = IF n = Total THEN "loaded" ELSE update
    BY <1>9 DEF Progress
  <2>2. update = "loading" /\ view = "download"
    BY <1>2, <1>9 DEF Progress, Staged
  <2>3. CASE n = Total
    <3>1. on_update_progress(n) = ClientList("last")
      <4>1. << DoN("progress", n) >> \o << DoN("saving", 0) >>
               = << DoN("progress", n), DoN("saving", 0) >>
        BY Concat1And1
      <4>2. << DoN("progress", n), DoN("saving", 0) >> \o << Do("refresh", "lcd") >>
               = << DoN("progress", n), DoN("saving", 0), Do("refresh", "lcd") >>
        BY Concat2And1
      <4>3. on_update_progress(n) = (<< DoN("progress", n) >> \o << DoN("saving", 0) >>)
                                    \o << Do("refresh", "lcd") >>
        BY <2>3 DEF on_update_progress
      <4>4. on_update_progress(n)
               = << DoN("progress", n), DoN("saving", 0), Do("refresh", "lcd") >>
        BY <4>1, <4>2, <4>3, Zenon
      <4>. QED BY <2>3, <4>4 DEF ClientList
    <3>2. /\ todo' = [todo EXCEPT !["client"] = ClientList("last")] /\ update' = "loaded"
          /\ "last" \in ClientNames /\ "last" # "progress"
      BY <2>1, <2>3, <3>1 DEF Run, ClientNames
    <3>3. DOMAIN todo' = Threads /\ UNCHANGED todo["init"]
      BY <1>1, <3>2 DEF Threads
    <3>4. Where(k, m, "last")'
      BY <1>1, <3>2, ClientMoves
    <3>5. Typed' /\ Listed(k)'
      BY <1>1, <1>2, <1>3, <3>2, <3>3, TypedElse, ListStays
    <3>6. Starting(k, m, "last")' /\ Staged(m, "last")' /\ Shown("last")' /\ Bar("last")'
      BY <1>2, <1>3, <1>4, <1>5, <2>2, <3>2 DEF Starting, Staged, Shown, Bar
    <3>. QED BY <3>2, <3>4, <3>5, <3>6 DEF Inv, Asserted
  <2>4. CASE n # Total
    <3>1. on_update_progress(n) = << DoN("progress", n), Do("refresh", "lcd") >>
      <4>. DEFINE one == << DoN("progress", n) >>
      <4>1. one \in Seq({DoN("progress", n)})
        OBVIOUS
      <4>2. one \o << Do("refresh", "lcd") >> = << DoN("progress", n), Do("refresh", "lcd") >>
        BY Concat1And1
      <4>3. on_update_progress(n) = (one \o << >>) \o << Do("refresh", "lcd") >>
        BY <2>4 DEF on_update_progress
      <4>. HIDE DEF one
      <4>4. one \o << >> = one
        BY <4>1, ConcatEmptySeq
      <4>. QED BY <4>2, <4>3, <4>4
    <3>2. /\ todo' = [todo EXCEPT !["client"] = << DoN("progress", n), Do("refresh", "lcd") >>]
          /\ UNCHANGED update /\ n \in 0 .. Total - 1 /\ "progress" \in ClientNames
      BY <2>1, <2>4, <3>1, DisplayAssumption DEF Run, ClientNames
    <3>3. /\ DOMAIN todo' = Threads /\ UNCHANGED todo["init"] /\ UNCHANGED todo["main"]
          /\ todo'["client"] = << DoN("progress", n), Do("refresh", "lcd") >>
      BY <1>1, <3>2 DEF Threads
    <3>4. ClientAt("progress")'
      BY <3>2, <3>3 DEF ClientAt
    <3>5. Where(k, m, "progress")'
      BY <3>3, <3>4 DEF Where, InitAt
    <3>6. Typed' /\ Listed(k)'
      BY SMTT(30), <1>1, <1>2, <1>3, <3>2, <3>3, TypedElse, ListStays
    <3>7. /\ Starting(k, m, "progress")' /\ Staged(m, "progress")' /\ Shown("progress")'
          /\ Bar("progress")'
      BY <1>2, <1>3, <1>4, <1>5, <2>2, <3>2 DEF Starting, Staged, Shown, Bar
    <3>. QED BY <3>2, <3>5, <3>6, <3>7 DEF Inv, Asserted
  <2>. QED BY <2>3, <2>4
<1>. QED BY <1>7, <1>8, <1>9

-----------------------------------------------------------------------------
(* The invariant and what follows from it *)

\* It holds when init_app() is about to run.
LEMMA InvInit == Init => Inv
<1>. SUFFICES ASSUME Init PROVE Inv
  OBVIOUS
<1>1. /\ todo["init"] = init_app /\ todo["main"] = << >> /\ todo["client"] = << >>
      /\ DOMAIN todo = Threads
  BY DEF Init, Threads
<1>2. Threshold \in Nat \ {0}
  BY Pages
<1>3. /\ sensors = << >> /\ spare = << >> /\ given = [s \in Names |-> 0] /\ active = 0
      /\ count \in {0, 1} /\ view = "sensor" /\ home = TRUE
      /\ lcd \in {Nothing, <<Line("reset", 0), Blank>>}
      /\ buffer = Nothing /\ previous = Nothing
      /\ tick = TRUE /\ sampling = FALSE /\ online = FALSE /\ update = "none"
  BY DEF Init
<1>4. lcd = <<lcd[1], lcd[2]>> /\ lcd[2] = Blank
  BY <1>3 DEF Nothing
<1>5. /\ sensors \in Seq(Entries) /\ spare \in Seq(Entries) /\ Len(sensors) = 0
      /\ ~(\E i \in 1 .. Len(sensors) : TRUE)
  BY <1>3, EmptySeq
<1>6. given \in [Names -> Nat] /\ \A s \in Names : given[s] = 0
  BY <1>3
<1>7. TypeOK
  <2>1. count \in 0 .. Threshold
    BY <1>2, <1>3
  <2>2. \A i \in 1 .. Len(sensors) : sensors[i].status \in Statuses[sensors[i].name] \cup {0}
    BY <1>5
  <2>3. home \in BOOLEAN /\ tick \in BOOLEAN /\ sampling \in BOOLEAN /\ online \in BOOLEAN
    BY <1>3
  <2>. QED BY <1>3, <2>1, <2>2, <2>3 DEF TypeOK
<1>8. Typed
  BY <1>1, <1>3, <1>4, <1>5, <1>6, <1>7 DEF Typed
<1>9. InitAt(1) /\ Head(todo["init"]).do # "replace"
  <2>1. /\ Len(init_app) = 12 /\ init_app \in Seq(InitStatements)
        /\ <<1, init_app[1].do, init_app[1].with>> \in InitSteps
    <3>1. 1 \in 1 .. 12
      OBVIOUS
    <3>. HIDE DEF InitSteps
    <3>. QED BY <3>1, InitTable, Zenon
  <2>2. /\ init_app # << >> /\ Head(init_app) = init_app[1]
        /\ Tail(init_app) = SubSeq(init_app, 2, 12)
    <3>1. Len(init_app) # 0
      BY <2>1
    <3>. QED BY <2>1, <3>1, FirstOfList, Zenon
  <2>3. Head(todo["init"]).do # "replace"
    BY <1>1, <2>1, <2>2 DEF InitSteps
  <2>4. Tail(todo["init"]) = Rest(1 + 1)
    <3>1. 1 + 1 = 2
      OBVIOUS
    <3>. QED BY <1>1, <2>2, <3>1 DEF Rest
  <2>5. Head(todo["init"]) \in Halves(init_app[1])
    BY <1>1, <2>2 DEF Halves
  <2>. QED BY <1>1, <2>2, <2>3, <2>4, <2>5 DEF InitAt
<1>10. Where(1, "idle", "idle")
  BY <1>1, <1>9 DEF Where, MainList, ClientAt, ClientList
<1>11. Listed(1)
  BY <1>5, <1>6, <1>9 DEF Listed, Known, Registered
<1>12. /\ Starting(1, "idle", "idle") /\ Staged("idle", "idle") /\ Shown("idle")
       /\ Bar("idle")
  BY <1>3, <1>4 DEF Starting, Staged, Shown, Bar, Nothing, Blank, Line
<1>13. 1 \in 1 .. 13 /\ "idle" \in MainNames /\ "idle" \in ClientNames
  BY DEF MainNames, ClientNames
<1>. QED BY <1>8, <1>10, <1>11, <1>12, <1>13 DEF Inv, Asserted

\* Every step of every thread leads to a choice of places at which the assertions hold.
LEMMA InvNext == Inv /\ [Next]_vars => Inv'
<1>. SUFFICES ASSUME Inv, [Next]_vars PROVE Inv'
  OBVIOUS
<1>1. Typed
  BY DEF Inv
<1>2. PICK k \in 1 .. 13, m \in MainNames, c \in ClientNames : Where(k, m, c) /\ Asserted(k, m, c)
  BY DEF Inv
<1>3. CASE Statement("init")
  BY <1>1, <1>2, <1>3, InitRuns
<1>4. CASE Statement("main")
  BY <1>1, <1>2, <1>4, MainRuns
<1>5. CASE Statement("client")
  BY <1>1, <1>2, <1>5, ClientRuns
<1>6. CASE display_refresh \/ sample \/ put_app_label \/ fota_auth_download
  BY <1>1, <1>2, <1>6, MainTakes
<1>7. CASE fota_auth_install
  BY <1>1, <1>2, <1>7, InstallTaken
<1>8. CASE AskDownload \/ Progress \/ DownloadFailed \/ AskInstall \/ NetworkError
  BY <1>1, <1>2, <1>8, ClientTakes
<1>9. CASE UNCHANGED vars
  <2>1. /\ UNCHANGED <<sensors, spare, given, active, count, view, lcd, home, buffer, previous>>
        /\ UNCHANGED <<tick, sampling, online, update, todo, list>>
    BY <1>9 DEF vars, list, pages, screen, prog, flow
  <2>2. Typed'
    <3>1. DOMAIN todo = Threads
      BY <1>1 DEF Typed
    <3>. QED BY <1>1, <2>1, <3>1, TypesOf, TypedElse
  <2>3. Where(k, m, c)'
    BY <1>2, <2>1, Stays
  <2>4. Listed(k)' /\ Staged(m, c)' /\ Shown(c)' /\ Bar(c)'
    BY <1>2, <2>1, ListStays DEF Asserted, Staged, Shown, Bar
  <2>5. Starting(k, m, c)'
    BY <1>2, <2>1 DEF Asserted, Starting
  <2>. QED BY <2>2, <2>3, <2>4, <2>5 DEF Inv, Asserted
<1>. QED BY <1>3, <1>4, <1>5, <1>6, <1>7, <1>8, <1>9 DEF Next, Threads

\* The invariant holds in every state.
THEOREM InvHolds == Spec => []Inv
BY InvInit, InvNext, PTL DEF Spec

\* The variables keep their types, and the page that is due is always that of a sensor: the
\* index stays inside the list of displayman.cpp, which only grows.
THEOREM TypeCorrect == Spec => []TypeOK
<1>1. Inv => TypeOK
  BY DEF Inv, Typed
<1>. QED BY <1>1, InvHolds, PTL

\* Each sensor keeps the status it was given last, whatever the three threads do while
\* push_back() copies the list (init_app(), main.cpp:1714-1717).
THEOREM StatusesKept == Spec => []NoUpdateLost
<1>1. Inv => NoUpdateLost
  <2>. SUFFICES ASSUME Inv, NEW s \in Names, Registered(s)
                PROVE  StatusOf(s) = given[s]
    BY DEF NoUpdateLost
  <2>1. \A i \in 1 .. Len(sensors) : sensors[i].status = given[sensors[i].name]
    BY DEF Inv, Asserted, Listed
  <2>2. \E i \in 1 .. Len(sensors) : sensors[i].name = s
    BY DEF Registered
  <2>3. PICK i \in 1 .. Len(sensors) :
           i = CHOOSE j \in 1 .. Len(sensors) : sensors[j].name = s
    BY <2>2
  <2>4. sensors[i].name = s
    BY <2>2, <2>3
  <2>5. StatusOf(s) = sensors[i].status
    BY <2>3 DEF StatusOf
  <2>. QED BY <2>1, <2>4, <2>5
<1>. QED BY <1>1, InvHolds, PTL

\* In the download view the LCD shows the progress that was set last whenever no refresh is
\* under way (lcdprogress.cpp:76-91), for images of any size.
THEOREM ProgressIsShown == Spec => []ProgressShown
<1>1. Inv => ProgressShown
  <2>. SUFFICES ASSUME Inv, view = "download", buffer # Nothing, todo["client"] = << >>
                PROVE  lcd = buffer
    BY DEF ProgressShown
  <2>1. PICK k \in 1 .. 13, m \in MainNames, c \in ClientNames :
           Where(k, m, c) /\ Asserted(k, m, c)
    BY DEF Inv
  <2>2. c = "idle"
    BY <2>1, Idle
  <2>. QED BY <2>1, <2>2 DEF Asserted, Shown
<1>. QED BY <1>1, InvHolds, PTL

\* The bar never has more columns than the LCD has for it (lcdprogress.cpp:60-73), for any
\* size of an image whose eighty-fold is a uint32_t.
THEOREM BarStaysInside == Spec => []BarFits
<1>1. Inv => BarFits
  BY DEF Inv, Asserted, Bar, BarFits
<1>. QED BY <1>1, InvHolds, PTL

\* "Installing..." stays until the restart (main.cpp:704-709).
THEOREM InstallIsShown == Spec => []InstallShown
<1>1. Inv => InstallShown
  BY DEF Inv, Typed, Asserted, Staged, Shown, InstallShown
<1>. QED BY <1>1, InvHolds, PTL
=============================================================================
