------------------------------ MODULE Display ------------------------------
(***************************************************************************)
(* The LCD (displayman.cpp, lcdprogress.cpp, multiaddrlcd.cpp) and the     *)
(* threads of main.cpp that write to it or to what it shows: init_app,     *)
(* which registers the sensors and sets their first statuses; main, which  *)
(* refreshes the display, samples the sensors and handles the updates of   *)
(* the label; the mbed client thread, which reports the progress of a      *)
(* download and reconnects the network.  There is no lock.                 *)
(*                                                                         *)
(* A status is a number, 0 being "".  The LCD has two lines; one that is   *)
(* not known to hold what some view wrote there holds Mixed.  The spinner  *)
(* at the end of the first line of the progress view is left out.          *)
(***************************************************************************)
EXTENDS Integers, Sequences

CONSTANTS Statuses,      \* for each sensor, the statuses it may be given, other than ""
          UpdatePeriod,  \* DISPLAY_UPDATE_PERIOD_MS
          PagingPeriod,  \* DISPLAY_PAGING_UPDATE_PERIOD_MS
          Total,         \* the size of a firmware image
          Word           \* 2^32, the number of values of a uint32_t

Names   == {"WiFi", "Label", "Temp", "Humidity", "Light"}
Threads == {"init", "main", "client"}

ASSUME DisplayAssumption == /\ Statuses \in [Names -> (SUBSET (Nat \ {0})) \ {{}}]
                            /\ UpdatePeriod \in Nat \ {0} /\ PagingPeriod \in Nat \ {0}
                            /\ PagingPeriod > UpdatePeriod
                            /\ Total \in Nat \ {0} /\ Word \in Nat
                            /\ Total * 80 < Word

VARIABLES sensors,   \* _sensors: the names and statuses, in the order of registration
          spare,     \* the larger array that push_back() is filling, or <<>>
          writing,   \* for each thread, the sensor whose status it is assigning, or "none"
          given,     \* history: the status each registered sensor was given last
          active,    \* _active_sensor
          count,     \* _cycle_count, up to the last value that matters
          view,      \* _view_mode
          lcd,       \* what the two lines show
          home,      \* is the cursor in the first place?
          buffer,    \* LCDProgress::_buffer, or Nothing
          previous,  \* LCDProgress::_previous, or Nothing
          tick,      \* is display_refresh() in the event queue?
          sampling,  \* are the sensor events in the event queue?
          online,    \* has call_register() been called?
          update,    \* the update, as the client library sees it
          todo       \* for each thread, the statements left in what it is running

list   == <<sensors, spare, writing, given>>
pages  == <<active, count>>
screen == <<lcd, home>>
prog   == <<buffer, previous>>
flow   == <<tick, sampling, online, update>>
vars   == <<list, pages, view, screen, prog, flow, todo>>

Do(what, with) == [do |-> what, with |-> with, n |-> 0]
DoN(what, n)   == [do |-> what, with |-> "none", n |-> n]

\* what a line shows
Line(kind, n) == [kind |-> kind, n |-> n]
Blank   == Line("blank", 0)
Mixed   == Line("mixed", 0)
Version == Line("version", 0)
Nothing == <<Blank, Blank>>
Install == <<Line("install", 0), Blank>>

\* network_create(), init_app_label(), network_connect(), dht_init(), light_init()
sensors_init == << Do("register", "Temp"), Do("register", "Humidity"),
                   Do("status", "Temp"), Do("status", "Humidity"), Do("register", "Light") >>
network_init == << Do("register", "WiFi"), Do("status", "WiFi"),
                   Do("register", "Label"), Do("status", "Label"), Do("status", "WiFi") >>

\* mutant: the sampling starts before all sensors are there
init_app_sampling == network_init \o << Do("sampling", "on") >> \o sensors_init
                     \o << Do("online", "on") >>

init_app  == network_init \o sensors_init \o << Do("sampling", "on"), Do("online", "on") >>

\* mbed_client_on_error() for a network error
reconnect == << Do("sampling", "off"), Do("status", "WiFi"), Do("sampling", "on") >>

\* mbed_client_on_update_progress()
on_update_progress(n) == << DoN("progress", n) >>
                         \o (IF n = Total THEN << DoN("saving", 0) >> ELSE << >>)
                         \o << Do("refresh", "lcd") >>

\* platform_init() refreshed the display once, unless fs_init() failed; a factory reset
\* has left its message
Init == /\ sensors = <<>> /\ spare = <<>>
        /\ writing = [t \in Threads |-> "none"]
        /\ given = [s \in Names |-> 0]
        /\ active = 0 /\ count \in {0, 1}
        /\ view = "sensor"
        /\ lcd \in {Nothing, <<Line("reset", 0), Blank>>} /\ home = TRUE
        /\ buffer = Nothing /\ previous = Nothing
        /\ tick = TRUE /\ sampling = FALSE /\ online = FALSE
        /\ update = "none"
        /\ todo = [t \in Threads |-> IF t = "init" THEN init_app ELSE <<>>]

-----------------------------------------------------------------------------
(* Statements *)

At(t, what)  == todo[t] # <<>> /\ Head(todo[t]).do = what
With(t)      == Head(todo[t]).with
Return(t)    == todo' = [todo EXCEPT ![t] = Tail(@)]
Then(t, stm) == todo' = [todo EXCEPT ![t] = <<stm>> \o Tail(@)]

Sensor(name, status) == [name |-> name, status |-> status]

\* register_sensor(): push_back() fills an array of twice the size when this one is full,
\* and destroys this one in the end
Register(t) ==
    /\ At(t, "register")
    /\ IF Len(sensors) \in {0, 1, 2, 4}
       THEN /\ spare' = Append(sensors, Sensor(With(t), 0))
            /\ Then(t, Do("replace", With(t)))
            /\ UNCHANGED sensors
       ELSE /\ sensors' = Append(sensors, Sensor(With(t), 0))
            /\ Return(t)
            /\ UNCHANGED spare
    /\ UNCHANGED <<writing, given, pages, view, screen, prog, flow>>

Replace(t) == /\ At(t, "replace")
              /\ sensors' = spare /\ spare' = <<>>
              /\ Return(t)
              /\ UNCHANGED <<writing, given, pages, view, screen, prog, flow>>

Registered(name) == \E i \in 1..Len(sensors) : sensors[i].name = name
StatusOf(name)   == LET i == CHOOSE i \in 1..Len(sensors) : sensors[i].name = name
                    IN  sensors[i].status

\* set_sensor_status(): of a sensor that is registered
set_sensor_status(name, v) ==
    /\ sensors' = [i \in 1..Len(sensors) |->
                      IF sensors[i].name = name THEN Sensor(name, v) ELSE sensors[i]]
    /\ given' = IF Registered(name) THEN [given EXCEPT ![name] = v] ELSE given

\* a thread other than main assigns the string, while main may read it
BeginStatus(t) == /\ At(t, "status")
                  /\ writing' = [writing EXCEPT ![t] = With(t)]
                  /\ Then(t, Do("assign", With(t)))
                  /\ UNCHANGED <<sensors, spare, given, pages, view, screen, prog, flow>>

EndStatus(t) == /\ At(t, "assign")
                /\ \E v \in Statuses[With(t)] : set_sensor_status(With(t), v)
                /\ writing' = [writing EXCEPT ![t] = "none"]
                /\ Return(t)
                /\ UNCHANGED <<spare, pages, view, screen, prog, flow>>

\* sensors_start(), sensors_stop() and call_register()
Switch(t) == /\ \/ At(t, "sampling") /\ sampling' = (With(t) = "on") /\ UNCHANGED online
                \/ At(t, "online") /\ online' = TRUE /\ UNCHANGED sampling
             /\ Return(t)
             /\ UNCHANGED <<list, pages, view, screen, prog, tick, update>>

\* mutant: as many columns as percents
lines_percent(progress) == ((progress * 100) % Word) \div Total

\* the columns of the progress bar, in 32 bits
lines(progress) == ((progress * 80) % Word) \div Total

\* LCDProgress::set_progress()
SetProgress(t) ==
    /\ \/ At(t, "progress") /\ buffer' = <<Line("download", 0), Line("bar", lines(Head(todo[t]).n))>>
       \/ At(t, "saving") /\ buffer' = <<Line("saving", 0), Line("bar", 0)>>
    /\ Return(t)
    /\ UNCHANGED <<list, pages, view, screen, previous, flow>>

\* update_authorize(UpdateRequestDownload)
Grant(t) == /\ At(t, "grant")
            /\ update' = "loading"
            /\ Return(t)
            /\ UNCHANGED <<list, pages, view, screen, prog, tick, sampling, online>>

\* set_sensor_status() in main, the only thread that reads the string
Set(t) == /\ At(t, "set")
          /\ \E v \in Statuses[With(t)] : set_sensor_status(With(t), v)
          /\ Return(t)
          /\ UNCHANGED <<spare, writing, pages, view, screen, prog, flow>>

-----------------------------------------------------------------------------
(* DisplayMan::refresh() *)

Threshold == (PagingPeriod - 1) \div UpdatePeriod
Counted(n) == IF n < Threshold THEN n + 1 ELSE Threshold

\* is another thread moving the sensors, or assigning this one's status?
Raced(name) == spare # <<>> \/ \E t \in Threads : writing[t] = name

\* mutants: the last sensor is left out; the index does not wrap; the bottom line comes first
cycle_but_last == IF Len(sensors) = 0
    THEN /\ lcd' = [lcd EXCEPT ![1] = Version] /\ home' = FALSE
         /\ UNCHANGED active
    ELSE /\ lcd' = <<Version, Line(sensors[active + 1].name, sensors[active + 1].status)>>
         /\ home' = TRUE
         /\ active' = IF Len(sensors) = 1 THEN 0 ELSE (active + 1) % (Len(sensors) - 1)

cycle_unwrapped == IF Len(sensors) = 0
    THEN /\ lcd' = [lcd EXCEPT ![1] = Version] /\ home' = FALSE
         /\ UNCHANGED active
    ELSE /\ lcd' = <<Version, Line(sensors[active + 1].name, sensors[active + 1].status)>>
         /\ home' = TRUE
         /\ active' = (active + 1) % 5

cycle_bottom_first == IF Len(sensors) = 0
    THEN /\ lcd' = [lcd EXCEPT ![1] = Version] /\ home' = FALSE
         /\ UNCHANGED active
    ELSE /\ lcd' = <<Version, Line(sensors[active + 1].name, sensors[active + 1].status)>>
         /\ home' = FALSE
         /\ active' = (active + 1) % Len(sensors)

\* the version and one sensor; what is read while another thread writes it is undefined.
\* The cursor is where the last full line ended: at the start of the next one.
cycle_status ==
    \/ /\ sensors = <<>>
       /\ lcd' = [lcd EXCEPT ![1] = Version] /\ home' = FALSE
       /\ UNCHANGED active
    \/ /\ sensors # <<>>
       /\ LET s == sensors[active + 1]
          IN  \E page \in {Line(s.name, s.status)} \cup {x \in {Line("garbage", 0)} : Raced(s.name)} :
                  lcd' = <<Version, page>>
       /\ home' = TRUE
       /\ active' = (active + 1) % Len(sensors)

\* a line over which the characters that differ from _previous are written
Patched(i) == IF lcd[i] = previous[i] THEN buffer[i]
              ELSE IF buffer[i] = previous[i] THEN lcd[i] ELSE Mixed

\* LCDProgress::refresh(), up to its last statement: all 32 characters from where the
\* cursor is, or those that differ
RefreshProgress ==
    \/ /\ previous = Nothing /\ buffer # Nothing
       /\ lcd' = IF home THEN buffer ELSE <<Mixed, Mixed>>
       /\ UNCHANGED home
    \/ /\ previous # Nothing /\ buffer # previous
       /\ lcd' = <<Patched(1), Patched(2)>> /\ home' = FALSE
    \/ /\ previous = buffer
       /\ UNCHANGED screen

RefreshSensor(t) == /\ At(t, "refresh") /\ view = "sensor"
                    /\ IF count >= Threshold
                       THEN cycle_status /\ count' = Counted(0)
                       ELSE UNCHANGED <<active, screen>> /\ count' = Counted(count)
                    /\ Return(t)
                    /\ UNCHANGED <<list, view, prog, flow>>

RefreshDownload(t) == /\ At(t, "refresh") /\ view = "download"
                      /\ RefreshProgress
                      /\ count' = Counted(count)
                      /\ Then(t, Do("remember", "lcd"))
                      /\ UNCHANGED <<list, active, view, prog, flow>>

\* its last statement: _previous = _buffer
Remember(t) == /\ At(t, "remember")
               /\ previous' = buffer
               /\ Return(t)
               /\ UNCHANGED <<list, pages, view, screen, buffer, flow>>

RefreshInstall(t) == /\ At(t, "refresh") /\ view = "install"
                     /\ count' = Counted(count)
                     /\ Return(t)
                     /\ UNCHANGED <<list, active, view, screen, prog, flow>>

Statement(t) == \/ Register(t) \/ Replace(t) \/ BeginStatus(t) \/ EndStatus(t) \/ Set(t)
                \/ Switch(t) \/ SetProgress(t) \/ Grant(t) \/ Remember(t)
                \/ RefreshSensor(t) \/ RefreshDownload(t) \/ RefreshInstall(t)

-----------------------------------------------------------------------------
(* The event queue of main() *)

Run(t, statements) == todo[t] = <<>> /\ todo' = [todo EXCEPT ![t] = statements]

display_refresh == /\ tick
                   /\ Run("main", << Do("refresh", "lcd") >>)
                   /\ UNCHANGED <<list, pages, view, screen, prog, flow>>

\* light_read() and dht_read()
sample == /\ sampling
          /\ \/ Run("main", << Do("set", "Light") >>)
             \/ Run("main", << Do("set", "Temp"), Do("set", "Humidity") >>)
          /\ UNCHANGED <<list, pages, view, screen, prog, flow>>

\* mbed_client_handle_put_app_label()
put_app_label == /\ online
                 /\ Run("main", << Do("set", "Label") >>)
                 /\ UNCHANGED <<list, pages, view, screen, prog, flow>>

\* mutant: the display is refreshed on
download_ticking == /\ update = "asked"
                    /\ Run("main", << Do("refresh", "lcd"), Do("grant", "download") >>)
                    /\ sampling' = FALSE
                    /\ view' = "download"
                    /\ update' = "granting"
                    /\ UNCHANGED <<list, pages, screen, prog, tick, online>>

fota_auth_download == /\ update = "asked"
                      /\ Run("main", << Do("refresh", "lcd"), Do("grant", "download") >>)
                      /\ sampling' = FALSE /\ tick' = FALSE
                      /\ view' = "download"
                      /\ update' = "granting"
                      /\ UNCHANGED <<list, pages, screen, prog, online>>

\* mutant: back to the default view
install_default_view == /\ update = "ready" /\ todo["main"] = <<>>
                        /\ view' = "sensor"
                        /\ lcd' = Install /\ home' = TRUE
                        /\ tick' = TRUE
                        /\ update' = "installing"
                        /\ UNCHANGED <<list, pages, prog, sampling, online, todo>>

fota_auth_install == /\ update = "ready" /\ todo["main"] = <<>>
                     /\ view' = "install"
                     /\ lcd' = Install /\ home' = TRUE
                     /\ tick' = TRUE
                     /\ update' = "installing"
                     /\ UNCHANGED <<list, pages, prog, sampling, online, todo>>

-----------------------------------------------------------------------------
(* Callbacks of the client library, all in its thread *)

InClient == online /\ todo["client"] = <<>>

\* a registration takes longer than it takes to show the first sensor
AskDownload == /\ InClient
               /\ update = "none" /\ lcd[2] # Blank
               /\ update' = "asked"
               /\ UNCHANGED <<list, pages, view, screen, prog, tick, sampling, online, todo>>

Progress == /\ InClient
            /\ update = "loading"
            /\ \E n \in 0..Total : /\ Run("client", on_update_progress(n))
                                   /\ update' = IF n = Total THEN "loaded" ELSE update
            /\ UNCHANGED <<list, pages, view, screen, prog, tick, sampling, online>>

\* on_error() for an update error changes nothing here
DownloadFailed == /\ InClient
                  /\ update = "loading"
                  /\ update' = "none"
                  /\ UNCHANGED <<list, pages, view, screen, prog, tick, sampling, online, todo>>

AskInstall == /\ InClient
              /\ update = "loaded"
              /\ update' = "ready"
              /\ UNCHANGED <<list, pages, view, screen, prog, tick, sampling, online, todo>>

\* ignored once an install was requested
NetworkError == /\ InClient
                /\ update \notin {"ready", "installing"}
                /\ Run("client", reconnect)
                /\ UNCHANGED <<list, pages, view, screen, prog, flow>>

Next == \/ \E t \in Threads : Statement(t)
        \/ display_refresh \/ sample \/ put_app_label \/ fota_auth_download \/ fota_auth_install
        \/ AskDownload \/ Progress \/ DownloadFailed \/ AskInstall \/ NetworkError

Spec == Init /\ [][Next]_vars

\* the threads run on, and the event queue gets to the refresh when it is due
FairSpec == /\ Spec
            /\ \A t \in Threads : WF_vars(Statement(t))
            /\ SF_vars(display_refresh)

-----------------------------------------------------------------------------
(* Properties *)

\* The variables have their types; the index of the next page is that of a sensor.
TypeOK == /\ \A i \in 1..Len(sensors) : sensors[i].status \in Statuses[sensors[i].name] \cup {0}
          /\ active \in Nat /\ (sensors # <<>> => active < Len(sensors))
          /\ count \in 0..Threshold
          /\ view \in {"sensor", "download", "install"}
          /\ home \in BOOLEAN /\ tick \in BOOLEAN /\ sampling \in BOOLEAN /\ online \in BOOLEAN
          /\ update \in {"none", "asked", "granting", "loading", "loaded", "ready", "installing"}

\* No status is lost while the list of sensors grows: each sensor has the one it was given
\* last.  Nothing but the order of init_app() sees to it (main.cpp:1714-1717): push_back()
\* copies the sensors while main may set their statuses.
NoUpdateLost == \A s \in Names : Registered(s) => StatusOf(s) = given[s]

\* In the download view, when no thread is in the middle of a refresh, the LCD shows the
\* progress that was set last, although only what differs from _previous is written
\* (lcdprogress.cpp:76-91): nothing else has written to the LCD, the cursor was in the first
\* place for the first message, and no two threads have refreshed at the same time.
ProgressShown ==
    view = "download" /\ buffer # Nothing /\ (\A t \in {"main", "client"} : todo[t] = <<>>)
        => lcd = buffer

\* The progress bar is never longer than the 16 places of std::string progressbar, beyond
\* which set_progress() would write (lcdprogress.cpp:60-73), and it is full only once
\* everything was downloaded.
BarFits == buffer[2].kind = "bar" => /\ buffer[2].n \in 0..80
                                     /\ buffer[2].n = 80 => update = "loaded"

\* Once the message is there, "Installing..." stays, although the periodic refresh is
\* started again (main.cpp:704-709).
InstallShown == update = "installing" => lcd = Install

\* Every sensor gets its turn: a page shows the status that it has by then, unless the view
\* changes.  WiFi is not among them: each reconnection may spoil its page.
EverySensorShown ==
    \A s \in Names \ {"WiFi"} :
        (view = "sensor" /\ Registered(s)) ~> (lcd[2] = Line(s, given[s]) \/ view # "sensor")
=============================================================================
