--------------------------- MODULE FirmwareUpdate ---------------------------
(***************************************************************************)
(* The three threads of main.cpp around a firmware update: init_app, which *)
(* brings the network, the sensors and the mbed client up; main, which     *)
(* dispatches the event queue; and the mbed client thread, which reports   *)
(* registration, network errors and the stages of an update by callbacks.  *)
(* They share the event queue with its periodic events, the variables that *)
(* hold the ids of those events, and the network.                          *)
(*                                                                         *)
(* A thread is the statements it still has to run in the callback it is    *)
(* in; between two of them the other threads may run.  The mbed client     *)
(* library is external: it is modelled by the callbacks it makes.          *)
(***************************************************************************)
EXTENDS Naturals, Sequences

CONSTANTS NetErrors,     \* may the client report network errors?
          PromptInit,    \* does call_register() return before the registration completes?
          MaxDownloads,  \* bound: downloads the cloud asks for between two starts
          MaxAfterError, \* bound: the same, once a network error struck in one
          MaxEvents      \* bound: ids of periodic events in use at a time

ASSUME UpdateAssumption == /\ NetErrors \in BOOLEAN
                           /\ PromptInit \in BOOLEAN
                           /\ MaxDownloads \in Nat /\ MaxAfterError \in 0..MaxDownloads
                           /\ MaxEvents \in Nat \ {0}

VARIABLES timers,     \* the periodic events in the queue: their ids and what they run
          slot,       \* display_evq_id, event_queue_id_light and event_queue_id_dht
          evq,        \* the update handlers posted to the event queue
          todo,       \* for each thread, the statements left in what it is running
          ret,        \* for each thread, what its last call_every() returned
          loaded,     \* for each thread, the flags as it last loaded them
          wifi,       \* is the network connected?
          flags,      \* M2MClient::_flags
          reg,        \* the registration, as the client library sees it
          update,     \* the update, as the client library sees it
          downloads,  \* downloads asked for since the start
          disturbed,  \* history: has a network error struck in an update since the start?
          failed      \* history: which failed that nobody looks at: "call", of an update
                      \* handler; "disconnect", the last one

vars == <<timers, slot, evq, todo, ret, loaded, wifi, flags, reg, update, downloads, disturbed, failed>>

Threads == {"init", "main", "client"}
Sensors == {"light", "dht"}
Slots   == Sensors \cup {"display"}
Kinds   == Slots \cup {"keepalive"}

Do(what, with) == [do |-> what, with |-> with]

\* M2MClient::set_flag() and clear_flag(): a load and a store, with no lock
set_flag(f)   == << Do("load", f), Do("set", f) >>
clear_flag(f) == << Do("load", f), Do("clear", f) >>

\* mutant: the ids are forgotten before the events are cancelled
sensors_stop_zero_first == << Do("zero", "light"), Do("zero", "dht"),
                              Do("cancel", "light"), Do("cancel", "dht") >>

\* sensors_start() and sensors_stop(), statement by statement
sensors_start == << Do("every", "light"), Do("save", "light"),
                    Do("every", "dht"), Do("save", "dht") >>
sensors_stop  == << Do("cancel", "light"), Do("cancel", "dht"),
                    Do("zero", "light"), Do("zero", "dht") >>

\* init_app(), and register_mbed_client() at its end
init_app == << Do("check", "stack"), Do("connect", "wifi"), Do("check", "creds") >>
            \o sensors_start
            \o << Do("setup", "client") >> \o set_flag("REGISTER_CALLED")
            \o << Do("every", "keepalive") >>

\* mutant: the display goes on being refreshed
download_with_display == sensors_stop \o set_flag("FOTA_DL_GRANTED") \o << Do("grant", "download") >>

fota_auth_download == sensors_stop
                      \o << Do("cancel", "display"), Do("zero", "display") >>
                      \o set_flag("FOTA_DL_GRANTED") \o << Do("grant", "download") >>

\* mutant: the client is not closed
install_without_close == << Do("every", "display"), Do("save", "display") >>
                         \o set_flag("FOTA_INSTALL_REQD")

fota_auth_install == << Do("every", "display"), Do("save", "display") >>
                     \o set_flag("FOTA_INSTALL_REQD") \o << Do("close", "client") >>

\* mutant: the sensors are not started after
reconnect_unstarted == << Do("disconnect", "wifi") >> \o sensors_stop \o << Do("connect", "wifi") >>

\* mbed_client_on_error() for a network or DNS error
reconnect == << Do("disconnect", "wifi") >> \o sensors_stop
             \o << Do("connect", "wifi") >> \o sensors_start

\* mutants: the wrong flag; no flag before the handler runs
registered_misflagged == set_flag("REGISTER_CALLED")
install_unflagged     == << Do("post", "install") >>

\* client_registered(), the two cases of on_update_authorize(), client_unregistered()
client_registered   == set_flag("REGISTERED")
authorize_download  == set_flag("FOTA_DL_REQD") \o << Do("post", "download") >>
authorize_install   == set_flag("FOTA_INSTALL_REQD") \o << Do("post", "install") >>
client_unregistered == clear_flag("REGISTERED") \o clear_flag("REGISTER_CALLED")
                       \o << Do("unregistered", "client") >>

\* mutant: the network stays up
install_on_line == set_flag("FOTA_INSTALL_GRANTED") \o << Do("grant", "install") >>

\* what on_unregistered() does when an install was requested
install_off_line == << Do("disconnect", "wifi") >>
                    \o set_flag("FOTA_INSTALL_GRANTED") \o << Do("grant", "install") >>

Init == /\ timers = {[id |-> 1, run |-> "display"]}
        /\ slot = [s \in Slots |-> IF s = "display" THEN 1 ELSE 0]
        /\ evq = <<>>
        /\ todo = [t \in Threads |-> IF t = "init" THEN init_app ELSE <<>>]
        /\ ret = [t \in Threads |-> 0]
        /\ loaded = [t \in Threads |-> {}]
        /\ wifi = FALSE
        /\ flags = {}
        /\ reg = "off"
        /\ update = "none"
        /\ downloads = 0
        /\ disturbed = FALSE
        /\ failed = {}

-----------------------------------------------------------------------------
(* Statements *)

At(t, what) == todo[t] # <<>> /\ Head(todo[t]).do = what
With(t)     == Head(todo[t]).with
Return(t)   == todo' = [todo EXCEPT ![t] = Tail(@)]

IdsInUse == {e.id : e \in timers} \cup {slot[s] : s \in Slots} \cup {ret[t] : t \in Threads}
FreeIds  == (1..MaxEvents) \ IdsInUse

\* EventQueue::call_every(): a fresh id, or 0 when the queue has no memory left
Every(t) == /\ At(t, "every")
            /\ IF FreeIds = {}
               THEN ret' = [ret EXCEPT ![t] = 0] /\ UNCHANGED timers
               ELSE LET id == CHOOSE i \in FreeIds : TRUE
                    IN  /\ ret' = [ret EXCEPT ![t] = id]
                        /\ timers' = timers \cup {[id |-> id, run |-> With(t)]}
            /\ Return(t)
            /\ UNCHANGED <<slot, evq, loaded, wifi, flags, reg, update, downloads, disturbed, failed>>

Save(t) == /\ At(t, "save")
           /\ slot' = [slot EXCEPT ![With(t)] = ret[t]]
           /\ Return(t)
           /\ UNCHANGED <<timers, evq, ret, loaded, wifi, flags, reg, update, downloads, disturbed, failed>>

\* EventQueue::cancel(): no effect on an id that is not in the queue
Cancel(t) == /\ At(t, "cancel")
             /\ timers' = {e \in timers : e.id # slot[With(t)]}
             /\ Return(t)
             /\ UNCHANGED <<slot, evq, ret, loaded, wifi, flags, reg, update, downloads, disturbed, failed>>

\* mutant: -1 for "no event"
ZeroMinusOne(t) == /\ At(t, "zero")
                   /\ slot' = [slot EXCEPT ![With(t)] = 0 - 1]
                   /\ Return(t)
                   /\ UNCHANGED <<timers, evq, ret, loaded, wifi, flags, reg, update, downloads, disturbed, failed>>

Zero(t) == /\ At(t, "zero")
           /\ slot' = [slot EXCEPT ![With(t)] = 0]
           /\ Return(t)
           /\ UNCHANGED <<timers, evq, ret, loaded, wifi, flags, reg, update, downloads, disturbed, failed>>

\* sync_network_connect(): a failed attempt is retried, which changes nothing here
Connect(t) == /\ At(t, "connect")
              /\ wifi' = TRUE
              /\ Return(t)
              /\ UNCHANGED <<timers, slot, evq, ret, loaded, flags, reg, update, downloads, disturbed, failed>>

\* net->disconnect(), which may fail
Disconnect(t) == /\ At(t, "disconnect")
                 /\ \/ wifi' = FALSE /\ failed' = failed \ {"disconnect"}
                    \/ UNCHANGED wifi /\ failed' = failed \cup {"disconnect"}
                 /\ Return(t)
                 /\ UNCHANGED <<timers, slot, evq, ret, loaded, flags, reg, update, downloads, disturbed>>

\* network_create() and do_fcc(): without a network stack, or without credentials,
\* init_app() returns early
Check(t) == /\ At(t, "check")
            /\ Return(t) \/ todo' = [todo EXCEPT ![t] = <<>>]
            /\ UNCHANGED <<timers, slot, evq, ret, loaded, wifi, flags, reg, update, downloads, disturbed, failed>>

Load(t) == /\ At(t, "load")
           /\ loaded' = [loaded EXCEPT ![t] = flags]
           /\ Return(t)
           /\ UNCHANGED <<timers, slot, evq, ret, wifi, flags, reg, update, downloads, disturbed, failed>>

Store(t) == /\ \/ At(t, "set") /\ flags' = loaded[t] \cup {With(t)}
               \/ At(t, "clear") /\ flags' = loaded[t] \ {With(t)}
            /\ Return(t)
            /\ UNCHANGED <<timers, slot, evq, ret, loaded, wifi, reg, update, downloads, disturbed, failed>>

\* M2MClient::call_register(): the client library starts to register, or setup() fails,
\* of which init_app() takes no notice
Setup(t) == /\ At(t, "setup")
            /\ reg' \in {"trying", "off"}
            /\ Return(t)
            /\ UNCHANGED <<timers, slot, evq, ret, loaded, wifi, flags, update, downloads, disturbed, failed>>

\* MbedCloudClient::update_authorize()
Grant(t) == /\ At(t, "grant")
            /\ update' = IF update = "asked" /\ With(t) = "download" THEN "loading"
                         ELSE IF update = "ready" /\ With(t) = "install" THEN "installing"
                         ELSE update
            /\ Return(t)
            /\ UNCHANGED <<timers, slot, evq, ret, loaded, wifi, flags, reg, downloads, disturbed, failed>>

\* EventQueue::call(), which fails when the other events leave no memory
Post(t) == /\ At(t, "post")
           /\ \/ evq' = Append(evq, With(t)) /\ UNCHANGED failed
              \/ failed' = failed \cup {"call"} /\ UNCHANGED evq
           /\ update' = IF With(t) = "install" THEN "ready" ELSE "asked"
           /\ Return(t)
           /\ UNCHANGED <<timers, slot, ret, loaded, wifi, flags, reg, downloads, disturbed>>

\* mbed_client_on_unregistered()
Unregistered(t) ==
    /\ At(t, "unregistered")
    /\ IF "FOTA_INSTALL_REQD" \in flags
       THEN todo' = [todo EXCEPT ![t] = install_off_line \o Tail(@)]
       ELSE Return(t)
    /\ UNCHANGED <<timers, slot, evq, ret, loaded, wifi, flags, reg, update, downloads, disturbed, failed>>

\* M2MClient::close(): the client library will report when it has unregistered
Close(t) == /\ At(t, "close")
            /\ reg' = "closing"
            /\ Return(t)
            /\ UNCHANGED <<timers, slot, evq, ret, loaded, wifi, flags, update, downloads, disturbed, failed>>

\* the work of a periodic event: light_read(), dht_read(), display_refresh(), keep-alive
Work(t) == /\ At(t, "work")
           /\ Return(t)
           /\ UNCHANGED <<timers, slot, evq, ret, loaded, wifi, flags, reg, update, downloads, disturbed, failed>>

Statement(t) == \/ Every(t) \/ Save(t) \/ Cancel(t) \/ Zero(t)
                \/ Load(t) \/ Store(t) \/ Post(t)
                \/ Connect(t) \/ Disconnect(t) \/ Check(t) \/ Setup(t)
                \/ Grant(t) \/ Close(t) \/ Unregistered(t) \/ Work(t)

-----------------------------------------------------------------------------
(* The event loop of main() *)

Run(t, statements) == todo[t] = <<>> /\ todo' = [todo EXCEPT ![t] = statements]

Dispatch == /\ evq # <<>>
            /\ Run("main", IF Head(evq) = "download" THEN fota_auth_download ELSE fota_auth_install)
            /\ evq' = Tail(evq)
            /\ UNCHANGED <<timers, slot, ret, loaded, wifi, flags, reg, update, downloads, disturbed, failed>>

\* a periodic event is due
Fire == /\ \E e \in timers : Run("main", <<Do("work", e.run)>>)
        /\ UNCHANGED <<timers, slot, evq, ret, loaded, wifi, flags, reg, update, downloads, disturbed, failed>>

-----------------------------------------------------------------------------
(* Callbacks of the client library, all in its thread *)

InClient == todo["client"] = <<>> /\ reg # "off"

ClientRegistered ==
    /\ InClient
    /\ reg = "trying" /\ wifi
    /\ PromptInit => "REGISTER_CALLED" \in flags
    /\ reg' = "registered"
    /\ Run("client", client_registered)
    /\ UNCHANGED <<timers, slot, evq, ret, loaded, wifi, flags, update, downloads, disturbed, failed>>

\* on_update_authorize(UpdateRequestDownload)
AskDownload ==
    /\ InClient
    /\ reg = "registered" /\ update = "none"
    /\ downloads < IF disturbed THEN MaxAfterError ELSE MaxDownloads
    /\ downloads' = downloads + 1
    /\ Run("client", authorize_download)
    /\ UNCHANGED <<timers, slot, evq, ret, loaded, wifi, flags, reg, update, disturbed, failed>>

\* on_update_progress(total, total)
DownloadComplete ==
    /\ InClient
    /\ update = "loading" /\ wifi
    /\ update' = "loaded"
    /\ UNCHANGED <<timers, slot, evq, todo, ret, loaded, wifi, flags, reg, downloads, disturbed, failed>>

\* on_error() for an update error: shown on the display, nothing else
DownloadFailed ==
    /\ InClient
    /\ update = "loading"
    /\ update' = "none"
    /\ UNCHANGED <<timers, slot, evq, todo, ret, loaded, wifi, flags, reg, downloads, disturbed, failed>>

\* on_update_authorize(UpdateRequestInstall)
AskInstall ==
    /\ InClient
    /\ update = "loaded"
    /\ Run("client", authorize_install)
    /\ UNCHANGED <<timers, slot, evq, ret, loaded, wifi, flags, reg, update, downloads, disturbed, failed>>

\* mutant: the install is not looked for
NetworkErrorAlways ==
    /\ NetErrors
    /\ InClient
    /\ reg # "closed"
    /\ reg' = IF reg = "registered" THEN "trying" ELSE reg
    /\ update' \in {update, IF update = "loading" THEN "none" ELSE update}
    /\ disturbed' = (disturbed \/ update # "none")
    /\ Run("client", reconnect)
    /\ UNCHANGED <<timers, slot, evq, ret, loaded, wifi, flags, downloads, failed>>

\* on_error() for ConnectNetworkError or ConnectDnsResolvingFailed: the client keeps
\* trying to register; a download under way may go on once it is back, or not
NetworkError ==
    /\ NetErrors
    /\ InClient
    /\ reg # "closed"
    /\ reg' = IF reg = "registered" THEN "trying" ELSE reg
    /\ update' \in {update, IF update = "loading" THEN "none" ELSE update}
    /\ IF "FOTA_INSTALL_REQD" \in flags
       THEN UNCHANGED todo
       ELSE Run("client", reconnect)
    /\ disturbed' = (disturbed \/ update # "none")
    /\ UNCHANGED <<timers, slot, evq, ret, loaded, wifi, flags, downloads, failed>>

\* the client has unregistered, as close() asked
ClientUnregistered ==
    /\ InClient
    /\ reg = "closing"
    /\ reg' = "closed"
    /\ Run("client", client_unregistered)
    /\ UNCHANGED <<timers, slot, evq, ret, loaded, wifi, flags, update, downloads, disturbed, failed>>

\* the update client reboots into the bootloader, and the new firmware starts
Reboot ==
    /\ update = "installing"
    /\ timers' = {[id |-> 1, run |-> "display"]}
    /\ slot' = [s \in Slots |-> IF s = "display" THEN 1 ELSE 0]
    /\ evq' = <<>>
    /\ todo' = [t \in Threads |-> IF t = "init" THEN init_app ELSE <<>>]
    /\ ret' = [t \in Threads |-> 0]
    /\ loaded' = [t \in Threads |-> {}]
    /\ wifi' = FALSE
    /\ flags' = {}
    /\ reg' = "off"
    /\ update' = "none"
    /\ downloads' = 0
    /\ disturbed' = FALSE
    /\ failed' = {}

Callback == \/ ClientRegistered \/ AskDownload \/ DownloadComplete \/ DownloadFailed
            \/ AskInstall \/ NetworkError \/ ClientUnregistered

Next == \/ \E t \in Threads : Statement(t)
        \/ Dispatch \/ Fire
        \/ Callback \/ Reboot

Spec == Init /\ [][Next]_vars

\* what goes on for sure: over a network that a failed disconnect() left up, connect() may
\* be refused for ever
GoesOn(t) == (At(t, "connect") => ~wifi) /\ Statement(t)

\* Threads run, the access point answers in the end, the client library reports the
\* end of an unregistration and goes on with a complete download; the event queue
\* serves what is due in turn, so that a posted handler is not put off for ever by
\* periodic events.
FairSpec == /\ Spec
            /\ \A t \in Threads : WF_vars(GoesOn(t))
            /\ SF_vars(Dispatch)
            /\ WF_vars(AskInstall)
            /\ WF_vars(ClientUnregistered)
-----------------------------------------------------------------------------
(* Properties *)

FlagNames == {"REGISTER_CALLED", "REGISTERED", "FOTA_DL_REQD", "FOTA_DL_GRANTED",
              "FOTA_INSTALL_REQD", "FOTA_INSTALL_GRANTED"}

Statements == {Do("every", b) : b \in Kinds}
              \cup {Do(a, b) : a \in {"save", "cancel", "zero"}, b \in Slots}
              \cup {Do("work", b) : b \in Kinds}
              \cup {Do("connect", "wifi"), Do("disconnect", "wifi"),
                    Do("check", "stack"), Do("check", "creds"),
                    Do("setup", "client"), Do("close", "client"),
                    Do("grant", "download"), Do("grant", "install"),
                    Do("post", "download"), Do("post", "install"), Do("unregistered", "client")}
              \cup {Do(a, f) : a \in {"load", "set", "clear"}, f \in FlagNames}

TypeOK ==
    /\ timers \subseteq [id : 1..MaxEvents, run : Kinds]
    /\ slot \in [Slots -> 0..MaxEvents]
    /\ evq \in Seq({"download", "install"})
    /\ todo \in [Threads -> Seq(Statements)]
    /\ ret \in [Threads -> 0..MaxEvents]
    /\ wifi \in BOOLEAN
    /\ flags \subseteq FlagNames
    /\ loaded \in [Threads -> SUBSET FlagNames]
    /\ reg \in {"off", "trying", "registered", "closing", "closed"}
    /\ update \in {"none", "asked", "loading", "loaded", "ready", "installing"}
    /\ downloads \in 0..MaxDownloads
    /\ disturbed \in BOOLEAN
    /\ failed \subseteq {"call", "disconnect"}

Downloading == update = "loading"

\* main is in the middle of the work of a periodic event of this kind
Busy(kind)  == At("main", "work") /\ With("main") = kind
\* the queue holds such an event
Ticks(kind) == \E e \in timers : e.run = kind

\* While a download runs, no sensor is sampled and the display is not refreshed from
\* the event queue, neither in progress nor due (main.cpp:684-687) - unless a network
\* error strikes in an update, whatever network errors came before it.
DownloadQuiet ==
    Downloading /\ ~disturbed => \A k \in Slots : ~Ticks(k) /\ ~Busy(k)

\* When no thread is in a callback, every periodic event of a sensor or of the display
\* is the one its variable names: none was started twice, or leaked so that
\* sensors_stop() and fota_auth_download() cannot stop it.
TimersTracked ==
    (\A t \in Threads : todo[t] = <<>>) /\ ~disturbed
        => \A e \in timers : e.run \in Slots => slot[e.run] = e.id

\* An install is authorised only with the device off the cloud, and off the network unless
\* its last disconnect() failed; by then with the display refreshed again and no update
\* handler pending; and with no sensor running, unless a network error of the download had
\* started them again.
InstallGuarded ==
    update = "installing" => /\ reg = "closed" /\ "REGISTERED" \notin flags
                             /\ wifi => "disconnect" \in failed
                             /\ Ticks("display") /\ evq = <<>>
                             /\ \A s \in Sensors : Ticks(s) => disturbed

\* From the request to install on, no network error makes the client thread reconnect
\* the network or restart the sensors under the install (main.cpp:818-821).
InstallUndisturbed ==
    "FOTA_INSTALL_REQD" \in flags
        => \A i \in DOMAIN todo["client"] : todo["client"][i].do \notin {"connect", "every"}

\* A registered client is flagged as registered, so that the keep-alive event sends its
\* "registration updates to the mbed cloud server" (main.cpp:897-898).
RegisteredIsFlagged ==
    reg = "registered" /\ (\A t \in Threads : todo[t] = <<>>) => "REGISTERED" \in flags

\* The unlocked load and store of _flags in three threads lose no update request.
RequestsKept ==
    /\ update \in {"asked", "loading", "loaded", "ready", "installing"} => "FOTA_DL_REQD" \in flags
    /\ update \in {"ready", "installing"} => "FOTA_INSTALL_REQD" \in flags

\* "doing *anything* outside of the firmware download's thread context will result in a
\* failed download" (main.cpp:685-687), network errors or not.
DownloadUndisturbed == Downloading => \A k \in Slots : ~Ticks(k) /\ ~Busy(k)

\* A requested install is authorised in the end, network errors or not, unless the call of
\* its handler failed: then the request stays flagged for ever.
InstallHappens ==
    ("FOTA_INSTALL_REQD" \in flags) ~> (update = "installing" \/ "call" \in failed)

\* After a network error both sensors run again, under ids that can stop them, unless an
\* update is asked for meanwhile, or the disconnect() failed before.
SensorsResume ==
    At("client", "connect") /\ update = "none"
        ~> \/ \A s \in Sensors : \E e \in timers : e.run = s /\ slot[s] = e.id
           \/ update # "none"
           \/ "disconnect" \in failed
=============================================================================
