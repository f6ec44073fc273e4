------------------------------ MODULE Startup ------------------------------
(***************************************************************************)
(* From power on to the registration: main() with platform_init() and the  *)
(* factory reset, the init thread that it starts (init_app), and the       *)
(* console, which the main thread serves while the init thread runs.       *)
(*                                                                         *)
(* What lasts is the filesystem with the network options in it and the     *)
(* credentials of the factory configuration client (fcc).  The power may   *)
(* go at any time.  The keystore is the map of StoreMaps; the window of    *)
(* write() in which there is no file (Keystore) is the place "update" of   *)
(* main, and nobody looks at what open() and write() return.               *)
(***************************************************************************)
EXTENDS Naturals

CONSTANTS Options,   \* the network options: wifi.ssid, wifi.key, wifi.encryption
          Defaults,  \* for each, whether its default is what the access point wants
          Faults     \* the failures that may happen

FaultKinds == {"fs", "format", "fcc", "delete", "network", "flow", "connect", "scan", "rescan", "store", "power"}

\* an option is not stored, or it is what the access point wants, or not
Settings == {"none", "right", "wrong"}

ASSUME StartupAssumption == /\ Defaults \in [Options -> {"right", "wrong"}]
                            /\ Faults \subseteq FaultKinds

VARIABLES fs,       \* "good": a filesystem that can be mounted, or "bad"
          opts,     \* the options stored in it
          certs,    \* are credentials stored?
          mpc,      \* where main() is
          ipc,      \* where init_app() is
          held,     \* check_factory_reset(): was the button held?
          mounted,  \* is the filesystem mounted?
          fcc,      \* is the fcc initialised?
          using,    \* the options network_connect() read last
          wifi,     \* is the network connected?
          reported  \* has an error been printed since power on?

lasting == <<fs, opts, certs>>
memory  == <<held, mounted, fcc, using, wifi, reported>>
vars    == <<lasting, mpc, ipc, memory>>

NoOptions == [o \in Options |-> "none"]

\* the keystore: a value that was cut short is not what the access point wants
Store == INSTANCE StoreMaps
            WITH Keys <- Options, Vals <- {"right", "wrong"}, NoVal <- "none", Junk <- "wrong"

Init == /\ fs \in {"good", "bad"}
        /\ opts \in IF fs = "good" THEN [Options -> Settings] ELSE {NoOptions}
        /\ certs \in BOOLEAN
        /\ mpc = "button" /\ ipc = "off"
        /\ held = FALSE /\ mounted = FALSE /\ fcc = FALSE /\ wifi = FALSE /\ reported = {}
        /\ using = Defaults

\* one thread goes on: from one place to another
Main(from, to)  == mpc = from /\ mpc' = to /\ UNCHANGED ipc
InitT(from, to) == mpc # "dead" /\ ipc = from /\ ipc' = to /\ UNCHANGED mpc

\* an error of one of the kinds in Faults goes to the console
Reports(kind) == reported' = reported \cup {kind}
Fails(kind)   == kind \in Faults /\ Reports(kind)

-----------------------------------------------------------------------------
(* platform_init() *)

check_factory_reset == /\ Main("button", "fs")
                       /\ held' \in BOOLEAN
                       /\ UNCHANGED <<lasting, mounted, fcc, using, wifi, reported>>

\* when it fails there is no factory reset, and main() goes on
fs_init ==
    /\ \/ /\ fs = "good"
          /\ Main("fs", IF held THEN "format" ELSE "start")
          /\ mounted' = TRUE
          /\ UNCHANGED reported
       \/ /\ fs = "bad" \/ "fs" \in Faults
          /\ Main("fs", "start")
          /\ Reports("fs")
          /\ UNCHANGED mounted
    /\ UNCHANGED <<lasting, held, fcc, using, wifi>>

\* mutant: the filesystem is not unmounted while it is written
UnmountForgotten(from, to) == /\ Main(from, to)
                              /\ fs' = "bad" /\ opts' = NoOptions
                              /\ UNCHANGED <<certs, held, mounted, fcc, using, wifi, reported>>

\* FATFileSystem::reformat() unmounts, writes a new filesystem and mounts it; until
\* then there is none
Unmount(from, to) == /\ Main(from, to)
                     /\ fs' = "bad" /\ mounted' = FALSE /\ opts' = NoOptions
                     /\ UNCHANGED <<certs, held, fcc, using, wifi, reported>>

Mount(from, to, failed) ==
    /\ \/ Main(from, to) /\ fs' = "good" /\ mounted' = TRUE /\ UNCHANGED reported
       \/ Main(from, failed) /\ Fails("format") /\ UNCHANGED <<fs, mounted>>
    /\ UNCHANGED <<opts, certs, held, fcc, using, wifi>>

\* do_factory_reset() starts; when the format fails it ends
factory_format == Unmount("format", "formatting") \/ Mount("formatting", "fcc_init", "start")

\* do_factory_reset() does not look at the result
factory_fcc_init == /\ Main("fcc_init", "delete")
                    /\ fcc' \in IF "fcc" \in Faults THEN BOOLEAN ELSE {TRUE}
                    /\ UNCHANGED <<lasting, held, mounted, using, wifi, reported>>

\* mutant: what was deleted is not looked at
DeleteUnchecked == \/ fcc /\ certs' = FALSE /\ UNCHANGED reported
                   \/ (~fcc \/ "delete" \in Faults) /\ UNCHANGED <<certs, reported>>

\* fcc_storage_delete(): NOT_INITIALIZED without the fcc
Delete == \/ fcc /\ certs' = FALSE /\ UNCHANGED reported
          \/ ~fcc /\ Reports("delete") /\ UNCHANGED certs
          \/ Fails("delete") /\ UNCHANGED certs

factory_delete == /\ Main("delete", "finalize")
                  /\ Delete
                  /\ UNCHANGED <<fs, opts, held, mounted, fcc, using, wifi>>

factory_finalize == /\ Main("finalize", "start")
                    /\ fcc' = FALSE
                    /\ UNCHANGED <<lasting, held, mounted, using, wifi, reported>>

\* main() starts the init thread and enters the run loop, whatever platform_init() did
start_threads == /\ mpc = "start" /\ mpc' = "loop"
                 /\ ipc' = "init_fcc"
                 /\ UNCHANGED <<lasting, memory>>

PlatformInit == \/ check_factory_reset \/ fs_init \/ factory_format
                \/ factory_fcc_init \/ factory_delete \/ factory_finalize

-----------------------------------------------------------------------------
(* The console, from the run loop *)

\* set and del: open(), the change and write(), which may give up, or damage other options
\* by what it read or wrote; the keystore has no file until the update ends
cmd_update ==
    /\ mounted
    /\ Main("loop", "update")
    /\ \E o \in Options, v \in Settings :
          LET want == [opts EXCEPT ![o] = v]
          IN  opts' \in {want} \cup {d \in Store!Damaged(want) \cup {opts} : "store" \in Faults}
    /\ UNCHANGED <<fs, certs, memory>>

\* reset for the options: remove() takes the file, or fails
cmd_reset_options == /\ mounted
                     /\ Main("loop", "loop")
                     /\ opts' \in {NoOptions} \cup {d \in {opts} : "store" \in Faults}
                     /\ UNCHANGED <<fs, certs, memory>>

update_ends == Main("update", "loop") /\ UNCHANGED <<lasting, memory>>

cmd_reset_certs == /\ Main("loop", "loop")
                   /\ Delete
                   /\ UNCHANGED <<fs, opts, held, mounted, fcc, using, wifi>>

cmd_format == Unmount("loop", "reformatting") \/ Mount("reformatting", "loop", "loop")

Console == cmd_update \/ update_ends \/ cmd_reset_options \/ cmd_reset_certs \/ cmd_format

-----------------------------------------------------------------------------
(* init_app(), in the init thread *)

\* mutant: the fcc is left to the time when the network is there
init_fcc_late == /\ InitT("init_fcc", "create")
                 /\ UNCHANGED <<lasting, memory>>

\* init_app() does not look at the result either
init_fcc == /\ InitT("init_fcc", "create")
            /\ \/ fcc' = TRUE /\ UNCHANGED reported
               \/ Fails("fcc") /\ UNCHANGED fcc
            /\ UNCHANGED <<lasting, held, mounted, using, wifi>>

\* without a network the thread ends
network_create == /\ \/ InitT("create", "read") /\ UNCHANGED reported
                     \/ InitT("create", "failed") /\ Fails("network")
                  /\ UNCHANGED <<lasting, held, mounted, fcc, using, wifi>>

\* the option in what a read has found, and in what a read finds now
SettingIn(db, o) == IF db[o] = "none" THEN Defaults[o] ELSE db[o]
Setting(o)       == IF ~mounted \/ mpc = "update" THEN Defaults[o] ELSE SettingIn(opts, o)

\* mutant: the options are read once
read_once == /\ InitT("read", "connect")
             /\ using' = IF using = Defaults THEN [o \in Options |-> Setting(o)] ELSE using
             /\ UNCHANGED <<lasting, held, mounted, fcc, wifi, reported>>

\* network_connect() reads the options, each time it is called, ...
read_options == /\ InitT("read", "connect")
                /\ using' = [o \in Options |-> Setting(o)]
                /\ UNCHANGED <<lasting, held, mounted, fcc, wifi, reported>>

\* or what is left of them, when the read fails, which it does not see, ...
misread_options == /\ "store" \in Faults
                   /\ InitT("read", "connect")
                   /\ \E db \in Store!Damaged(opts) : using' = [o \in Options |-> SettingIn(db, o)]
                   /\ UNCHANGED <<lasting, held, mounted, fcc, wifi, reported>>

\* ... and connects; sync_network_connect() calls it until it succeeds
connected == /\ \A o \in Options : using[o] = "right"
             /\ InitT("connect", "scan")
             /\ wifi' = TRUE
             /\ UNCHANGED <<lasting, held, mounted, fcc, using, reported>>

not_connected == /\ InitT("connect", "read")
                 /\ (\E o \in Options : using[o] = "wrong") \/ "connect" \in Faults
                 /\ Reports("connect")
                 /\ UNCHANGED <<lasting, held, mounted, fcc, using, wifi>>

\* network_scan(): a failed first scan gives a negative size of an array, with which
\* operator new[] stops the device; a failed second one is reported
network_scan == \/ /\ InitT("scan", "flow")
                   /\ UNCHANGED reported \/ Fails("rescan")
                   /\ UNCHANGED <<lasting, held, mounted, fcc, using, wifi>>
                \/ /\ ipc = "scan" /\ mpc # "dead"
                   /\ "scan" \in Faults
                   /\ mpc' = "dead"
                   /\ UNCHANGED <<lasting, ipc, memory>>

\* do_fcc(): credentials that exist are as good as new ones, ...
developer_flow == /\ \/ fcc /\ certs' = TRUE /\ InitT("flow", "verify") /\ UNCHANGED reported
                     \/ ~fcc /\ InitT("flow", "failed") /\ Reports("flow") /\ UNCHANGED certs
                     \/ InitT("flow", "failed") /\ Fails("flow") /\ UNCHANGED certs
                  /\ UNCHANGED <<fs, opts, held, mounted, fcc, using, wifi>>

\* ... and a console command may have deleted them again
verify_configured == /\ \/ certs /\ InitT("verify", "register") /\ UNCHANGED reported
                        \/ ~certs /\ InitT("verify", "failed") /\ Reports("flow")
                     /\ UNCHANGED <<lasting, held, mounted, fcc, using, wifi>>

\* sensors_init(), sensors_start() and register_mbed_client(): the thread ends
register_client == /\ InitT("register", "done")
                   /\ UNCHANGED <<lasting, memory>>

InitApp == \/ init_fcc \/ network_create \/ read_options \/ misread_options \/ not_connected
           \/ network_scan \/ developer_flow \/ verify_configured \/ register_client

-----------------------------------------------------------------------------
\* the power goes and comes back, or the user reboots: an interrupted format leaves no
\* filesystem, an interrupted update perhaps no options
PowerLoss == /\ "power" \in Faults
             /\ opts' \in IF mpc = "update" THEN {opts, NoOptions} ELSE {opts}
             /\ mpc' = "button" /\ ipc' = "off"
             /\ held' = FALSE /\ mounted' = FALSE /\ fcc' = FALSE /\ wifi' = FALSE /\ reported' = {}
             /\ using' = Defaults
             /\ UNCHANGED <<fs, certs>>

Next == PlatformInit \/ start_threads \/ Console \/ InitApp \/ connected \/ PowerLoss

Spec == Init /\ [][Next]_vars

\* main() runs on and what it has begun ends; so does the init thread, the reads do not fail
\* for ever, and the access point does not refuse the right options for ever
FairSpec == /\ Spec
            /\ WF_vars(PlatformInit) /\ WF_vars(start_threads) /\ WF_vars(update_ends)
            /\ WF_vars(Mount("reformatting", "loop", "loop"))
            /\ WF_vars(InitApp) /\ SF_vars(read_options) /\ SF_vars(connected)

-----------------------------------------------------------------------------
\* The variables have their types; main() has left the initialisation exactly when there
\* is an init thread, and there are no options where there is no filesystem.
TypeOK == /\ fs \in {"good", "bad"}
          /\ opts \in [Options -> Settings]
          /\ certs \in BOOLEAN
          /\ mpc \in {"button", "fs", "format", "formatting", "fcc_init", "delete", "finalize",
                      "start", "loop", "update", "reformatting", "dead"}
          /\ ipc \in {"off", "init_fcc", "create", "read", "connect", "scan", "flow",
                      "verify", "register", "done", "failed"}
          /\ held \in BOOLEAN /\ mounted \in BOOLEAN /\ fcc \in BOOLEAN /\ wifi \in BOOLEAN
          /\ using \in [Options -> {"right", "wrong"}]
          /\ reported \subseteq FaultKinds
          /\ ipc = "off" <=> mpc \notin {"loop", "update", "reformatting", "dead"}
          /\ mounted => fs = "good"
          /\ fs = "bad" => opts = NoOptions

\* A factory reset that has reported no error has removed the options and the credentials
\* before the rest of the firmware starts (do_factory_reset(), main.cpp:972-990).
FactoryResetWhole ==
    mpc = "start" /\ held /\ reported \cap {"fs", "format", "delete"} = {}
        => opts = NoOptions /\ ~certs

\* "init the fcc as early as possible to allow the user to call "reset certs" without
\* having to wait for the network to connect" (main.cpp:1660-1662): from the first attempt
\* to connect on, unless its own initialisation failed, and said so, the fcc is there.
CertsResettable == ipc \notin {"off", "init_fcc"} => fcc \/ "fcc" \in reported

\* Setting the network options by the console needs no reboot: when they stay right, and
\* the main thread is idle, the init thread connects (sync_network_connect() reads the
\* keystore on each attempt, main.cpp:484-568).
OptionsTakeEffect ==
    <>[](mpc = "loop" /\ ipc # "failed" /\ \A o \in Options : Setting(o) = "right") => <>[]wifi
=============================================================================
