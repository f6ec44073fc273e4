---------------------------- MODULE StartupProofs ----------------------------
(* The factory reset and the early fcc, for every set of options, every    *)
(* defaults of them and every set of failures.                             *)
EXTENDS Startup, TLAPS

\* How far a factory reset has come at each place in do_factory_reset(): the options are
\* gone once the format has begun, and the credentials, or there was an error, before the
\* fcc is finalised.
ResetInv ==
    /\ mpc \in {"formatting", "fcc_init", "delete", "finalize"} => held /\ opts = NoOptions
    /\ mpc = "format" => held
    /\ mpc = "finalize" /\ certs => "delete" \in reported

Inv == TypeOK /\ ResetInv /\ FactoryResetWhole /\ CertsResettable

\* No option is set in NoOptions.
LEMMA NoOptionsType == NoOptions \in [Options -> Settings]
BY DEF NoOptions, Settings

\* Damaged options are options.
LEMMA DamagedType == \A db : Store!Damaged(db) \subseteq [Options -> Settings]
BY DEF Store!Damaged, Store!Db, Settings

\* The invariant holds when the power comes for the first time.
LEMMA InitInv == Init => Inv
<1>. SUFFICES ASSUME Init PROVE Inv
  OBVIOUS
<1>. USE DEF Init
<1>1. TypeOK
  <2>1. opts \in [Options -> Settings] /\ (fs = "bad" => opts = NoOptions)
    BY NoOptionsType
  <2>2. using \in [Options -> {"right", "wrong"}]
    BY StartupAssumption
  <2>3. held \in BOOLEAN /\ mounted \in BOOLEAN /\ fcc \in BOOLEAN /\ wifi \in BOOLEAN /\ certs \in BOOLEAN
    BY Zenon
  <2>. QED BY <2>1, <2>2, <2>3 DEF TypeOK
<1>2. ResetInv /\ FactoryResetWhole /\ CertsResettable
  BY DEF ResetInv, FactoryResetWhole, CertsResettable
<1>. QED BY <1>1, <1>2 DEF Inv

\* platform_init() keeps it: a fault at each step is reported or harmless.
LEMMA PlatformInitInv ==
  ASSUME Inv, PlatformInit
  PROVE  Inv'
<1>. USE StartupAssumption, NoOptionsType
         DEF FaultKinds, Main, Reports, Fails, lasting, memory
<1>1. CASE check_factory_reset
  <2>1. held' \in BOOLEAN
    BY <1>1, Zenon DEF check_factory_reset
  <2>2. TypeOK'
    BY <1>1, <2>1 DEF check_factory_reset, Inv, TypeOK
  <2>3. ResetInv'
    BY <1>1, <2>1 DEF check_factory_reset, Inv, TypeOK, ResetInv
  <2>4. FactoryResetWhole'
    BY <1>1, <2>1 DEF check_factory_reset, Inv, TypeOK, FactoryResetWhole
  <2>5. CertsResettable'
    BY <1>1, <2>1 DEF check_factory_reset, Inv, TypeOK, CertsResettable
  <2>. QED BY <2>2, <2>3, <2>4, <2>5 DEF Inv
<1>2. CASE fs_init
  <2>1. CASE fs = "good" /\ mounted' = TRUE /\ UNCHANGED reported
             /\ mpc = "fs" /\ mpc' = IF held THEN "format" ELSE "start"
    <3>1. mounted' \in BOOLEAN
      BY <2>1, Zenon
    <3>2. fs' = "good"
      BY <1>2, <2>1 DEF fs_init
    <3>3. TypeOK'
      BY <1>2, <2>1, <3>1, <3>2 DEF fs_init, Inv, TypeOK
    <3>4. ResetInv' /\ FactoryResetWhole' /\ CertsResettable'
      BY <1>2, <2>1 DEF fs_init, Inv, TypeOK, ResetInv, FactoryResetWhole, CertsResettable
    <3>. QED BY <3>3, <3>4 DEF Inv
  <2>2. CASE mpc = "fs" /\ mpc' = "start" /\ Reports("fs") /\ UNCHANGED mounted
    BY <1>2, <2>2 DEF fs_init, Inv, TypeOK, ResetInv, FactoryResetWhole, CertsResettable
  <2>. QED BY <1>2, <2>1, <2>2 DEF fs_init
<1>3. CASE factory_format
  <2>1. CASE Unmount("format", "formatting")
    <3>1. mounted' \in BOOLEAN /\ ~mounted'
      BY <2>1, Zenon DEF Unmount
    <3>2. TypeOK'
      BY <2>1, <3>1 DEF Unmount, Inv, TypeOK
    <3>3. ResetInv' /\ FactoryResetWhole' /\ CertsResettable'
      BY <2>1 DEF Unmount, Inv, TypeOK, ResetInv, FactoryResetWhole, CertsResettable
    <3>. QED BY <3>2, <3>3 DEF Inv
  <2>2. CASE Mount("formatting", "fcc_init", "start")
    <3>1. CASE Main("formatting", "fcc_init") /\ fs' = "good" /\ mounted' = TRUE /\ UNCHANGED reported
      <4>1. mounted' \in BOOLEAN
        BY <3>1, Zenon
      <4>2. TypeOK'
        BY <2>2, <3>1, <4>1 DEF Mount, Inv, TypeOK
      <4>3. ResetInv' /\ FactoryResetWhole' /\ CertsResettable'
        BY <2>2, <3>1 DEF Mount, Inv, TypeOK, ResetInv, FactoryResetWhole, CertsResettable
      <4>. QED BY <4>2, <4>3 DEF Inv
    <3>2. CASE Main("formatting", "start") /\ Fails("format") /\ UNCHANGED <<fs, mounted>>
      BY <2>2, <3>2 DEF Mount, Inv, TypeOK, ResetInv, FactoryResetWhole, CertsResettable
    <3>. QED BY <2>2, <3>1, <3>2 DEF Mount
  <2>. QED BY <1>3, <2>1, <2>2 DEF factory_format
<1>4. CASE factory_fcc_init
  BY <1>4 DEF factory_fcc_init, Inv, TypeOK, ResetInv, FactoryResetWhole, CertsResettable
<1>5. CASE factory_delete
  BY <1>5 DEF factory_delete, Delete, Inv, TypeOK, ResetInv, FactoryResetWhole, CertsResettable
<1>6. CASE factory_finalize
  BY <1>6 DEF factory_finalize, Inv, TypeOK, ResetInv, FactoryResetWhole, CertsResettable
<1>. QED BY <1>1, <1>2, <1>3, <1>4, <1>5, <1>6 DEF PlatformInit

\* The start of the init thread and the console keep it.
LEMMA MainInv ==
  ASSUME Inv, start_threads \/ Console
  PROVE  Inv'
<1>. USE StartupAssumption, NoOptionsType
         DEF FaultKinds, Main, Reports, Fails, lasting, memory
<1>1. CASE start_threads
  BY <1>1 DEF start_threads, Inv, TypeOK, ResetInv, FactoryResetWhole, CertsResettable
<1>2. CASE cmd_update
  <2>1. PICK o \in Options, v \in Settings :
               opts' \in {[opts EXCEPT ![o] = v], opts} \cup Store!Damaged([opts EXCEPT ![o] = v])
    BY <1>2 DEF cmd_update
  <2>2. opts' \in [Options -> Settings]
    BY <2>1, DamagedType DEF Inv, TypeOK
  <2>. QED BY <1>2, <2>2 DEF cmd_update, Inv, TypeOK, ResetInv, FactoryResetWhole, CertsResettable
<1>3. CASE update_ends
  BY <1>3 DEF update_ends, Inv, TypeOK, ResetInv, FactoryResetWhole, CertsResettable
<1>4. CASE cmd_reset_certs
  <2>1. /\ mpc = "loop" /\ mpc' = "loop" /\ UNCHANGED <<fs, opts, held, mounted, fcc, using, wifi, ipc>>
        /\ certs' \in BOOLEAN /\ reported \subseteq reported' /\ reported' \subseteq FaultKinds
    BY <1>4 DEF cmd_reset_certs, Delete, Inv, TypeOK
  <2>2. TypeOK'
    BY <2>1 DEF Inv, TypeOK
  <2>3. ResetInv' /\ FactoryResetWhole' /\ CertsResettable'
    BY <2>1 DEF Inv, ResetInv, FactoryResetWhole, CertsResettable
  <2>. QED BY <2>2, <2>3 DEF Inv
<1>5. CASE cmd_format
  <2>1. CASE Unmount("loop", "reformatting")
    <3>1. mounted' \in BOOLEAN /\ ~mounted'
      BY <2>1, Zenon DEF Unmount
    <3>2. TypeOK'
      BY <2>1, <3>1 DEF Unmount, Inv, TypeOK
    <3>3. ResetInv' /\ FactoryResetWhole' /\ CertsResettable'
      BY <2>1 DEF Unmount, Inv, TypeOK, ResetInv, FactoryResetWhole, CertsResettable
    <3>. QED BY <3>2, <3>3 DEF Inv
  <2>2. CASE Mount("reformatting", "loop", "loop")
    <3>1. CASE Main("reformatting", "loop") /\ fs' = "good" /\ mounted' = TRUE /\ UNCHANGED reported
      <4>1. mounted' \in BOOLEAN
        BY <3>1, Zenon
      <4>2. TypeOK'
        BY <2>2, <3>1, <4>1 DEF Mount, Inv, TypeOK
      <4>3. ResetInv' /\ FactoryResetWhole' /\ CertsResettable'
        BY <2>2, <3>1 DEF Mount, Inv, TypeOK, ResetInv, FactoryResetWhole, CertsResettable
      <4>. QED BY <4>2, <4>3 DEF Inv
    <3>2. CASE Main("reformatting", "loop") /\ Fails("format") /\ UNCHANGED <<fs, mounted>>
      BY <2>2, <3>2 DEF Mount, Inv, TypeOK, ResetInv, FactoryResetWhole, CertsResettable
    <3>. QED BY <2>2, <3>1, <3>2 DEF Mount
  <2>. QED BY <1>5, <2>1, <2>2 DEF cmd_format
<1>6. CASE cmd_reset_options
  <2>1. opts' \in {NoOptions, opts}
    BY <1>6 DEF cmd_reset_options
  <2>. QED BY <1>6, <2>1 DEF cmd_reset_options, Inv, TypeOK, ResetInv, FactoryResetWhole, CertsResettable
<1>. QED BY <1>1, <1>2, <1>3, <1>4, <1>5, <1>6 DEF Console

\* The init thread keeps it: it is past its first step only once the fcc is there.
LEMMA InitAppInv ==
  ASSUME Inv, InitApp \/ connected
  PROVE  Inv'
<1>. USE StartupAssumption
         DEF FaultKinds, InitT, Reports, Fails, lasting, memory
<1>1. CASE init_fcc
  <2>1. CASE fcc' = TRUE /\ UNCHANGED reported
    <3>1. fcc' \in BOOLEAN
      BY <2>1, Zenon
    <3>2. TypeOK'
      BY <1>1, <2>1, <3>1 DEF init_fcc, Inv, TypeOK
    <3>3. ResetInv' /\ FactoryResetWhole' /\ CertsResettable'
      BY <1>1, <2>1 DEF init_fcc, Inv, TypeOK, ResetInv, FactoryResetWhole, CertsResettable
    <3>. QED BY <3>2, <3>3 DEF Inv
  <2>2. CASE Fails("fcc") /\ UNCHANGED fcc
    <3>1. /\ ipc = "init_fcc" /\ ipc' = "create" /\ UNCHANGED <<mpc, lasting, held, mounted, fcc, using, wifi>>
          /\ reported' = reported \cup {"fcc"}
      BY <1>1, <2>2 DEF init_fcc, InitT
    <3>2. TypeOK'
      BY <3>1 DEF Inv, TypeOK
    <3>3. ResetInv' /\ FactoryResetWhole' /\ CertsResettable'
      BY <3>1 DEF Inv, TypeOK, ResetInv, FactoryResetWhole, CertsResettable
    <3>. QED BY <3>2, <3>3 DEF Inv
  <2>. QED BY <1>1, <2>1, <2>2 DEF init_fcc, Inv, TypeOK, ResetInv, FactoryResetWhole, CertsResettable
<1>2. CASE network_create
  BY <1>2 DEF network_create, Inv, TypeOK, ResetInv, FactoryResetWhole, CertsResettable
<1>3. CASE read_options
  <2>1. using' \in [Options -> {"right", "wrong"}]
    <3>1. ASSUME NEW o \in Options PROVE Setting(o) \in {"right", "wrong"}
      BY DEF Setting, SettingIn, Settings, Inv, TypeOK
    <3>. QED BY <1>3, <3>1 DEF read_options, Inv, TypeOK, ResetInv, FactoryResetWhole, CertsResettable
  <2>. QED BY <1>3, <2>1 DEF read_options, Inv, TypeOK, ResetInv, FactoryResetWhole, CertsResettable
<1>4. CASE connected
  <2>1. wifi' \in BOOLEAN
    BY <1>4, Zenon DEF connected
  <2>2. TypeOK'
    BY <1>4, <2>1 DEF connected, Inv, TypeOK
  <2>3. ResetInv' /\ FactoryResetWhole' /\ CertsResettable'
    BY <1>4 DEF connected, Inv, TypeOK, ResetInv, FactoryResetWhole, CertsResettable
  <2>. QED BY <2>2, <2>3 DEF Inv
<1>5. CASE not_connected
  BY <1>5 DEF not_connected, Inv, TypeOK, ResetInv, FactoryResetWhole, CertsResettable
<1>6. CASE network_scan
  <2>1. CASE InitT("scan", "flow")
    <3>1. fs' = fs /\ opts' = opts /\ certs' = certs /\ held' = held /\ mounted' = mounted
          /\ fcc' = fcc /\ using' = using /\ wifi' = wifi
          /\ ipc = "scan" /\ ipc' = "flow" /\ mpc' = mpc /\ mpc # "dead"
      BY <1>6, <2>1 DEF network_scan
    <3>2. reported' = reported \/ reported' = reported \cup {"rescan"}
      BY <1>6, <2>1 DEF network_scan
    <3>3. TypeOK'
      BY <3>1, <3>2 DEF Inv, TypeOK
    <3>4. ResetInv' /\ FactoryResetWhole' /\ CertsResettable'
      BY <3>1, <3>2 DEF Inv, TypeOK, ResetInv, FactoryResetWhole, CertsResettable
    <3>. QED BY <3>3, <3>4 DEF Inv
  <2>2. CASE ipc = "scan" /\ mpc' = "dead" /\ UNCHANGED <<lasting, ipc, memory>>
    <3>1. TypeOK'
      BY <2>2 DEF Inv, TypeOK
    <3>2. ResetInv' /\ FactoryResetWhole' /\ CertsResettable'
      BY <2>2 DEF Inv, TypeOK, ResetInv, FactoryResetWhole, CertsResettable
    <3>. QED BY <3>1, <3>2 DEF Inv
  <2>. QED BY <1>6, <2>1, <2>2 DEF network_scan
<1>7. CASE developer_flow
  <2>1. /\ ipc = "flow" /\ ipc' \in {"verify", "failed"} /\ certs' \in BOOLEAN
        /\ UNCHANGED <<mpc, fs, opts, held, mounted, fcc, using, wifi>>
        /\ reported \subseteq reported' /\ reported' \subseteq FaultKinds
    BY <1>7 DEF developer_flow, InitT, Inv, TypeOK
  <2>2. mpc \in {"loop", "update", "reformatting", "dead"}
    BY <2>1 DEF Inv, TypeOK
  <2>3. TypeOK'
    BY <2>1, <2>2 DEF Inv, TypeOK
  <2>4. ResetInv' /\ FactoryResetWhole' /\ CertsResettable'
    BY <2>1, <2>2 DEF Inv, ResetInv, FactoryResetWhole, CertsResettable
  <2>. QED BY <2>3, <2>4 DEF Inv
<1>8. CASE verify_configured
  BY <1>8 DEF verify_configured, Inv, TypeOK, ResetInv, FactoryResetWhole, CertsResettable
<1>10. CASE misread_options
  <2>1. PICK db \in Store!Damaged(opts) : using' = [o \in Options |-> SettingIn(db, o)]
    BY <1>10 DEF misread_options
  <2>2. using' \in [Options -> {"right", "wrong"}]
    <3>1. ASSUME NEW o \in Options PROVE SettingIn(db, o) \in {"right", "wrong"}
      BY DamagedType DEF SettingIn, Settings
    <3>. QED BY <2>1, <3>1
  <2>. QED BY <1>10, <2>2 DEF misread_options, Inv, TypeOK, ResetInv, FactoryResetWhole, CertsResettable
<1>9. CASE register_client
  BY <1>9 DEF register_client, Inv, TypeOK, ResetInv, FactoryResetWhole, CertsResettable
<1>. QED BY <1>1, <1>2, <1>3, <1>4, <1>5, <1>6, <1>7, <1>8, <1>9, <1>10 DEF InitApp

\* So does the loss of the power, wherever it strikes.
LEMMA PowerLossInv ==
  ASSUME Inv, PowerLoss
  PROVE  Inv'
<1>1. opts' \in [Options -> Settings] /\ (fs = "bad" => opts' = NoOptions)
  BY NoOptionsType DEF Inv, TypeOK, PowerLoss
<1>. QED BY <1>1, StartupAssumption
         DEF Inv, TypeOK, ResetInv, FactoryResetWhole, CertsResettable, PowerLoss

\* The invariant holds in every state.
THEOREM Invariance == Spec => []Inv
<1>1. Init => Inv
  BY InitInv
<1>2. Inv /\ [Next]_vars => Inv'
  <2>1. CASE UNCHANGED vars
    BY <2>1 DEF vars, lasting, memory, Inv, TypeOK, ResetInv, FactoryResetWhole, CertsResettable
  <2>. QED BY <2>1, PlatformInitInv, MainInv, InitAppInv, PowerLossInv DEF Next
<1>. QED BY <1>1, <1>2, PTL DEF Spec

\* Every variable keeps its type, there is an init thread just when main() has started it,
\* and nothing is mounted or stored where there is no filesystem.
THEOREM TypeCorrect == Spec => []TypeOK
BY Invariance, PTL DEF Inv

\* A factory reset that has reported no error was a whole one (main.cpp:972-990), wherever
\* the power went before, and whatever the console did.
THEOREM ResetWhole == Spec => []FactoryResetWhole
BY Invariance, PTL DEF Inv

\* The credentials can be reset while the network connects (main.cpp:1660-1663).
THEOREM CertsCanBeReset == Spec => []CertsResettable
BY Invariance, PTL DEF Inv
=============================================================================
