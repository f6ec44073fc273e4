------------------------ MODULE FirmwareUpdateProofs ------------------------
(***************************************************************************)
(* Proofs about FirmwareUpdate, for any number of downloads, of network    *)
(* errors and of ids of events.                                            *)
(*                                                                         *)
(* A thread is somewhere in one of its programs: its place is the program  *)
(* and the number of the statement that comes next.  The invariants say    *)
(* what holds of the shared state at each place (after Owicki and Gries),  *)
(* for some choice of the places that explains what the threads have left. *)
(***************************************************************************)
EXTENDS FirmwareUpdate, ListLemmas

Code(p) == CASE p = "init"         -> init_app
             [] p = "download"     -> fota_auth_download
             [] p = "install"      -> fota_auth_install
             [] p = "registered"   -> client_registered
             [] p = "ask_download" -> authorize_download
             [] p = "ask_install"  -> authorize_install
             [] p = "unregistered" -> client_unregistered
             [] p = "off_line"     -> install_off_line
             [] p = "reconnect"    -> reconnect
             [] p \in {"light", "dht", "display", "keepalive"} -> << Do("work", p) >>
             [] p = "idle"         -> << >>

\* the number of statements
Size(p) == CASE p = "init"                          -> 11
             [] p = "reconnect"                     -> 10
             [] p = "download"                      -> 9
             [] p \in {"install", "unregistered"}   -> 5
             [] p = "off_line"                      -> 4
             [] p \in {"ask_download", "ask_install"} -> 3
             [] p = "registered"                    -> 2
             [] OTHER                               -> 1

Handlers == {"download", "install"}

Programs(t) == CASE t = "init"   -> {"idle", "init"}
                 [] t = "main"   -> {"idle"} \cup Handlers \cup Kinds
                 [] t = "client" -> {"idle", "registered", "ask_download", "ask_install",
                                     "unregistered", "off_line", "reconnect"}

Places(t) == {pl \in [p : Programs(t), k : 1..11] : pl.k <= Size(pl.p)}
Idle      == [p |-> "idle", k |-> 1]

\* what is left at a place, the statement there and the place after it
Left(pl) == SubSeq(Code(pl.p), pl.k, Len(Code(pl.p)))
Stm(pl)  == Code(pl.p)[pl.k]
Succ(pl) == IF pl.k = Size(pl.p) THEN Idle ELSE [p |-> pl.p, k |-> pl.k + 1]

PCs == {pc \in [Threads -> [p : UNION {Programs(t) : t \in Threads}, k : 1..11]] :
            \A t \in Threads : pc[t] \in Places(t)}

Follows(pc) == \A t \in Threads : todo[t] = Left(pc[t])

\* init_app() has not registered the client yet, or not stored the flag that says so
Starting(pc) == pc["init"].p = "init" /\ pc["init"].k <= 10

\* Who does what in which state of the registration and of the update: one request is
\* under way at a time, and the two ends of each hand-over exclude each other.
Control(pc) ==
    /\ evq \in {<<>>, <<"download">>, <<"install">>}
    /\ evq # <<>> => pc["main"].p \notin Handlers
    /\ evq = <<"download">> \/ pc["main"].p = "download" => update = "asked"
    /\ evq = <<"install">> \/ pc["main"].p = "install" => update = "ready"
    /\ pc["client"].p = "ask_download" => update = "none" /\ reg = "registered"
    /\ pc["client"].p = "ask_install" => update = "loaded"
    /\ pc["client"].p = "registered" => reg \in {"registered", "closing"}
    /\ pc["client"].p = "reconnect" => reg # "closed"
    /\ pc["client"].p \in {"unregistered", "off_line"} => reg = "closed" /\ update = "ready"
    /\ reg = "off" => pc["client"].p = "idle" /\ update = "none"
    /\ reg \in {"closing", "closed"} => /\ update \in {"ready", "installing"}
                                        /\ evq = <<>> /\ pc["main"].p \notin Handlers
    /\ update = "installing" => reg = "closed" /\ pc["client"].p = "idle"
    /\ Starting(pc) => /\ update = "none" /\ reg \in {"off", "trying"} /\ flags = {}
                       /\ pc["client"].p \in {"idle", "reconnect"} /\ ~disturbed
                       /\ pc["init"].k <= 8 => reg = "off"

\* the flags that requests and registration depend on
Vital == {"REGISTERED", "FOTA_DL_REQD", "FOTA_INSTALL_REQD"}

\* at the store of set_flag() or clear_flag()
AtStore(pl) == <<pl.p, pl.k>> \in {<<"init", 10>>, <<"download", 8>>, <<"install", 4>>,
                   <<"registered", 2>>, <<"ask_download", 2>>, <<"ask_install", 2>>,
                   <<"unregistered", 2>>, <<"unregistered", 4>>, <<"off_line", 3>>}

\* No store is about to undo or bring back a flag that matters.
StoresSafe(pc) == \A t \in Threads : AtStore(pc[t]) => loaded[t] \cap Vital = flags \cap Vital

\* The flags say what was requested, and whether the client is registered.
Told(pc) ==
    /\ update # "none" => "FOTA_DL_REQD" \in flags
    /\ update \in {"ready", "installing"} => "FOTA_INSTALL_REQD" \in flags
    /\ pc["client"] = [p |-> "ask_download", k |-> 3] => "FOTA_DL_REQD" \in flags
    /\ pc["client"] = [p |-> "ask_install", k |-> 3] => "FOTA_INSTALL_REQD" \in flags
    /\ pc["client"].p = "reconnect" => "FOTA_INSTALL_REQD" \notin flags
    /\ update # "none" /\ reg \notin {"closing", "closed"} => "REGISTERED" \in flags
    /\ reg = "registered" /\ pc["client"].p # "registered" => "REGISTERED" \in flags
    /\ update = "installing" \/ pc["client"].p = "off_line" => "REGISTERED" \notin flags
    /\ pc["client"].p = "unregistered" /\ pc["client"].k >= 3 => "REGISTERED" \notin flags

FlagsTell(pc) == StoresSafe(pc) /\ Told(pc)

\* The network stays down from the last disconnection on, unless that failed.
OffLine(pc) == update = "installing" \/ (pc["client"].p = "off_line" /\ pc["client"].k >= 2)
                   => (wifi => "disconnect" \in failed)

\* the thread has started an event for s, and not yet saved its id
Saving(pl, s) ==
    <<pl.p, pl.k, s>> \in {<<"init", 5, "light">>, <<"init", 7, "dht">>,
                           <<"install", 2, "display">>,
                           <<"reconnect", 8, "light">>, <<"reconnect", 10, "dht">>}

\* where there is to be no event for s, as long as no network error struck in an update
Silent(pl, s) ==
    \/ s = "light" /\ \/ pl.p = "init" /\ pl.k <= 4
                      \/ pl.p = "reconnect" /\ pl.k \in 3..7
                      \/ pl.p = "download" /\ pl.k >= 2
                      \/ pl.p = "install"
    \/ s = "dht" /\ \/ pl.p = "init" /\ pl.k <= 6
                    \/ pl.p = "reconnect" /\ pl.k \in 4..9
                    \/ pl.p = "download" /\ pl.k >= 3
                    \/ pl.p = "install"
    \/ s = "display" /\ \/ pl.p = "download" /\ pl.k >= 6
                        \/ pl.p = "install" /\ pl.k = 1

\* Every periodic event is known to the variable it belongs to, or to the thread that is
\* about to assign it.
Owned(pc) == \A s \in Slots, e \in timers : e.run = s =>
                 \/ slot[s] = e.id /\ \A t \in Threads : ~Saving(pc[t], s)
                 \/ \E t \in Threads : Saving(pc[t], s) /\ ret[t] = e.id

Hushed(pc) == \A s \in Slots, t \in Threads : Silent(pc[t], s) => ~Ticks(s)

\* An update meets no reconnection, and from the grant of its download on it has stopped
\* the periodic events.
Calm(pc) ==
    /\ update # "none" => pc["client"].p # "reconnect"
    /\ update \in {"loading", "loaded"} \/ evq = <<"install">> => \A s \in Slots : ~Ticks(s)
    /\ update \in {"ready", "installing"} => \A s \in Sensors : ~Ticks(s)
    /\ update = "loading" => pc["main"].p \notin Slots

Tracked(pc) == ~disturbed => Owned(pc) /\ Hushed(pc) /\ Calm(pc)

Asserted(pc) == Control(pc) /\ FlagsTell(pc) /\ OffLine(pc) /\ Tracked(pc)

Inv == TypeOK /\ \E pc \in PCs : Follows(pc) /\ Asserted(pc)

\* The event queue has room for the event of the display when the install handler starts
\* it; and then the display is refreshed from there on.
Room          == At("main", "every") => FreeIds # {}
Refreshed(pc) == /\ pc["main"].p = "install" /\ pc["main"].k >= 2 => Ticks("display")
                 /\ reg \in {"closing", "closed"} => Ticks("display")

InvWithRoom == TypeOK /\ \E pc \in PCs : Follows(pc) /\ Asserted(pc) /\ Refreshed(pc)

-----------------------------------------------------------------------------
(* The programs *)

\* Each program as one list.
LEMMA ProgramLists ==
  /\ init_app = << Do("check", "stack"), Do("connect", "wifi"), Do("check", "creds"),
                   Do("every", "light"), Do("save", "light"), Do("every", "dht"),
                   Do("save", "dht"), Do("setup", "client"), Do("load", "REGISTER_CALLED"),
                   Do("set", "REGISTER_CALLED"), Do("every", "keepalive") >>
  /\ fota_auth_download = << Do("cancel", "light"), Do("cancel", "dht"),
                             Do("zero", "light"), Do("zero", "dht"),
                             Do("cancel", "display"), Do("zero", "display"),
                             Do("load", "FOTA_DL_GRANTED"), Do("set", "FOTA_DL_GRANTED"),
                             Do("grant", "download") >>
  /\ fota_auth_install = << Do("every", "display"), Do("save", "display"),
                            Do("load", "FOTA_INSTALL_REQD"),
                            Do("set", "FOTA_INSTALL_REQD"), Do("close", "client") >>
  /\ client_registered = << Do("load", "REGISTERED"), Do("set", "REGISTERED") >>
  /\ authorize_download = << Do("load", "FOTA_DL_REQD"), Do("set", "FOTA_DL_REQD"),
                             Do("post", "download") >>
  /\ authorize_install = << Do("load", "FOTA_INSTALL_REQD"),
                            Do("set", "FOTA_INSTALL_REQD"), Do("post", "install") >>
  /\ client_unregistered = << Do("load", "REGISTERED"), Do("clear", "REGISTERED"),
                              Do("load", "REGISTER_CALLED"),
                              Do("clear", "REGISTER_CALLED"), Do("unregistered", "client") >>
  /\ install_off_line = << Do("disconnect", "wifi"), Do("load", "FOTA_INSTALL_GRANTED"),
                           Do("set", "FOTA_INSTALL_GRANTED"), Do("grant", "install") >>
  /\ reconnect = << Do("disconnect", "wifi"), Do("cancel", "light"), Do("cancel", "dht"),
                    Do("zero", "light"), Do("zero", "dht"), Do("connect", "wifi"),
                    Do("every", "light"), Do("save", "light"), Do("every", "dht"),
                    Do("save", "dht") >>
<1>1. init_app = << Do("check", "stack"), Do("connect", "wifi"), Do("check", "creds"),
                    Do("every", "light"), Do("save", "light"), Do("every", "dht"),
                    Do("save", "dht"), Do("setup", "client"),
                    Do("load", "REGISTER_CALLED"), Do("set", "REGISTER_CALLED"),
                    Do("every", "keepalive") >>
  <2>. DEFINE p1 == << Do("check", "stack"), Do("connect", "wifi"), Do("check", "creds") >>
              p2 == << Do("every", "light"), Do("save", "light"), Do("every", "dht"),
                       Do("save", "dht") >>
              p3 == << Do("setup", "client") >>
              p4 == << Do("load", "REGISTER_CALLED"), Do("set", "REGISTER_CALLED") >>
              p5 == << Do("every", "keepalive") >>
              u2 == << Do("check", "stack"), Do("connect", "wifi"), Do("check", "creds"),
                       Do("every", "light"), Do("save", "light"), Do("every", "dht"),
                       Do("save", "dht") >>
              u3 == << Do("check", "stack"), Do("connect", "wifi"), Do("check", "creds"),
                       Do("every", "light"), Do("save", "light"), Do("every", "dht"),
                       Do("save", "dht"), Do("setup", "client") >>
              u4 == << Do("check", "stack"), Do("connect", "wifi"), Do("check", "creds"),
                       Do("every", "light"), Do("save", "light"), Do("every", "dht"),
                       Do("save", "dht"), Do("setup", "client"),
                       Do("load", "REGISTER_CALLED"), Do("set", "REGISTER_CALLED") >>
  <2>1. p1 \o p2 = u2
    BY Concat3And4
  <2>2. u2 \o p3 = u3
    BY Concat7And1
  <2>3. u3 \o p4 = u4
    BY Concat8And2
  <2>4. u4 \o p5 = << Do("check", "stack"), Do("connect", "wifi"), Do("check", "creds"),
                      Do("every", "light"), Do("save", "light"), Do("every", "dht"),
                      Do("save", "dht"), Do("setup", "client"),
                      Do("load", "REGISTER_CALLED"), Do("set", "REGISTER_CALLED"),
                      Do("every", "keepalive") >>
    BY Concat10And1
  <2>5. init_app = (((p1 \o p2) \o p3) \o p4) \o p5
    BY DEF init_app, sensors_start, set_flag
  <2>. HIDE DEF p1, p2, p3, p4, p5, u2, u3, u4
  <2>. QED BY <2>1, <2>2, <2>3, <2>4, <2>5
<1>2. fota_auth_download = << Do("cancel", "light"), Do("cancel", "dht"),
                              Do("zero", "light"), Do("zero", "dht"),
                              Do("cancel", "display"), Do("zero", "display"),
                              Do("load", "FOTA_DL_GRANTED"), Do("set", "FOTA_DL_GRANTED"),
                              Do("grant", "download") >>
  <2>. DEFINE p1 == << Do("cancel", "light"), Do("cancel", "dht"), Do("zero", "light"),
                       Do("zero", "dht") >>
              p2 == << Do("cancel", "display"), Do("zero", "display") >>
              p3 == << Do("load", "FOTA_DL_GRANTED"), Do("set", "FOTA_DL_GRANTED") >>
              p4 == << Do("grant", "download") >>
              u2 == << Do("cancel", "light"), Do("cancel", "dht"), Do("zero", "light"),
                       Do("zero", "dht"), Do("cancel", "display"), Do("zero", "display") >>
              u3 == << Do("cancel", "light"), Do("cancel", "dht"), Do("zero", "light"),
                       Do("zero", "dht"), Do("cancel", "display"), Do("zero", "display"),
                       Do("load", "FOTA_DL_GRANTED"), Do("set", "FOTA_DL_GRANTED") >>
  <2>1. p1 \o p2 = u2
    BY Concat4And2
  <2>2. u2 \o p3 = u3
    BY Concat6And2
  <2>3. u3 \o p4 = << Do("cancel", "light"), Do("cancel", "dht"), Do("zero", "light"),
                      Do("zero", "dht"), Do("cancel", "display"), Do("zero", "display"),
                      Do("load", "FOTA_DL_GRANTED"), Do("set", "FOTA_DL_GRANTED"),
                      Do("grant", "download") >>
    BY Concat8And1
  <2>4. fota_auth_download = ((p1 \o p2) \o p3) \o p4
    BY DEF fota_auth_download, sensors_stop, set_flag
  <2>. HIDE DEF p1, p2, p3, p4, u2, u3
  <2>. QED BY <2>1, <2>2, <2>3, <2>4
<1>3. fota_auth_install = << Do("every", "display"), Do("save", "display"),
                             Do("load", "FOTA_INSTALL_REQD"),
                             Do("set", "FOTA_INSTALL_REQD"), Do("close", "client") >>
  <2>. DEFINE p1 == << Do("every", "display"), Do("save", "display") >>
              p2 == << Do("load", "FOTA_INSTALL_REQD"), Do("set", "FOTA_INSTALL_REQD") >>
              p3 == << Do("close", "client") >>
              u2 == << Do("every", "display"), Do("save", "display"),
                       Do("load", "FOTA_INSTALL_REQD"), Do("set", "FOTA_INSTALL_REQD") >>
  <2>1. p1 \o p2 = u2
    BY Concat2And2
  <2>2. u2 \o p3 = << Do("every", "display"), Do("save", "display"),
                      Do("load", "FOTA_INSTALL_REQD"), Do("set", "FOTA_INSTALL_REQD"),
                      Do("close", "client") >>
    BY Concat4And1, Zenon
  <2>3. fota_auth_install = (p1 \o p2) \o p3
    BY DEF fota_auth_install, set_flag
  <2>. HIDE DEF p1, p2, p3, u2
  <2>. QED BY <2>1, <2>2, <2>3
<1>4. client_registered = << Do("load", "REGISTERED"), Do("set", "REGISTERED") >>
  BY DEF client_registered, set_flag
<1>5. authorize_download = << Do("load", "FOTA_DL_REQD"), Do("set", "FOTA_DL_REQD"),
                              Do("post", "download") >>
  <2>. DEFINE p1 == << Do("load", "FOTA_DL_REQD"), Do("set", "FOTA_DL_REQD") >>
              p2 == << Do("post", "download") >>
  <2>1. p1 \o p2 = << Do("load", "FOTA_DL_REQD"), Do("set", "FOTA_DL_REQD"),
                      Do("post", "download") >>
    BY Concat2And1, Zenon
  <2>2. authorize_download = p1 \o p2
    BY DEF authorize_download, set_flag
  <2>. HIDE DEF p1, p2
  <2>. QED BY <2>1, <2>2
<1>6. authorize_install = << Do("load", "FOTA_INSTALL_REQD"),
                             Do("set", "FOTA_INSTALL_REQD"), Do("post", "install") >>
  <2>. DEFINE p1 == << Do("load", "FOTA_INSTALL_REQD"), Do("set", "FOTA_INSTALL_REQD") >>
              p2 == << Do("post", "install") >>
  <2>1. p1 \o p2 = << Do("load", "FOTA_INSTALL_REQD"), Do("set", "FOTA_INSTALL_REQD"),
                      Do("post", "install") >>
    BY Concat2And1, Zenon
  <2>2. authorize_install = p1 \o p2
    BY DEF authorize_install, set_flag
  <2>. HIDE DEF p1, p2
  <2>. QED BY <2>1, <2>2
<1>7. client_unregistered = << Do("load", "REGISTERED"), Do("clear", "REGISTERED"),
                               Do("load", "REGISTER_CALLED"),
                               Do("clear", "REGISTER_CALLED"),
                               Do("unregistered", "client") >>
  <2>. DEFINE p1 == << Do("load", "REGISTERED"), Do("clear", "REGISTERED") >>
              p2 == << Do("load", "REGISTER_CALLED"), Do("clear", "REGISTER_CALLED") >>
              p3 == << Do("unregistered", "client") >>
              u2 == << Do("load", "REGISTERED"), Do("clear", "REGISTERED"),
                       Do("load", "REGISTER_CALLED"), Do("clear", "REGISTER_CALLED") >>
  <2>1. p1 \o p2 = u2
    BY Concat2And2
  <2>2. u2 \o p3 = << Do("load", "REGISTERED"), Do("clear", "REGISTERED"),
                      Do("load", "REGISTER_CALLED"), Do("clear", "REGISTER_CALLED"),
                      Do("unregistered", "client") >>
    BY Concat4And1, Zenon
  <2>3. client_unregistered = (p1 \o p2) \o p3
    BY DEF client_unregistered, clear_flag
  <2>. HIDE DEF p1, p2, p3, u2
  <2>. QED BY <2>1, <2>2, <2>3
<1>8. install_off_line = << Do("disconnect", "wifi"), Do("load", "FOTA_INSTALL_GRANTED"),
                            Do("set", "FOTA_INSTALL_GRANTED"), Do("grant", "install") >>
  <2>. DEFINE p1 == << Do("disconnect", "wifi") >>
              p2 == << Do("load", "FOTA_INSTALL_GRANTED"),
                       Do("set", "FOTA_INSTALL_GRANTED") >>
              p3 == << Do("grant", "install") >>
              u2 == << Do("disconnect", "wifi"), Do("load", "FOTA_INSTALL_GRANTED"),
                       Do("set", "FOTA_INSTALL_GRANTED") >>
  <2>1. p1 \o p2 = u2
    BY Concat1And2
  <2>2. u2 \o p3 = << Do("disconnect", "wifi"), Do("load", "FOTA_INSTALL_GRANTED"),
                      Do("set", "FOTA_INSTALL_GRANTED"), Do("grant", "install") >>
    BY Concat3And1, Zenon
  <2>3. install_off_line = (p1 \o p2) \o p3
    BY DEF install_off_line, set_flag
  <2>. HIDE DEF p1, p2, p3, u2
  <2>. QED BY <2>1, <2>2, <2>3
<1>9. reconnect = << Do("disconnect", "wifi"), Do("cancel", "light"), Do("cancel", "dht"),
                     Do("zero", "light"), Do("zero", "dht"), Do("connect", "wifi"),
                     Do("every", "light"), Do("save", "light"), Do("every", "dht"),
                     Do("save", "dht") >>
  <2>. DEFINE p1 == << Do("disconnect", "wifi") >>
              p2 == << Do("cancel", "light"), Do("cancel", "dht"), Do("zero", "light"),
                       Do("zero", "dht") >>
              p3 == << Do("connect", "wifi") >>
              p4 == << Do("every", "light"), Do("save", "light"), Do("every", "dht"),
                       Do("save", "dht") >>
              u2 == << Do("disconnect", "wifi"), Do("cancel", "light"),
                       Do("cancel", "dht"), Do("zero", "light"), Do("zero", "dht") >>
              u3 == << Do("disconnect", "wifi"), Do("cancel", "light"),
                       Do("cancel", "dht"), Do("zero", "light"), Do("zero", "dht"),
                       Do("connect", "wifi") >>
  <2>1. p1 \o p2 = u2
    BY Concat1And4
  <2>2. u2 \o p3 = u3
    BY Concat5And1, Zenon
  <2>3. u3 \o p4 = << Do("disconnect", "wifi"), Do("cancel", "light"), Do("cancel", "dht"),
                      Do("zero", "light"), Do("zero", "dht"), Do("connect", "wifi"),
                      Do("every", "light"), Do("save", "light"), Do("every", "dht"),
                      Do("save", "dht") >>
    BY Concat6And4
  <2>4. reconnect = ((p1 \o p2) \o p3) \o p4
    BY DEF reconnect, sensors_stop, sensors_start
  <2>. HIDE DEF p1, p2, p3, p4, u2, u3
  <2>. QED BY <2>1, <2>2, <2>3, <2>4
<1>. QED BY <1>1, <1>2, <1>3, <1>4, <1>5, <1>6, <1>7, <1>8, <1>9, Zenon

\* The sizes are those of the programs, which are made of Statements.
LEMMA CodeSize ==
  ASSUME NEW t \in Threads, NEW p \in Programs(t), p # "idle"
  PROVE  Code(p) \in Seq(Statements) /\ Len(Code(p)) = Size(p)
<1>1. p \in {"init", "download", "install", "registered", "ask_download", "ask_install",
             "unregistered", "off_line", "reconnect", "light", "dht", "display", "keepalive"}
  BY DEF Threads, Programs, Handlers, Kinds, Slots, Sensors
<1>2. \A f \in FlagNames : {Do("load", f), Do("set", f), Do("clear", f)} \subseteq Statements
  BY DEF Statements
<1>3. \A b \in Slots : {Do("save", b), Do("cancel", b), Do("zero", b)} \subseteq Statements
  BY DEF Statements
<1>4. \A b \in Kinds : Do("every", b) \in Statements /\ Do("work", b) \in Statements
  BY DEF Statements
<1>5. {Do("connect", "wifi"), Do("disconnect", "wifi"), Do("check", "stack"),
       Do("check", "creds"), Do("setup", "client"), Do("close", "client"),
       Do("grant", "download"), Do("grant", "install"), Do("post", "download"),
       Do("post", "install"), Do("unregistered", "client")} \subseteq Statements
  BY DEF Statements
<1>6. /\ FlagNames = {"REGISTER_CALLED", "REGISTERED", "FOTA_DL_REQD", "FOTA_DL_GRANTED",
                      "FOTA_INSTALL_REQD", "FOTA_INSTALL_GRANTED"}
      /\ Slots = {"light", "dht", "display"} /\ Kinds = Slots \cup {"keepalive"}
  BY DEF FlagNames, Kinds, Slots, Sensors
<1>7. CASE p \in {"init", "reconnect", "download"}
  <2>1. CASE p = "init"
    BY <1>2, <1>3, <1>4, <1>5, <1>6, <2>1, ProgramLists DEF Code, Size
  <2>2. CASE p = "reconnect"
    BY <1>2, <1>3, <1>4, <1>5, <1>6, <2>2, ProgramLists DEF Code, Size
  <2>3. CASE p = "download"
    BY <1>2, <1>3, <1>4, <1>5, <1>6, <2>3, ProgramLists DEF Code, Size
  <2>. QED BY <1>7, <2>1, <2>2, <2>3
<1>8. CASE p \in {"install", "registered", "ask_download", "ask_install"}
  BY <1>2, <1>3, <1>4, <1>5, <1>6, <1>8, ProgramLists DEF Code, Size
<1>9. CASE p \in {"unregistered", "off_line"}
  BY <1>2, <1>3, <1>4, <1>5, <1>6, <1>9, ProgramLists DEF Code, Size
<1>10. CASE p \in {"light", "dht", "display", "keepalive"}
  BY <1>4, <1>6, <1>10 DEF Code, Size
<1>. QED BY <1>1, <1>7, <1>8, <1>9, <1>10

\* The listing: each statement, with its thread, its program and its number.
Listing ==
  { <<"init", "init", 1, "check", "stack">>, <<"init", "init", 2, "connect", "wifi">>,
    <<"init", "init", 3, "check", "creds">>, <<"init", "init", 4, "every", "light">>,
    <<"init", "init", 5, "save", "light">>, <<"init", "init", 6, "every", "dht">>,
    <<"init", "init", 7, "save", "dht">>, <<"init", "init", 8, "setup", "client">>,
    <<"init", "init", 9, "load", "REGISTER_CALLED">>,
    <<"init", "init", 10, "set", "REGISTER_CALLED">>,
    <<"init", "init", 11, "every", "keepalive">>,
    <<"main", "download", 1, "cancel", "light">>,
    <<"main", "download", 2, "cancel", "dht">>, <<"main", "download", 3, "zero", "light">>,
    <<"main", "download", 4, "zero", "dht">>,
    <<"main", "download", 5, "cancel", "display">>,
    <<"main", "download", 6, "zero", "display">>,
    <<"main", "download", 7, "load", "FOTA_DL_GRANTED">>,
    <<"main", "download", 8, "set", "FOTA_DL_GRANTED">>,
    <<"main", "download", 9, "grant", "download">>,
    <<"main", "install", 1, "every", "display">>,
    <<"main", "install", 2, "save", "display">>,
    <<"main", "install", 3, "load", "FOTA_INSTALL_REQD">>,
    <<"main", "install", 4, "set", "FOTA_INSTALL_REQD">>,
    <<"main", "install", 5, "close", "client">>,
    <<"client", "registered", 1, "load", "REGISTERED">>,
    <<"client", "registered", 2, "set", "REGISTERED">>,
    <<"client", "ask_download", 1, "load", "FOTA_DL_REQD">>,
    <<"client", "ask_download", 2, "set", "FOTA_DL_REQD">>,
    <<"client", "ask_download", 3, "post", "download">>,
    <<"client", "ask_install", 1, "load", "FOTA_INSTALL_REQD">>,
    <<"client", "ask_install", 2, "set", "FOTA_INSTALL_REQD">>,
    <<"client", "ask_install", 3, "post", "install">>,
    <<"client", "unregistered", 1, "load", "REGISTERED">>,
    <<"client", "unregistered", 2, "clear", "REGISTERED">>,
    <<"client", "unregistered", 3, "load", "REGISTER_CALLED">>,
    <<"client", "unregistered", 4, "clear", "REGISTER_CALLED">>,
    <<"client", "unregistered", 5, "unregistered", "client">>,
    <<"client", "off_line", 1, "disconnect", "wifi">>,
    <<"client", "off_line", 2, "load", "FOTA_INSTALL_GRANTED">>,
    <<"client", "off_line", 3, "set", "FOTA_INSTALL_GRANTED">>,
    <<"client", "off_line", 4, "grant", "install">>,
    <<"client", "reconnect", 1, "disconnect", "wifi">>,
    <<"client", "reconnect", 2, "cancel", "light">>,
    <<"client", "reconnect", 3, "cancel", "dht">>,
    <<"client", "reconnect", 4, "zero", "light">>,
    <<"client", "reconnect", 5, "zero", "dht">>,
    <<"client", "reconnect", 6, "connect", "wifi">>,
    <<"client", "reconnect", 7, "every", "light">>,
    <<"client", "reconnect", 8, "save", "light">>,
    <<"client", "reconnect", 9, "every", "dht">>,
    <<"client", "reconnect", 10, "save", "dht">>,
    <<"main", "light", 1, "work", "light">>,
    <<"main", "dht", 1, "work", "dht">>,
    <<"main", "display", 1, "work", "display">>,
    <<"main", "keepalive", 1, "work", "keepalive">> }

\* The list tells, for every place, the statement there.
LEMMA IsListed ==
  ASSUME NEW t \in Threads, NEW pl \in Places(t), pl.p # "idle"
  PROVE  <<t, pl.p, pl.k, Stm(pl).do, Stm(pl).with>> \in Listing
<1>. DEFINE p == pl.p  k == pl.k  s == Code(p)[k]
<1>1. /\ p \in Programs(t) /\ k \in 1 .. 11 /\ k <= Size(p)
      /\ Stm(pl) = s
  BY DEF Places, Stm
<1>2. \/ t = "init" /\ p = "init"
      \/ t = "main" /\ p \in {"download", "install", "light", "dht", "display", "keepalive"}
      \/ t = "client" /\ p \in {"registered", "ask_download", "ask_install", "unregistered",
                                "off_line", "reconnect"}
  BY <1>1 DEF Threads, Programs, Handlers, Kinds, Slots, Sensors
<1>3. Size(p) \in Nat
  BY <1>2 DEF Size
<1>. SUFFICES <<t, p, k, s.do, s.with>> \in Listing
  BY <1>1
<1>. HIDE DEF p, k
<1>4. CASE p = "init"
  <2>1. Code(p) = init_app /\ Size(p) = 11
    BY <1>4 DEF Code, Size
  <2>2. k \in 1 .. 11
    BY <1>1, <2>1
  <2>. QED BY <1>2, <1>4, <2>1, <2>2, ProgramLists DEF Listing, Do
<1>5. CASE p = "reconnect"
  <2>1. Code(p) = reconnect /\ Size(p) = 10
    BY <1>5 DEF Code, Size
  <2>2. k \in 1 .. 10
    BY <1>1, <2>1
  <2>. QED BY <1>2, <1>5, <2>1, <2>2, ProgramLists DEF Listing, Do
<1>6. CASE p = "download"
  <2>1. Code(p) = fota_auth_download /\ Size(p) = 9
    BY <1>6 DEF Code, Size
  <2>2. k \in 1 .. 9
    BY <1>1, <2>1
  <2>. QED BY <1>2, <1>6, <2>1, <2>2, ProgramLists DEF Listing, Do
<1>7. CASE p = "install"
  <2>1. Code(p) = fota_auth_install /\ Size(p) = 5
    BY <1>7 DEF Code, Size
  <2>2. k \in 1 .. 5
    BY <1>1, <2>1
  <2>. QED BY <1>2, <1>7, <2>1, <2>2, ProgramLists DEF Listing, Do
<1>8. CASE p = "unregistered"
  <2>1. Code(p) = client_unregistered /\ Size(p) = 5
    BY <1>8 DEF Code, Size
  <2>2. k \in 1 .. 5
    BY <1>1, <2>1
  <2>. QED BY <1>2, <1>8, <2>1, <2>2, ProgramLists DEF Listing, Do
<1>9. CASE p = "off_line"
  <2>1. Code(p) = install_off_line /\ Size(p) = 4
    BY <1>9 DEF Code, Size
  <2>2. k \in 1 .. 4
    BY <1>1, <2>1
  <2>. QED BY <1>2, <1>9, <2>1, <2>2, ProgramLists DEF Listing, Do
<1>10. CASE p = "ask_download"
  <2>1. Code(p) = authorize_download /\ Size(p) = 3
    BY <1>10 DEF Code, Size
  <2>2. k \in 1 .. 3
    BY <1>1, <2>1
  <2>. QED BY <1>2, <1>10, <2>1, <2>2, ProgramLists DEF Listing, Do
<1>11. CASE p = "ask_install"
  <2>1. Code(p) = authorize_install /\ Size(p) = 3
    BY <1>11 DEF Code, Size
  <2>2. k \in 1 .. 3
    BY <1>1, <2>1
  <2>. QED BY <1>2, <1>11, <2>1, <2>2, ProgramLists DEF Listing, Do
<1>12. CASE p = "registered"
  <2>1. Code(p) = client_registered /\ Size(p) = 2
    BY <1>12 DEF Code, Size
  <2>2. k \in 1 .. 2
    BY <1>1, <2>1
  <2>. QED BY <1>2, <1>12, <2>1, <2>2, ProgramLists DEF Listing, Do
<1>13. CASE p \in {"light", "dht", "display", "keepalive"}
  <2>1. Code(p) = << Do("work", p) >> /\ Size(p) = 1
    BY <1>13 DEF Code, Size
  <2>2. k = 1
    BY <1>1, <2>1
  <2>. QED BY <1>2, <1>13, <2>1, <2>2 DEF Listing, Do
<1>. QED BY <1>2, <1>4, <1>5, <1>6, <1>7, <1>8, <1>9, <1>10, <1>11, <1>12, <1>13

\* A thread that has a statement to run is at the statement its place names, and what
\* it has left after it is what is left at the next place.
LEMMA AtPlace ==
  ASSUME NEW pc \in PCs, Follows(pc), NEW t \in Threads, todo[t] # << >>
  PROVE  /\ pc[t] \in Places(t) /\ pc[t].p # "idle"
         /\ Head(todo[t]) = Stm(pc[t])
         /\ Tail(todo[t]) = Left(Succ(pc[t]))
         /\ Succ(pc[t]) \in Places(t)
<1>. DEFINE pl == pc[t]  c == Code(pl.p)
<1>1. pl \in Places(t) /\ todo[t] = Left(pl)
  BY DEF PCs, Follows
<1>2. pl.p \in Programs(t) /\ pl.k \in 1 .. 11 /\ pl.k <= Size(pl.p)
  BY <1>1 DEF Places
<1>3. Left(Idle) = << >>
  <2>1. Left(Idle) = SubSeq(<< >>, 1, Len(<< >>))
    BY DEF Left, Idle, Code
  <2>. QED BY <2>1, SubSeqEmpty, EmptySeq
<1>4. pl.p # "idle"
  <2>1. SUFFICES ASSUME pl.p = "idle"
                 PROVE  FALSE
    OBVIOUS
  <2>2. Size(pl.p) = 1 /\ pl.k = 1
    BY <1>2, <2>1 DEF Size
  <2>3. Left(pl) = SubSeq(<< >>, 1, Len(<< >>))
    BY <2>1, <2>2 DEF Left, Code
  <2>. QED BY <1>1, <2>3, SubSeqEmpty, EmptySeq
<1>5. c \in Seq(Statements) /\ Len(c) = Size(pl.p)
  BY <1>2, <1>4, CodeSize
<1>6. pl.k \in 1 .. Len(c)
  BY <1>2, <1>5
<1>7. /\ Head(Left(pl)) = c[pl.k]
      /\ Tail(Left(pl)) = SubSeq(c, pl.k + 1, Len(c))
      /\ pl.k = Len(c) => Tail(Left(pl)) = << >>
  BY <1>5, <1>6, RestOfList DEF Left
<1>8. Size(pl.p) \in 1 .. 11
  BY DEF Size
<1>9. CASE pl.k = Size(pl.p)
  <2>1. "idle" \in Programs(t) /\ Size("idle") = 1
    BY DEF Threads, Programs, Size
  <2>2. Idle \in Places(t) /\ Succ(pl) = Idle
    BY <1>9, <2>1 DEF Places, Idle, Succ
  <2>. QED BY <1>1, <1>3, <1>4, <1>5, <1>7, <1>9, <2>2 DEF Stm
<1>10. CASE pl.k # Size(pl.p)
  <2>1. pl.k + 1 \in 1 .. 11 /\ pl.k + 1 <= Size(pl.p)
    BY <1>2, <1>8, <1>10
  <2>2. Succ(pl) = [p |-> pl.p, k |-> pl.k + 1]
    BY <1>10 DEF Succ
  <2>3. Succ(pl) \in Places(t)
    BY <1>2, <2>1, <2>2 DEF Places
  <2>4. Left(Succ(pl)) = SubSeq(c, pl.k + 1, Len(c))
    <3>1. Succ(pl).p = pl.p /\ Succ(pl).k = pl.k + 1
      BY <2>2
    <3>. QED BY <3>1, Zenon DEF Left
  <2>. QED BY <1>1, <1>4, <1>7, <2>3, <2>4 DEF Stm
<1>. QED BY <1>9, <1>10

\* The thread t goes to the place pl, and the others stay where they are.
Moved(pc, q, t, pl)  == q[t] = pl /\ \A u \in Threads : u # t => q[u] = pc[u]
Goes(t, pl)          == todo' = [todo EXCEPT ![t] = Left(pl)]

\* One thread moves to a place, and the rest stays.
LEMMA Move ==
  ASSUME NEW pc \in PCs, Follows(pc), NEW t \in Threads, NEW pl \in Places(t),
         DOMAIN todo = Threads, Goes(t, pl)
  PROVE  \E q \in PCs : Follows(q)' /\ Moved(pc, q, t, pl)
<1>. DEFINE q == [pc EXCEPT ![t] = pl]
<1>1. /\ pc \in [Threads -> [p : UNION {Programs(u) : u \in Threads}, k : 1..11]]
      /\ \A u \in Threads : pc[u] \in Places(u)
  BY DEF PCs
<1>2. pl \in [p : UNION {Programs(u) : u \in Threads}, k : 1..11]
  BY DEF Places
<1>3. /\ q \in [Threads -> [p : UNION {Programs(u) : u \in Threads}, k : 1..11]]
      /\ q[t] = pl /\ \A u \in Threads : u # t => q[u] = pc[u]
  BY <1>1, <1>2
<1>. HIDE DEF q
<1>4. q \in PCs
  BY <1>1, <1>3 DEF PCs
<1>5. todo'[t] = Left(pl) /\ \A u \in Threads : u # t => todo'[u] = todo[u]
  BY DEF Goes
<1>6. Follows(q)'
  BY <1>3, <1>5 DEF Follows
<1>7. Moved(pc, q, t, pl)
  BY <1>3 DEF Moved
<1>. QED BY <1>4, <1>6, <1>7

\* The place after a place.
LEMMA SuccIs ==
  ASSUME NEW t \in Threads, NEW pl \in Places(t)
  PROVE  /\ pl.k \in 1 .. 11
         /\ pl.k = Size(pl.p) => Succ(pl).p = "idle" /\ Succ(pl).k = 1
         /\ pl.k # Size(pl.p) => Succ(pl).p = pl.p /\ Succ(pl).k = pl.k + 1
BY DEF Places, Succ, Idle

\* where a statement is, what it is about, and where it leads
Where(t, pl) == <<t, pl.p, pl.k, Stm(pl).with, Succ(pl).p, Succ(pl).k>>

\* Where the statements of each kind are, what they are about and where they lead: every,
LEMMA EveryPlaces ==
  ASSUME NEW t \in Threads, NEW pl \in Places(t), pl.p # "idle", Stm(pl).do = "every"
  PROVE  Where(t, pl) \in {
    <<"init", "init", 4, "light", "init", 5>>,
    <<"init", "init", 6, "dht", "init", 7>>,
    <<"init", "init", 11, "keepalive", "idle", 1>>,
    <<"main", "install", 1, "display", "install", 2>>,
    <<"client", "reconnect", 7, "light", "reconnect", 8>>,
    <<"client", "reconnect", 9, "dht", "reconnect", 10>> }
BY IsListed, SuccIs DEF Listing, Where, Size, Idle

\* ... save:
LEMMA SavePlaces ==
  ASSUME NEW t \in Threads, NEW pl \in Places(t), pl.p # "idle", Stm(pl).do = "save"
  PROVE  Where(t, pl) \in {
    <<"init", "init", 5, "light", "init", 6>>,
    <<"init", "init", 7, "dht", "init", 8>>,
    <<"main", "install", 2, "display", "install", 3>>,
    <<"client", "reconnect", 8, "light", "reconnect", 9>>,
    <<"client", "reconnect", 10, "dht", "idle", 1>> }
BY IsListed, SuccIs DEF Listing, Where, Size, Idle

\* ... cancel:
LEMMA CancelPlaces ==
  ASSUME NEW t \in Threads, NEW pl \in Places(t), pl.p # "idle", Stm(pl).do = "cancel"
  PROVE  Where(t, pl) \in {
    <<"main", "download", 1, "light", "download", 2>>,
    <<"main", "download", 2, "dht", "download", 3>>,
    <<"main", "download", 5, "display", "download", 6>>,
    <<"client", "reconnect", 2, "light", "reconnect", 3>>,
    <<"client", "reconnect", 3, "dht", "reconnect", 4>> }
BY IsListed, SuccIs DEF Listing, Where, Size, Idle

\* ... zero:
LEMMA ZeroPlaces ==
  ASSUME NEW t \in Threads, NEW pl \in Places(t), pl.p # "idle", Stm(pl).do = "zero"
  PROVE  Where(t, pl) \in {
    <<"main", "download", 3, "light", "download", 4>>,
    <<"main", "download", 4, "dht", "download", 5>>,
    <<"main", "download", 6, "display", "download", 7>>,
    <<"client", "reconnect", 4, "light", "reconnect", 5>>,
    <<"client", "reconnect", 5, "dht", "reconnect", 6>> }
BY IsListed, SuccIs DEF Listing, Where, Size, Idle

\* ... connect:
LEMMA ConnectPlaces ==
  ASSUME NEW t \in Threads, NEW pl \in Places(t), pl.p # "idle", Stm(pl).do = "connect"
  PROVE  Where(t, pl) \in {
    <<"init", "init", 2, "wifi", "init", 3>>,
    <<"client", "reconnect", 6, "wifi", "reconnect", 7>> }
BY IsListed, SuccIs DEF Listing, Where, Size, Idle

\* ... disconnect:
LEMMA DisconnectPlaces ==
  ASSUME NEW t \in Threads, NEW pl \in Places(t), pl.p # "idle", Stm(pl).do = "disconnect"
  PROVE  Where(t, pl) \in {
    <<"client", "off_line", 1, "wifi", "off_line", 2>>,
    <<"client", "reconnect", 1, "wifi", "reconnect", 2>> }
BY IsListed, SuccIs DEF Listing, Where, Size, Idle

\* ... check:
LEMMA CheckPlaces ==
  ASSUME NEW t \in Threads, NEW pl \in Places(t), pl.p # "idle", Stm(pl).do = "check"
  PROVE  Where(t, pl) \in {
    <<"init", "init", 1, "stack", "init", 2>>,
    <<"init", "init", 3, "creds", "init", 4>> }
BY IsListed, SuccIs DEF Listing, Where, Size, Idle

\* ... load:
LEMMA LoadPlaces ==
  ASSUME NEW t \in Threads, NEW pl \in Places(t), pl.p # "idle", Stm(pl).do = "load"
  PROVE  Where(t, pl) \in {
    <<"init", "init", 9, "REGISTER_CALLED", "init", 10>>,
    <<"main", "download", 7, "FOTA_DL_GRANTED", "download", 8>>,
    <<"main", "install", 3, "FOTA_INSTALL_REQD", "install", 4>>,
    <<"client", "registered", 1, "REGISTERED", "registered", 2>>,
    <<"client", "ask_download", 1, "FOTA_DL_REQD", "ask_download", 2>>,
    <<"client", "ask_install", 1, "FOTA_INSTALL_REQD", "ask_install", 2>>,
    <<"client", "unregistered", 1, "REGISTERED", "unregistered", 2>>,
    <<"client", "unregistered", 3, "REGISTER_CALLED", "unregistered", 4>>,
    <<"client", "off_line", 2, "FOTA_INSTALL_GRANTED", "off_line", 3>> }
BY IsListed, SuccIs DEF Listing, Where, Size, Idle

\* ... setup:
LEMMA SetupPlaces ==
  ASSUME NEW t \in Threads, NEW pl \in Places(t), pl.p # "idle", Stm(pl).do = "setup"
  PROVE  Where(t, pl) \in {<<"init", "init", 8, "client", "init", 9>>}
BY IsListed, SuccIs DEF Listing, Where, Size, Idle

\* ... grant:
LEMMA GrantPlaces ==
  ASSUME NEW t \in Threads, NEW pl \in Places(t), pl.p # "idle", Stm(pl).do = "grant"
  PROVE  Where(t, pl) \in {
    <<"main", "download", 9, "download", "idle", 1>>,
    <<"client", "off_line", 4, "install", "idle", 1>> }
BY IsListed, SuccIs DEF Listing, Where, Size, Idle

\* ... post:
LEMMA PostPlaces ==
  ASSUME NEW t \in Threads, NEW pl \in Places(t), pl.p # "idle", Stm(pl).do = "post"
  PROVE  Where(t, pl) \in {
    <<"client", "ask_download", 3, "download", "idle", 1>>,
    <<"client", "ask_install", 3, "install", "idle", 1>> }
BY IsListed, SuccIs DEF Listing, Where, Size, Idle

\* ... unregistered:
LEMMA UnregisteredPlaces ==
  ASSUME NEW t \in Threads, NEW pl \in Places(t), pl.p # "idle", Stm(pl).do = "unregistered"
  PROVE  Where(t, pl) \in {<<"client", "unregistered", 5, "client", "idle", 1>>}
BY IsListed, SuccIs DEF Listing, Where, Size, Idle

\* ... close:
LEMMA ClosePlaces ==
  ASSUME NEW t \in Threads, NEW pl \in Places(t), pl.p # "idle", Stm(pl).do = "close"
  PROVE  Where(t, pl) \in {<<"main", "install", 5, "client", "idle", 1>>}
BY IsListed, SuccIs DEF Listing, Where, Size, Idle

\* ... work:
LEMMA WorkPlaces ==
  ASSUME NEW t \in Threads, NEW pl \in Places(t), pl.p # "idle", Stm(pl).do = "work"
  PROVE  Where(t, pl) \in {
    <<"main", "light", 1, "light", "idle", 1>>,
    <<"main", "dht", 1, "dht", "idle", 1>>,
    <<"main", "display", 1, "display", "idle", 1>>,
    <<"main", "keepalive", 1, "keepalive", "idle", 1>> }
BY IsListed, SuccIs DEF Listing, Where, Size, Idle

\* ... set and clear, with which of the two it is:
LEMMA StorePlaces ==
  ASSUME NEW t \in Threads, NEW pl \in Places(t), pl.p # "idle", Stm(pl).do \in {"set", "clear"}
  PROVE  <<Stm(pl).do, Where(t, pl)>> \in {
    <<"set", <<"init", "init", 10, "REGISTER_CALLED", "init", 11>>>>,
    <<"set", <<"main", "download", 8, "FOTA_DL_GRANTED", "download", 9>>>>,
    <<"set", <<"main", "install", 4, "FOTA_INSTALL_REQD", "install", 5>>>>,
    <<"set", <<"client", "registered", 2, "REGISTERED", "idle", 1>>>>,
    <<"set", <<"client", "ask_download", 2, "FOTA_DL_REQD", "ask_download", 3>>>>,
    <<"set", <<"client", "ask_install", 2, "FOTA_INSTALL_REQD", "ask_install", 3>>>>,
    <<"clear", <<"client", "unregistered", 2, "REGISTERED", "unregistered", 3>>>>,
    <<"clear", <<"client", "unregistered", 4, "REGISTER_CALLED", "unregistered", 5>>>>,
    <<"set", <<"client", "off_line", 3, "FOTA_INSTALL_GRANTED", "off_line", 4>>>> }
BY IsListed, SuccIs DEF Listing, Where, Size, Idle

-----------------------------------------------------------------------------
(* Types *)

\* The programs are made of Statements.
LEMMA ProgramsTyped ==
  /\ {init_app, fota_auth_download, fota_auth_install, client_registered, authorize_download,
      authorize_install, client_unregistered, install_off_line, reconnect, << >>}
         \subseteq Seq(Statements)
  /\ \A b \in Kinds : << Do("work", b) >> \in Seq(Statements)
<1>1. /\ "init" \in Programs("init") /\ Code("init") = init_app
      /\ "download" \in Programs("main") /\ Code("download") = fota_auth_download
      /\ "install" \in Programs("main") /\ Code("install") = fota_auth_install
      /\ "registered" \in Programs("client") /\ Code("registered") = client_registered
      /\ "ask_download" \in Programs("client") /\ Code("ask_download") = authorize_download
      /\ "ask_install" \in Programs("client") /\ Code("ask_install") = authorize_install
      /\ "unregistered" \in Programs("client") /\ Code("unregistered") = client_unregistered
      /\ "off_line" \in Programs("client") /\ Code("off_line") = install_off_line
      /\ "reconnect" \in Programs("client") /\ Code("reconnect") = reconnect
  BY DEF Programs, Handlers, Code
<1>2. {"init", "main", "client"} \subseteq Threads
  BY DEF Threads
<1>3. /\ init_app \in Seq(Statements) /\ fota_auth_download \in Seq(Statements)
      /\ fota_auth_install \in Seq(Statements) /\ client_registered \in Seq(Statements)
      /\ authorize_download \in Seq(Statements) /\ authorize_install \in Seq(Statements)
      /\ client_unregistered \in Seq(Statements) /\ install_off_line \in Seq(Statements)
      /\ reconnect \in Seq(Statements)
  BY <1>1, <1>2, CodeSize
<1>4. ASSUME NEW b \in Kinds
      PROVE  << Do("work", b) >> \in Seq(Statements)
  <2>1. b \in Programs("main") /\ b # "idle" /\ Code(b) = << Do("work", b) >>
    BY DEF Programs, Kinds, Slots, Sensors, Code
  <2>. QED BY <1>2, <2>1, CodeSize
<1>5. << >> \in Seq(Statements)
  OBVIOUS
<1>. QED BY <1>3, <1>4, <1>5

\* The statement that comes next is one of Statements, about what such a statement is
\* about.
LEMMA NextStatement ==
  ASSUME NEW t \in Threads, todo \in [Threads -> Seq(Statements)], todo[t] # << >>
  PROVE  /\ Head(todo[t]) \in Statements /\ Tail(todo[t]) \in Seq(Statements)
         /\ Head(todo[t]).do = "every" => With(t) \in Kinds
         /\ Head(todo[t]).do \in {"save", "cancel", "zero"} => With(t) \in Slots
         /\ Head(todo[t]).do \in {"set", "clear"} => With(t) \in FlagNames
         /\ Head(todo[t]).do = "post" => With(t) \in {"download", "install"}
<1>1. Head(todo[t]) \in Statements /\ Tail(todo[t]) \in Seq(Statements)
  BY HeadTailProperties
<1>2. ASSUME NEW s \in Statements
      PROVE  /\ s.do = "every" => s.with \in Kinds
             /\ s.do \in {"save", "cancel", "zero"} => s.with \in Slots
             /\ s.do \in {"set", "clear"} => s.with \in FlagNames
             /\ s.do = "post" => s.with \in {"download", "install"}
  BY DEF Statements, Do
<1>. QED BY <1>1, <1>2 DEF With

\* The threads start with typed programs.
LEMMA InitTyped == Init => TypeOK
<1>. SUFFICES ASSUME Init
              PROVE  TypeOK
  OBVIOUS
<1>1. /\ timers = {[id |-> 1, run |-> "display"]}
      /\ slot = [s \in Slots |-> IF s = "display" THEN 1 ELSE 0]
  BY DEF Init
<1>2. 1 \in 1 .. MaxEvents /\ 0 \in 0 .. MaxEvents /\ 1 \in 0 .. MaxEvents
      /\ 0 \in 0 .. MaxDownloads
  BY UpdateAssumption DEF UpdateAssumption
<1>3. timers \subseteq [id : 1 .. MaxEvents, run : Kinds] /\ slot \in [Slots -> 0 .. MaxEvents]
  BY <1>1, <1>2 DEF Kinds, Slots
<1>4. todo \in [Threads -> Seq(Statements)]
  BY ProgramsTyped DEF Init
<1>5. evq \in Seq({"download", "install"})
  BY DEF Init
<1>. QED BY <1>2, <1>3, <1>4, <1>5 DEF Init, TypeOK

\* the type invariant of everything but the lists of statements
LEMMA StatementTyped ==
  ASSUME TypeOK, NEW t \in Threads, Statement(t)
  PROVE  TypeOK'
<1>. USE DEF TypeOK
<1>1. todo[t] # << >> /\ Tail(todo[t]) \in Seq(Statements) /\ DOMAIN todo = Threads
  <2>1. todo[t] # << >>
    BY DEF Statement, At, Every, Save, Cancel, Zero, Load, Store, Post, Connect, Disconnect,
           Check, Setup, Grant, Close, Unregistered, Work
  <2>. QED BY <2>1, NextStatement
<1>2. Return(t) => todo' \in [Threads -> Seq(Statements)]
  BY <1>1 DEF Return
<1>3. CASE Every(t)
  <2>1. With(t) \in Kinds
    BY <1>1, <1>3, NextStatement DEF Every, At
  <2>2. CASE FreeIds = {}
    <3>1. ret' = [ret EXCEPT ![t] = 0] /\ 0 \in 0 .. MaxEvents
      BY <1>3, <2>2, UpdateAssumption DEF Every, UpdateAssumption
    <3>2. ret' \in [Threads -> 0 .. MaxEvents]
      BY <3>1
    <3>. QED BY <1>2, <1>3, <2>2, <3>2 DEF Every
  <2>3. CASE FreeIds # {}
    <3>. DEFINE id == CHOOSE i \in FreeIds : TRUE
    <3>1. id \in 1 .. MaxEvents
      BY <2>3 DEF FreeIds
    <3>2. /\ ret' = [ret EXCEPT ![t] = id]
          /\ timers' = timers \cup {[id |-> id, run |-> With(t)]}
      BY <1>3, <2>3 DEF Every
    <3>. HIDE DEF id
    <3>3. ret' \in [Threads -> 0 .. MaxEvents]
      BY <3>1, <3>2, UpdateAssumption DEF UpdateAssumption
    <3>4. timers' \subseteq [id : 1 .. MaxEvents, run : Kinds]
      BY <2>1, <3>1, <3>2
    <3>. QED BY <1>2, <1>3, <3>3, <3>4 DEF Every
  <2>. QED BY <2>2, <2>3
<1>4. CASE Save(t)
  <2>1. With(t) \in Slots
    BY <1>1, <1>4, NextStatement DEF Save, At
  <2>2. slot' \in [Slots -> 0 .. MaxEvents]
    BY <1>4, <2>1 DEF Save
  <2>. QED BY <1>2, <1>4, <2>2 DEF Save
<1>5. CASE Cancel(t)
  <2>1. timers' \subseteq [id : 1 .. MaxEvents, run : Kinds]
    BY <1>5 DEF Cancel
  <2>. QED BY <1>2, <1>5, <2>1 DEF Cancel
<1>6. CASE Zero(t)
  <2>1. slot' = [slot EXCEPT ![With(t)] = 0] /\ 0 \in 0 .. MaxEvents
    BY <1>6, UpdateAssumption DEF Zero, UpdateAssumption
  <2>2. slot' \in [Slots -> 0 .. MaxEvents]
    BY <2>1
  <2>. QED BY <1>2, <1>6, <2>2 DEF Zero
<1>7. CASE Load(t)
  BY <1>2, <1>7 DEF Load
<1>8. CASE Store(t)
  <2>1. With(t) \in FlagNames
    BY <1>1, <1>8, NextStatement DEF Store, At
  <2>2. flags' \subseteq FlagNames
    BY <1>8, <2>1 DEF Store
  <2>. QED BY <1>2, <1>8, <2>2 DEF Store
<1>9. CASE Post(t)
  <2>1. With(t) \in {"download", "install"} /\ (evq' = Append(evq, With(t)) \/ evq' = evq)
    BY <1>1, <1>9, NextStatement DEF Post, At
  <2>2. evq' \in Seq({"download", "install"})
    <3>1. Append(evq, With(t)) \in Seq({"download", "install"})
      BY <2>1, AppendProperties
    <3>. QED BY <2>1, <3>1
  <2>3. update' \in {"ready", "asked"} /\ failed' \in {failed, failed \cup {"call"}}
    BY <1>9 DEF Post
  <2>. QED BY <1>2, <1>9, <2>2, <2>3 DEF Post
<1>10. CASE Connect(t) \/ Disconnect(t) \/ Work(t)
  <2>1. wifi' \in BOOLEAN
    BY <1>10 DEF Connect, Disconnect, Work
  <2>. QED BY <1>2, <1>10, <2>1 DEF Connect, Disconnect, Work
<1>11. CASE Check(t)
  <2>1. todo' \in [Threads -> Seq(Statements)]
    BY <1>2, <1>11, ProgramsTyped DEF Check
  <2>. QED BY <1>11, <2>1 DEF Check
<1>12. CASE Setup(t) \/ Close(t)
  BY <1>2, <1>12 DEF Setup, Close
<1>13. CASE Grant(t)
  <2>1. update' \in {"loading", "installing", update}
    BY <1>13 DEF Grant
  <2>. QED BY <1>2, <1>13, <2>1 DEF Grant
<1>14. CASE Unregistered(t)
  <2>1. install_off_line \o Tail(todo[t]) \in Seq(Statements)
    BY <1>1, ProgramsTyped, ConcatProperties
  <2>2. todo' \in [Threads -> Seq(Statements)]
    BY <1>1, <1>2, <1>14, <2>1 DEF Unregistered
  <2>. QED BY <1>14, <2>2 DEF Unregistered
<1>. QED BY <1>3, <1>4, <1>5, <1>6, <1>7, <1>8, <1>9, <1>10, <1>11, <1>12, <1>13, <1>14
         DEF Statement

\* Every step keeps the types.
LEMMA NextTyped ==
  ASSUME TypeOK, [Next]_vars
  PROVE  TypeOK'
<1>. USE DEF TypeOK
<1>1. ASSUME NEW t \in Threads, Statement(t)
      PROVE  TypeOK'
  BY <1>1, StatementTyped
<1>2. CASE Dispatch
  <2>1. evq' \in Seq({"download", "install"})
    BY <1>2, HeadTailProperties DEF Dispatch
  <2>2. todo' \in [Threads -> Seq(Statements)]
    BY <1>2, ProgramsTyped DEF Dispatch, Run
  <2>. QED BY <1>2, <2>1, <2>2 DEF Dispatch
<1>3. CASE Fire
  <2>1. PICK e \in timers : Run("main", << Do("work", e.run) >>)
    BY <1>3 DEF Fire
  <2>2. e.run \in Kinds
    OBVIOUS
  <2>3. todo' \in [Threads -> Seq(Statements)]
    BY <2>1, <2>2, ProgramsTyped DEF Run
  <2>. QED BY <1>3, <2>3 DEF Fire
<1>4. CASE ClientRegistered
  <2>1. todo' \in [Threads -> Seq(Statements)]
    BY <1>4, ProgramsTyped DEF ClientRegistered, Run
  <2>. QED BY <1>4, <2>1 DEF ClientRegistered
<1>5. CASE AskDownload
  <2>1. todo' \in [Threads -> Seq(Statements)]
    BY <1>5, ProgramsTyped DEF AskDownload, Run
  <2>2. downloads' \in 0 .. MaxDownloads
    BY <1>5, UpdateAssumption DEF AskDownload, UpdateAssumption
  <2>. QED BY <1>5, <2>1, <2>2 DEF AskDownload
<1>6. CASE DownloadComplete \/ DownloadFailed
  BY <1>6 DEF DownloadComplete, DownloadFailed
<1>7. CASE AskInstall
  <2>1. todo' \in [Threads -> Seq(Statements)]
    BY <1>7, ProgramsTyped DEF AskInstall, Run
  <2>. QED BY <1>7, <2>1 DEF AskInstall
<1>8. CASE NetworkError
  <2>1. todo' \in [Threads -> Seq(Statements)]
    BY <1>8, ProgramsTyped DEF NetworkError, Run
  <2>2. reg' \in {"trying", reg} /\ update' \in {"none", update} /\ disturbed' \in BOOLEAN
    BY <1>8 DEF NetworkError
  <2>. QED BY <1>8, <2>1, <2>2 DEF NetworkError
<1>9. CASE ClientUnregistered
  <2>1. todo' \in [Threads -> Seq(Statements)]
    BY <1>9, ProgramsTyped DEF ClientUnregistered, Run
  <2>. QED BY <1>9, <2>1 DEF ClientUnregistered
<1>10. CASE Reboot
  <2>1. Init'
    BY <1>10, Zenon DEF Reboot, Init
  <2>2. Init' => TypeOK'
    BY InitTyped, PTL
  <2>. QED BY <2>1, <2>2
<1>11. CASE UNCHANGED vars
  BY <1>11 DEF vars
<1>. QED BY <1>1, <1>2, <1>3, <1>4, <1>5, <1>6, <1>7, <1>8, <1>9, <1>10, <1>11
         DEF Next, Callback

\* Every variable keeps its type: the lists of statements are made of statements of the
\* programs, and the ids of events are those of the queue (main.cpp, m2mclient.cpp).
THEOREM TypeCorrect == Spec => []TypeOK
BY InitTyped, NextTyped, PTL DEF Spec

-----------------------------------------------------------------------------
(* The statements *)

\* It runs the statement at its place and goes on to the next.
Runs(pc, q, t) == /\ pc[t] \in Places(t) /\ pc[t].p # "idle"
                  /\ Head(todo[t]) = Stm(pc[t])
                  /\ Moved(pc, q, t, Succ(pc[t]))

\* Where each thread may be.
LEMMA PlacesOf ==
  ASSUME NEW pc \in PCs
  PROVE  /\ pc["init"].p \in {"idle", "init"}
         /\ pc["main"].p \in {"idle", "download", "install", "light", "dht", "display", "keepalive"}
         /\ pc["client"].p \in {"idle", "registered", "ask_download", "ask_install",
                                "unregistered", "off_line", "reconnect"}
         /\ pc["init"].k \in 1 .. 11 /\ pc["main"].k \in 1 .. 11 /\ pc["client"].k \in 1 .. 11
<1>1. pc["init"] \in Places("init") /\ pc["main"] \in Places("main") /\ pc["client"] \in Places("client")
  BY DEF PCs, Threads
<1>. QED BY <1>1 DEF Places, Programs, Handlers, Kinds, Slots, Sensors

\* Only the thread that runs moves.
LEMMA Locate ==
  ASSUME NEW pc, NEW q, NEW t \in Threads, NEW pl, Moved(pc, q, t, pl)
  PROVE  /\ q[t] = pl
         /\ t # "init" => q["init"] = pc["init"]
         /\ t # "main" => q["main"] = pc["main"]
         /\ t # "client" => q["client"] = pc["client"]
BY DEF Moved, Threads

\* Events stay known and unwanted events absent as long as no event starts or stops.
LEMMA EventsKept ==
  ASSUME NEW pc \in PCs, NEW q \in PCs, NEW t \in Threads, NEW pl, Moved(pc, q, t, pl),
         \A s \in Slots : /\ ~Saving(pc[t], s) /\ ~Saving(pl, s)
                          /\ Silent(pl, s) => Silent(pc[t], s),
         UNCHANGED <<timers, slot, ret>>
  PROVE  (Owned(pc) => Owned(q)') /\ (Hushed(pc) => Hushed(q)')
<1>1. \A s \in Slots, u \in Threads : (Saving(q[u], s) <=> Saving(pc[u], s))
                                     /\ (Silent(q[u], s) => Silent(pc[u], s))
  BY DEF Moved
<1>2. \A s \in Slots : Ticks(s)' <=> Ticks(s)
  BY DEF Ticks
<1>3. Owned(pc) => Owned(q)'
  BY <1>1 DEF Owned
<1>4. Hushed(pc) => Hushed(q)'
  BY <1>1, <1>2 DEF Hushed
<1>. QED BY <1>3, <1>4

\* the same for a statement that starts, saves or cancels no event
LEMMA EventsKeptByStatement ==
  ASSUME NEW pc \in PCs, NEW q \in PCs, NEW t \in Threads, Runs(pc, q, t),
         Stm(pc[t]).do \notin {"every", "save", "cancel"},
         UNCHANGED <<timers, slot, ret>>
  PROVE  (Owned(pc) => Owned(q)') /\ (Hushed(pc) => Hushed(q)')
<1>1. <<t, pc[t].p, pc[t].k, Stm(pc[t]).do, Stm(pc[t]).with>> \in Listing
  BY IsListed DEF Runs
<1>2. \A s \in Slots : /\ ~Saving(pc[t], s) /\ ~Saving(Succ(pc[t]), s)
                       /\ Silent(Succ(pc[t]), s) => Silent(pc[t], s)
  BY <1>1, SuccIs DEF Runs, Listing, Saving, Silent, Slots, Sensors, Size
<1>3. Moved(pc, q, t, Succ(pc[t]))
  BY DEF Runs
<1>. QED BY <1>2, <1>3, EventsKept

\* The same for the events that a request or an update must not meet.
LEMMA CalmKept ==
  ASSUME NEW pc \in PCs, NEW q \in PCs, NEW t \in Threads, Runs(pc, q, t), Calm(pc),
         \A s \in Slots : Ticks(s)' => Ticks(s), UNCHANGED <<evq, update>>
  PROVE  Calm(q)'
<1>1. q[t].p \in {pc[t].p, "idle"}
  BY SuccIs DEF Runs, Moved
<1>2. "idle" \notin Slots /\ Sensors \subseteq Slots
  BY DEF Slots, Sensors
<1>3. q["client"].p \in {pc["client"].p, "idle"} /\ q["main"].p \in {pc["main"].p, "idle"}
  BY <1>1, Locate DEF Runs
<1>. QED BY <1>2, <1>3 DEF Calm

\* What the threads agree on stays, when a statement changes none of it.
LEMMA ControlKept ==
  ASSUME NEW pc \in PCs, NEW q \in PCs, NEW t \in Threads, Runs(pc, q, t), Control(pc),
         UNCHANGED <<evq, update, reg, flags, disturbed>>
  PROVE  Control(q)'
<1>1. /\ q[t].p \in {pc[t].p, "idle"}
      /\ q[t].p # "idle" => q[t].k = pc[t].k + 1
  BY SuccIs DEF Runs, Moved
<1>2. /\ q["client"].p \in {pc["client"].p, "idle"} /\ q["main"].p \in {pc["main"].p, "idle"}
      /\ q["init"].p \in {pc["init"].p, "idle"}
      /\ q["init"].p # "idle" => q["init"].k \in {pc["init"].k, pc["init"].k + 1}
  BY <1>1, Locate DEF Runs
<1>. QED BY <1>2, PlacesOf DEF Control, Starting, Handlers

\* The flags tell the same, after a statement that neither loads nor stores them.
LEMMA FlagsKept ==
  ASSUME NEW pc \in PCs, NEW q \in PCs, NEW t \in Threads, Runs(pc, q, t), FlagsTell(pc),
         Stm(pc[t]).do \notin {"load", "set", "clear"},
         UNCHANGED <<loaded, flags, update, reg>>
  PROVE  FlagsTell(q)'
<1>1. <<t, pc[t].p, pc[t].k, Stm(pc[t]).do, Stm(pc[t]).with>> \in Listing
  BY IsListed DEF Runs
<1>2. /\ q[t].p \in {pc[t].p, "idle"}
      /\ q[t].p # "idle" => q[t].k = pc[t].k + 1
  BY SuccIs DEF Runs, Moved
<1>3. ~AtStore(q[t])
  BY <1>1, <1>2 DEF Listing, AtStore
<1>4. \A u \in Threads : AtStore(q[u]) => AtStore(pc[u])
  BY <1>3 DEF Runs, Moved
<1>5. CASE t # "client"
  BY <1>4, <1>5, Locate DEF Runs, FlagsTell, StoresSafe, Told
<1>6. CASE t = "client"
  <2>1. /\ q[t].p = "ask_download" => q[t].k # 3
        /\ q[t].p = "ask_install" => q[t].k # 3
        /\ q[t].p = "unregistered" /\ q[t].k >= 3 => pc[t].k >= 3
        /\ pc[t].p # "registered"
    BY <1>1, <1>2 DEF Listing
  <2>2. q[t] # [p |-> "ask_download", k |-> 3] /\ q[t] # [p |-> "ask_install", k |-> 3]
    BY <2>1
  <2>. QED BY <1>2, <1>4, <1>6, <2>1, <2>2 DEF FlagsTell, StoresSafe, Told
<1>. QED BY <1>5, <1>6

\* The network stays down, as long as neither it nor the update changes.
LEMMA OffLineKept ==
  ASSUME NEW pc \in PCs, NEW q \in PCs, NEW t \in Threads, Runs(pc, q, t), OffLine(pc),
         Stm(pc[t]).do # "disconnect", UNCHANGED <<wifi, failed, update>>
  PROVE  OffLine(q)'
<1>1. <<t, pc[t].p, pc[t].k, Stm(pc[t]).do, Stm(pc[t]).with>> \in Listing
  BY IsListed DEF Runs
<1>2. /\ q[t].p \in {pc[t].p, "idle"}
      /\ q[t].p # "idle" => q[t].k = pc[t].k + 1
  BY SuccIs DEF Runs, Moved
<1>3. q["client"].p = "off_line" /\ q["client"].k >= 2
          => pc["client"].p = "off_line" /\ pc["client"].k >= 2
  <2>1. CASE t # "client"
    BY <2>1, Locate DEF Runs
  <2>2. CASE t = "client"
    BY <1>1, <1>2, <2>2 DEF Listing
  <2>. QED BY <2>1, <2>2
<1>. QED BY <1>3 DEF OffLine

\* The three parts about events, for a statement that starts, saves or cancels none.
LEMMA TrackedKept ==
  ASSUME NEW pc \in PCs, NEW q \in PCs, NEW t \in Threads, Runs(pc, q, t), Tracked(pc),
         Stm(pc[t]).do \notin {"every", "save", "cancel"},
         UNCHANGED <<timers, slot, ret, evq, update, disturbed>>
  PROVE  Tracked(q)'
<1>1. \A s \in Slots : Ticks(s)' => Ticks(s)
  BY DEF Ticks
<1>2. Calm(pc) => Calm(q)'
  BY <1>1, CalmKept
<1>3. (Owned(pc) => Owned(q)') /\ (Hushed(pc) => Hushed(q)')
  BY EventsKeptByStatement
<1>. QED BY <1>2, <1>3 DEF Tracked

\* call_every(): the new event belongs to the thread that started it, and no other event
\* for the same variable is in the queue.
LEMMA EveryKeeps ==
  ASSUME TypeOK, NEW pc \in PCs, NEW q \in PCs, Asserted(pc), NEW t \in Threads,
         Runs(pc, q, t), Every(t)
  PROVE  Asserted(q)'
<1>1. Where(t, pc[t]) \in {<<"init", "init", 4, "light", "init", 5>>,
                           <<"init", "init", 6, "dht", "init", 7>>,
                           <<"init", "init", 11, "keepalive", "idle", 1>>,
                           <<"main", "install", 1, "display", "install", 2>>,
                           <<"client", "reconnect", 7, "light", "reconnect", 8>>,
                           <<"client", "reconnect", 9, "dht", "reconnect", 10>>}
  BY EveryPlaces DEF Every, At, Runs
<1>2. With(t) = Stm(pc[t]).with /\ q[t].p = Succ(pc[t]).p /\ q[t].k = Succ(pc[t]).k
  BY DEF With, Runs, Moved
<1>3. Stm(pc[t]).do = "every"
  BY DEF Every, At, Runs
<1>4. UNCHANGED <<slot, evq, loaded, wifi, flags, reg, update, downloads, disturbed, failed>>
  BY DEF Every
<1>5. Control(q)' /\ FlagsTell(q)' /\ OffLine(q)'
  BY <1>3, <1>4, ControlKept, FlagsKept, OffLineKept DEF Asserted
<1>6. /\ t # "init" => q["init"] = pc["init"]
      /\ t # "main" => q["main"] = pc["main"]
      /\ t # "client" => q["client"] = pc["client"]
  BY SMTT(30), Locate DEF Runs
<1>7. ASSUME ~disturbed
      PROVE  Owned(q)' /\ Hushed(q)' /\ Calm(q)'
  <2>1. Owned(pc) /\ Hushed(pc) /\ Calm(pc)
    BY <1>7 DEF Asserted, Tracked
  <2>2. /\ \A u \in Threads : u # t => ret'[u] = ret[u]
        /\ \A e \in timers' : e \in timers \/ (e.run = With(t) /\ ret'[t] = e.id)
    <3>1. CASE FreeIds = {}
      BY <3>1 DEF Every, TypeOK
    <3>2. CASE FreeIds # {}
      <4>. DEFINE id == CHOOSE i \in FreeIds : TRUE
      <4>1. ret' = [ret EXCEPT ![t] = id] /\ timers' = timers \cup {[id |-> id, run |-> With(t)]}
        BY <3>2 DEF Every
      <4>. HIDE DEF id
      <4>. QED BY <4>1 DEF TypeOK
    <3>. QED BY <3>1, <3>2
  <2>3. With(t) \in Slots => ~Ticks(With(t))
    BY <1>1, <1>2, <2>1 DEF Where, Hushed, Silent, Slots, Sensors
  <2>4. \A s \in Slots : Ticks(s)' => Ticks(s) \/ s = With(t)
    BY <2>2 DEF Ticks
  <2>5. \A s \in Slots : ~Saving(pc[t], s) /\ (Saving(q[t], s) <=> s = With(t))
    BY <1>1, <1>2 DEF Where, Saving, Slots, Sensors
  <2>6. \A u \in Threads : u # t => q[u] = pc[u]
    BY DEF Runs, Moved
  <2>7. Owned(q)'
    <3>1. ASSUME NEW s \in Slots, NEW e \in timers', e.run = s
          PROVE  \/ slot'[s] = e.id /\ \A u \in Threads : ~Saving(q[u], s)
                 \/ \E u \in Threads : Saving(q[u], s) /\ ret'[u] = e.id
      <4>1. CASE e \notin timers
        BY <2>2, <2>5, <3>1, <4>1
      <4>2. CASE e \in timers
        <5>1. s # With(t)
          BY <2>3, <3>1, <4>2 DEF Ticks
        <5>2. \A u \in Threads : Saving(q[u], s) <=> Saving(pc[u], s)
          BY <2>5, <2>6, <5>1
        <5>. QED BY <1>4, <2>1, <2>2, <2>5, <3>1, <4>2, <5>2 DEF Owned
      <4>. QED BY <4>1, <4>2
    <3>. QED BY <3>1 DEF Owned
  <2>8. Hushed(q)'
    <3>1. \A s \in Slots, u \in Threads : Silent(q[u], s) => Silent(pc[u], s) /\ s # With(t)
      <4>1. CASE t = "init"
        BY <1>1, <1>2, <1>6, <4>1, PlacesOf
           DEF Where, Silent, Threads, Slots, Sensors, Asserted, Control, Starting
      <4>2. CASE t = "main"
        BY <1>1, <1>2, <1>6, <4>2, PlacesOf
           DEF Where, Silent, Threads, Slots, Sensors, Asserted, Control, Starting
      <4>3. CASE t = "client"
        BY <1>1, <1>2, <1>6, <2>1, <4>3, PlacesOf
           DEF Where, Silent, Threads, Slots, Sensors, Asserted, Control, Starting, Calm
      <4>. QED BY <4>1, <4>2, <4>3 DEF Threads
    <3>. QED BY <2>1, <2>4, <3>1 DEF Hushed
  <2>9. Calm(q)'
    <3>1. evq = <<"install">> => update = "ready" /\ pc["main"].p # "install"
      <4>1. <<"install">> # << >>
        OBVIOUS
      <4>. QED BY <4>1 DEF Asserted, Control, Handlers
    <3>2. With(t) \in Slots /\ update # "none" => pc["main"].p = "install" /\ update = "ready"
      BY <1>1, <1>2, <2>1 DEF Where, Asserted, Control, Starting, Slots, Sensors, Calm
    <3>3. update \in {"loading", "loaded"} \/ evq = <<"install">> => With(t) \notin Slots
      BY <3>1, <3>2
    <3>4. update \in {"ready", "installing"} => With(t) \notin Sensors
      BY <1>1, <1>2, <2>1 DEF Where, Asserted, Control, Starting, Slots, Sensors, Calm
    <3>5. update # "none" => q["client"].p # "reconnect"
      BY <1>1, <1>2, <1>6, <2>1 DEF Where, Calm
    <3>6. update = "loading" => q["main"].p \notin Slots
      BY <1>1, <1>2, <1>6, <2>1 DEF Where, Slots, Sensors, Calm
    <3>7. Sensors \subseteq Slots
      BY DEF Slots
    <3>. QED BY <1>4, <2>1, <2>4, <3>3, <3>4, <3>5, <3>6, <3>7 DEF Calm
  <2>. QED BY <2>7, <2>8, <2>9
<1>8. Tracked(q)'
  BY <1>4, <1>7 DEF Tracked
<1>. QED BY <1>5, <1>8 DEF Asserted

\* Who may be about to save an id: init_app(), the install handler or a reconnection.
LEMMA SavingIs ==
  ASSUME NEW pc \in PCs, NEW t \in Threads, NEW s \in Slots, Saving(pc[t], s)
  PROVE  \/ t = "init" /\ s = "light" /\ pc["init"].p = "init" /\ pc["init"].k = 5
         \/ t = "init" /\ s = "dht" /\ pc["init"].p = "init" /\ pc["init"].k = 7
         \/ t = "main" /\ s = "display" /\ pc["main"].p = "install" /\ pc["main"].k = 2
         \/ t = "client" /\ s = "light" /\ pc["client"].p = "reconnect" /\ pc["client"].k = 8
         \/ t = "client" /\ s = "dht" /\ pc["client"].p = "reconnect" /\ pc["client"].k = 10
BY PlacesOf DEF Saving, Threads

\* No two threads are about to save the id of an event for the same variable.
LEMMA OneSaves ==
  ASSUME NEW pc \in PCs, Control(pc), NEW s \in Slots, NEW t \in Threads, NEW u \in Threads,
         Saving(pc[t], s), Saving(pc[u], s)
  PROVE  t = u
BY SavingIs DEF Control, Starting

\* The id that call_every() returned is saved.
LEMMA SaveKeeps ==
  ASSUME TypeOK, NEW pc \in PCs, NEW q \in PCs, Asserted(pc), NEW t \in Threads,
         Runs(pc, q, t), Save(t)
  PROVE  Asserted(q)'
<1>1. Where(t, pc[t]) \in {<<"init", "init", 5, "light", "init", 6>>,
                           <<"init", "init", 7, "dht", "init", 8>>,
                           <<"main", "install", 2, "display", "install", 3>>,
                           <<"client", "reconnect", 8, "light", "reconnect", 9>>,
                           <<"client", "reconnect", 10, "dht", "idle", 1>>}
  BY SavePlaces DEF Save, At, Runs
<1>2. With(t) = Stm(pc[t]).with /\ q[t].p = Succ(pc[t]).p /\ q[t].k = Succ(pc[t]).k
  BY DEF With, Runs, Moved
<1>3. Stm(pc[t]).do = "save"
  BY DEF Save, At, Runs
<1>4. UNCHANGED <<timers, evq, ret, loaded, wifi, flags, reg, update, downloads, disturbed, failed>>
  BY DEF Save
<1>5. Control(q)' /\ FlagsTell(q)' /\ OffLine(q)'
  BY <1>3, <1>4, ControlKept, FlagsKept, OffLineKept DEF Asserted
<1>6. ASSUME ~disturbed
      PROVE  Owned(q)' /\ Hushed(q)' /\ Calm(q)'
  <2>1. Owned(pc) /\ Hushed(pc) /\ Calm(pc)
    BY <1>6 DEF Asserted, Tracked
  <2>2. Calm(q)'
    BY <1>4, <2>1, CalmKept DEF Ticks
  <2>3. \A u \in Threads : u # t => q[u] = pc[u]
    BY DEF Runs, Moved
  <2>4. /\ With(t) \in Slots /\ Saving(pc[t], With(t))
        /\ \A s \in Slots : ~Saving(q[t], s) /\ (Saving(pc[t], s) => s = With(t))
    BY <1>1, <1>2 DEF Where, Saving, Slots, Sensors
  <2>5. \A u \in Threads : Saving(pc[u], With(t)) => u = t
    BY <2>4, OneSaves DEF Asserted
  <2>6. slot' = [slot EXCEPT ![With(t)] = ret[t]]
    BY DEF Save
  <2>7. Owned(q)'
    <3>1. ASSUME NEW s \in Slots, NEW e \in timers, e.run = s
          PROVE  \/ slot'[s] = e.id /\ \A u \in Threads : ~Saving(q[u], s)
                 \/ \E u \in Threads : Saving(q[u], s) /\ ret[u] = e.id
      <4>1. CASE s = With(t)
        <5>1. ret[t] = e.id
          BY <2>1, <2>4, <2>5, <3>1, <4>1 DEF Owned
        <5>2. slot'[s] = e.id
          BY <2>6, <4>1, <5>1 DEF TypeOK
        <5>3. \A u \in Threads : ~Saving(q[u], s)
          BY <2>3, <2>4, <2>5, <4>1
        <5>. QED BY <5>2, <5>3
      <4>2. CASE s # With(t)
        <5>1. \A u \in Threads : Saving(q[u], s) <=> Saving(pc[u], s)
          BY <2>3, <2>4, <4>2
        <5>2. slot'[s] = slot[s]
          BY <2>6, <4>2 DEF TypeOK
        <5>. QED BY <2>1, <3>1, <5>1, <5>2 DEF Owned
      <4>. QED BY <4>1, <4>2
    <3>. QED BY <1>4, <3>1 DEF Owned
  <2>8. Hushed(q)'
    <3>1. \A s \in Slots : Silent(q[t], s) => Silent(pc[t], s)
      BY <1>1, <1>2 DEF Where, Silent, Slots, Sensors
    <3>. QED BY <1>4, <2>1, <2>3, <3>1 DEF Hushed, Ticks
  <2>. QED BY <2>2, <2>7, <2>8
<1>7. Tracked(q)'
  BY <1>4, <1>6 DEF Tracked
<1>. QED BY <1>5, <1>7 DEF Asserted

\* The event is cancelled: it is the only one for its variable, and no thread is about to
\* save the id of another.
LEMMA CancelKeeps ==
  ASSUME TypeOK, NEW pc \in PCs, NEW q \in PCs, Asserted(pc), NEW t \in Threads,
         Runs(pc, q, t), Cancel(t)
  PROVE  Asserted(q)'
<1>1. Where(t, pc[t]) \in {<<"main", "download", 1, "light", "download", 2>>,
                           <<"main", "download", 2, "dht", "download", 3>>,
                           <<"main", "download", 5, "display", "download", 6>>,
                           <<"client", "reconnect", 2, "light", "reconnect", 3>>,
                           <<"client", "reconnect", 3, "dht", "reconnect", 4>>}
  BY CancelPlaces DEF Cancel, At, Runs
<1>2. With(t) = Stm(pc[t]).with /\ q[t].p = Succ(pc[t]).p /\ q[t].k = Succ(pc[t]).k
  BY DEF With, Runs, Moved
<1>3. Stm(pc[t]).do = "cancel"
  BY DEF Cancel, At, Runs
<1>4. UNCHANGED <<slot, evq, ret, loaded, wifi, flags, reg, update, downloads, disturbed, failed>>
  BY DEF Cancel
<1>5. Control(q)' /\ FlagsTell(q)' /\ OffLine(q)'
  BY <1>3, <1>4, ControlKept, FlagsKept, OffLineKept DEF Asserted
<1>6. ASSUME ~disturbed
      PROVE  Owned(q)' /\ Hushed(q)' /\ Calm(q)'
  <2>1. Owned(pc) /\ Hushed(pc) /\ Calm(pc)
    BY <1>6 DEF Asserted, Tracked
  <2>2. timers' = {e \in timers : e.id # slot[With(t)]}
    BY DEF Cancel
  <2>3. \A s \in Slots : Ticks(s)' => Ticks(s)
    BY <2>2 DEF Ticks
  <2>4. Calm(q)'
    BY <1>4, <2>1, <2>3, CalmKept
  <2>5. \A u \in Threads : u # t => q[u] = pc[u]
    BY DEF Runs, Moved
  <2>6. With(t) \in Slots /\ \A s \in Slots : ~Saving(pc[t], s) /\ ~Saving(q[t], s)
    BY <1>1, <1>2 DEF Where, Saving, Slots, Sensors
  <2>7. Owned(q)'
    BY <1>4, <2>1, <2>2, <2>5, <2>6 DEF Owned
  <2>8. ASSUME NEW u \in Threads, Saving(pc[u], With(t))
        PROVE  FALSE
    <3>1. CASE t = "main"
      BY <1>1, <1>2, <2>1, <2>6, <2>8, <3>1, SavingIs
         DEF Where, Asserted, Control, Starting, Calm
    <3>2. CASE t = "client"
      BY <1>1, <1>2, <2>1, <2>6, <2>8, <3>2, SavingIs
         DEF Where, Asserted, Control, Starting, Calm
    <3>. QED BY <1>1, <3>1, <3>2 DEF Where
  <2>9. ASSUME NEW e \in timers', e.run = With(t)
        PROVE  FALSE
    BY <2>1, <2>2, <2>6, <2>8, <2>9 DEF Owned
  <2>10. \A s \in Slots : Silent(q[t], s) => Silent(pc[t], s) \/ s = With(t)
    BY <1>1, <1>2 DEF Where, Silent, Slots, Sensors
  <2>11. Hushed(q)'
    <3>1. \A s \in Slots : s = With(t) => ~Ticks(s)'
      BY <2>9 DEF Ticks
    <3>. QED BY <2>1, <2>3, <2>5, <2>10, <3>1 DEF Hushed
  <2>. QED BY <2>4, <2>7, <2>11
<1>7. Tracked(q)'
  BY <1>4, <1>6 DEF Tracked
<1>. QED BY <1>5, <1>7 DEF Asserted

\* A variable is zeroed once its event is cancelled.
LEMMA ZeroKeeps ==
  ASSUME TypeOK, NEW pc \in PCs, NEW q \in PCs, Asserted(pc), NEW t \in Threads,
         Runs(pc, q, t), Zero(t)
  PROVE  Asserted(q)'
<1>1. Where(t, pc[t]) \in {<<"main", "download", 3, "light", "download", 4>>,
                           <<"main", "download", 4, "dht", "download", 5>>,
                           <<"main", "download", 6, "display", "download", 7>>,
                           <<"client", "reconnect", 4, "light", "reconnect", 5>>,
                           <<"client", "reconnect", 5, "dht", "reconnect", 6>>}
  BY ZeroPlaces DEF Zero, At, Runs
<1>2. With(t) = Stm(pc[t]).with /\ q[t].p = Succ(pc[t]).p /\ q[t].k = Succ(pc[t]).k
  BY DEF With, Runs, Moved
<1>3. Stm(pc[t]).do = "zero"
  BY DEF Zero, At, Runs
<1>4. UNCHANGED <<timers, evq, ret, loaded, wifi, flags, reg, update, downloads, disturbed, failed>>
  BY DEF Zero
<1>5. Control(q)' /\ FlagsTell(q)' /\ OffLine(q)'
  BY <1>3, <1>4, ControlKept, FlagsKept, OffLineKept DEF Asserted
<1>6. ASSUME ~disturbed
      PROVE  Owned(q)' /\ Hushed(q)' /\ Calm(q)'
  <2>1. Owned(pc) /\ Hushed(pc) /\ Calm(pc)
    BY <1>6 DEF Asserted, Tracked
  <2>2. slot' = [slot EXCEPT ![With(t)] = 0]
    BY DEF Zero
  <2>3. Calm(q)'
    BY <1>4, <2>1, CalmKept DEF Ticks
  <2>4. \A u \in Threads : u # t => q[u] = pc[u]
    BY DEF Runs, Moved
  <2>5. /\ With(t) \in Slots /\ Silent(pc[t], With(t))
        /\ \A s \in Slots : ~Saving(pc[t], s) /\ ~Saving(q[t], s)
    BY <1>1, <1>2 DEF Where, Saving, Silent, Slots, Sensors
  <2>6. \A s \in Slots : Silent(q[t], s) => Silent(pc[t], s)
    BY <1>1, <1>2 DEF Where, Silent, Slots, Sensors
  <2>7. ~Ticks(With(t))
    BY <2>1, <2>5 DEF Hushed
  <2>8. \A s \in Slots, e \in timers : e.run = s => slot'[s] = slot[s]
    BY <2>2, <2>7 DEF Ticks, TypeOK
  <2>9. Owned(q)'
    BY <1>4, <2>1, <2>4, <2>5, <2>8 DEF Owned
  <2>10. Hushed(q)'
    BY <1>4, <2>1, <2>4, <2>6 DEF Hushed, Ticks
  <2>. QED BY <2>3, <2>9, <2>10
<1>7. Tracked(q)'
  BY <1>4, <1>6 DEF Tracked
<1>. QED BY <1>5, <1>7 DEF Asserted

\* The network: only the client thread uses it once init_app() has registered the client,
\* and it does not connect again when it has disconnected for an install.
LEMMA ConnectKeeps ==
  ASSUME NEW pc \in PCs, NEW q \in PCs, Asserted(pc), NEW t \in Threads,
         Runs(pc, q, t), Connect(t)
  PROVE  Asserted(q)'
<1>1. Where(t, pc[t]) \in {<<"init", "init", 2, "wifi", "init", 3>>,
                           <<"client", "reconnect", 6, "wifi", "reconnect", 7>>}
  BY ConnectPlaces DEF Connect, At, Runs
<1>2. q[t].p = Succ(pc[t]).p /\ q[t].k = Succ(pc[t]).k
  BY DEF Runs, Moved
<1>3. Stm(pc[t]).do = "connect"
  BY DEF Connect, At, Runs
<1>4. UNCHANGED <<timers, slot, evq, ret, loaded, flags, reg, update, downloads, disturbed, failed>>
  BY DEF Connect
<1>5. Control(q)' /\ FlagsTell(q)' /\ Tracked(q)'
  BY <1>3, <1>4, ControlKept, FlagsKept, TrackedKept DEF Asserted
<1>6. OffLine(q)'
  <2>1. CASE t = "init"
    <3>1. Starting(pc)
      BY <1>1, <2>1 DEF Where, Starting
    <3>2. q["client"] = pc["client"]
      BY <2>1, Locate DEF Runs
    <3>. QED BY <1>4, <3>1, <3>2 DEF OffLine, Asserted, Control
  <2>2. CASE t = "client"
    BY <1>1, <1>2, <1>4, <2>2 DEF Where, OffLine, Asserted, Control
  <2>. QED BY <1>1, <2>1, <2>2 DEF Where
<1>. QED BY <1>5, <1>6 DEF Asserted

\* It goes down for an install, or until the reconnection that follows.
LEMMA DisconnectKeeps ==
  ASSUME NEW pc \in PCs, NEW q \in PCs, Asserted(pc), NEW t \in Threads,
         Runs(pc, q, t), Disconnect(t)
  PROVE  Asserted(q)'
<1>1. Stm(pc[t]).do = "disconnect"
  BY DEF Disconnect, At, Runs
<1>2. UNCHANGED <<timers, slot, evq, ret, loaded, flags, reg, update, downloads, disturbed>>
  BY DEF Disconnect
<1>3. Control(q)' /\ FlagsTell(q)' /\ Tracked(q)'
  BY <1>1, <1>2, ControlKept, FlagsKept, TrackedKept DEF Asserted
<1>4. OffLine(q)'
  BY DEF Disconnect, OffLine
<1>. QED BY <1>3, <1>4 DEF Asserted

\* The work of a periodic event changes nothing that is shared.
LEMMA WorkKeeps ==
  ASSUME NEW pc \in PCs, NEW q \in PCs, Asserted(pc), NEW t \in Threads,
         Runs(pc, q, t), Work(t) \/ (Check(t) /\ Return(t))
  PROVE  Asserted(q)'
<1>1. Stm(pc[t]).do \in {"work", "check"}
  BY DEF Work, Check, At, Runs
<1>2. UNCHANGED <<timers, slot, evq, ret, loaded, wifi, flags, reg, update, downloads, disturbed, failed>>
  BY DEF Work, Check
<1>. QED BY <1>1, <1>2, ControlKept, FlagsKept, TrackedKept, OffLineKept DEF Asserted

\* init_app() returns early.
LEMMA CheckKeeps ==
  ASSUME NEW pc \in PCs, NEW q \in PCs, Asserted(pc), NEW t \in Threads,
         pc[t] \in Places(t), pc[t].p # "idle", Head(todo[t]) = Stm(pc[t]),
         Moved(pc, q, t, Idle), Check(t)
  PROVE  Asserted(q)'
<1>1. Where(t, pc[t]) \in {<<"init", "init", 1, "stack", "init", 2>>,
                           <<"init", "init", 3, "creds", "init", 4>>}
  BY CheckPlaces DEF Check, At
<1>2. t = "init" /\ q["init"].p = "idle" /\ q["main"] = pc["main"] /\ q["client"] = pc["client"]
  BY <1>1, Locate DEF Where, Idle
<1>3. UNCHANGED <<timers, slot, evq, ret, loaded, wifi, flags, reg, update, downloads, disturbed, failed>>
  BY DEF Check
<1>4. Control(q)'
  BY <1>2, <1>3 DEF Asserted, Control, Starting
<1>5. FlagsTell(q)'
  BY <1>2, <1>3 DEF Asserted, FlagsTell, StoresSafe, Told, AtStore, Threads
<1>6. OffLine(q)' /\ Calm(pc) => Calm(q)'
  BY <1>2, <1>3 DEF Asserted, OffLine, Calm, Ticks
<1>7. \A s \in Slots : /\ ~Saving(pc[t], s) /\ ~Saving(Idle, s) /\ ~Silent(Idle, s)
  BY <1>1 DEF Where, Saving, Silent, Idle
<1>8. (Owned(pc) => Owned(q)') /\ (Hushed(pc) => Hushed(q)')
  BY <1>3, <1>7, EventsKept
<1>. QED BY <1>2, <1>3, <1>4, <1>5, <1>6, <1>8 DEF Asserted, Tracked, OffLine, Calm, Ticks

\* set_flag() and clear_flag(): between their load and their store no flag that matters
\* changes, ...
LEMMA LoadKeeps ==
  ASSUME TypeOK, NEW pc \in PCs, NEW q \in PCs, Asserted(pc), NEW t \in Threads,
         Runs(pc, q, t), Load(t)
  PROVE  Asserted(q)'
<1>1. Stm(pc[t]).do = "load"
  BY DEF Load, At, Runs
<1>2. UNCHANGED <<timers, slot, evq, ret, wifi, flags, reg, update, downloads, disturbed, failed>>
  BY DEF Load
<1>3. Control(q)' /\ Tracked(q)' /\ OffLine(q)'
  BY <1>1, <1>2, ControlKept, TrackedKept, OffLineKept DEF Asserted
<1>4. <<t, pc[t].p, pc[t].k, Stm(pc[t]).do, Stm(pc[t]).with>> \in Listing
  BY IsListed DEF Runs
<1>5. q[t].p = pc[t].p /\ q[t].k = pc[t].k + 1
  BY <1>1, <1>4, SuccIs DEF Runs, Moved, Listing, Size
<1>6. loaded'[t] = flags /\ \A u \in Threads : u # t => loaded'[u] = loaded[u]
  BY DEF Load, TypeOK
<1>7. StoresSafe(q)'
  BY <1>2, <1>6 DEF Asserted, FlagsTell, StoresSafe, Runs, Moved
<1>8. Told(q)'
  <2>1. CASE t # "client"
    <3>1. q["client"] = pc["client"]
      BY <2>1, Locate DEF Runs
    <3>. QED BY <1>2, <3>1 DEF Asserted, FlagsTell, Told
  <2>2. CASE t = "client"
    <3>1. /\ q[t] # [p |-> "ask_download", k |-> 3] /\ q[t] # [p |-> "ask_install", k |-> 3]
          /\ q[t].p = "unregistered" /\ q[t].k >= 3 => pc[t].k >= 3
      BY <1>1, <1>4, <1>5 DEF Listing
    <3>. QED BY <1>2, <1>5, <2>2, <3>1 DEF Asserted, FlagsTell, Told
  <2>. QED BY <2>1, <2>2
<1>. QED BY <1>3, <1>7, <1>8 DEF Asserted, FlagsTell

\* ... so that the store changes the flag it is about and no other that matters.
LEMMA StoreKeeps ==
  ASSUME TypeOK, NEW pc \in PCs, NEW q \in PCs, Asserted(pc), NEW t \in Threads,
         Runs(pc, q, t), Store(t)
  PROVE  Asserted(q)'
<1>1. <<Stm(pc[t]).do, Where(t, pc[t])>> \in
          {<<"set", <<"init", "init", 10, "REGISTER_CALLED", "init", 11>>>>,
           <<"set", <<"main", "download", 8, "FOTA_DL_GRANTED", "download", 9>>>>,
           <<"set", <<"main", "install", 4, "FOTA_INSTALL_REQD", "install", 5>>>>,
           <<"set", <<"client", "registered", 2, "REGISTERED", "idle", 1>>>>,
           <<"set", <<"client", "ask_download", 2, "FOTA_DL_REQD", "ask_download", 3>>>>,
           <<"set", <<"client", "ask_install", 2, "FOTA_INSTALL_REQD", "ask_install", 3>>>>,
           <<"clear", <<"client", "unregistered", 2, "REGISTERED", "unregistered", 3>>>>,
           <<"clear", <<"client", "unregistered", 4, "REGISTER_CALLED", "unregistered", 5>>>>,
           <<"set", <<"client", "off_line", 3, "FOTA_INSTALL_GRANTED", "off_line", 4>>>>}
  BY StorePlaces DEF Store, At, Runs
<1>2. With(t) = Stm(pc[t]).with /\ q[t].p = Succ(pc[t]).p /\ q[t].k = Succ(pc[t]).k
  BY DEF With, Runs, Moved
<1>3. UNCHANGED <<timers, slot, evq, ret, loaded, wifi, reg, update, downloads, disturbed, failed>>
  BY DEF Store
<1>4. Stm(pc[t]).do \in {"set", "clear"}
  BY DEF Store, At, Runs
<1>5. Tracked(q)' /\ OffLine(q)'
  BY <1>3, <1>4, TrackedKept, OffLineKept DEF Asserted
<1>6. /\ t # "init" => q["init"] = pc["init"]
      /\ t # "main" => q["main"] = pc["main"]
      /\ t # "client" => q["client"] = pc["client"]
  BY Locate DEF Runs
<1>7. Control(q)'
  BY <1>1, <1>2, <1>3, <1>6, PlacesOf DEF Where, Asserted, Control, Starting, Handlers
<1>8. /\ Stm(pc[t]).do = "set" => \A f \in Vital : f \in flags' <=> f \in flags \/ f = With(t)
      /\ Stm(pc[t]).do = "clear" => \A f \in Vital : f \in flags' <=> f \in flags /\ f # With(t)
  <2>1. loaded[t] \cap Vital = flags \cap Vital
    BY <1>1 DEF Where, AtStore, Asserted, FlagsTell, StoresSafe
  <2>2. \A f \in Vital : f \in loaded[t] <=> f \in flags
    BY <2>1
  <2>3. Head(todo[t]).do = Stm(pc[t]).do
    BY DEF Runs
  <2>. QED BY <2>2, <2>3 DEF Store, At
<1>9. StoresSafe(q)'
  <2>1. ASSUME NEW u \in Threads, AtStore(q[u])
        PROVE  flags' \cap Vital = flags \cap Vital /\ loaded[u] \cap Vital = flags \cap Vital
    <3>1. ~AtStore(q[t])
      BY <1>1, <1>2 DEF Where, AtStore
    <3>2. u # t /\ AtStore(pc[u])
      BY <2>1, <3>1 DEF Runs, Moved
    <3>3. \/ u = "init" /\ Starting(pc)
          \/ u = "main" /\ pc["main"].p \in Handlers
          \/ u = "client"
      BY <3>2, PlacesOf DEF AtStore, Threads, Starting, Handlers
    <3>4. \A f \in Vital : f \in flags' <=> f \in flags
      BY <1>1, <1>2, <1>8, <3>2, <3>3
         DEF Where, Asserted, Control, FlagsTell, Told, Handlers, Vital
    <3>. QED BY <3>2, <3>4 DEF Asserted, FlagsTell, StoresSafe
  <2>. QED BY <1>3, <2>1 DEF StoresSafe
<1>10. Told(q)'
  <2>1. {"REGISTERED", "FOTA_DL_REQD", "FOTA_INSTALL_REQD"} \subseteq Vital
    BY DEF Vital
  <2>2. CASE t # "client"
    <3>1. \A f \in Vital : f \in flags' <=> f \in flags
      BY <1>1, <1>2, <1>8, <2>2 DEF Where, Asserted, Control, FlagsTell, Told, Handlers, Vital
    <3>. QED BY <1>3, <1>6, <2>1, <2>2, <3>1 DEF Asserted, FlagsTell, Told
  <2>3. CASE t = "client" /\ pc[t].p \in {"registered", "off_line"}
    BY <1>1, <1>2, <1>3, <1>8, <2>1, <2>3 DEF Where, Asserted, Control, FlagsTell, Told
  <2>4. CASE t = "client" /\ pc[t].p \in {"ask_download", "ask_install"}
    BY <1>1, <1>2, <1>3, <1>8, <2>1, <2>4 DEF Where, Asserted, Control, FlagsTell, Told
  <2>5. CASE t = "client" /\ pc[t].p = "unregistered"
    BY <1>1, <1>2, <1>3, <1>8, <2>1, <2>5 DEF Where, Asserted, Control, FlagsTell, Told
  <2>. QED BY <1>1, <2>2, <2>3, <2>4, <2>5 DEF Where
<1>. QED BY <1>5, <1>7, <1>9, <1>10 DEF Asserted, FlagsTell

\* The client library is asked to register, at the end of init_app().
LEMMA SetupKeeps ==
  ASSUME NEW pc \in PCs, NEW q \in PCs, Asserted(pc), NEW t \in Threads,
         Runs(pc, q, t), Setup(t)
  PROVE  Asserted(q)'
<1>1. Where(t, pc[t]) \in {<<"init", "init", 8, "client", "init", 9>>}
  BY SetupPlaces DEF Setup, At, Runs
<1>2. /\ t = "init" /\ q["init"].p = "init" /\ q["init"].k = 9
      /\ q["main"] = pc["main"] /\ q["client"] = pc["client"]
  <2>1. t = "init" /\ q["init"] = Succ(pc[t])
    BY <1>1 DEF Where, Runs, Moved
  <2>2. q["main"] = pc["main"] /\ q["client"] = pc["client"]
    BY <2>1, Locate DEF Runs
  <2>. QED BY <1>1, <2>1, <2>2 DEF Where
<1>3. Stm(pc[t]).do = "setup"
  BY DEF Setup, At, Runs
<1>4. UNCHANGED <<timers, slot, evq, ret, loaded, wifi, flags, update, downloads, disturbed, failed>>
  BY DEF Setup
<1>5. Tracked(q)' /\ OffLine(q)'
  BY <1>3, <1>4, TrackedKept, OffLineKept DEF Asserted
<1>6. /\ Starting(pc) /\ pc["init"].k = 8 /\ reg = "off" /\ update = "none"
      /\ pc["client"].p = "idle" /\ flags = {}
  BY <1>1, <1>2 DEF Where, Asserted, Control, Starting
<1>7. reg' \in {"trying", "off"}
  BY DEF Setup
<1>8. Control(q)'
  BY <1>2, <1>4, <1>6, <1>7 DEF Asserted, Control, Starting
<1>9. \A u \in Threads : AtStore(q[u]) => AtStore(pc[u])
  BY <1>2 DEF AtStore, Threads
<1>10. FlagsTell(q)'
  BY <1>2, <1>4, <1>6, <1>7, <1>9 DEF Asserted, FlagsTell, StoresSafe, Told
<1>. QED BY <1>5, <1>8, <1>10 DEF Asserted

\* The download is granted when nothing periodic is left in the queue, and the install
\* when the device is off the cloud and off the network.
LEMMA GrantKeeps ==
  ASSUME NEW pc \in PCs, NEW q \in PCs, Asserted(pc), NEW t \in Threads,
         Runs(pc, q, t), Grant(t)
  PROVE  Asserted(q)'
<1>1. Where(t, pc[t]) \in {<<"main", "download", 9, "download", "idle", 1>>,
                           <<"client", "off_line", 4, "install", "idle", 1>>}
  BY GrantPlaces DEF Grant, At, Runs
<1>2. With(t) = Stm(pc[t]).with /\ q[t].p = "idle"
  BY <1>1 DEF Where, With, Runs, Moved
<1>3. Stm(pc[t]).do = "grant"
  BY DEF Grant, At, Runs
<1>4. UNCHANGED <<timers, slot, evq, ret, loaded, wifi, flags, reg, downloads, disturbed, failed>>
  BY DEF Grant
<1>5. /\ t # "init" => q["init"] = pc["init"]
      /\ t # "main" => q["main"] = pc["main"]
      /\ t # "client" => q["client"] = pc["client"]
  BY Locate DEF Runs
<1>6. (Owned(pc) => Owned(q)') /\ (Hushed(pc) => Hushed(q)')
  BY <1>3, <1>4, EventsKeptByStatement
<1>7. ~AtStore(q[t])
  BY <1>2 DEF AtStore
<1>8. StoresSafe(q)'
  BY <1>4, <1>7 DEF Asserted, FlagsTell, StoresSafe, Runs, Moved
<1>9. \A s \in Slots : Ticks(s)' <=> Ticks(s)
  BY <1>4 DEF Ticks
<1>10. CASE t = "main"
  <2>1. pc["main"].p = "download" /\ pc["main"].k = 9 /\ update = "asked" /\ update' = "loading"
    BY <1>1, <1>2, <1>10 DEF Where, Asserted, Control, Grant
  <2>2. evq = << >>
    BY <2>1 DEF Asserted, Control, Handlers
  <2>3. << >> # <<"download">> /\ << >> # <<"install">>
    OBVIOUS
  <2>4. Control(q)'
    BY <1>2, <1>4, <1>5, <1>10, <2>1, <2>2, <2>3 DEF Asserted, Control, Starting, Handlers
  <2>5. Told(q)'
    BY <1>4, <1>5, <1>10, <2>1 DEF Asserted, FlagsTell, Told
  <2>6. OffLine(q)'
    BY <1>4, <1>5, <1>10, <2>1 DEF Asserted, OffLine
  <2>7. Hushed(pc) => \A s \in Slots : ~Ticks(s)
    BY <2>1 DEF Hushed, Silent, Slots, Sensors, Threads
  <2>8. Hushed(pc) /\ Calm(pc) => Calm(q)'
    BY <1>2, <1>4, <1>5, <1>9, <1>10, <2>1, <2>7 DEF Calm, Slots, Sensors
  <2>. QED BY <1>4, <1>6, <1>8, <2>4, <2>5, <2>6, <2>8 DEF Asserted, FlagsTell, Tracked
<1>11. CASE t = "client"
  <2>1. /\ pc["client"].p = "off_line" /\ pc["client"].k = 4
        /\ update = "ready" /\ update' = "installing" /\ reg = "closed"
    BY <1>1, <1>2, <1>11 DEF Where, Asserted, Control, Grant
  <2>2. evq = << >> /\ pc["main"].p \notin Handlers
    BY <2>1 DEF Asserted, Control
  <2>3. << >> # <<"download">> /\ << >> # <<"install">>
    OBVIOUS
  <2>4. Control(q)'
    BY <1>2, <1>4, <1>5, <1>11, <2>1, <2>2, <2>3 DEF Asserted, Control, Starting, Handlers
  <2>5. Told(q)'
    BY <1>2, <1>4, <1>5, <1>11, <2>1 DEF Asserted, FlagsTell, Told
  <2>6. OffLine(q)'
    BY <1>4, <2>1 DEF Asserted, OffLine
  <2>7. Calm(pc) => Calm(q)'
    BY <1>2, <1>4, <1>5, <1>9, <1>11, <2>1, <2>2, <2>3 DEF Calm, Slots
  <2>. QED BY <1>4, <1>6, <1>8, <2>4, <2>5, <2>6, <2>7 DEF Asserted, FlagsTell, Tracked
<1>. QED BY <1>1, <1>10, <1>11 DEF Where

\* A request finds the queue of handlers empty.
LEMMA PostKeeps ==
  ASSUME NEW pc \in PCs, NEW q \in PCs, Asserted(pc), NEW t \in Threads,
         Runs(pc, q, t), Post(t)
  PROVE  Asserted(q)'
<1>1. Where(t, pc[t]) \in {<<"client", "ask_download", 3, "download", "idle", 1>>,
                           <<"client", "ask_install", 3, "install", "idle", 1>>}
  BY PostPlaces DEF Post, At, Runs
<1>2. /\ t = "client" /\ With(t) = Stm(pc[t]).with /\ q["client"].p = "idle"
      /\ q["main"] = pc["main"] /\ q["init"] = pc["init"]
  BY SMTT(30), <1>1, Locate DEF Where, With, Runs
<1>3. Stm(pc[t]).do = "post"
  BY DEF Post, At, Runs
<1>4. UNCHANGED <<timers, slot, ret, loaded, wifi, flags, reg, downloads, disturbed>>
  BY DEF Post
<1>5. (Owned(pc) => Owned(q)') /\ (Hushed(pc) => Hushed(q)')
  BY <1>3, <1>4, EventsKeptByStatement
<1>6. StoresSafe(q)'
  BY <1>2, <1>4 DEF Asserted, FlagsTell, StoresSafe, AtStore, Threads
<1>7. \A s \in Slots : Ticks(s)' <=> Ticks(s)
  BY <1>4 DEF Ticks
<1>8. /\ <<"download">> # << >> /\ <<"install">> # << >> /\ <<"download">> # <<"install">>
      /\ Append(<< >>, "download") = <<"download">> /\ Append(<< >>, "install") = <<"install">>
  OBVIOUS
<1>9. Sensors \subseteq Slots
  BY DEF Slots
<1>10. CASE With(t) = "download"
  <2>1. pc["client"].p = "ask_download" /\ pc["client"].k = 3 /\ update = "none"
        /\ reg = "registered" /\ update' = "asked"
    BY <1>1, <1>2, <1>10 DEF Where, Asserted, Control, Post
  <2>2. evq = << >> /\ pc["main"].p \notin Handlers
    BY <2>1, <1>8 DEF Asserted, Control, Handlers
  <2>3. evq' \in {<< >>, <<"download">>}
    BY <1>8, <1>10, <2>2 DEF Post
  <2>4. Control(q)'
    BY <1>2, <1>4, <1>8, <2>1, <2>2, <2>3 DEF Asserted, Control, Starting, Handlers
  <2>5. pc["client"] = [p |-> "ask_download", k |-> 3]
    BY <2>1 DEF PCs, Threads
  <2>6. Told(q)'
    BY <1>2, <1>4, <2>1, <2>5 DEF Asserted, FlagsTell, Told
  <2>7. OffLine(q)'
    BY <1>2, <2>1 DEF OffLine
  <2>8. Calm(pc) => Calm(q)'
    BY <1>2, <1>8, <2>1, <2>3 DEF Calm
  <2>. QED BY <1>4, <1>5, <1>6, <2>4, <2>6, <2>7, <2>8 DEF Asserted, FlagsTell, Tracked
<1>11. CASE With(t) = "install"
  <2>1. pc["client"].p = "ask_install" /\ pc["client"].k = 3 /\ update = "loaded"
        /\ update' = "ready"
    BY <1>1, <1>2, <1>11 DEF Where, Asserted, Control, Post
  <2>2. evq = << >> /\ pc["main"].p \notin Handlers
    BY <2>1, <1>8 DEF Asserted, Control, Handlers
  <2>3. evq' \in {<< >>, <<"install">>}
    BY <1>8, <1>11, <2>2 DEF Post
  <2>4. Control(q)'
    BY <1>2, <1>4, <1>8, <2>1, <2>2, <2>3 DEF Asserted, Control, Starting, Handlers
  <2>5. pc["client"] = [p |-> "ask_install", k |-> 3]
    BY <2>1 DEF PCs, Threads
  <2>6. Told(q)'
    BY <1>2, <1>4, <2>1, <2>5 DEF Asserted, FlagsTell, Told
  <2>7. OffLine(q)'
    BY <1>2, <2>1 DEF OffLine
  <2>8. Calm(pc) => Calm(q)'
    BY <1>2, <1>7, <1>9, <2>1 DEF Calm
  <2>. QED BY <1>4, <1>5, <1>6, <2>4, <2>6, <2>7, <2>8 DEF Asserted, FlagsTell, Tracked
<1>. QED BY <1>1, <1>2, <1>10, <1>11 DEF Where

\* The client has unregistered: it goes on to the install.
LEMMA UnregisteredKeeps ==
  ASSUME NEW pc \in PCs, NEW q \in PCs, Asserted(pc), NEW t \in Threads,
         pc[t] \in Places(t), pc[t].p # "idle", Head(todo[t]) = Stm(pc[t]),
         Moved(pc, q, t, [p |-> "off_line", k |-> 1]), Unregistered(t)
  PROVE  Asserted(q)'
<1>1. Where(t, pc[t]) \in {<<"client", "unregistered", 5, "client", "idle", 1>>}
  BY UnregisteredPlaces DEF Unregistered, At
<1>2. /\ t = "client" /\ q["client"].p = "off_line" /\ q["client"].k = 1
      /\ q["main"] = pc["main"] /\ q["init"] = pc["init"]
      /\ pc["client"].p = "unregistered" /\ pc["client"].k = 5
  BY <1>1, Locate DEF Where
<1>3. UNCHANGED <<timers, slot, evq, ret, loaded, wifi, flags, reg, update, downloads, disturbed, failed>>
  BY DEF Unregistered
<1>4. Control(q)'
  BY <1>2, <1>3 DEF Asserted, Control, Starting
<1>5. StoresSafe(q)'
  BY <1>2, <1>3 DEF Asserted, FlagsTell, StoresSafe, AtStore, Threads
<1>6. q["client"] # [p |-> "ask_download", k |-> 3] /\ q["client"] # [p |-> "ask_install", k |-> 3]
  BY <1>2
<1>7. Told(q)'
  BY <1>2, <1>3, <1>6 DEF Asserted, FlagsTell, Told
<1>8. OffLine(q)'
  BY <1>2, <1>3 DEF Asserted, OffLine, Control
<1>9. Calm(pc) => Calm(q)'
  BY <1>2, <1>3 DEF Calm, Ticks
<1>10. \A s \in Slots : /\ ~Saving(pc[t], s) /\ ~Saving([p |-> "off_line", k |-> 1], s)
                        /\ ~Silent([p |-> "off_line", k |-> 1], s)
  BY <1>2 DEF Saving, Silent
<1>11. (Owned(pc) => Owned(q)') /\ (Hushed(pc) => Hushed(q)')
  BY <1>3, <1>10, EventsKept
<1>. QED BY <1>3, <1>4, <1>5, <1>7, <1>8, <1>9, <1>11 DEF Asserted, FlagsTell, Tracked

\* The install handler closes the client, from then on no request is under way.
LEMMA CloseKeeps ==
  ASSUME NEW pc \in PCs, NEW q \in PCs, Asserted(pc), NEW t \in Threads,
         Runs(pc, q, t), Close(t)
  PROVE  Asserted(q)'
<1>1. Where(t, pc[t]) \in {<<"main", "install", 5, "client", "idle", 1>>}
  BY ClosePlaces DEF Close, At, Runs
<1>2. /\ t = "main" /\ q["main"].p = "idle" /\ pc["main"].p = "install"
      /\ q["client"] = pc["client"] /\ q["init"] = pc["init"]
  BY SMTT(30), <1>1, Locate DEF Where, Runs
<1>3. Stm(pc[t]).do = "close"
  BY DEF Close, At, Runs
<1>4. UNCHANGED <<timers, slot, evq, ret, loaded, wifi, flags, update, downloads, disturbed, failed>>
  BY DEF Close
<1>5. Tracked(q)' /\ OffLine(q)'
  BY <1>3, <1>4, TrackedKept, OffLineKept DEF Asserted
<1>6. update = "ready" /\ evq = << >> /\ reg # "closed" /\ reg' = "closing"
  BY <1>2 DEF Asserted, Control, Handlers, Close
<1>7. << >> # <<"download">> /\ << >> # <<"install">>
  OBVIOUS
<1>8. Control(q)'
  BY <1>2, <1>4, <1>6, <1>7 DEF Asserted, Control, Starting, Handlers
<1>9. StoresSafe(q)'
  BY <1>2, <1>4 DEF Asserted, FlagsTell, StoresSafe, AtStore, Threads
<1>10. Told(q)'
  BY <1>2, <1>4, <1>6 DEF Asserted, FlagsTell, Told
<1>. QED BY <1>5, <1>8, <1>9, <1>10 DEF Asserted, FlagsTell

-----------------------------------------------------------------------------
(* The invariant *)

\* A thread that has nothing left is idle.
LEMMA LeftIdle == Left(Idle) = << >> /\ \A t \in Threads : Idle \in Places(t)
<1>1. Left(Idle) = SubSeq(<< >>, 1, Len(<< >>))
  BY DEF Left, Idle, Code
<1>2. Left(Idle) = << >>
  BY <1>1, SubSeqEmpty, EmptySeq
<1>3. \A t \in Threads : Idle \in Places(t)
  BY DEF Idle, Places, Programs, Size, Threads
<1>. QED BY <1>2, <1>3

\* A thread with nothing left to run is idle.
LEMMA NothingLeft ==
  ASSUME NEW pc \in PCs, Follows(pc), NEW t \in Threads, todo[t] = << >>
  PROVE  pc[t].p = "idle"
<1>1. SUFFICES ASSUME pc[t].p # "idle"
               PROVE  FALSE
  OBVIOUS
<1>2. pc[t].p \in Programs(t) /\ pc[t].k \in 1 .. 11 /\ pc[t].k <= Size(pc[t].p)
  BY DEF PCs, Places
<1>3. Code(pc[t].p) \in Seq(Statements) /\ Len(Code(pc[t].p)) = Size(pc[t].p)
  BY <1>1, <1>2, CodeSize
<1>4. pc[t].k \in 1 .. Len(Code(pc[t].p))
  BY <1>2, <1>3
<1>5. Left(pc[t]) # << >>
  BY <1>3, <1>4, RestOfList DEF Left
<1>. QED BY <1>5 DEF Follows

\* The invariant holds at the start: init_app() is at its first statement.
LEMMA InitInv == Init => InvWithRoom
<1>. SUFFICES ASSUME Init
              PROVE  InvWithRoom
  OBVIOUS
<1>. DEFINE pc == [t \in Threads |-> IF t = "init" THEN [p |-> "init", k |-> 1] ELSE Idle]
<1>1. /\ pc["init"] = [p |-> "init", k |-> 1] /\ pc["main"] = Idle /\ pc["client"] = Idle
      /\ \A t \in Threads : pc[t] = IF t = "init" THEN [p |-> "init", k |-> 1] ELSE Idle
  BY DEF Threads
<1>2. Idle \in Places("main") /\ Idle \in Places("client") /\ [p |-> "init", k |-> 1] \in Places("init")
  BY DEF Idle, Places, Programs, Size
<1>3. pc \in PCs
  <2>1. \A t \in Threads : pc[t] \in Places(t)
    BY <1>1, <1>2 DEF Threads
  <2>2. \A t \in Threads : pc[t] \in [p : UNION {Programs(u) : u \in Threads}, k : 1 .. 11]
    BY <2>1 DEF Places
  <2>3. pc \in [Threads -> [p : UNION {Programs(u) : u \in Threads}, k : 1 .. 11]]
    BY <2>2
  <2>. QED BY <2>1, <2>3 DEF PCs
<1>. HIDE DEF pc
<1>4. Left(Idle) = << >>
  BY LeftIdle
<1>5. Left([p |-> "init", k |-> 1]) = init_app
  <2>1. Left([p |-> "init", k |-> 1]) = SubSeq(init_app, 1, Len(init_app))
    BY DEF Left, Code
  <2>. QED BY <2>1, ProgramsTyped, SubSeqFull
<1>6. Follows(pc)
  BY <1>1, <1>4, <1>5 DEF Follows, Init
<1>7. Control(pc)
  BY <1>1 DEF Idle, Init, Control, Starting, Handlers
<1>8. FlagsTell(pc)
  BY <1>1 DEF Idle, Init, FlagsTell, StoresSafe, Told, AtStore, Threads
<1>9. OffLine(pc)
  BY <1>1 DEF Idle, Init, OffLine
<1>10. timers = {[id |-> 1, run |-> "display"]} /\ slot["display"] = 1
  BY DEF Init, Slots
<1>11. \A s \in Slots, t \in Threads : ~Saving(pc[t], s) /\ (Silent(pc[t], s) => s # "display")
  BY <1>1 DEF Idle, Saving, Silent
<1>12. Owned(pc) /\ Hushed(pc)
  BY <1>10, <1>11 DEF Owned, Hushed, Ticks
<1>13. Calm(pc)
  BY <1>1 DEF Idle, Init, Calm, Slots, Sensors
<1>14. Refreshed(pc)
  BY <1>1 DEF Idle, Init, Refreshed
<1>. QED BY <1>3, <1>6, <1>7, <1>8, <1>9, <1>12, <1>13, <1>14, InitTyped
         DEF InvWithRoom, Asserted, Tracked

\* A thread begins a program.
LEMMA Begin ==
  ASSUME NEW pc \in PCs, Follows(pc), NEW t \in Threads, NEW p \in Programs(t), p # "idle",
         DOMAIN todo = Threads, Run(t, Code(p))
  PROVE  \E q \in PCs : Follows(q)' /\ Moved(pc, q, t, [p |-> p, k |-> 1])
<1>. DEFINE pl == [p |-> p, k |-> 1]
<1>1. Code(p) \in Seq(Statements) /\ Len(Code(p)) = Size(p)
  BY CodeSize
<1>2. Left(pl) = Code(p)
  BY <1>1, SubSeqFull DEF Left
<1>3. pl \in Places(t)
  BY DEF Places, Size
<1>4. Goes(t, pl)
  BY <1>2 DEF Run, Goes
<1>. HIDE DEF pl
<1>5. \E q \in PCs : Follows(q)' /\ Moved(pc, q, t, pl)
  BY <1>3, <1>4, Move
<1>. QED BY <1>5 DEF pl

\* From one choice of places to the next
Step(pc, q) == Follows(q)' /\ Asserted(q)' /\ (Room /\ Refreshed(pc) => Refreshed(q)')

\* No statement takes the event of the display away once the install handler has started
\* it.
LEMMA RefreshedKept ==
  ASSUME TypeOK, NEW pc \in PCs, Asserted(pc), NEW q \in PCs, NEW t \in Threads,
         Runs(pc, q, t), Statement(t), Room, Refreshed(pc)
  PROVE  Refreshed(q)'
<1>1. <<t, pc[t].p, pc[t].k, Stm(pc[t]).do, Stm(pc[t]).with>> \in Listing
  BY IsListed DEF Runs
<1>2. /\ q[t].p \in {pc[t].p, "idle"}
      /\ q[t].p # "idle" => q[t].k = pc[t].k + 1
      /\ t # "main" => q["main"] = pc["main"]
  BY SuccIs, Locate DEF Runs, Moved
<1>3. CASE At(t, "every") /\ t = "main"
  <2>1. Every(t)
    BY <1>3 DEF Statement, At, Every, Save, Cancel, Zero, Load, Store, Post, Connect, Disconnect,
           Check, Setup, Grant, Close, Unregistered, Work
  <2>2. Where(t, pc[t]) = <<"main", "install", 1, "display", "install", 2>>
    BY <1>3, EveryPlaces DEF Where, Runs, At
  <2>3. With(t) = "display"
    BY <2>2 DEF Where, With, Runs
  <2>. DEFINE e == [id |-> CHOOSE i \in FreeIds : TRUE, run |-> With(t)]
  <2>4. timers' = timers \cup {e}
    BY <1>3, <2>1 DEF Every, Room
  <2>5. e.run = "display"
    BY <2>3
  <2>. HIDE DEF e
  <2>6. Ticks("display")'
    BY <2>4, <2>5 DEF Ticks
  <2>. QED BY <2>6 DEF Refreshed
<1>4. CASE ~(At(t, "every") /\ t = "main")
  <2>1. SUFFICES ASSUME \/ q["main"].p = "install" /\ q["main"].k >= 2
                        \/ reg' \in {"closing", "closed"}
                 PROVE  Ticks("display")'
    BY DEF Refreshed
  <2>2. At(t, "every") <=> Stm(pc[t]).do = "every"
    BY DEF At, Runs, Statement, Every, Save, Cancel, Zero, Load, Store, Post, Connect,
           Disconnect, Check, Setup, Grant, Close, Unregistered, Work
  <2>3. reg' # reg => \/ reg' \in {"trying", "off"}
                      \/ pc["main"].p = "install" /\ pc["main"].k >= 2
    <3>1. CASE Close(t)
      <4>1. Where(t, pc[t]) = <<"main", "install", 5, "client", "idle", 1>>
        BY <3>1, ClosePlaces DEF Where, Runs, Close, At
      <4>. QED BY <4>1 DEF Where
    <3>2. CASE Setup(t)
      BY <3>2 DEF Setup
    <3>. QED BY <3>1, <3>2 DEF Statement, Every, Save, Cancel, Zero, Load, Store, Post, Connect,
             Disconnect, Check, Grant, Unregistered, Work
  <2>4. \/ pc["main"].p = "install" /\ pc["main"].k >= 2
        \/ reg \in {"closing", "closed"}
    BY <1>1, <1>2, <1>4, <2>1, <2>2, <2>3, PlacesOf DEF Listing
  <2>5. Ticks("display")
    BY <2>4 DEF Refreshed
  <2>6. ~Cancel(t)
    <3>1. SUFFICES ASSUME Cancel(t)
                   PROVE  FALSE
      OBVIOUS
    <3>2. Where(t, pc[t]) \in {<<"main", "download", 1, "light", "download", 2>>,
                               <<"main", "download", 2, "dht", "download", 3>>,
                               <<"main", "download", 5, "display", "download", 6>>,
                               <<"client", "reconnect", 2, "light", "reconnect", 3>>,
                               <<"client", "reconnect", 3, "dht", "reconnect", 4>>}
      BY <3>1, CancelPlaces DEF Cancel, At, Runs
    <3>. QED BY <2>4, <3>2 DEF Where, Asserted, Control, FlagsTell, Told, Handlers
  <2>7. timers \subseteq timers'
    BY <2>6 DEF Statement, Every, Save, Zero, Load, Store, Post, Connect, Disconnect,
           Check, Setup, Grant, Close, Unregistered, Work
  <2>. QED BY <2>5, <2>7 DEF Ticks
<1>. QED BY <1>3, <1>4

\* A statement of any thread keeps the assertions, at the place it leads to.
LEMMA StatementKeeps ==
  ASSUME TypeOK, NEW pc \in PCs, Follows(pc), Asserted(pc), NEW t \in Threads, Statement(t)
  PROVE  \E q \in PCs : Step(pc, q)
<1>1. todo[t] # << >> /\ DOMAIN todo = Threads
  BY DEF Statement, At, Every, Save, Cancel, Zero, Load, Store, Post, Connect, Disconnect,
         Check, Setup, Grant, Close, Unregistered, Work, TypeOK
<1>2. /\ pc[t] \in Places(t) /\ pc[t].p # "idle"
      /\ Head(todo[t]) = Stm(pc[t])
      /\ Tail(todo[t]) = Left(Succ(pc[t]))
      /\ Succ(pc[t]) \in Places(t)
  BY <1>1, AtPlace
<1>3. CASE Return(t)
  <2>1. Goes(t, Succ(pc[t]))
    BY <1>2, <1>3 DEF Return, Goes
  <2>2. PICK q \in PCs : Follows(q)' /\ Moved(pc, q, t, Succ(pc[t]))
    BY <1>1, <1>2, <2>1, Move
  <2>3. Runs(pc, q, t)
    BY <1>2, <2>2 DEF Runs, Moved
  <2>4. CASE Unregistered(t)
    <3>1. Where(t, pc[t]) \in {<<"client", "unregistered", 5, "client", "idle", 1>>}
      BY <1>2, <2>4, UnregisteredPlaces DEF Unregistered, At
    <3>2. "FOTA_INSTALL_REQD" \in flags
      BY <3>1 DEF Where, Asserted, Control, FlagsTell, Told
    <3>3. todo'[t] = install_off_line \o Tail(todo[t])
      BY <1>1, <2>4, <3>2 DEF Unregistered
    <3>4. Succ(pc[t]) = Idle
      BY <1>2, <3>1 DEF Where, Succ, Size
    <3>5. Tail(todo[t]) = << >> /\ todo'[t] = << >>
      BY <1>1, <1>2, <2>1, <3>4, LeftIdle DEF Goes
    <3>6. install_off_line = << >>
      BY <3>3, <3>5, ProgramsTyped, ConcatEmptySeq
    <3>. QED BY <3>6, ProgramLists
  <2>5. Every(t) => Asserted(q)'
    BY <2>3, EveryKeeps
  <2>6. Save(t) => Asserted(q)'
    BY <2>3, SaveKeeps
  <2>7. Cancel(t) => Asserted(q)'
    BY <2>3, CancelKeeps
  <2>8. Zero(t) => Asserted(q)'
    BY <2>3, ZeroKeeps
  <2>9. Load(t) => Asserted(q)'
    BY <2>3, LoadKeeps
  <2>10. Store(t) => Asserted(q)'
    BY <2>3, StoreKeeps
  <2>11. Post(t) => Asserted(q)'
    BY <2>3, PostKeeps
  <2>12. Connect(t) => Asserted(q)'
    BY <2>3, ConnectKeeps
  <2>13. Disconnect(t) => Asserted(q)'
    BY <2>3, DisconnectKeeps
  <2>14. Check(t) \/ Work(t) => Asserted(q)'
    BY <1>3, <2>3, WorkKeeps
  <2>15. Setup(t) => Asserted(q)'
    BY <2>3, SetupKeeps
  <2>16. Grant(t) => Asserted(q)'
    BY <2>3, GrantKeeps
  <2>17. Close(t) => Asserted(q)'
    BY <2>3, CloseKeeps
  <2>18. Room /\ Refreshed(pc) => Refreshed(q)'
    BY <2>3, RefreshedKept
  <2>. QED BY <2>2, <2>4, <2>5, <2>6, <2>7, <2>8, <2>9, <2>10, <2>11, <2>12, <2>13, <2>14,
              <2>15, <2>16, <2>17, <2>18 DEF Statement, Step
<1>4. CASE Check(t) /\ ~Return(t)
  <2>1. Goes(t, Idle) /\ Idle \in Places(t)
    BY <1>4, LeftIdle DEF Check, Goes
  <2>2. PICK q \in PCs : Follows(q)' /\ Moved(pc, q, t, Idle)
    BY <1>1, <2>1, Move
  <2>3. Moved(pc, q, t, Idle)
    BY <2>2
  <2>4. Asserted(q)'
    BY <1>2, <1>4, <2>3, CheckKeeps
  <2>5. q["main"] \in {pc["main"], Idle}
    BY <2>2 DEF Moved, Threads
  <2>6. Refreshed(pc) => Refreshed(q)'
    BY <1>4, <2>5 DEF Check, Refreshed, Ticks, Idle
  <2>. QED BY <2>2, <2>4, <2>6 DEF Step
<1>5. CASE Unregistered(t) /\ ~Return(t)
  <2>. DEFINE pl == [p |-> "off_line", k |-> 1]
  <2>1. Where(t, pc[t]) \in {<<"client", "unregistered", 5, "client", "idle", 1>>}
    BY <1>2, <1>5, UnregisteredPlaces DEF Unregistered, At
  <2>2. Succ(pc[t]) = Idle
    BY <1>2, <2>1 DEF Where, Succ, Size
  <2>3. todo' = [todo EXCEPT ![t] = install_off_line \o << >>]
    BY <1>2, <1>5, <2>2, LeftIdle DEF Unregistered
  <2>4. install_off_line \o << >> = install_off_line
    BY ProgramsTyped, ConcatEmptySeq
  <2>5. Left(pl) = install_off_line
    <3>1. Left(pl) = SubSeq(install_off_line, 1, Len(install_off_line))
      BY DEF Left, Code
    <3>. QED BY <3>1, ProgramsTyped, SubSeqFull
  <2>6. pl \in Places(t)
    BY <2>1 DEF Where, Places, Programs, Size
  <2>. HIDE DEF pl
  <2>7. Goes(t, pl)
    BY <2>3, <2>4, <2>5 DEF Goes
  <2>8. PICK q \in PCs : Follows(q)' /\ Moved(pc, q, t, pl)
    BY <1>1, <2>6, <2>7, Move
  <2>9. Asserted(q)'
    BY <1>2, <1>5, <2>8, UnregisteredKeeps DEF pl
  <2>10. q["main"] = pc["main"]
    BY <2>1, <2>8 DEF Where, Threads, Moved
  <2>11. Refreshed(pc) => Refreshed(q)'
    BY <1>5, <2>10 DEF Unregistered, Refreshed, Ticks
  <2>. QED BY <2>8, <2>9, <2>11 DEF Step
<1>6. Return(t) \/ Check(t) \/ Unregistered(t)
  BY DEF Statement, Every, Save, Cancel, Zero, Load, Store, Post, Connect, Disconnect,
         Setup, Grant, Close, Work
<1>. QED BY <1>3, <1>4, <1>5, <1>6

\* The event loop runs the work of a periodic event, none of the three that a download
\* must not meet while one runs.
LEMMA FireKeeps ==
  ASSUME TypeOK, NEW pc \in PCs, Follows(pc), Asserted(pc), Fire
  PROVE  \E q \in PCs : Step(pc, q)
<1>1. PICK e \in timers : Run("main", << Do("work", e.run) >>)
  BY DEF Fire
<1>2. /\ "main" \in Threads /\ e.run \in Kinds /\ e.run \in Programs("main") /\ e.run # "idle"
      /\ e.run \notin Handlers
      /\ Code(e.run) = << Do("work", e.run) >> /\ DOMAIN todo = Threads
  BY DEF Threads, TypeOK, Programs, Handlers, Kinds, Slots, Sensors, Code
<1>3. PICK q \in PCs : Follows(q)' /\ Moved(pc, q, "main", [p |-> e.run, k |-> 1])
  BY <1>1, <1>2, Begin
<1>4. pc["main"].p = "idle"
  BY <1>1, <1>2, NothingLeft DEF Run
<1>5. /\ q["main"].p = e.run /\ q["main"].k = 1
      /\ q["init"] = pc["init"] /\ q["client"] = pc["client"]
  BY <1>2, <1>3, Locate
<1>6. UNCHANGED <<timers, slot, evq, ret, loaded, wifi, flags, reg, update, downloads, disturbed, failed>>
  BY DEF Fire
<1>7. Control(q)'
  BY <1>2, <1>5, <1>6 DEF Asserted, Control, Starting, Handlers
<1>8. FlagsTell(q)'
  <2>1. ~AtStore(q["main"])
    BY <1>5 DEF AtStore
  <2>. QED BY <1>5, <1>6, <2>1 DEF Asserted, FlagsTell, StoresSafe, Told, Threads
<1>9. OffLine(q)'
  BY <1>5, <1>6 DEF Asserted, OffLine
<1>10. (Owned(pc) => Owned(q)') /\ (Hushed(pc) => Hushed(q)')
  <2>1. \A s \in Slots : /\ ~Saving(pc["main"], s) /\ ~Saving(q["main"], s)
                         /\ ~Silent(q["main"], s)
    BY <1>2, <1>4, <1>5 DEF Saving, Silent, Handlers, Kinds, Slots, Sensors
  <2>2. Moved(pc, q, "main", q["main"])
    BY <1>3 DEF Moved
  <2>. QED BY <1>2, <1>6, <2>1, <2>2, EventsKept
<1>11. Calm(pc) => Calm(q)'
  <2>1. e.run \in Slots => Ticks(e.run)
    BY DEF Ticks
  <2>. QED BY <1>5, <1>6, <2>1 DEF Calm, Ticks
<1>12. Refreshed(pc) => Refreshed(q)'
  BY <1>2, <1>5, <1>6 DEF Refreshed, Ticks, Handlers
<1>. QED BY <1>3, <1>6, <1>7, <1>8, <1>9, <1>10, <1>11, <1>12 DEF Asserted, Tracked, Step

\* The event loop begins a posted handler.
LEMMA DispatchKeeps ==
  ASSUME TypeOK, NEW pc \in PCs, Follows(pc), Asserted(pc), Dispatch
  PROVE  \E q \in PCs : Step(pc, q)
<1>1. evq = <<"download">> \/ evq = <<"install">>
  BY DEF Dispatch, Asserted, Control
<1>2. /\ Head(<<"download">>) = "download" /\ Tail(<<"download">>) = << >>
      /\ Head(<<"install">>) = "install" /\ Tail(<<"install">>) = << >>
      /\ << >> # <<"install">> /\ << >> # <<"download">>
  OBVIOUS
<1>3. PICK h \in Handlers : evq = <<h>> /\ Head(evq) = h
  BY <1>1, <1>2 DEF Handlers
<1>4. evq' = << >>
  BY <1>1, <1>2 DEF Dispatch
<1>5. /\ "main" \in Threads /\ h \in Programs("main") /\ h # "idle" /\ DOMAIN todo = Threads
      /\ Code(h) = IF h = "download" THEN fota_auth_download ELSE fota_auth_install
  BY DEF Threads, TypeOK, Programs, Handlers, Code
<1>6. Run("main", Code(h))
  BY <1>3, <1>5 DEF Dispatch
<1>7. PICK q \in PCs : Follows(q)' /\ Moved(pc, q, "main", [p |-> h, k |-> 1])
  BY <1>5, <1>6, Begin
<1>8. pc["main"].p = "idle"
  BY <1>5, <1>6, NothingLeft DEF Run
<1>9. /\ q["main"].p = h /\ q["main"].k = 1
      /\ q["init"] = pc["init"] /\ q["client"] = pc["client"]
  BY SMTT(30), <1>5, <1>7, Locate
<1>10. UNCHANGED <<timers, slot, ret, loaded, wifi, flags, reg, update, downloads, disturbed, failed>>
  BY DEF Dispatch
<1>11. /\ h = "download" => evq = <<"download">> /\ update = "asked"
       /\ h = "install" => evq = <<"install">> /\ update = "ready"
       /\ h \in {"download", "install"} /\ evq # << >>
  BY <1>2, <1>3 DEF Asserted, Control, Handlers
<1>12. Control(q)'
  BY <1>2, <1>4, <1>9, <1>10, <1>11 DEF Asserted, Control, Starting, Handlers
<1>13. FlagsTell(q)'
  <2>1. ~AtStore(q["main"])
    BY <1>9, <1>11 DEF AtStore
  <2>. QED BY <1>9, <1>10, <2>1 DEF Asserted, FlagsTell, StoresSafe, Told, Threads
<1>14. OffLine(q)'
  BY <1>9, <1>10 DEF Asserted, OffLine
<1>15. ASSUME Owned(pc), Hushed(pc), Calm(pc)
       PROVE  Owned(q)' /\ Hushed(q)' /\ Calm(q)'
  <2>1. \A s \in Slots : /\ ~Saving(pc["main"], s) /\ ~Saving(q["main"], s)
                         /\ Silent(q["main"], s) => h = "install"
    BY <1>8, <1>9, <1>11 DEF Saving, Silent
  <2>2. \A u \in Threads : u # "main" => q[u] = pc[u]
    BY <1>7 DEF Moved
  <2>3. h = "install" => \A s \in Slots : ~Ticks(s)
    BY <1>11, <1>15 DEF Calm
  <2>4. \A s \in Slots : Ticks(s)' <=> Ticks(s)
    BY <1>10 DEF Ticks
  <2>5. Owned(q)'
    BY <1>10, <1>15, <2>1, <2>2 DEF Owned
  <2>6. Hushed(q)'
    BY <1>15, <2>1, <2>2, <2>3, <2>4 DEF Hushed
  <2>7. Calm(q)'
    BY <1>2, <1>4, <1>9, <1>10, <1>11, <1>15, <2>4 DEF Calm, Slots, Sensors
  <2>. QED BY <2>5, <2>6, <2>7
<1>16. Refreshed(pc) => Refreshed(q)'
  BY <1>9, <1>10 DEF Refreshed, Ticks
<1>. QED BY <1>7, <1>10, <1>12, <1>13, <1>14, <1>15, <1>16 DEF Asserted, Tracked, Step

\* A callback begins in the client thread: nothing is at a store or about to save an id
\* there.
LEMMA CallbackBegins ==
  ASSUME TypeOK, NEW pc \in PCs, Follows(pc), NEW p \in Programs("client"), p # "idle",
         Run("client", Code(p))
  PROVE  \E q \in PCs :
             /\ Follows(q)' /\ pc["client"].p = "idle"
             /\ q["client"].p = p /\ q["client"].k = 1
             /\ q["init"] = pc["init"] /\ q["main"] = pc["main"]
             /\ UNCHANGED loaded /\ flags' = flags /\ StoresSafe(pc) => StoresSafe(q)'
             /\ q["client"] # [p |-> "ask_download", k |-> 3]
             /\ q["client"] # [p |-> "ask_install", k |-> 3]
             /\ UNCHANGED <<timers, slot, ret>>
                    => (Owned(pc) => Owned(q)') /\ (Hushed(pc) => Hushed(q)')
<1>1. "client" \in Threads /\ DOMAIN todo = Threads
  BY DEF Threads, TypeOK
<1>2. PICK q \in PCs : Follows(q)' /\ Moved(pc, q, "client", [p |-> p, k |-> 1])
  BY <1>1, Begin
<1>3. pc["client"].p = "idle"
  BY <1>1, NothingLeft DEF Run
<1>4. /\ q["client"].p = p /\ q["client"].k = 1
      /\ q["init"] = pc["init"] /\ q["main"] = pc["main"]
  BY <1>1, <1>2, Locate
<1>5. /\ q["client"] # [p |-> "ask_download", k |-> 3]
      /\ q["client"] # [p |-> "ask_install", k |-> 3]
  BY <1>4
<1>6. ~AtStore(q["client"])
  BY <1>4 DEF AtStore
<1>7. UNCHANGED loaded /\ flags' = flags /\ StoresSafe(pc) => StoresSafe(q)'
  BY <1>4, <1>6 DEF StoresSafe, Threads
<1>8. \A s \in Slots : /\ ~Saving(pc["client"], s) /\ ~Saving(q["client"], s)
                       /\ ~Silent(q["client"], s)
  BY <1>3, <1>4 DEF Saving, Silent, Programs
<1>9. UNCHANGED <<timers, slot, ret>> => (Owned(pc) => Owned(q)') /\ (Hushed(pc) => Hushed(q)')
  <2>1. Moved(pc, q, "client", q["client"])
    BY <1>2 DEF Moved
  <2>. QED BY <1>1, <1>8, <2>1, EventsKept
<1>. QED BY <1>2, <1>3, <1>4, <1>5, <1>7, <1>9

\* The client library reports the registration: set_flag("REGISTER_CALLED") is over by
\* then, as call_register() has returned.
LEMMA ClientRegisteredKeeps ==
  ASSUME PromptInit, TypeOK, NEW pc \in PCs, Follows(pc), Asserted(pc), ClientRegistered
  PROVE  \E q \in PCs : Step(pc, q)
<1>1. /\ "registered" \in Programs("client") /\ "registered" # "idle"
      /\ Code("registered") = client_registered
  BY DEF Programs, Code
<1>2. Run("client", Code("registered"))
  BY <1>1 DEF ClientRegistered
<1>3. UNCHANGED <<timers, slot, evq, ret, loaded, wifi, flags, update, downloads, disturbed, failed>>
  BY DEF ClientRegistered
<1>4. PICK q \in PCs :
          /\ Follows(q)' /\ pc["client"].p = "idle"
          /\ q["client"].p = "registered" /\ q["client"].k = 1
          /\ q["init"] = pc["init"] /\ q["main"] = pc["main"]
          /\ StoresSafe(pc) => StoresSafe(q)'
          /\ q["client"] # [p |-> "ask_download", k |-> 3]
          /\ q["client"] # [p |-> "ask_install", k |-> 3]
          /\ (Owned(pc) => Owned(q)') /\ (Hushed(pc) => Hushed(q)')
  BY <1>1, <1>2, <1>3, CallbackBegins
<1>5. reg = "trying" /\ reg' = "registered" /\ flags # {}
  BY DEF ClientRegistered
<1>6. Control(q)'
  BY <1>3, <1>4, <1>5 DEF Asserted, Control, Starting
<1>7. Told(q)'
  BY <1>3, <1>4, <1>5 DEF Asserted, FlagsTell, Told
<1>8. OffLine(q)'
  BY <1>3, <1>4, <1>5 DEF Asserted, OffLine
<1>9. Calm(pc) => Calm(q)'
  BY <1>3, <1>4 DEF Calm, Ticks
<1>10. Refreshed(pc) => Refreshed(q)'
  BY <1>3, <1>4, <1>5 DEF Refreshed, Ticks
<1>. QED BY <1>3, <1>4, <1>6, <1>7, <1>8, <1>9, <1>10 DEF Asserted, FlagsTell, Tracked, Step

\* A download is asked for, when none is under way.
LEMMA AskDownloadKeeps ==
  ASSUME TypeOK, NEW pc \in PCs, Follows(pc), Asserted(pc), AskDownload
  PROVE  \E q \in PCs : Step(pc, q)
<1>1. /\ "ask_download" \in Programs("client") /\ "ask_download" # "idle"
      /\ Code("ask_download") = authorize_download
  BY DEF Programs, Code
<1>2. Run("client", Code("ask_download"))
  BY <1>1 DEF AskDownload
<1>3. UNCHANGED <<timers, slot, evq, ret, loaded, wifi, flags, reg, update, disturbed, failed>>
  BY DEF AskDownload
<1>4. PICK q \in PCs :
          /\ Follows(q)' /\ pc["client"].p = "idle"
          /\ q["client"].p = "ask_download" /\ q["client"].k = 1
          /\ q["init"] = pc["init"] /\ q["main"] = pc["main"]
          /\ StoresSafe(pc) => StoresSafe(q)'
          /\ q["client"] # [p |-> "ask_download", k |-> 3]
          /\ q["client"] # [p |-> "ask_install", k |-> 3]
          /\ (Owned(pc) => Owned(q)') /\ (Hushed(pc) => Hushed(q)')
  BY <1>1, <1>2, <1>3, CallbackBegins
<1>5. reg = "registered" /\ update = "none"
  BY DEF AskDownload
<1>6. Control(q)'
  BY <1>3, <1>4, <1>5 DEF Asserted, Control, Starting
<1>7. Told(q)'
  BY <1>3, <1>4, <1>5 DEF Asserted, FlagsTell, Told
<1>8. OffLine(q)'
  BY <1>3, <1>4, <1>5 DEF Asserted, OffLine
<1>9. Calm(pc) => Calm(q)'
  BY <1>3, <1>4 DEF Calm, Ticks
<1>10. Refreshed(pc) => Refreshed(q)'
  BY <1>3, <1>4, <1>5 DEF Refreshed, Ticks
<1>. QED BY <1>3, <1>4, <1>6, <1>7, <1>8, <1>9, <1>10 DEF Asserted, FlagsTell, Tracked, Step

\* The install of a complete download is asked for.
LEMMA AskInstallKeeps ==
  ASSUME TypeOK, NEW pc \in PCs, Follows(pc), Asserted(pc), AskInstall
  PROVE  \E q \in PCs : Step(pc, q)
<1>1. /\ "ask_install" \in Programs("client") /\ "ask_install" # "idle"
      /\ Code("ask_install") = authorize_install
  BY DEF Programs, Code
<1>2. Run("client", Code("ask_install"))
  BY <1>1 DEF AskInstall
<1>3. UNCHANGED <<timers, slot, evq, ret, loaded, wifi, flags, reg, update, downloads, disturbed, failed>>
  BY DEF AskInstall
<1>4. PICK q \in PCs :
          /\ Follows(q)' /\ pc["client"].p = "idle"
          /\ q["client"].p = "ask_install" /\ q["client"].k = 1
          /\ q["init"] = pc["init"] /\ q["main"] = pc["main"]
          /\ StoresSafe(pc) => StoresSafe(q)'
          /\ q["client"] # [p |-> "ask_download", k |-> 3]
          /\ q["client"] # [p |-> "ask_install", k |-> 3]
          /\ (Owned(pc) => Owned(q)') /\ (Hushed(pc) => Hushed(q)')
  BY <1>1, <1>2, <1>3, CallbackBegins
<1>5. reg # "off" /\ update = "loaded"
  BY DEF AskInstall, InClient
<1>6. Control(q)'
  BY <1>3, <1>4, <1>5 DEF Asserted, Control, Starting
<1>7. Told(q)'
  BY <1>3, <1>4, <1>5 DEF Asserted, FlagsTell, Told
<1>8. OffLine(q)'
  BY <1>3, <1>4, <1>5 DEF Asserted, OffLine
<1>9. Calm(pc) => Calm(q)'
  BY <1>3, <1>4 DEF Calm, Ticks
<1>10. Refreshed(pc) => Refreshed(q)'
  BY <1>3, <1>4, <1>5 DEF Refreshed, Ticks
<1>. QED BY <1>3, <1>4, <1>6, <1>7, <1>8, <1>9, <1>10 DEF Asserted, FlagsTell, Tracked, Step

\* The client has unregistered, as the install handler asked.
LEMMA ClientUnregisteredKeeps ==
  ASSUME TypeOK, NEW pc \in PCs, Follows(pc), Asserted(pc), ClientUnregistered
  PROVE  \E q \in PCs : Step(pc, q)
<1>1. /\ "unregistered" \in Programs("client") /\ "unregistered" # "idle"
      /\ Code("unregistered") = client_unregistered
  BY DEF Programs, Code
<1>2. Run("client", Code("unregistered"))
  BY <1>1 DEF ClientUnregistered
<1>3. UNCHANGED <<timers, slot, evq, ret, loaded, wifi, flags, update, downloads, disturbed, failed>>
  BY DEF ClientUnregistered
<1>4. PICK q \in PCs :
          /\ Follows(q)' /\ pc["client"].p = "idle"
          /\ q["client"].p = "unregistered" /\ q["client"].k = 1
          /\ q["init"] = pc["init"] /\ q["main"] = pc["main"]
          /\ StoresSafe(pc) => StoresSafe(q)'
          /\ q["client"] # [p |-> "ask_download", k |-> 3]
          /\ q["client"] # [p |-> "ask_install", k |-> 3]
          /\ (Owned(pc) => Owned(q)') /\ (Hushed(pc) => Hushed(q)')
  BY <1>1, <1>2, <1>3, CallbackBegins
<1>5. reg = "closing" /\ reg' = "closed" /\ update = "ready"
  BY DEF ClientUnregistered, Asserted, Control
<1>6. Control(q)'
  BY <1>3, <1>4, <1>5 DEF Asserted, Control, Starting
<1>7. Told(q)'
  BY <1>3, <1>4, <1>5 DEF Asserted, FlagsTell, Told
<1>8. OffLine(q)'
  BY <1>3, <1>4, <1>5 DEF Asserted, OffLine
<1>9. Calm(pc) => Calm(q)'
  BY <1>3, <1>4 DEF Calm, Ticks
<1>10. Refreshed(pc) => Refreshed(q)'
  BY <1>3, <1>4, <1>5 DEF Refreshed, Ticks
<1>. QED BY <1>3, <1>4, <1>6, <1>7, <1>8, <1>9, <1>10 DEF Asserted, FlagsTell, Tracked, Step

\* A download ends, well or not.
LEMMA DownloadEndKeeps ==
  ASSUME NEW pc \in PCs, Follows(pc), Asserted(pc), DownloadComplete \/ DownloadFailed
  PROVE  Step(pc, pc)
<1>1. UNCHANGED <<timers, slot, evq, todo, ret, loaded, wifi, flags, reg, downloads, disturbed, failed>>
  BY DEF DownloadComplete, DownloadFailed
<1>2. update = "loading" /\ update' \in {"loaded", "none"} /\ reg # "off"
  BY DEF DownloadComplete, DownloadFailed, InClient
<1>3. Follows(pc)'
  BY <1>1 DEF Follows
<1>4. Control(pc)'
  BY <1>1, <1>2 DEF Asserted, Control, Starting
<1>5. FlagsTell(pc)'
  BY <1>1, <1>2 DEF Asserted, FlagsTell, StoresSafe, Told
<1>6. OffLine(pc)'
  BY <1>1, <1>2 DEF Asserted, OffLine
<1>7. (Owned(pc) => Owned(pc)') /\ (Hushed(pc) => Hushed(pc)')
  BY <1>1 DEF Owned, Hushed, Ticks
<1>8. Calm(pc) => Calm(pc)'
  BY <1>1, <1>2 DEF Calm, Ticks
<1>9. Refreshed(pc) => Refreshed(pc)'
  BY <1>1 DEF Refreshed, Ticks
<1>. QED BY <1>1, <1>3, <1>4, <1>5, <1>6, <1>7, <1>8, <1>9 DEF Asserted, Tracked, Step

\* A network error: the client reconnects, unless an install was requested.
LEMMA NetworkErrorKeeps ==
  ASSUME TypeOK, NEW pc \in PCs, Follows(pc), Asserted(pc), NetworkError
  PROVE  \E q \in PCs : Step(pc, q)
<1>1. /\ UNCHANGED <<timers, slot, evq, ret, loaded, wifi, flags, downloads, failed>>
      /\ reg # "off" /\ reg # "closed" /\ reg' \in {"trying", reg} /\ reg' # "registered"
      /\ update' = update \/ (update = "loading" /\ update' = "none")
      /\ disturbed' = (disturbed \/ update # "none")
  BY DEF NetworkError, InClient
<1>2. /\ reg \in {"closing"} => reg' = reg
      /\ reg' # "off" /\ reg' # "closed"
  BY DEF NetworkError, InClient
<1>3. ~disturbed' => ~disturbed /\ update = "none" /\ update' = "none"
  BY <1>1 DEF TypeOK
<1>4. CASE "FOTA_INSTALL_REQD" \in flags
  <2>1. UNCHANGED todo /\ todo["client"] = << >>
    BY <1>4 DEF NetworkError, InClient
  <2>2. Follows(pc)'
    BY <2>1 DEF Follows
  <2>3. pc["client"].p = "idle"
    BY <2>1, NothingLeft DEF Threads
  <2>4. Control(pc)'
    BY <1>1, <1>2, <1>3, <1>4, <2>3 DEF Asserted, Control, Starting
  <2>5. FlagsTell(pc)'
    BY <1>1, <1>2, <2>3 DEF Asserted, FlagsTell, StoresSafe, Told
  <2>6. OffLine(pc)'
    BY <1>1, <2>3 DEF Asserted, OffLine
  <2>7. (Owned(pc) => Owned(pc)') /\ (Hushed(pc) => Hushed(pc)')
    BY <1>1 DEF Owned, Hushed, Ticks
  <2>8. ~disturbed' /\ Calm(pc) => Calm(pc)'
    BY <1>1, <1>3 DEF Calm, Ticks
  <2>9. Refreshed(pc) => Refreshed(pc)'
    BY <1>1 DEF Refreshed, Ticks
  <2>. QED BY <1>3, <2>2, <2>4, <2>5, <2>6, <2>7, <2>8, <2>9 DEF Asserted, Tracked, Step
<1>5. CASE "FOTA_INSTALL_REQD" \notin flags
  <2>1. /\ "reconnect" \in Programs("client") /\ "reconnect" # "idle"
        /\ Code("reconnect") = reconnect
    BY DEF Programs, Code
  <2>2. Run("client", Code("reconnect"))
    BY <1>5, <2>1 DEF NetworkError
  <2>3. PICK q \in PCs :
            /\ Follows(q)' /\ pc["client"].p = "idle"
            /\ q["client"].p = "reconnect" /\ q["client"].k = 1
            /\ q["init"] = pc["init"] /\ q["main"] = pc["main"]
            /\ StoresSafe(pc) => StoresSafe(q)'
            /\ q["client"] # [p |-> "ask_download", k |-> 3]
            /\ q["client"] # [p |-> "ask_install", k |-> 3]
            /\ (Owned(pc) => Owned(q)') /\ (Hushed(pc) => Hushed(q)')
    BY <1>1, <2>1, <2>2, CallbackBegins
  <2>4. Control(q)'
    BY <1>1, <1>2, <1>3, <2>3 DEF Asserted, Control, Starting
  <2>5. Told(q)'
    BY <1>1, <1>2, <1>5, <2>3 DEF Asserted, FlagsTell, Told, Control
  <2>6. OffLine(q)'
    BY <1>1, <2>3 DEF Asserted, OffLine
  <2>7. ~disturbed' /\ Calm(pc) => Calm(q)'
    BY <1>1, <1>3, <2>3 DEF Calm, Ticks
  <2>8. Refreshed(pc) => Refreshed(q)'
    BY <1>1, <2>3 DEF Refreshed, Ticks
  <2>. QED BY <1>3, <2>3, <2>4, <2>5, <2>6, <2>7, <2>8 DEF Asserted, FlagsTell, Tracked, Step
<1>. QED BY <1>4, <1>5

\* Every step leads from a choice of places to another.
LEMMA NextKeeps ==
  ASSUME PromptInit, TypeOK, NEW pc \in PCs, Follows(pc), Asserted(pc), Next, ~Reboot
  PROVE  \E q \in PCs : Step(pc, q)
<1>1. ASSUME NEW t \in Threads, Statement(t)
      PROVE  \E q \in PCs : Step(pc, q)
  BY <1>1, StatementKeeps
<1>2. CASE Dispatch
  BY <1>2, DispatchKeeps
<1>3. CASE Fire
  BY <1>3, FireKeeps
<1>4. CASE ClientRegistered
  BY <1>4, ClientRegisteredKeeps
<1>5. CASE AskDownload
  BY <1>5, AskDownloadKeeps
<1>6. CASE DownloadComplete \/ DownloadFailed
  BY <1>6, DownloadEndKeeps
<1>7. CASE AskInstall
  BY <1>7, AskInstallKeeps
<1>8. CASE NetworkError
  BY <1>8, NetworkErrorKeeps
<1>9. CASE ClientUnregistered
  BY <1>9, ClientUnregisteredKeeps
<1>. QED BY <1>1, <1>2, <1>3, <1>4, <1>5, <1>6, <1>7, <1>8, <1>9 DEF Next, Callback

\* The new firmware starts as the old one did.
LEMMA RebootKeeps == Reboot => InvWithRoom'
<1>1. Reboot => Init'
  BY Zenon DEF Reboot, Init
<1>2. Init' => InvWithRoom'
  BY InitInv, PTL
<1>. QED BY <1>1, <1>2

\* The invariant holds in every run in which call_register() returns in time.
LEMMA InvHolds ==
  ASSUME PromptInit
  PROVE  Spec => []Inv
<1>1. Inv /\ [Next]_vars => Inv'
  <2>. SUFFICES ASSUME Inv, [Next]_vars
                PROVE  Inv'
    OBVIOUS
  <2>1. TypeOK /\ TypeOK'
    BY NextTyped DEF Inv
  <2>2. PICK pc \in PCs : Follows(pc) /\ Asserted(pc)
    BY DEF Inv
  <2>3. CASE Next /\ ~Reboot
    <3>1. PICK q \in PCs : Step(pc, q)
      BY <2>1, <2>2, <2>3, NextKeeps
    <3>. QED BY <2>1, <3>1 DEF Step, Inv
  <2>4. CASE Reboot
    BY <2>4, RebootKeeps DEF InvWithRoom, Inv
  <2>5. CASE UNCHANGED vars
    <3>1. Follows(pc)' /\ Asserted(pc)'
      BY <2>2, <2>5 DEF vars, Follows, Asserted, Control, Starting, FlagsTell, StoresSafe, Told,
             OffLine, Tracked, Owned, Hushed, Calm, Ticks
    <3>. QED BY <2>1, <3>1 DEF Inv
  <2>. QED BY <2>3, <2>4, <2>5
<1>2. Init => Inv
  BY InitInv DEF InvWithRoom, Inv
<1>. QED BY <1>1, <1>2, PTL DEF Spec

\* And with it the display is refreshed, as long as the queue has room for its event.
LEMMA InvWithRoomHolds ==
  ASSUME PromptInit
  PROVE  Spec /\ []Room => []InvWithRoom
<1>1. Room /\ InvWithRoom /\ [Next]_vars => InvWithRoom'
  <2>. SUFFICES ASSUME Room, InvWithRoom, [Next]_vars
                PROVE  InvWithRoom'
    OBVIOUS
  <2>1. TypeOK /\ TypeOK'
    BY NextTyped DEF InvWithRoom
  <2>2. PICK pc \in PCs : Follows(pc) /\ Asserted(pc) /\ Refreshed(pc)
    BY DEF InvWithRoom
  <2>3. CASE Next /\ ~Reboot
    <3>1. PICK q \in PCs : Step(pc, q)
      BY <2>1, <2>2, <2>3, NextKeeps
    <3>. QED BY <2>1, <2>2, <3>1 DEF Step, InvWithRoom
  <2>4. CASE Reboot
    BY <2>4, RebootKeeps
  <2>5. CASE UNCHANGED vars
    <3>1. Follows(pc)' /\ Asserted(pc)' /\ Refreshed(pc)'
      BY <2>2, <2>5 DEF vars, Follows, Asserted, Control, Starting, FlagsTell, StoresSafe, Told,
             OffLine, Tracked, Owned, Hushed, Calm, Ticks, Refreshed
    <3>. QED BY <2>1, <3>1 DEF InvWithRoom
  <2>. QED BY <2>3, <2>4, <2>5
<1>. QED BY <1>1, InitInv, PTL DEF Spec

-----------------------------------------------------------------------------
(* What follows *)

\* While a download runs, nothing periodic but the keep-alive is in the queue or in
\* progress - unless a network error struck in an update (main.cpp:684-687): the download
\* handler cancels the three events it finds in the variables, and no thread is about to
\* start or to save another.
THEOREM DownloadIsQuiet ==
  ASSUME PromptInit
  PROVE  Spec => []DownloadQuiet
<1>1. Inv => DownloadQuiet
  <2>. SUFFICES ASSUME Inv, Downloading, ~disturbed, NEW k \in Slots
                PROVE  ~Ticks(k) /\ ~Busy(k)
    BY DEF DownloadQuiet
  <2>1. PICK pc \in PCs : Follows(pc) /\ Asserted(pc)
    BY DEF Inv
  <2>2. ~Ticks(k) /\ pc["main"].p \notin Slots
    BY <2>1 DEF Asserted, Tracked, Calm, Downloading
  <2>3. ASSUME Busy(k)
        PROVE  FALSE
    <3>1. "main" \in Threads /\ todo["main"] # << >>
      BY <2>3 DEF Busy, At, Threads
    <3>2. /\ pc["main"] \in Places("main") /\ pc["main"].p # "idle"
          /\ Head(todo["main"]) = Stm(pc["main"])
      BY <2>1, <3>1, AtPlace
    <3>3. Where("main", pc["main"]) \in {<<"main", "light", 1, "light", "idle", 1>>,
                                         <<"main", "dht", 1, "dht", "idle", 1>>,
                                         <<"main", "display", 1, "display", "idle", 1>>,
                                         <<"main", "keepalive", 1, "keepalive", "idle", 1>>}
      BY <2>3, <3>1, <3>2, WorkPlaces DEF Busy, At
    <3>4. pc["main"].p = k
      BY <2>3, <3>2, <3>3 DEF Where, Busy, With
    <3>. QED BY <2>2, <3>4
  <2>. QED BY <2>2, <2>3
<1>. QED BY <1>1, InvHolds, PTL

\* Between callbacks every periodic event of a sensor or of the display is the one its
\* variable names, so that sensors_stop() and fota_auth_download() can stop it
\* (main.cpp:307-325, 679-689): the id is saved by the thread that got it, and no second
\* event for the same variable is started meanwhile.
THEOREM TimersAreTracked ==
  ASSUME PromptInit
  PROVE  Spec => []TimersTracked
<1>1. Inv => TimersTracked
  <2>. SUFFICES ASSUME Inv, \A t \in Threads : todo[t] = << >>, ~disturbed,
                       NEW e \in timers, e.run \in Slots
                PROVE  slot[e.run] = e.id
    BY DEF TimersTracked
  <2>1. PICK pc \in PCs : Follows(pc) /\ Asserted(pc)
    BY DEF Inv
  <2>2. \A t \in Threads : pc[t].p = "idle"
    BY <2>1, NothingLeft
  <2>3. \A t \in Threads : ~Saving(pc[t], e.run)
    BY <2>2 DEF Saving
  <2>. QED BY <2>1, <2>3 DEF Asserted, Tracked, Owned
<1>. QED BY <1>1, InvHolds, PTL

\* What is left at a place is the statements there and after it.
LEMMA LeftAt ==
  ASSUME NEW t \in Threads, NEW pl \in Places(t), pl.p # "idle", NEW i \in DOMAIN Left(pl)
  PROVE  \E pi \in Places(t) : pi.p = pl.p /\ Left(pl)[i] = Stm(pi)
<1>. DEFINE c == Code(pl.p)  n == Size(pl.p)
<1>1. pl.p \in Programs(t) /\ pl.k \in 1 .. 11 /\ pl.k <= n
  BY DEF Places
<1>2. c \in Seq(Statements) /\ Len(c) = n
  BY <1>1, CodeSize
<1>3. n \in 1 .. 11
  BY DEF Size
<1>4. \A j \in pl.k .. n : c[j] \in Statements
  <2>. SUFFICES ASSUME NEW j \in pl.k .. n PROVE c[j] \in Statements
    OBVIOUS
  <2>1. j \in 1 .. Len(c)
    BY <1>1, <1>2, <1>3
  <2>. QED BY <1>2, <2>1, ElementOfSeq
<1>5. Left(pl) = SubSeq(c, pl.k, n)
  BY <1>2 DEF Left
<1>. HIDE DEF c, n
<1>6. /\ Left(pl) \in Seq(Statements)
      /\ Len(Left(pl)) = n - pl.k + 1
      /\ \A j \in 1 .. n - pl.k + 1 : Left(pl)[j] = c[pl.k + j - 1]
  <2>1. pl.k \in Int /\ n \in Int /\ pl.k <= n
    BY <1>1, <1>3
  <2>. QED BY <1>4, <1>5, <2>1, SubSeqProperties
<1>7. i \in 1 .. n - pl.k + 1
  BY <1>6
<1>. DEFINE k == pl.k + i - 1
<1>8. k \in 1 .. 11 /\ k <= n
  BY <1>1, <1>3, <1>7
<1>9. Left(pl)[i] = c[k]
  BY <1>6, <1>7
<1>. HIDE DEF k
<1>. DEFINE pi == [p |-> pl.p, k |-> k]
<1>10. pi \in Places(t)
  BY <1>1, <1>8 DEF Places, n
<1>. QED BY <1>9, <1>10 DEF Stm, c

\* From the request to install on, the client thread has no reconnection and no start of a
\* sensor left to run (main.cpp:818-821): the request and a reconnection are both of that
\* thread, and a network error looks at the flag before it reconnects.
THEOREM InstallIsUndisturbed ==
  ASSUME PromptInit
  PROVE  Spec => []InstallUndisturbed
<1>1. Inv => InstallUndisturbed
  <2>. SUFFICES ASSUME Inv, "FOTA_INSTALL_REQD" \in flags, NEW i \in DOMAIN todo["client"]
                PROVE  todo["client"][i].do \notin {"connect", "every"}
    BY DEF InstallUndisturbed
  <2>1. PICK pc \in PCs : Follows(pc) /\ Asserted(pc)
    BY DEF Inv
  <2>. DEFINE pl == pc["client"]
  <2>2. pl.p # "reconnect"
    BY <2>1 DEF Asserted, FlagsTell, Told
  <2>3. /\ "client" \in Threads /\ todo["client"] = Left(pl) /\ pl \in Places("client")
        /\ todo["client"] \in Seq(Statements)
    BY <2>1 DEF Threads, Follows, PCs, Inv, TypeOK
  <2>4. todo["client"] # << >>
    BY <2>3
  <2>5. pl.p # "idle" /\ pl \in Places("client")
    BY <2>1, <2>3, <2>4, AtPlace
  <2>6. PICK pi \in Places("client") : pi.p = pl.p /\ todo["client"][i] = Stm(pi)
    BY <2>3, <2>5, LeftAt
  <2>. HIDE DEF pl
  <2>7. <<"client", pi.p, pi.k, Stm(pi).do, Stm(pi).with>> \in Listing
    BY <2>3, <2>5, <2>6, IsListed
  <2>. QED BY <2>2, <2>6, <2>7 DEF Listing
<1>. QED BY <1>1, InvHolds, PTL

\* The unlocked loads and stores of _flags in three threads lose no update request
\* (m2mclient.h:335-343): no two of them overlap that matter to it.
THEOREM NoRequestLost ==
  ASSUME PromptInit
  PROVE  Spec => []RequestsKept
<1>1. Inv => RequestsKept
  BY DEF Inv, Asserted, FlagsTell, Told, RequestsKept
<1>. QED BY <1>1, InvHolds, PTL

\* The install is authorised off the cloud, and off the network unless the disconnect()
\* before it failed, with no update handler pending, no sensor running unless a network
\* error struck in the update, and with the display refreshed again, if the event queue had
\* room for its event (main.cpp:700-713, 788-799).
THEOREM InstallIsGuarded ==
  ASSUME PromptInit
  PROVE  Spec /\ []Room => []InstallGuarded
<1>1. InvWithRoom => InstallGuarded
  <2>. SUFFICES ASSUME InvWithRoom, update = "installing"
                PROVE  /\ reg = "closed" /\ (wifi => "disconnect" \in failed)
                       /\ "REGISTERED" \notin flags
                       /\ Ticks("display") /\ evq = << >>
                       /\ \A s \in Sensors : Ticks(s) => disturbed
    BY DEF InstallGuarded
  <2>1. PICK pc \in PCs : Follows(pc) /\ Asserted(pc) /\ Refreshed(pc)
    BY DEF InvWithRoom
  <2>2. reg = "closed" /\ evq = << >>
    BY <2>1 DEF Asserted, Control
  <2>3. (wifi => "disconnect" \in failed) /\ "REGISTERED" \notin flags
    BY <2>1 DEF Asserted, OffLine, FlagsTell, Told
  <2>4. Ticks("display")
    BY <2>1, <2>2 DEF Refreshed
  <2>5. \A s \in Sensors : Ticks(s) => disturbed
    BY <2>1 DEF Asserted, Tracked, Calm
  <2>. QED BY <2>2, <2>3, <2>4, <2>5
<1>. QED BY <1>1, InvWithRoomHolds, PTL
=============================================================================
