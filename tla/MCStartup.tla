----------------------------- MODULE MCStartup -----------------------------
(* An instance of Startup for TLC: mbed_app.json gives the encryption a     *)
(* default that may be right, and the ssid and the key one that is not.     *)
EXTENDS Startup, TLC

CONSTANTS ssid, encryption

MCOptions  == {ssid, encryption}
MCDefaults == (ssid :> "wrong") @@ (encryption :> "right")
=============================================================================
