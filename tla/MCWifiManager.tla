--------------------------- MODULE MCWifiManager ---------------------------
(***************************************************************************)
(* WifiManager with the constants of the code: five attempts, a back-off   *)
(* of 10 s that doubles up to 300 s; the event queue holds three events.   *)
(* The search for the lost wakeup needs no more than two attempts.         *)
(***************************************************************************)
EXTENDS WifiManager

=============================================================================
