--------------------------- MODULE MCLedManager ---------------------------
(***************************************************************************)
(* LedManager with entries that ask for no LED, as any entry but a few     *)
(* does, and with the entries of WifiManager, MqttManager and errors.      *)
(***************************************************************************)
EXTENDS LedManager

QuietEntries == [id : {"SDCard"}, state : {"CONNECTING"}]

StateEntries == Entry

\* The LEDs that main.cpp sets.
MainCalls == {Set(c, m) : c \in {"GREEN", "RED"}, m \in LEDMode}

=============================================================================
