------------------------------ MODULE MCBacnet ------------------------------
(* BacnetAdapter for TLC. *)
EXTENDS BacnetAdapter

\* One object at the first device, two at the second.
MCObjects == <<1, 2>>

\* A packet without a write, and one with a write to the second device.
MCCommands == {<<>>, << <<2, 1>> >>}

\* One device with one object, and a write to it.
OneDevice == <<1>>

OneWrite == {<< <<1, 1>> >>}
=============================================================================
