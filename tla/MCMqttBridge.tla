---------------------------- MODULE MCMqttBridge ----------------------------
(* What MqttBridge runs with: a usb reader, a serial port and a bus node,  *)
(* with one thing or another at the end of each.                           *)
EXTENDS MqttBridge

MCNodes == <<"usb", "tty", "bus">>

At(kind, setting, loops) == [kind |-> kind, baud |-> setting, looping |-> loops]

Silent == At("silent", 1, FALSE)

OnUSB    == {At(k, 1, FALSE) : k \in {"v2", "v3", "silent"}} \cup {At("v3", 1, TRUE)}
OnSerial == {At(k, b, l) : k \in {"v3"}, b \in {2}, l \in BOOLEAN}
              \cup {At("v2", 1, FALSE), At("boot", 2, FALSE), At("echo", 1, FALSE)}

MCPlugged == {<<u, s, Silent>> : u \in OnUSB, s \in OnSerial}

MCFaults == {"write", "split", "late", "lost"}
=============================================================================
