---------------------------- MODULE MCWpsProvision ----------------------------
(* An instance for TLC: a network that can be joined, one that cannot, a    *)
(* command nothing of which fits, and one with a shorter name behind a      *)
(* longer and a password that fills its array.                              *)
EXTENDS WpsProvision

CONSTANTS Home, Away, Secret

Ssid(v, n)     == [type |-> 1, size |-> n, value |-> v]
Password(v, n) == [type |-> 2, size |-> n, value |-> v]
Bssid(n)       == [type |-> 3, size |-> n, value |-> Junk]

Good    == <<Ssid(Away, 3), Bssid(6), Ssid(Home, 4), Password(Secret, 9)>>  \* 30 bytes: padding 2
Wrong   == <<Password(Secret, 9), Ssid(Away, 4)>>                           \* 17 bytes: padding 15
Nothing == <<Ssid(Home, 43)>>                                               \* 45 bytes: padding 3
Ragged  == <<Ssid(Away, 6), Ssid(Home, 4), Password(Secret, 64)>>           \* 80 bytes: padding 16

MCCmds == {Good, Wrong, Nothing, Ragged}
MCNetworks == {[ssid |-> Home, password |-> Secret]}
=============================================================================
