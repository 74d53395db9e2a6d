-------------------------- MODULE MCBusArbitration --------------------------
(* Small instances of BusArbitration: two addresses, and what else is heard.*)
EXTENDS BusArbitration, TLC

NonceSymmetry == Permutations(Nonces)

Plain(type, address) == [type |-> type, address |-> address, nonce |-> Foreign, request |-> 0]
Broadcast(type) == Plain(type, "all")

SlowTraffic ==
    {Broadcast("invite"), Plain("probe", 17),
     Plain("cts", 17), Plain("cts", 18), Plain("command", 17)}
MixedTraffic ==
    {Broadcast("invite"), Broadcast("status"), Plain("cts", 16), Plain("cts", 17),
     Plain("manage", 17), Plain("command", 10), Plain("setting", 10),
     Broadcast("alternate")}
=============================================================================
