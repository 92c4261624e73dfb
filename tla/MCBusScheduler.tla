--------------------------- MODULE MCBusScheduler ---------------------------
EXTENDS BusScheduler

Abort == {0}
Times == {1, 2}
LongAbort == {2}
Wait  == {5}
Cias  == {0, 5}
Blits == {2}
Nothing == {}
User == {"step", "stop"}
=============================================================================
