---------------------------- MODULE MCRendezvous -----------------------------
\* Instances of Rendezvous for TLC: a robot at home and a phone that may have
\* one of two addresses.
EXTENDS Rendezvous, TLC

CONSTANTS home, cell, wlan, p1, p2, p3

IPs == {home, cell, wlan}
Ports == {p1, p2, p3}
RobotAt == [ip |-> home, port |-> p1]
CellAt == [ip |-> cell, port |-> p2]
WlanAt == [ip |-> wlan, port |-> p3]
HomeAddr == {RobotAt}
NoAddr == {}
OneAddr == {CellAt}
TwoAddrs == {CellAt, WlanAt}
=============================================================================
