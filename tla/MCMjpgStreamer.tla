--------------------------- MODULE MCMjpgStreamer ----------------------------
\* Instances of MjpgStreamer for TLC.
EXTENDS MjpgStreamer, TLC

CONSTANTS s1, s2, snap, set1

None == {}
OneStream == {s1}
TwoStreams == {s1, s2}
OneSnapshot == {snap}
OneSetter == {set1}

WithEmpties == {"ok", "small", "empty"}
Unfiltered  == {"ok", "torn", "small"}
=============================================================================
