-------------------------- MODULE MCControlSystem ---------------------------
\* Instances of ControlSystem for TLC.
EXTENDS ControlSystem

CONSTANT p1

NoPhone  == {}
OnePhone == {p1}

Setting(w, fn, fd, c) ==
  [m \in Mode |-> CASE m = "webcam" -> w [] m = "fan" -> fn [] m = "feed" -> fd
                    [] m = "car" -> c]

\* Motions that differ in every pin, a stop, a code car_operation does not
\* know, and the sample control.txt (0, 1, 1, 2).
ManyChoices == {Setting(0, 1, 1, 2), Setting(1, 0, 0, 1), Setting(1, 1, 0, 6),
                Setting(0, 0, 1, 0), Setting(0, 0, 0, 9)}
FewChoices  == {Setting(0, 1, 1, 2), Setting(1, 0, 0, 0)}
NoChoices   == {}

\* The daemon's directory holds no control.txt, or the one that the repository
\* ships in it.
NoCopy      == {<<>>}
ShippedCopy == {<<>>, <<Sect("webcam", 0), Sect("fan", 1), Sect("feed", 1), Sect("car", 2)>>}
=============================================================================
