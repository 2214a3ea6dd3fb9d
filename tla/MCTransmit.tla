------------------------------ MODULE MCTransmit ------------------------------
(* Instances of Transmit: buffers of up to 2 written and 3 read items, so  *)
(* that either side can be the larger one, and zero-length probes.         *)
EXTENDS Transmit

UpTo2 == 0..2
UpTo3 == 0..3
Nothing == {}
Partial == {"TakePartial"}
Probes == {"ProbeMeetsProbe"}
Parks == {"DropParked"}
=============================================================================
