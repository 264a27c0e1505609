----------------------------- MODULE MCSignalBus -----------------------------
(* The signal bus on small instances. *)
EXTENDS SignalBus

Line1 == [kind |-> "action", urgency |-> "due", readable |-> TRUE]
Line2 == [kind |-> "action", urgency |-> "overdue", readable |-> TRUE]
TooLow == [kind |-> "action", urgency |-> "soon", readable |-> TRUE]
Garbled == [kind |-> "action", urgency |-> "due", readable |-> FALSE]
OtherKind == [kind |-> "digest", urgency |-> "due", readable |-> TRUE]
MCAnomaly == [kind |-> "anomaly", urgency |-> "due", readable |-> TRUE]

MCSignals == {Line1, Line2, TooLow, Garbled, OtherKind, MCAnomaly}
FewSignals == {Line1, MCAnomaly}
TwoLines == {<<Line1, Line2>>}
MixedScans == {<<TooLow, Line1>>, <<Garbled, OtherKind>>}
OneLine == {<<Line1>>}
MCKinds == {{"action", "anomaly"}}
MCUrgency == {"due"}

AllFaults ==
  {"upload", "load", "list", "download", "callback", "saveRead", "save", "crash"}
StoreReadable == AllFaults \ {"load", "saveRead"}
NoCrash == AllFaults \ {"crash"}
SaveOnly == {"save"}

=============================================================================
