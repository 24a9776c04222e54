--------------------------- MODULE MCKafkaReceiver ---------------------------
(* Small instances of KafkaReceiver for TLC.                               *)
EXTENDS KafkaReceiver

CONSTANTS p1, p2

TwoPartitions == {p1, p2}
NoPoison == {}
SecondIsPoison == {<<p1, 1>>}
=============================================================================
