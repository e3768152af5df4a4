-------------------------- MODULE MCSensorProtocol --------------------------
(* A read into zeros, whose error is returned, one into a buffer that is not  *)
(* set and whose error is masked away, a command of two bytes and a longer one. *)
EXTENDS SensorProtocol

CONSTANTS temp, used, fire, speeds

MCReads == {temp, used}
MCWrites == {fire, speeds}
MCLength == [c \in {temp, used, fire, speeds} |-> IF c = speeds THEN 4 ELSE 2]
MCCycle == <<used, temp>>
MCMasked == {used}
MCZeroed == {temp}
MCUnset == {used}
=============================================================================
