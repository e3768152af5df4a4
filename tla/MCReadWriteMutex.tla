-------------------------- MODULE MCReadWriteMutex --------------------------
(* Four threads are enough for two readers and two writers to meet in every *)
(* combination of wait sets.                                                *)
EXTENDS ReadWriteMutex
=============================================================================
