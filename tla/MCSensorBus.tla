---------------------------- MODULE MCSensorBus ----------------------------
EXTENDS SensorBus
=============================================================================
