--------------------------- MODULE MCSensorBoard ---------------------------
EXTENDS SensorBoard
=============================================================================
