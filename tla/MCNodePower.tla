---------------------------- MODULE MCNodePower ----------------------------
(***************************************************************************)
(* Instances of NodePower.  Currents are small and distinct, so that       *)
(* energy booked under a wrong state or for a wrong time shows.            *)
(***************************************************************************)
EXTENDS NodePower

McNever == -1
McTxPowers == {-2, -1}
McProcessorCurrent == [ACTIVE |-> 2, SLEEP |-> 1]
McSensorCurrent    == [ACTIVE |-> 3, IDLE |-> 0]
McTrxCurrent       == [TRX_OFF |-> 1, RX_ON |-> 3, BUSY_RX |-> 3, SLEEP |-> 0]
McDefaultTrxCurrent == [TRX_OFF |-> 2, RX_ON |-> 3, BUSY_RX |-> 4, SLEEP |-> 1]
=============================================================================
