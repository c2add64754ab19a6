------------------------------ MODULE TxPower ------------------------------
(***************************************************************************)
(* Transmit power control: what power a link needs                         *)
(* (Isa100Helper::CalculateTxPowers, TdmaOptimizerBase::SetupOptimization),*)
(* what the DL stores for it (SetTxPowersDbm, SetTxPowerDbm) and what the  *)
(* PHY makes of it (PlmeSetAttributeRequest).  Required powers and losses  *)
(* are doubles: they are counted in half dB here, stored powers in dBm.    *)
(***************************************************************************)
EXTENDS Integers

CONSTANTS
  MinTxPowerDbm,  \* m_minTxPowerDbm
  MaxTxPowerDbm   \* m_maxTxPowerDbm

ASSUME TxPowerAssumption ==
  /\ MinTxPowerDbm \in Int /\ MaxTxPowerDbm \in 0 .. 31
  /\ MinTxPowerDbm < MaxTxPowerDbm

\* Mutant of Ceil: the conversion to an integer alone, which truncates.
Truncated(half) == IF half < 0 THEN -((-half) \div 2) ELSE half \div 2

\* dBm from half dB, rounded up.
Ceil(half) == -((-half) \div 2)

\* The 6 bit range of the PHY.
SixBits(val) == IF val < -32 THEN -32 ELSE IF val > 31 THEN 31 ELSE val

\* An element of the list of SetTxPowersDbm: compared before it is rounded.
\* The argument of SetTxPowerDbm is rounded first, with the same result.
StoredPower(half) ==
  SixBits(IF half > 2 * MaxTxPowerDbm THEN MaxTxPowerDbm
          ELSE IF half < 2 * MinTxPowerDbm THEN MinTxPowerDbm ELSE Ceil(half))

\* SetupOptimization rounds up the power a link needs, and the optimizers compare
\* it, or the energy it costs, with the maximum.
InRange(half) == Ceil(half) <= MaxTxPowerDbm

\* The PHY compares the eight bits of the attribute with 0xbf, without a sign.
PowerAccepted(val) == val % 256 <= 191

\* The power in use after a request for val when old was in use.
PhyTransmitPower(old, val) == IF PowerAccepted(val) THEN val ELSE old
=============================================================================
