------------------------------ MODULE Spectrum ------------------------------
(***************************************************************************)
(* What a signal looks like on the channels of the band                    *)
(* (model/fish-wpan-spectrum-value-helper.cc,                              *)
(* model/fish-spectrum-propagation-loss-model.cc): a power spectral        *)
(* density is a function from the bands that carry power to that power, in *)
(* half dBm.                                                               *)
(***************************************************************************)
EXTENDS Integers

\* The spectrum model has 11 bands, for the channels ISA100 uses.  The functions
\* that index them take the channels up to 26.
Bands == 11 .. 21

\* CreateTxPowerSpectralDensity: all of the power is in the band of the channel.
TxPsd(txPower, channel) == [b \in Bands \cap {channel} |-> txPower]

\* The loss between two positions is the same in every band.
RxPsd(psd, loss) == [b \in DOMAIN psd |-> psd[b] - loss]

\* StartRx: a signal counts if its power in the band of the receiver's channel is
\* not less than the weakest one noticed.
InChannel(psd, channel, weakest) == channel \in DOMAIN psd /\ psd[channel] >= weakest
=============================================================================
