----------------------------- MODULE MCIsa100Dl -----------------------------
(* Schedules of the repository's examples, cut down for model checking.    *)
EXTENDS Isa100DlDocs

\* One dedicated receive slot, one dedicated transmit slot, an idle slot.
TdmaTypes == <<"RECEIVE", "TRANSMIT">>
TdmaSlots == <<0, 1>>

\* The four kinds of slot: examples/isa100-three-nodes.cc.
MixedTypes == <<"RECEIVE", "SHARED", "TRANSMIT">>
MixedSlots == <<0, 1, 3>>

\* One shared slot: examples/isa100-source-route-test.cc.
SharedTypes == <<"SHARED">>
SharedSlots == <<0>>

OneChannel  == <<11>>
TwoChannels == <<11, 12>>
=============================================================================
