----------------------------- MODULE NodeSetup -----------------------------
(***************************************************************************)
(* How a node is put together (helper/isa100-helper.cc,                    *)
(* model/isa100-net-device.cc): Isa100Helper::Install builds the net       *)
(* device with the attributes the helper has, then the user installs a     *)
(* processor, a sensor and a battery in any order and wires the            *)
(* application to them, as the random network example does for every field *)
(* node.  Whatever has to be metered is connected to the battery by        *)
(* whichever of the two is installed last.                                 *)
(***************************************************************************)
EXTENDS Naturals

Parts     == {"processor", "sensor", "battery"}
\* What draws current.
Consumers == {"phy", "processor", "sensor"}
\* The attributes the helper keeps for the devices it will install.
AttributeKinds == {"dl", "phy", "trx"}

VARIABLES
  attributes, \* kinds of attributes the helper has been given
  device,     \* the net device: what has been set and m_configComplete
  parts,      \* parts installed: the pointers of the net device
  metered,    \* consumers whose battery callback is set
  dlHasProcessor, \* m_processor of the DL is set
  wired       \* the application has its sensor, its processor and its callbacks

setupVars == <<attributes, device, parts, metered, dlHasProcessor, wired>>

NoDevice ==
  [node |-> FALSE, channel |-> FALSE, configComplete |-> FALSE, attributes |-> {}]

SetupTypeOK ==
  /\ attributes \subseteq AttributeKinds
  /\ device \in [node : BOOLEAN, channel : BOOLEAN, configComplete : BOOLEAN,
                 attributes : SUBSET AttributeKinds]
  /\ parts \subseteq Parts
  /\ metered \subseteq Consumers
  /\ {dlHasProcessor, wired} \subseteq BOOLEAN

SetupInit ==
  /\ attributes = {}
  /\ device = NoDevice
  /\ parts = {} /\ metered = {}
  /\ dlHasProcessor = FALSE
  /\ wired = FALSE

\* The DL and the PHY exist from the constructor on; they are connected to each
\* other when the node becomes known, once.
CompleteConfig(d) == IF d.node THEN [d EXCEPT !.configComplete = TRUE] ELSE d

SetChannel(d) == CompleteConfig([d EXCEPT !.channel = TRUE])
SetNode(d)    == CompleteConfig([d EXCEPT !.node = TRUE])

\* SetDlAttribute, SetPhyAttribute and SetTrxCurrentAttribute: the map keeps the
\* first value of a name, and no device installed by then learns of it.
SetAttribute(kind) ==
  /\ ~wired
  /\ attributes' = attributes \cup {kind}
  /\ UNCHANGED <<device, parts, metered, dlHasProcessor, wired>>

\* SetDlAttributes is fatal without any attribute; the others may be left at
\* their defaults.
Configurable == "dl" \in attributes

\* SetDlAttributes, SetPhyAttributes and SetTrxCurrentAttributes copy the values.
Configured(d) == [d EXCEPT !.attributes = attributes]

Install ==
  /\ device = NoDevice /\ Configurable
  /\ device' = Configured(SetNode(SetChannel(NoDevice)))
  /\ UNCHANGED <<attributes, parts, metered, dlHasProcessor, wired>>

\* Mutant of ConnectedBy: only a battery that comes last connects.
ConnectedByBatteryOnly(part) == IF part = "battery" THEN {"phy"} \cup parts ELSE {}

\* The consumers connected to the battery when a part is installed: by a battery
\* the PHY and what is there, by anything else itself if there is a battery.
ConnectedBy(part) ==
  CASE part = "battery"    -> {"phy"} \cup parts
    [] "battery" \in parts -> {part}
    [] OTHER               -> {}

InstallPart(part) ==
  /\ device.configComplete
  /\ part \notin parts /\ ~wired
  /\ parts' = parts \cup {part}
  /\ metered' = metered \cup ConnectedBy(part)
  /\ dlHasProcessor' = (dlHasProcessor \/ part = "processor")
  /\ UNCHANGED <<attributes, device, wired>>

\* SetSensor, SetProcessor, SetSensingCallback and InstallApplication, which
\* copy the pointers of the parts installed by then.
InstallApplication ==
  /\ parts = Parts /\ ~wired
  /\ wired' = TRUE
  /\ UNCHANGED <<attributes, device, parts, metered, dlHasProcessor>>

Setup ==
  \/ \E kind \in AttributeKinds : SetAttribute(kind)
  \/ Install \/ InstallApplication
  \/ \E part \in Parts : InstallPart(part)

-----------------------------------------------------------------------------
(* Properties *)

\* Whatever the order of the Install calls, everything that draws current in a
\* node that starts debits its battery, and the DL switches its processor.
EverythingMetered == wired => metered = Consumers /\ dlHasProcessor
=============================================================================
