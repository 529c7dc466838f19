-------------------------- MODULE UsbDevice_proofs --------------------------
(***************************************************************************)
(* Proofs for UsbDevice, for any requests, strings and transfers: the      *)
(* class is set up exactly while the device is configured, the device      *)
(* implements the states of chapter 9, full bulk transfers are ended by an *)
(* empty packet, and every control transfer is answered truly or refused.  *)
(***************************************************************************)
EXTENDS UsbDevice, TLAPS

-----------------------------------------------------------------------------
(* The inductive invariant.  It leaves out endpoint 0 and the host: what   *)
(* sets the class up and tears it down depends on neither.                 *)

DeviceTypes ==
    /\ dev_state \in {"DEFAULT", "ADDRESSED", "CONFIGURED", "SUSPENDED"}
    /\ hcdc \in BOOLEAN /\ out1 \in BOOLEAN /\ cdc_port_open \in BOOLEAN
    /\ TxState \in {0, 1} /\ in1 \in {NotArmed} \cup Nat

\* A suspended device remembers a state to go back to.
Remembers == ~Awake => dev_old_state \in {"DEFAULT", "ADDRESSED", "CONFIGURED"}

ClassInv == DeviceTypes /\ Remembers /\ ClassIffConfigured

\* the variables of ClassInv
lifecycle_vars ==
    <<dev_state, dev_old_state, dev_config, hcdc, opened, out1, in1, TxState,
      cdc_port_open>>

\* ClassInv depends on those variables only.
LEMMA ClassKept ==
    ASSUME ClassInv, UNCHANGED lifecycle_vars
    PROVE  ClassInv' /\ state' = state
BY DEF ClassInv, DeviceTypes, Remembers, ClassIffConfigured, lifecycle_vars,
       Awake, state

\* A call of CDC_KickTransmit_FS arms the IN endpoint and makes TxState busy,
\* or does neither.
LEMMA KickKept ==
    ASSUME NEW st \in {0, 1}, NEW armed \in {NotArmed} \cup Nat,
           NEW next \in Offers,
           armed # NotArmed <=> st = 1,
           Kick(st, armed, next)
    PROVE  /\ TxState' \in {0, 1} /\ in1' \in {NotArmed} \cup Nat
           /\ in1' # NotArmed <=> TxState' = 1
BY DeviceAssumption DEF Kick, Offers, NotArmed

\* A device without a class.
Bare ==
    /\ dev_state \in {"DEFAULT", "ADDRESSED"} /\ dev_config # 1
    /\ opened \cap ClassEps = {}
    /\ hcdc = FALSE /\ out1 = FALSE /\ cdc_port_open = FALSE
    /\ TxState = 0 /\ in1 = NotArmed

\* It satisfies ClassInv.
LEMMA BareInv == Bare => ClassInv
<1> SUFFICES ASSUME Bare PROVE ClassInv
  OBVIOUS
<1>1. Awake /\ state = dev_state
  BY DEF Bare, Awake, state
<1>2. DeviceTypes /\ Remembers
  BY <1>1 DEF Bare, DeviceTypes, Remembers
<1>3. (hcdc <=> state = "CONFIGURED") /\ (hcdc <=> dev_config = 1)
  BY <1>1 DEF Bare
<1>4. /\ opened \cap ClassEps = (IF hcdc THEN ClassEps ELSE {})
      /\ out1 = hcdc
  BY DEF Bare
<1>5. (in1 # NotArmed <=> hcdc /\ TxState = 1) /\ (cdc_port_open => hcdc)
  BY DEF Bare
<1> QED
  BY <1>2, <1>3, <1>4, <1>5 DEF ClassInv, ClassIffConfigured

\* A device whose class is set up.
Whole ==
    /\ dev_state \in {"CONFIGURED", "SUSPENDED"} /\ Remembers
    /\ state = "CONFIGURED" /\ dev_config = 1
    /\ opened \cap ClassEps = ClassEps
    /\ hcdc = TRUE /\ out1 = TRUE /\ cdc_port_open \in BOOLEAN
    /\ TxState \in {0, 1} /\ in1 \in {NotArmed} \cup Nat
    /\ in1 # NotArmed <=> TxState = 1

\* It satisfies ClassInv, and so does every device with a class handle.
LEMMA WholeInv == Whole => ClassInv
<1> SUFFICES ASSUME Whole PROVE ClassInv
  OBVIOUS
<1>1. DeviceTypes /\ Remembers
  BY DEF Whole, DeviceTypes
<1>2. (hcdc <=> state = "CONFIGURED") /\ (hcdc <=> dev_config = 1)
  BY DEF Whole
<1>3. /\ opened \cap ClassEps = (IF hcdc THEN ClassEps ELSE {})
      /\ out1 = hcdc
  BY DEF Whole
<1>4. (in1 # NotArmed <=> hcdc /\ TxState = 1) /\ (cdc_port_open => hcdc)
  BY DEF Whole
<1> QED
  BY <1>1, <1>2, <1>3, <1>4 DEF ClassInv, ClassIffConfigured

\* Tearing the class down with its endpoints leaves such a device.
LEMMA TornDown ==
    ASSUME ClassInv, ClassDeInit, opened' \cap ClassEps = {}, dev_config' # 1,
           dev_state' \in {"DEFAULT", "ADDRESSED"}
    PROVE  ClassInv'
<1>1. cdc_port_open' = FALSE
  <2>1. /\ cdc_port_open \in BOOLEAN /\ hcdc \in BOOLEAN
        /\ cdc_port_open => hcdc
    BY DEF ClassInv, DeviceTypes, ClassIffConfigured
  <2> QED
    BY <2>1 DEF ClassDeInit
<1>2. hcdc' = FALSE /\ out1' = FALSE /\ TxState' = 0 /\ in1' = NotArmed
  BY DEF ClassDeInit, BlankHandle
<1>3. Bare'
  BY <1>1, <1>2 DEF Bare
<1>4. Bare' => ClassInv'
  BY BareInv, PTL
<1> QED
  BY <1>3, <1>4

-----------------------------------------------------------------------------
(* One lemma per group of steps *)

\* SET_CONFIGURATION keeps ClassInv.
LEMMA SetConfigStep ==
    ASSUME ClassInv, NEW req \in Requests, SetConfig(req)
    PROVE  ClassInv'
<1>1. CASE CfgIdx(req) > 1 /\ UNCHANGED <<dev_vars, class_vars>>
  BY <1>1, ClassKept DEF dev_vars, class_vars, bulk_vars, lifecycle_vars
<1>2. CASE dev_state = "DEFAULT" /\ ClrClassConfig /\ UNCHANGED dev_vars
  <2>1. dev_config # 1
    BY <1>2 DEF ClassInv, ClassIffConfigured, Awake, state
  <2> QED
    BY <1>2, <2>1, TornDown DEF ClrClassConfig, dev_vars
<1>3. CASE /\ dev_config' = 1 /\ dev_state' = "CONFIGURED"
           /\ ClassInit
  <2>1. Awake' /\ state' = "CONFIGURED" /\ Remembers'
    BY <1>3 DEF Awake, state, Remembers
  <2>2. /\ opened' \cap ClassEps = ClassEps
        /\ hcdc' = TRUE /\ out1' = TRUE /\ cdc_port_open' = FALSE
        /\ TxState' = 0 /\ in1' = NotArmed
    BY <1>3 DEF ClassInit, BlankHandle
  <2>3. /\ TxState' \in {0, 1} /\ in1' \in {NotArmed} \cup Nat
        /\ in1' # NotArmed <=> TxState' = 1
    BY <2>2
  <2>4. cdc_port_open' \in BOOLEAN
    BY <2>2
  <2>5. Whole'
    BY <1>3, <2>1, <2>2, <2>3, <2>4 DEF Whole
  <2>6. Whole' => ClassInv'
    BY WholeInv, PTL
  <2> QED
    BY <2>5, <2>6
<1>4. CASE /\ dev_config' = 0 /\ dev_state' = "ADDRESSED"
           /\ ClrClassConfig
  BY <1>4, TornDown DEF ClrClassConfig
<1>5. CASE AsItIs(CfgIdx(req)) /\ UNCHANGED <<dev_vars, class_vars>>
  BY <1>5, ClassKept DEF dev_vars, class_vars, bulk_vars, lifecycle_vars
<1> QED
  BY <1>1, <1>2, <1>3, <1>4, <1>5, SetConfig(req) DEF SetConfig

\* SET_ADDRESS keeps ClassInv.
LEMMA SetAddressStep ==
    ASSUME ClassInv, NEW req \in Requests, SetAddress(req)
    PROVE  ClassInv'
<1>1. Awake /\ dev_state # "SUSPENDED"
  BY SetAddress(req) DEF SetAddress, Begin, Awake
<1>2. UNCHANGED <<dev_old_state, dev_config, hcdc, opened, out1, in1, TxState,
                  cdc_port_open>>
  BY SetAddress(req) DEF SetAddress, class_vars, bulk_vars
<1>3. CASE ~Configured /\ dev_state' \in {"DEFAULT", "ADDRESSED"}
  BY <1>1, <1>2, <1>3
  DEF ClassInv, DeviceTypes, Remembers, ClassIffConfigured, Awake, state,
      Configured
<1>4. CASE UNCHANGED dev_state
  BY <1>2, <1>4, ClassKept DEF lifecycle_vars
<1> QED
  BY <1>3, <1>4, SetAddress(req) DEF SetAddress

\* SET_CONTROL_LINE_STATE opens and closes the port of an existing class only.
LEMMA ClassNoDataStep ==
    ASSUME ClassInv, NEW req \in Requests, ClassNoData(req)
    PROVE  ClassInv'
<1>1. /\ hcdc
      /\ UNCHANGED <<dev_state, dev_old_state, dev_config, hcdc, opened, out1>>
  BY ClassNoData(req) DEF ClassNoData, ClassRequest, dev_vars
<1>2. /\ TxState' \in {0, 1} /\ in1' \in {NotArmed} \cup Nat
      /\ in1' # NotArmed <=> TxState' = 1
  <2>1. /\ TxState \in {0, 1} /\ in1 \in {NotArmed} \cup Nat
        /\ in1 # NotArmed <=> TxState = 1
    BY <1>1 DEF ClassInv, DeviceTypes, ClassIffConfigured
  <2>2. CASE \E next \in Offers : Kick(TxState, in1, next)
    BY <2>1, <2>2, KickKept
  <2>3. CASE UNCHANGED <<TxState, in1_total, in1>>
    BY <2>1, <2>3
  <2> QED
    BY <2>2, <2>3, ClassNoData(req) DEF ClassNoData
<1>3. cdc_port_open' \in BOOLEAN
  BY ClassNoData(req) DEF ClassNoData, ClassInv, DeviceTypes
<1>4. state' = "CONFIGURED" /\ dev_config' = 1 /\ Remembers'
  BY <1>1 DEF ClassInv, ClassIffConfigured, Remembers, Awake, state
<1>5. /\ opened' \cap ClassEps = ClassEps /\ hcdc' = TRUE /\ out1' = TRUE
      /\ dev_state' \in {"CONFIGURED", "SUSPENDED"}
  BY <1>1 DEF ClassInv, ClassIffConfigured, DeviceTypes, Awake, state
<1>6. Whole'
  BY <1>2, <1>3, <1>4, <1>5 DEF Whole
<1> QED
  BY <1>6, WholeInv, PTL

\* Every SETUP packet keeps ClassInv.
LEMMA SetupStep ==
    ASSUME ClassInv, NEW req \in Requests, SetupStage(req)
    PROVE  ClassInv'
<1> USE DEF dev_vars, class_vars, bulk_vars, lifecycle_vars
<1>1. CASE SetAddress(req)
  BY <1>1, SetAddressStep
<1>2. CASE SetConfig(req)
  BY <1>2, SetConfigStep
<1>3. CASE ClassNoData(req)
  BY <1>3, ClassNoDataStep
<1>4. CASE GetDescriptor(req) \/ GetConfig(req) \/ GetStatus(req)
  BY <1>4, ClassKept DEF GetDescriptor, GetConfig, GetStatus, Reads
<1>5. CASE SetFeature(req) \/ ClrFeature(req)
  BY <1>5, ClassKept DEF SetFeature, ClrFeature
<1>6. CASE SetEPFeature(req) \/ ClearEPFeature(req) \/ GetEPStatus(req)
  BY <1>6, ClassKept DEF SetEPFeature, ClearEPFeature, GetEPStatus, Reads
<1>7. CASE NoHandle(req) \/ ClassIn(req) \/ ClassStandard(req)
  BY <1>7, ClassKept DEF NoHandle, ClassIn, ClassStandard, Reads
<1>8. CASE ClassOut(req)
  BY <1>8, ClassKept DEF ClassOut
<1>9. CASE Refuse(req) \/ RefuseOther(req)
  BY <1>9, ClassKept DEF Refuse, RefuseOther, Reads
<1> QED
  BY <1>1, <1>2, <1>3, <1>4, <1>5, <1>6, <1>7, <1>8, <1>9, SetupStage(req)
  DEF SetupStage

\* The bulk endpoints keep ClassInv.
LEMMA BulkStep ==
    ASSUME ClassInv,
           DataIn \/ DataOut \/ \E len \in Transfers : TransmitPacket(len)
    PROVE  ClassInv'
<1> USE DEF dev_vars, lifecycle_vars
<1>1. CASE DataOut
  BY <1>1
  DEF DataOut, ClassInv, DeviceTypes, Remembers, ClassIffConfigured, Awake,
      state, Configured
<1>2. ASSUME NEW len \in Transfers, TransmitPacket(len) PROVE ClassInv'
  <2>1. len \in Nat \ {0}
    BY DeviceAssumption
  <2> QED
    BY <1>2, <2>1
    DEF TransmitPacket, ClassInv, DeviceTypes, Remembers, ClassIffConfigured,
        Awake, state, NotArmed
<1>3. CASE DataIn
  <2>1. /\ Awake /\ in1 # NotArmed
        /\ UNCHANGED <<dev_state, dev_old_state, dev_config, hcdc, opened,
                       out1, cdc_port_open>>
    BY <1>3 DEF DataIn
  <2>2. hcdc /\ TxState = 1 /\ Configured
    BY <2>1 DEF ClassInv, DeviceTypes, ClassIffConfigured, Awake, state,
                Configured
  <2>3. /\ TxState' \in {0, 1} /\ in1' \in {NotArmed} \cup Nat
        /\ in1' # NotArmed <=> TxState' = 1
    <3>1. CASE in1' = 0 /\ UNCHANGED TxState
      BY <2>2, <3>1 DEF NotArmed
    <3>2. CASE \E next \in Offers : Kick(0, NotArmed, next)
      BY <3>2, KickKept
    <3> QED
      BY <1>3, <2>2, <3>1, <3>2 DEF DataIn
  <2> QED
    BY <2>1, <2>2, <2>3
    DEF ClassInv, DeviceTypes, Remembers, ClassIffConfigured, Awake, state
<1> QED
  BY <1>1, <1>2, <1>3

\* Reset, suspension and resumption keep ClassInv.
LEMMA EventStep ==
    ASSUME ClassInv, Reset \/ Suspend \/ Resume
    PROVE  ClassInv'
<1> USE DEF class_vars, bulk_vars
<1>1. CASE Reset
  <2>1. opened' \cap ClassEps = {}
    BY <1>1
    DEF Reset, Ep0, ClassEps, Ep0Out, Ep0In, BulkOut, BulkIn, CommandIn
  <2> QED
    BY <1>1, <2>1, TornDown DEF Reset
<1>2. CASE Suspend
  BY <1>2 DEF Suspend, ClassInv, DeviceTypes, Remembers, ClassIffConfigured,
              Awake, state
<1>3. CASE Resume
  BY <1>3 DEF Resume, ClassInv, DeviceTypes, Remembers, ClassIffConfigured,
              Awake, state
<1> QED
  BY <1>1, <1>2, <1>3

\* Every step keeps ClassInv.
LEMMA ClassStep ==
    ASSUME ClassInv, [Next]_vars
    PROVE  ClassInv'
<1> USE DEF dev_vars, class_vars, bulk_vars, lifecycle_vars
<1>1. CASE \E req \in Requests : SetupStage(req)
  BY <1>1, SetupStep
<1>2. CASE HostSeesStall \/ InPacket \/ OutPacket \/ OutStatus
  BY <1>2, ClassKept DEF HostSeesStall, InPacket, OutPacket, OutStatus
<1>3. CASE DataIn \/ DataOut \/ \E len \in Transfers : TransmitPacket(len)
  BY <1>3, BulkStep
<1>4. CASE Reset \/ Suspend \/ Resume
  BY <1>4, EventStep
<1>5. CASE UNCHANGED vars
  BY <1>5, ClassKept DEF vars
<1> QED
  BY <1>1, <1>2, <1>3, <1>4, <1>5 DEF Next

\* serial_init establishes ClassInv.
LEMMA ClassFirst == Init => ClassInv
<1>1. Init => Bare
  BY DEF Init, Started, Bare
<1> QED
  BY <1>1, BareInv

\* The class handle, the bulk endpoints and an open port exist exactly while
\* the device is configured, suspended or not, and the IN endpoint is armed
\* exactly while TxState is busy: whatever the host sends in whatever order
\* (usbd_ctlreq.c:723-811, usbd_cdc.c:287-424, usbd_core.c:771-881).
THEOREM ClassLifecycle == Spec => []ClassIffConfigured
<1>1. Init => ClassInv
  BY ClassFirst
<1>2. ClassInv /\ [Next]_vars => ClassInv'
  BY ClassStep
<1>3. ClassInv => ClassIffConfigured
  BY DEF ClassInv
<1> QED
  BY <1>1, <1>2, <1>3, PTL DEF Spec

-----------------------------------------------------------------------------
(* The states of chapter 9 *)

\* A step that leaves the state of the device alone is a stutter.
LEMMA StateKept ==
    ASSUME UNCHANGED <<dev_state, dev_old_state, address>>
    PROVE  UNCHANGED Chapter9!vars
BY DEF Chapter9!vars, state, Awake

\* The device is in no state the host has not led it to, while awake.
LEMMA RequestRefines ==
    ASSUME NEW req \in Requests, SetAddress(req) \/ SetConfig(req)
    PROVE  [Chapter9!Next]_Chapter9!vars
<1>1. Awake /\ state = dev_state
  BY DEF SetAddress, SetConfig, Begin, Awake, state
<1>2. CASE UNCHANGED dev_vars
  BY <1>2, StateKept DEF dev_vars
<1>3. CASE SetAddress(req) /\ UNCHANGED <<dev_state, address>>
  BY <1>3, StateKept DEF SetAddress
<1>4. CASE /\ SetAddress(req) /\ req.value < 128 /\ ~Configured
           /\ address' = req.value
           /\ dev_state' = IF req.value # 0 THEN "ADDRESSED" ELSE "DEFAULT"
  <2>1. req.value \in 0..127
    <3>1. req \in RequestType
      BY RequestAssumption
    <3>2. req.value \in 0..MaxWord
      BY <3>1 DEF RequestType
    <3> QED
      BY <1>4, <3>2
  <2>2. state' = dev_state' /\ Awake'
    BY <1>4 DEF Awake, state
  <2>3. Chapter9!SetAddress(req.value)
    BY <1>1, <1>4, <2>2 DEF Chapter9!SetAddress, Configured
  <2> QED
    BY <2>1, <2>3 DEF Chapter9!Next
<1>5. CASE /\ dev_state = "ADDRESSED" /\ dev_state' = "CONFIGURED"
           /\ UNCHANGED address
  <2>1. Chapter9!Configure
    BY <1>1, <1>5 DEF Chapter9!Configure, Awake, state
  <2> QED
    BY <2>1 DEF Chapter9!Next
<1>6. CASE /\ dev_state = "CONFIGURED" /\ dev_state' = "ADDRESSED"
           /\ UNCHANGED address
  <2>1. Chapter9!Unconfigure
    BY <1>1, <1>6 DEF Chapter9!Unconfigure, Awake, state
  <2> QED
    BY <2>1 DEF Chapter9!Next
<1>7. CASE SetAddress(req)
  BY <1>3, <1>4, <1>7 DEF SetAddress
<1>8. CASE SetConfig(req)
  BY <1>2, <1>5, <1>6, <1>8 DEF SetConfig
<1> QED
  BY <1>7, <1>8

\* Every step maps to a step of chapter 9 or a stutter.
LEMMA StateStep ==
    ASSUME ClassInv, [Next]_vars
    PROVE  [Chapter9!Next]_Chapter9!vars
<1> USE DEF dev_vars
<1>1. ASSUME NEW req \in Requests, SetupStage(req)
      PROVE  [Chapter9!Next]_Chapter9!vars
  <2>1. CASE SetAddress(req) \/ SetConfig(req)
    BY <2>1, RequestRefines
  <2>2. CASE \/ GetDescriptor(req) \/ GetConfig(req) \/ GetStatus(req)
             \/ SetFeature(req) \/ ClrFeature(req)
    BY <2>2, StateKept
    DEF GetDescriptor, GetConfig, GetStatus, SetFeature, ClrFeature, Reads
  <2>3. CASE SetEPFeature(req) \/ ClearEPFeature(req) \/ GetEPStatus(req)
    BY <2>3, StateKept DEF SetEPFeature, ClearEPFeature, GetEPStatus, Reads
  <2>4. CASE \/ NoHandle(req) \/ ClassIn(req) \/ ClassOut(req)
             \/ ClassNoData(req) \/ ClassStandard(req)
    BY <2>4, StateKept
    DEF NoHandle, ClassIn, ClassOut, ClassNoData, ClassStandard, Reads
  <2>5. CASE Refuse(req) \/ RefuseOther(req)
    BY <2>5, StateKept DEF Refuse, RefuseOther, Reads
  <2> QED
    BY <1>1, <2>1, <2>2, <2>3, <2>4, <2>5 DEF SetupStage
<1>2. CASE HostSeesStall \/ InPacket \/ OutPacket \/ OutStatus
  BY <1>2, StateKept DEF HostSeesStall, InPacket, OutPacket, OutStatus
<1>3. CASE DataIn \/ DataOut \/ \E len \in Transfers : TransmitPacket(len)
  BY <1>3, StateKept DEF DataIn, DataOut, TransmitPacket
<1>4. CASE Reset
  <2>1. Chapter9!BusReset
    BY <1>4 DEF Reset, Chapter9!BusReset, Awake, state
  <2> QED
    BY <2>1 DEF Chapter9!Next
<1>5. CASE Suspend
  <2>1. Chapter9!Suspend
    BY <1>5 DEF Suspend, Chapter9!Suspend, Awake, state
  <2> QED
    BY <2>1 DEF Chapter9!Next
<1>6. CASE Resume
  <2>1. ~Awake /\ state = dev_old_state
    BY <1>6 DEF Resume, Awake, state
  <2>2. dev_state' = dev_old_state /\ dev_old_state # "SUSPENDED"
    BY <1>6, <2>1 DEF Resume, ClassInv, Remembers
  <2>3. Awake' /\ state' = state
    BY <2>1, <2>2 DEF Awake, state
  <2>4. Chapter9!Resume
    BY <1>6, <2>3 DEF Resume, Chapter9!Resume
  <2> QED
    BY <2>4 DEF Chapter9!Next
<1>7. CASE UNCHANGED vars
  BY <1>7, StateKept DEF vars
<1> QED
  BY <1>1, <1>2, <1>3, <1>4, <1>5, <1>6, <1>7 DEF Next

\* The device implements the states of chapter 9: no request in any order, no
\* reset and no suspension brings it to a state or an address the host has not
\* led it to (usbd_ctlreq.c:682-811, usbd_core.c:771-881).
THEOREM Refines == Spec => IsUsbStates
<1>1. Init => Chapter9!Init
  BY DEF Init, Started, Chapter9!Init, state, Awake
<1>2. ClassInv /\ [Next]_vars => [Chapter9!Next]_Chapter9!vars
  BY StateStep
<1>3. Init => ClassInv
  BY ClassFirst
<1>4. ClassInv /\ [Next]_vars => ClassInv'
  BY ClassStep
<1> QED
  BY <1>1, <1>2, <1>3, <1>4, PTL DEF Spec, IsUsbStates, Chapter9!Spec

-----------------------------------------------------------------------------
(* Bulk transfers *)

\* The IN endpoint is armed with the transfer the class takes to be under way.
TotalInv == in1 > 0 => in1_total = in1

\* A step that starts no transfer, nor ends one, keeps TotalInv.
LEMMA TotalKept ==
    ASSUME TotalInv, UNCHANGED <<in1, in1_total>>
    PROVE  TotalInv'
BY DEF TotalInv

\* A call of CDC_KickTransmit_FS starts a transfer only if none is armed.
LEMMA KickTotal ==
    ASSUME ClassInv, TotalInv,
           NEW st, NEW armed, NEW next \in Offers,
           \/ st = TxState /\ armed = in1 /\ (in1 # NotArmed <=> TxState = 1)
           \/ st = 0 /\ armed = NotArmed,
           Kick(st, armed, next)
    PROVE  TotalInv' /\ (armed > 0 => in1' = armed)
<1>1. CASE st = 0
  BY <1>1, DeviceAssumption
  DEF Kick, Offers, TotalInv, ClassInv, DeviceTypes, NotArmed
<1>2. CASE st # 0
  BY <1>2 DEF Kick, TotalInv
<1> QED
  BY <1>1, <1>2

\* What a step does to a transfer under way.
LEMMA BulkTransfer ==
    ASSUME ClassInv, TotalInv, [Next]_vars
    PROVE  /\ TotalInv'
           /\ \/ in1' = in1
              \/ ~(in1 > 0)
              \/ ~hcdc'
              \/ DataIn
<1> USE DEF class_vars, bulk_vars
<1>1. ASSUME NEW req \in Requests, SetupStage(req)
      PROVE  TotalInv' /\ (in1' = in1 \/ ~(in1 > 0) \/ ~hcdc')
  <2>1. CASE UNCHANGED <<in1, in1_total>>
    BY <2>1, TotalKept
  <2>2. CASE SetConfig(req)
    <3>1. CASE ClassInit /\ dev_state = "ADDRESSED"
      BY <3>1
      DEF ClassInit, ClassInv, ClassIffConfigured, Awake, state, TotalInv,
          NotArmed
    <3>2. CASE ClrClassConfig
      BY <3>2 DEF ClrClassConfig, ClassDeInit, TotalInv, NotArmed
    <3> QED
      BY <2>1, <2>2, <3>1, <3>2 DEF SetConfig
  <2>3. CASE ClassNoData(req)
    <3>1. in1 # NotArmed <=> TxState = 1
      BY <2>3
      DEF ClassNoData, ClassRequest, ClassInv, ClassIffConfigured
    <3>2. CASE \E next \in Offers : Kick(TxState, in1, next)
      BY <3>1, <3>2, KickTotal
    <3> QED
      BY <2>1, <2>3, <3>2 DEF ClassNoData
  <2>4. CASE \/ SetAddress(req) \/ GetDescriptor(req) \/ GetConfig(req)
             \/ GetStatus(req) \/ SetFeature(req) \/ ClrFeature(req)
    BY <2>1, <2>4
    DEF SetAddress, GetDescriptor, GetConfig, GetStatus, SetFeature,
        ClrFeature, Reads
  <2>5. CASE SetEPFeature(req) \/ ClearEPFeature(req) \/ GetEPStatus(req)
    BY <2>1, <2>5 DEF SetEPFeature, ClearEPFeature, GetEPStatus, Reads
  <2>6. CASE \/ NoHandle(req) \/ ClassIn(req) \/ ClassStandard(req)
             \/ ClassOut(req) \/ Refuse(req) \/ RefuseOther(req)
    BY <2>1, <2>6
    DEF NoHandle, ClassIn, ClassStandard, ClassOut, Refuse, RefuseOther, Reads
  <2> QED
    BY <1>1, <2>2, <2>3, <2>4, <2>5, <2>6 DEF SetupStage
<1>2. CASE HostSeesStall \/ InPacket \/ OutPacket \/ OutStatus \/ DataOut
  BY <1>2, TotalKept DEF HostSeesStall, InPacket, OutPacket, OutStatus, DataOut
<1>3. CASE \E len \in Transfers : TransmitPacket(len)
  BY <1>3
  DEF TransmitPacket, TotalInv, ClassInv, ClassIffConfigured, NotArmed
<1>4. CASE DataIn
  <2>1. hcdc /\ Configured
    BY <1>4 DEF DataIn, ClassInv, DeviceTypes, ClassIffConfigured, Awake,
                state, Configured
  <2>2. CASE in1' = 0
    BY <1>4, <2>2 DEF TotalInv
  <2>3. CASE \E next \in Offers : Kick(0, NotArmed, next)
    BY <1>4, <2>3, KickTotal
  <2> QED
    BY <1>4, <2>1, <2>2, <2>3 DEF DataIn
<1>5. CASE Reset
  BY <1>5 DEF Reset, ClassDeInit, TotalInv, NotArmed
<1>6. CASE Suspend \/ Resume \/ UNCHANGED vars
  BY <1>6, TotalKept DEF Suspend, Resume, vars
<1> QED
  BY <1>1, <1>2, <1>3, <1>4, <1>5, <1>6 DEF Next

\* A transfer that fills its last packet is ended by an empty one, in any
\* order of transfers, requests and bus events that leaves the class
\* configured (usbd_cdc.c:536-568).
THEOREM EmptyPacketEnds == Spec => ShortPacketEnds
<1>1. Init => ClassInv /\ TotalInv
  BY ClassFirst DEF Init, Started, TotalInv, NotArmed
<1>2. ClassInv /\ TotalInv /\ [Next]_vars => ClassInv' /\ TotalInv'
  BY ClassStep, BulkTransfer
<1>3. ClassInv /\ TotalInv /\ [Next]_vars
        => [/\ in1' # in1 /\ in1 > 0 /\ in1 % MaxPacket = 0 /\ hcdc'
            => in1' = 0]_in1
  <2> SUFFICES ASSUME ClassInv, TotalInv, [Next]_vars, in1' # in1, in1 > 0,
                      in1 % MaxPacket = 0, hcdc'
               PROVE  in1' = 0
    OBVIOUS
  <2>1. DataIn
    BY BulkTransfer
  <2>2. hcdc /\ Configured
    BY <2>1 DEF DataIn, ClassInv, DeviceTypes, ClassIffConfigured, Awake,
                state, Configured
  <2> QED
    BY <2>1, <2>2 DEF DataIn, TotalInv
<1> QED
  BY <1>1, <1>2, <1>3, PTL DEF Spec, ShortPacketEnds

-----------------------------------------------------------------------------
(* The control pipe: what its helpers leave in it *)

\* The fields of a request.
LEMMA RequestFields ==
    ASSUME NEW req \in Requests
    PROVE  req.len \in Nat /\ req.value \in Nat /\ req.index \in Nat
<1>1. req \in RequestType
  BY RequestAssumption
<1>2. /\ req.len \in 0..MaxWord /\ req.value \in 0..MaxWord
      /\ req.index \in 0..255
  BY <1>1 DEF RequestType
<1> QED
  BY <1>2

\* The IN side is armed with a packet.
LEMMA TransmitIs ==
    ASSUME NEW e \in Ep0Type, NEW len \in Nat
    PROVE  LET f == LL_Transmit(e, len) IN
           /\ f \in Ep0Type /\ f.in = Least(len, MaxPacket)
           /\ f.in \in Nat /\ f.in <= MaxPacket
           /\ f.state = e.state /\ f.data_len = e.data_len
           /\ f.total = e.total /\ f.rem = e.rem /\ f.item = e.item
           /\ f.out = e.out /\ f.stall = e.stall
<1>1. Least(len, MaxPacket) \in Nat /\ Least(len, MaxPacket) <= MaxPacket
  BY DeviceAssumption DEF Least
<1> QED
  BY <1>1 DEF LL_Transmit, Ep0Type

\* The control pipe while the handler of a SETUP packet has not answered.
LEMMA ParsedIs ==
    ASSUME NEW req \in Requests
    PROVE  LET e == Parsed(req) IN
           /\ e \in Ep0Type /\ e.rem >= 0 /\ e.in <= MaxPacket
           /\ e.data_len = req.len
           /\ e.in = NotArmed /\ ~e.out /\ e.stall = {}
<1> DEFINE e == Parsed(req)
<1>1. BlankEp0 \in Ep0Type
  <2>1. Junk \in Items
    BY DEF Items
  <2> QED
    BY <2>1 DEF BlankEp0, Ep0Type, NotArmed
<1>2. e \in Ep0Type
  BY <1>1, RequestFields DEF Parsed, Ep0Type
<1>3. /\ e.rem = 0 /\ e.data_len = req.len
      /\ e.in = NotArmed /\ ~e.out /\ e.stall = {}
  BY DEF Parsed, BlankEp0
<1> QED
  BY <1>2, <1>3, DeviceAssumption DEF NotArmed

\* An answer is begun.
LEMMA SendDataIs ==
    ASSUME NEW req \in Requests, NEW item \in Items, NEW len \in Nat
    PROVE  LET e == CtlSendData(Parsed(req), item, len) IN
           /\ e \in Ep0Type /\ e.rem >= 0 /\ e.in <= MaxPacket
           /\ e.state = "DATA_IN" /\ e.data_len = req.len
           /\ e.total = len /\ e.rem = len
           /\ e.in = Least(len, MaxPacket) /\ e.item = item
           /\ ~e.out /\ e.stall = {}
<1> DEFINE p == Parsed(req)
           g == [p EXCEPT !.state = "DATA_IN", !.total = len, !.rem = len,
                          !.item = item]
<1>1. p \in Ep0Type /\ p.data_len = req.len /\ ~p.out /\ p.stall = {}
  BY ParsedIs
<1>2. CtlSendData(p, item, len) = LL_Transmit(g, len)
  BY DEF CtlSendData
<1> HIDE DEF p
<1>3. g \in Ep0Type
  <2>1. len \in Int
    OBVIOUS
  <2> QED
    BY <1>1, <2>1 DEF Ep0Type
<1>4. /\ g.state = "DATA_IN" /\ g.data_len = req.len
      /\ g.total = len /\ g.rem = len /\ g.item = item
      /\ ~g.out /\ g.stall = {}
  BY <1>1 DEF Ep0Type
<1> HIDE DEF g
<1>5. /\ LL_Transmit(g, len) \in Ep0Type
      /\ LET f == LL_Transmit(g, len) IN
         /\ f.rem = len /\ f.in <= MaxPacket
         /\ f.state = "DATA_IN" /\ f.data_len = req.len /\ f.total = len
         /\ f.in = Least(len, MaxPacket) /\ f.item = item
         /\ ~f.out /\ f.stall = {}
  BY <1>3, <1>4, TransmitIs
<1> QED
  BY <1>2, <1>5 DEF p

\* A request is acknowledged.
LEMMA SendStatusIs ==
    ASSUME NEW e \in Ep0Type
    PROVE  LET f == CtlSendStatus(e) IN
           /\ f \in Ep0Type /\ f.rem = e.rem /\ f.in <= MaxPacket
           /\ f.state = "STATUS_IN" /\ f.in = 0
           /\ f.out = e.out /\ f.stall = e.stall
<1> DEFINE g == [e EXCEPT !.state = "STATUS_IN"]
<1>1. /\ g \in Ep0Type /\ g.state = "STATUS_IN" /\ g.rem = e.rem
      /\ g.out = e.out /\ g.stall = e.stall
  BY DEF Ep0Type
<1>2. CtlSendStatus(e) = LL_Transmit(g, 0)
  BY DEF CtlSendStatus
<1>3. Least(0, MaxPacket) = 0
  BY DeviceAssumption DEF Least
<1> HIDE DEF g
<1> QED
  BY <1>1, <1>2, <1>3, TransmitIs

\* One side of endpoint 0 stalls.
LEMMA StallIs ==
    ASSUME NEW e \in Ep0Type, NEW ep \in Ep0
    PROVE  LET f == LL_StallEP(e, ep) IN
           /\ f \in Ep0Type /\ f.rem = e.rem
           /\ f.in = e.in /\ f.out = e.out
           /\ f.stall = e.stall \cup {ep}
BY DEF LL_StallEP, Ep0Type

\* A request is refused: both sides stall.
LEMMA ErrorIs ==
    ASSUME NEW e \in Ep0Type
    PROVE  LET f == CtlError(e) IN
           /\ f \in Ep0Type /\ f.rem = e.rem
           /\ f.in = e.in /\ f.out = e.out
           /\ f.stall = e.stall \cup Ep0
<1> DEFINE g == LL_StallEP(e, Ep0In)
<1>1. g \in Ep0Type /\ g.rem = e.rem /\ g.in = e.in /\ g.out = e.out
      /\ g.stall = e.stall \cup {Ep0In}
  BY StallIs DEF Ep0
<1> HIDE DEF g
<1>2. CtlError(e) = LL_StallEP(g, Ep0Out)
  BY DEF CtlError, g
<1> QED
  BY <1>1, <1>2, StallIs DEF Ep0

\* The data of a request is waited for.
LEMMA PrepareRxIs ==
    ASSUME NEW req \in Requests, NEW len \in Nat
    PROVE  LET e == CtlPrepareRx(Parsed(req), len) IN
           /\ e \in Ep0Type /\ e.rem >= 0 /\ e.in <= MaxPacket
           /\ e.in = NotArmed /\ e.out /\ e.stall = {}
<1> DEFINE p == Parsed(req)
<1>1. /\ p \in Ep0Type /\ p.rem >= 0 /\ p.in <= MaxPacket
      /\ p.in = NotArmed /\ p.stall = {}
  BY ParsedIs
<1> HIDE DEF p
<1>2. LET e == CtlPrepareRx(p, len) IN
      /\ e \in Ep0Type /\ e.rem = p.rem /\ e.in = p.in /\ e.out
      /\ e.stall = p.stall
  BY <1>1 DEF CtlPrepareRx, LL_PrepareReceive, Ep0Type
<1> QED
  BY <1>1, <1>2 DEF p

-----------------------------------------------------------------------------
(* The control pipe: the stages of a transfer.  PipeInv says how endpoint  *)
(* 0 and the transfer the host has begun go together at every stage.       *)

\* requests whose answer Answer knows
Known(req) ==
    \/ req.code \in {"GET_DESCRIPTOR", "GET_CONFIGURATION", "GET_LINE_CODING"}
    \/ req.code = "GET_STATUS" /\ req.rcpt \in {"device", "endpoint"}

\* The item is the one asked for, and n bytes are as many as the host gets.
Right(req, item, n) ==
    Known(req) => /\ item = Answer(req)[1]
                  /\ n = Least(Answer(req)[2], req.len)

\* What the request sets is set.
Effects(req) ==
    /\ req.code = "SET_ADDRESS" => address = req.value
    /\ req.code = "SET_CONFIGURATION" =>
          dev_config = req.value /\ (hcdc <=> req.value = 1)
    /\ req.code = "SET_CONTROL_LINE_STATE" =>
          cdc_port_open = (req.value % 2 = 1)
    /\ req.rcpt = "endpoint" /\ req.value = HALT /\ req.index \notin Ep0 =>
          /\ req.code = "SET_FEATURE" => req.index \in halted
          /\ req.code = "CLEAR_FEATURE" => req.index \notin halted

\* The handler has refused the request, or ignores it.
Unanswered ==
    /\ xfer.phase \in {"data", "status"} /\ xfer.got = 0
    /\ ep0.in = NotArmed /\ ~ep0.out
    /\ ~Ignored(xfer.req) => /\ Reading => Ep0In \in ep0.stall
                             /\ Writing => Ep0Out \in ep0.stall

\* The class waits for the data of a command.
Receiving ==
    /\ xfer.phase = "data" /\ xfer.req.dir = "out" /\ xfer.req.len > 0
    /\ ep0.in = NotArmed /\ ep0.out /\ ep0.stall = {}
    /\ hcdc /\ CmdOpCode = xfer.req.code /\ CmdLength = xfer.req.len

\* The device acknowledges what it has carried out.
Acknowledging ==
    /\ xfer.phase = "status" /\ (xfer.req.dir = "out" \/ xfer.req.len = 0)
    /\ ep0.state = "STATUS_IN"
    /\ ep0.in = 0 /\ ep0.stall = {}
    /\ Effects(xfer.req)

\* A packet of the answer is armed, the empty one after it included.
Answering ==
    /\ xfer.phase = "data" /\ xfer.req.dir = "in" /\ xfer.req.len > 0
    /\ ep0.state = "DATA_IN" /\ ep0.stall = {}
    /\ ep0.total <= xfer.req.len
    /\ \/ /\ ep0.data_len = xfer.req.len
          /\ ep0.in = Least(ep0.rem, MaxPacket)
          /\ xfer.got + ep0.rem = ep0.total
       \/ /\ ep0.data_len = 0 /\ ep0.rem <= MaxPacket
          /\ ep0.in = 0 /\ xfer.got = ep0.total
    /\ Right(xfer.req, ep0.item, ep0.total)

\* The host has the answer, and the device waits for its acknowledgement.
Acknowledged ==
    /\ xfer.phase = "status" /\ xfer.req.dir = "in" /\ xfer.req.len > 0
    /\ ep0.out /\ Ep0Out \notin ep0.stall
    /\ xfer.got <= xfer.req.len
    /\ Right(xfer.req, xfer.item, xfer.got)

\* The transfer is over, or there is none.
Over ==
    \/ xfer.phase = "none"
    \/ xfer.phase = "stalled" /\ xfer.got = 0
    \/ /\ xfer.phase = "ok"
       /\ xfer.req.dir = "in" /\ xfer.req.len > 0 =>
             xfer.got <= xfer.req.len /\ Right(xfer.req, xfer.item, xfer.got)
       /\ Effects(xfer.req)

Stage ==
    \/ Unanswered \/ Receiving \/ Acknowledging \/ Answering \/ Acknowledged
    \/ Over

PipeInv == TypeOK /\ Stage /\ LineCoding = told

-----------------------------------------------------------------------------
(* Types, and which variables a stage depends on *)

\* The items of answers.
LEMMA ItemTypes ==
    /\ Junk \in Items
    /\ \A n \in Nat : <<"descriptor", n>> \in Items
    /\ \A n \in {0, 1} : <<"config", n>> \in Items
    /\ \A b \in BOOLEAN : <<"wakeup", b>> \in Items /\ <<"halt", b>> \in Items
    /\ \A c \in Codings : <<"coding", c>> \in Items
BY DEF Items

\* the part of TypeOK that is about neither endpoint 0 nor the host
RestOK ==
    /\ dev_state \in {"DEFAULT", "ADDRESSED", "CONFIGURED", "SUSPENDED"}
    /\ dev_old_state \in {"none", "DEFAULT", "ADDRESSED", "CONFIGURED"}
    /\ dev_config \in {0, 1} /\ dev_remote_wakeup \in BOOLEAN
    /\ address \in 0..127
    /\ hcdc \in BOOLEAN /\ cdc_port_open \in BOOLEAN
    /\ CmdLength \in 0..MaxPacket
    /\ TxState \in {0, 1} /\ in1_total \in Offers
    /\ in1 \in {NotArmed} \cup Offers /\ out1 \in BOOLEAN
    /\ LineCoding \in Codings /\ told \in Codings
    /\ opened \subseteq Ep0 \cup ClassEps

Ep0OK == ep0 \in Ep0Type /\ ep0.rem >= 0 /\ ep0.in <= MaxPacket

\* TypeOK is the sum of its parts.
LEMMA TypeParts == TypeOK <=> RestOK /\ Ep0OK /\ xfer \in TransferType
BY DEF TypeOK, RestOK, Ep0OK

\* RestOK depends on the variables it names.
LEMMA RestKept ==
    ASSUME RestOK,
           UNCHANGED <<dev_vars, class_vars, LineCoding, told>>
    PROVE  RestOK'
BY DEF RestOK, dev_vars, class_vars, cmd_vars, bulk_vars

\* A transfer that is under way or was.
LEMMA TransferFields ==
    ASSUME xfer \in TransferType, xfer.phase # "none"
    PROVE  /\ xfer \in [phase : {"data", "status", "ok", "stalled"},
                        req : Requests, got : Nat, item : Items]
           /\ xfer.req \in Requests /\ xfer.got \in Nat
           /\ xfer.req.len \in Nat
           /\ xfer.phase \in {"data", "status", "ok", "stalled"}
<1>1. xfer # NoTransfer
  BY DEF NoTransfer
<1>2. xfer \in [phase : {"data", "status", "ok", "stalled"},
                req : Requests, got : Nat, item : Items]
  BY <1>1 DEF TransferType
<1>3. xfer.req \in Requests
  BY <1>2
<1> QED
  BY <1>2, <1>3, RequestFields

\* A change of phase, or of bytes and item, leaves a transfer.
LEMMA TransferKept ==
    ASSUME xfer \in TransferType, xfer.phase # "none",
           NEW p \in {"data", "status", "ok", "stalled"},
           NEW n \in Nat, NEW item \in Items
    PROVE  /\ [xfer EXCEPT !.phase = p] \in TransferType
           /\ [xfer EXCEPT !.got = n, !.phase = p] \in TransferType
           /\ [xfer EXCEPT !.got = n, !.item = item, !.phase = p]
                 \in TransferType
BY TransferFields DEF TransferType

\* what the stages depend on
stage_vars ==
    <<ep0, xfer, hcdc, state, CmdOpCode, CmdLength, dev_config,
      dev_remote_wakeup, address, cdc_port_open, halted, told>>

\* A step that leaves those variables alone leaves the stage.
LEMMA StageKept ==
    ASSUME Stage, UNCHANGED stage_vars
    PROVE  Stage'
<1> USE DEF stage_vars
<1>1. Ignored(xfer.req)' <=> Ignored(xfer.req)
  BY DEF Ignored, ToClass
<1>2. Effects(xfer.req)' <=> Effects(xfer.req)
  BY DEF Effects
<1>3. Answer(xfer.req)' = Answer(xfer.req)
  BY DEF Answer
<1>4. /\ Right(xfer.req, ep0.item, ep0.total)'
           <=> Right(xfer.req, ep0.item, ep0.total)
      /\ Right(xfer.req, xfer.item, xfer.got)'
           <=> Right(xfer.req, xfer.item, xfer.got)
  BY <1>3 DEF Right, Known
<1>5. CASE Unanswered
  BY <1>1, <1>5 DEF Unanswered, Stage, Reading, Writing
<1>6. CASE Receiving
  BY <1>6 DEF Receiving, Stage
<1>7. CASE Acknowledging
  BY <1>2, <1>7 DEF Acknowledging, Stage
<1>8. CASE Answering
  BY <1>4, <1>8 DEF Answering, Stage
<1>9. CASE Acknowledged
  BY <1>4, <1>9 DEF Acknowledged, Stage
<1>10. CASE Over
  BY <1>2, <1>4, <1>10 DEF Over, Stage
<1> QED
  BY <1>5, <1>6, <1>7, <1>8, <1>9, <1>10 DEF Stage

-----------------------------------------------------------------------------
(* SETUP packets *)

\* A SETUP packet begins a transfer.
LEMMA Begun ==
    ASSUME NEW req \in Requests, Begin(req)
    PROVE  /\ xfer' \in TransferType
           /\ xfer'.phase = (IF req.len > 0 THEN "data" ELSE "status")
           /\ xfer'.req = req /\ xfer'.got = 0
           /\ told' = told
<1>1. Junk \in Items
  BY ItemTypes
<1> QED
  BY <1>1 DEF Begin, TransferType

\* Which way the host turns first.
LEMMA Turns ==
    ASSUME NEW req \in Requests, Begin(req)
    PROVE  /\ Reading' <=> req.dir = "in" \/ req.len = 0
           /\ Writing' <=> req.dir = "out" /\ req.len > 0
<1>1. req \in RequestType
  BY RequestAssumption
<1>2. req.dir \in {"in", "out"} /\ req.len \in Nat
  BY <1>1, RequestFields DEF RequestType
<1> QED
  BY <1>2, Begun DEF Reading, Writing

\* The handler refuses the request on both sides.
LEMMA Refused ==
    ASSUME NEW req \in Requests, Begin(req), ep0' = CtlError(Parsed(req))
    PROVE  Ep0OK' /\ Stage'
<1>1. /\ Ep0OK'
      /\ ep0'.in = NotArmed /\ ~ep0'.out /\ ep0'.stall = Ep0
  BY ParsedIs, ErrorIs DEF Ep0OK
<1>2. Unanswered'
  BY <1>1, Begun DEF Unanswered, Ep0
<1> QED
  BY <1>1, <1>2 DEF Stage

\* The handler refuses it on the side the host turns to.
LEMMA RefusedOneSide ==
    ASSUME NEW req \in Requests, Begin(req), NEW ep \in Ep0,
           ep0' = LL_StallEP(Parsed(req), ep),
           Ignored(req)' \/ ep = IF req.dir = "in" \/ req.len = 0
                                 THEN Ep0In ELSE Ep0Out
    PROVE  Ep0OK' /\ Stage'
<1>1. /\ Ep0OK'
      /\ ep0'.in = NotArmed /\ ~ep0'.out /\ ep0'.stall = {ep}
  BY ParsedIs, StallIs DEF Ep0OK
<1>2. Ignored(xfer.req)' <=> Ignored(req)'
  BY Begun DEF Ignored, ToClass
<1>3. Unanswered'
  BY <1>1, <1>2, Begun, Turns, RequestFields DEF Unanswered
<1> QED
  BY <1>1, <1>3 DEF Stage

\* The handler ignores it.
LEMMA Dropped ==
    ASSUME NEW req \in Requests, Begin(req), ep0' = Parsed(req),
           Ignored(req)'
    PROVE  Ep0OK' /\ Stage'
<1>1. /\ Ep0OK'
      /\ ep0'.in = NotArmed /\ ~ep0'.out
  BY ParsedIs DEF Ep0OK
<1>2. Ignored(xfer.req)'
  BY Begun DEF Ignored, ToClass
<1>3. Unanswered'
  BY <1>1, <1>2, Begun DEF Unanswered
<1> QED
  BY <1>1, <1>3 DEF Stage

\* The handler has carried out a request without data.
LEMMA CarriedOut ==
    ASSUME NEW req \in Requests, Begin(req), req.len = 0,
           ep0' = CtlSendStatus(Parsed(req)), Effects(req)'
    PROVE  Ep0OK' /\ Stage'
<1>1. /\ Ep0OK'
      /\ ep0'.in = 0 /\ ep0'.state = "STATUS_IN" /\ ep0'.stall = {}
  BY ParsedIs, SendStatusIs DEF Ep0OK
<1>2. Effects(xfer.req)'
  BY Begun DEF Effects
<1>3. Acknowledging'
  BY <1>1, <1>2, Begun DEF Acknowledging
<1> QED
  BY <1>1, <1>3 DEF Stage

\* The handler answers.
LEMMA Answered ==
    ASSUME NEW req \in Requests, Begin(req), req.dir = "in", req.len > 0,
           NEW item \in Items, NEW len \in Nat, len <= req.len,
           ep0' = CtlSendData(Parsed(req), item, len),
           Right(req, item, len)'
    PROVE  Ep0OK' /\ Stage'
<1>1. /\ Ep0OK'
      /\ ep0'.state = "DATA_IN" /\ ep0'.data_len = req.len
      /\ ep0'.total = len /\ ep0'.rem = len
      /\ ep0'.in = Least(len, MaxPacket) /\ ep0'.item = item
      /\ ep0'.stall = {}
  BY SendDataIs DEF Ep0OK
<1>2. Right(xfer.req, ep0.item, ep0.total)'
  <2>1. Known(req) => Answer(xfer.req)' = Answer(req)'
    BY Begun DEF Answer, Known
  <2> QED
    BY <1>1, <2>1, Begun DEF Right, Known
<1>3. Answering'
  BY <1>1, <1>2, Begun DEF Answering
<1> QED
  BY <1>1, <1>3 DEF Stage

\* The handler waits for data.
LEMMA WaitsForData ==
    ASSUME NEW req \in Requests, Begin(req), req.dir = "out", req.len > 0,
           NEW len \in Nat, ep0' = CtlPrepareRx(Parsed(req), len),
           hcdc', CmdOpCode' = req.code, CmdLength' = req.len
    PROVE  Ep0OK' /\ Stage'
<1>1. /\ Ep0OK'
      /\ ep0'.in = NotArmed /\ ep0'.out /\ ep0'.stall = {}
  BY PrepareRxIs DEF Ep0OK
<1>2. Receiving'
  BY <1>1, Begun DEF Receiving
<1> QED
  BY <1>1, <1>2 DEF Stage

\* What is left to show of a SETUP packet.
LEMMA SetupDone ==
    ASSUME PipeInv, NEW req \in Requests, Begin(req),
           RestOK', Ep0OK' /\ Stage', LineCoding' = LineCoding
    PROVE  PipeInv'
<1>1. TypeOK'
  BY Begun DEF TypeOK, RestOK, Ep0OK
<1> QED
  BY <1>1, Begun DEF PipeInv

\* Requests that only read keep the types.
LEMMA ReadsOK ==
    ASSUME PipeInv, NEW req \in Requests, Begin(req), Reads
    PROVE  RestOK' /\ LineCoding' = LineCoding
BY RestKept, TypeParts, Begun DEF PipeInv, Reads

\* The length of a descriptor (usbd_ctlreq.c:428-674).
LEMMA DescriptorLengthNat ==
    ASSUME NEW value \in Nat
    PROVE  DescriptorLength(value) \in Nat
<1>1. ASSUME NEW i \in DOMAIN Chars PROVE StringLength(i) \in Nat
  <2>1. Chars[i] \in Nat
    BY DeviceAssumption
  <2> QED
    BY <2>1 DEF StringLength, Least
<1> QED
  BY <1>1 DEF DescriptorLength

\* The least of two lengths.
LEMMA LeastNat ==
    ASSUME NEW a \in Nat, NEW b \in Nat
    PROVE  Least(a, b) \in Nat /\ Least(a, b) <= a /\ Least(a, b) <= b
BY DEF Least

\* A descriptor is sent whole, or as much of it as was asked for.
LEMMA GetDescriptorPipe ==
    ASSUME PipeInv, NEW req \in Requests, GetDescriptor(req)
    PROVE  PipeInv'
<1> DEFINE len == DescriptorLength(req.value)
<1>1. Begin(req) /\ Reads /\ req.code = "GET_DESCRIPTOR"
  BY DEF GetDescriptor, Is
<1>2. len \in Nat /\ req.len \in Nat
  BY DescriptorLengthNat, RequestFields
<1>3. CASE len = 0
  BY <1>1, <1>3, Refused, ReadsOK, SetupDone DEF GetDescriptor
<1>4. CASE len # 0 /\ req.len = 0
  <2>1. Effects(req)'
    BY <1>1 DEF Effects
  <2> QED
    BY <1>1, <1>4, <2>1, CarriedOut, ReadsOK, SetupDone DEF GetDescriptor
<1>5. CASE len # 0 /\ req.len # 0
  <2> DEFINE item == <<"descriptor", req.value>>
  <2>1. item \in Items
    BY RequestFields, ItemTypes
  <2>2. req.len > 0 /\ req.dir = "in"
    <3>1. req.len > 0
      BY <1>2, <1>5
    <3> QED
      BY <1>1, <3>1, HostAssumption DEF Getting
  <2>3. Least(len, req.len) \in Nat /\ Least(len, req.len) <= req.len
    <3> HIDE DEF len
    <3> QED
      BY <1>2, LeastNat
  <2>4. Right(req, item, Least(len, req.len))'
    BY <1>1 DEF Right, Answer
  <2>5. ep0' = CtlSendData(Parsed(req), item, Least(len, req.len))
    BY <1>5 DEF GetDescriptor
  <2> HIDE DEF item, len
  <2>6. Ep0OK' /\ Stage'
    BY <1>1, <2>1, <2>2, <2>3, <2>4, <2>5, Answered
  <2> QED
    BY <1>1, <2>6, ReadsOK, SetupDone
<1> QED
  BY <1>3, <1>4, <1>5

\* The configuration is the one the device has, awake as it is.
LEMMA GetConfigPipe ==
    ASSUME PipeInv, ClassInv, NEW req \in Requests, GetConfig(req)
    PROVE  PipeInv'
<1>1. Begin(req) /\ Reads /\ req.code = "GET_CONFIGURATION"
  BY DEF GetConfig, Is
<1>2. CASE req.len # 1
  BY <1>1, <1>2, Refused, ReadsOK, SetupDone DEF GetConfig
<1>3. CASE req.len = 1
  <2> PICK item : item = <<"config", dev_config>>
    OBVIOUS
  <2>1. dev_config \in {0, 1} /\ item \in Items
    BY ItemTypes, TypeParts DEF PipeInv, RestOK
  <2>2. dev_config = IF Configured THEN dev_config ELSE 0
    BY <1>1, <2>1
    DEF ClassInv, ClassIffConfigured, Begin, Awake, state, Configured
  <2>3. req.dir = "in"
    BY <1>1, <1>3, HostAssumption DEF Getting
  <2>4. Right(req, item, 1)'
    BY <1>1, <1>3 DEF Right, Answer, Reads, dev_vars, Least
  <2>5. ep0' = CtlSendData(Parsed(req), item, 1)
    BY <1>3, <2>2 DEF GetConfig
  <2>6. Ep0OK' /\ Stage'
    BY <1>1, <1>3, <2>1, <2>3, <2>4, <2>5, Answered
  <2> QED
    BY <1>1, <2>6, ReadsOK, SetupDone
<1> QED
  BY <1>2, <1>3

\* The status of the device.
LEMMA GetStatusPipe ==
    ASSUME PipeInv, NEW req \in Requests, GetStatus(req)
    PROVE  PipeInv'
<1>1. /\ Begin(req) /\ Reads
      /\ req.code = "GET_STATUS" /\ req.rcpt = "device"
  BY DEF GetStatus, Is
<1>2. CASE req.len # 2
  BY <1>1, <1>2, Refused, ReadsOK, SetupDone DEF GetStatus
<1>3. CASE req.len = 2
  <2> PICK item : item = <<"wakeup", dev_remote_wakeup>>
    OBVIOUS
  <2>1. item \in Items
    BY ItemTypes, TypeParts DEF PipeInv, RestOK
  <2>2. req.dir = "in"
    BY <1>1, <1>3, HostAssumption DEF Getting
  <2>3. Right(req, item, 2)'
    BY <1>1, <1>3 DEF Right, Answer, Reads, dev_vars, Least
  <2>4. ep0' = CtlSendData(Parsed(req), item, 2)
    BY <1>3 DEF GetStatus
  <2>5. Ep0OK' /\ Stage'
    BY <1>1, <1>3, <2>1, <2>2, <2>3, <2>4, Answered
  <2> QED
    BY <1>1, <2>5, ReadsOK, SetupDone
<1> QED
  BY <1>2, <1>3

\* The status of an endpoint.
LEMMA GetEPStatusPipe ==
    ASSUME PipeInv, NEW req \in Requests, GetEPStatus(req)
    PROVE  PipeInv'
<1>1. /\ Begin(req) /\ Reads
      /\ req.code = "GET_STATUS" /\ req.rcpt = "endpoint"
  BY DEF GetEPStatus, EndpointFeature, Is
<1>2. CASE ep0' = CtlError(Parsed(req))
  BY <1>1, <1>2, Refused, ReadsOK, SetupDone
<1>3. CASE ep0' = CtlSendData(Parsed(req),
                              <<"halt", req.index \in halted>>, 2)
  <2> PICK item : item = <<"halt", req.index \in halted>>
    OBVIOUS
  <2>1. item \in Items
    <3>1. (req.index \in halted) \in BOOLEAN
      OBVIOUS
    <3> QED
      BY <3>1, ItemTypes
  <2>2. req.len >= 2 /\ req.len > 0 /\ req.dir = "in"
    BY <1>1, HostAssumption, RequestFields DEF Getting
  <2>3. Right(req, item, 2)'
    <3>1. Least(2, req.len) = 2
      BY <2>2, RequestFields DEF Least
    <3> QED
      BY <1>1, <3>1 DEF Right, Answer, Reads
  <2>4. ep0' = CtlSendData(Parsed(req), item, 2)
    BY <1>3
  <2>5. Ep0OK' /\ Stage'
    BY <1>1, <2>1, <2>2, <2>3, <2>4, Answered
  <2> QED
    BY <1>1, <2>5, ReadsOK, SetupDone
<1> QED
  BY <1>2, <1>3 DEF GetEPStatus

\* The address is taken, or refused.
LEMMA SetAddressPipe ==
    ASSUME PipeInv, NEW req \in Requests, SetAddress(req)
    PROVE  PipeInv'
<1> USE DEF class_vars, cmd_vars, bulk_vars
<1>1. Begin(req) /\ req.code = "SET_ADDRESS" /\ LineCoding' = LineCoding
  BY DEF SetAddress, Is
<1>2. told' = told
  BY <1>1, Begun
<1>3. CASE ep0' = CtlError(Parsed(req)) /\ UNCHANGED <<address, dev_state>>
  <2>1. RestOK'
    BY <1>2, <1>3, TypeParts DEF PipeInv, RestOK, SetAddress
  <2> QED
    BY <1>1, <1>3, <2>1, Refused, SetupDone
<1>4. CASE /\ req.len = 0 /\ req.value < 128
           /\ address' = req.value
           /\ dev_state' = IF req.value # 0 THEN "ADDRESSED" ELSE "DEFAULT"
           /\ ep0' = CtlSendStatus(Parsed(req))
  <2>1. req.value \in 0..127
    BY <1>4, RequestFields
  <2>2. RestOK'
    BY <1>2, <1>4, <2>1, TypeParts DEF PipeInv, RestOK, SetAddress
  <2>3. Effects(req)'
    BY <1>1, <1>4 DEF Effects
  <2> QED
    BY <1>1, <1>4, <2>2, <2>3, CarriedOut, SetupDone
<1> QED
  BY <1>3, <1>4 DEF SetAddress

\* Setting the class up and tearing it down keep the types.
LEMMA ClassSetOK ==
    ASSUME RestOK, ClassInit \/ ClrClassConfig,
           dev_state' \in {"DEFAULT", "ADDRESSED", "CONFIGURED"},
           dev_config' \in {0, 1},
           UNCHANGED <<dev_old_state, dev_remote_wakeup, address, LineCoding,
                       told>>
    PROVE  RestOK'
<1>1. 0 \in Offers /\ NotArmed \in {NotArmed} \cup Offers /\ 0 \in 0..MaxPacket
  BY DeviceAssumption DEF Offers
<1>2. CASE ClassInit
  BY <1>1, <1>2 DEF RestOK, ClassInit, BlankHandle
<1>3. CASE ClrClassConfig
  BY <1>1, <1>3 DEF RestOK, ClrClassConfig, ClassDeInit, BlankHandle
<1> QED
  BY <1>2, <1>3

\* The configuration the host believes in is the one that is set.
LEMMA SetConfigPipe ==
    ASSUME PipeInv, ClassInv, NEW req \in Requests, SetConfig(req)
    PROVE  PipeInv'
<1> USE DEF dev_vars
<1>1. /\ Begin(req) /\ req.code = "SET_CONFIGURATION" /\ req.rcpt = "device"
      /\ LineCoding' = LineCoding
  BY DEF SetConfig, Is
<1>2. told' = told /\ RestOK
  BY <1>1, Begun, TypeParts DEF PipeInv
<1>3. req.len = 0 /\ CfgIdx(req) = req.value
  <2>1. req.len = 0 /\ req.value < 256
    BY <1>1, HostAssumption DEF Setting
  <2> QED
    BY <2>1, RequestFields DEF CfgIdx
<1>4. CASE ep0' = CtlError(Parsed(req)) /\ UNCHANGED <<dev_vars, class_vars>>
  BY <1>1, <1>2, <1>4, RestKept, Refused, SetupDone
<1>5. CASE /\ ep0' = CtlError(Parsed(req)) /\ ClrClassConfig
           /\ dev_state = "DEFAULT" /\ UNCHANGED dev_vars
  <2>1. dev_config \in {0, 1}
    BY <1>2 DEF RestOK
  <2>2. RestOK'
    BY <1>1, <1>2, <1>5, <2>1, ClassSetOK
  <2> QED
    BY <1>1, <1>5, <2>2, Refused, SetupDone
<1>6. CASE /\ CfgIdx(req) = 1 /\ dev_state = "ADDRESSED"
           /\ dev_config' = 1 /\ dev_state' = "CONFIGURED"
           /\ ClassInit
           /\ ep0' = CtlSendStatus(Parsed(req))
           /\ UNCHANGED <<dev_old_state, dev_remote_wakeup, address>>
  <2>1. Effects(req)'
    BY <1>1, <1>3, <1>6 DEF Effects, ClassInit
  <2>2. RestOK'
    BY <1>1, <1>2, <1>6, ClassSetOK
  <2> QED
    BY <1>1, <1>3, <1>6, <2>1, <2>2, CarriedOut, SetupDone
<1>7. CASE /\ CfgIdx(req) = 0 /\ dev_state = "CONFIGURED"
           /\ dev_config' = 0 /\ dev_state' = "ADDRESSED"
           /\ ClrClassConfig
           /\ ep0' = CtlSendStatus(Parsed(req))
           /\ UNCHANGED <<dev_old_state, dev_remote_wakeup, address>>
  <2>1. Effects(req)'
    BY <1>1, <1>3, <1>7 DEF Effects, ClrClassConfig, ClassDeInit
  <2>2. RestOK'
    BY <1>1, <1>2, <1>7, ClassSetOK
  <2> QED
    BY <1>1, <1>3, <1>7, <2>1, <2>2, CarriedOut, SetupDone
<1>8. CASE /\ AsItIs(CfgIdx(req))
           /\ ep0' = CtlSendStatus(Parsed(req))
           /\ UNCHANGED <<dev_vars, class_vars>>
  <2>1. /\ dev_config \in {0, 1} /\ hcdc \in BOOLEAN
        /\ hcdc <=> dev_config = 1
        /\ hcdc <=> dev_state = "CONFIGURED"
    BY <1>1, <1>2
    DEF RestOK, ClassInv, ClassIffConfigured, Begin, Awake, state
  <2>2. dev_config = req.value /\ (hcdc <=> req.value = 1)
    BY <1>3, <1>8, <2>1 DEF AsItIs
  <2>3. Effects(req)'
    BY <1>1, <1>8, <2>2 DEF Effects, class_vars
  <2>4. RestOK'
    BY <1>1, <1>2, <1>8, RestKept
  <2> QED
    BY <1>1, <1>3, <1>8, <2>3, <2>4, CarriedOut, SetupDone
<1> QED
  BY <1>4, <1>5, <1>6, <1>7, <1>8 DEF SetConfig

\* REMOTE_WAKEUP is set and cleared.
LEMMA DeviceFeaturePipe ==
    ASSUME PipeInv, NEW req \in Requests, SetFeature(req) \/ ClrFeature(req)
    PROVE  PipeInv'
<1> USE DEF class_vars, cmd_vars, bulk_vars
<1>1. /\ Begin(req) /\ LineCoding' = LineCoding
      /\ req.type = "standard" /\ req.rcpt = "device"
      /\ req.code \in {"SET_FEATURE", "CLEAR_FEATURE"}
  BY DEF SetFeature, ClrFeature, Is
<1>2. told' = told /\ RestOK /\ req.len = 0
  BY <1>1, Begun, TypeParts, HostAssumption DEF PipeInv, Setting
<1>3. RestOK'
  <2>1. dev_remote_wakeup' \in BOOLEAN
    BY DEF SetFeature, ClrFeature
  <2> QED
    BY <1>1, <1>2, <2>1 DEF RestOK, SetFeature, ClrFeature
<1>4. Effects(req)'
  BY <1>1 DEF Effects
<1>5. CASE ep0' = CtlSendStatus(Parsed(req))
  BY <1>1, <1>2, <1>3, <1>4, <1>5, CarriedOut, SetupDone
<1>6. CASE ep0' = CtlError(Parsed(req))
  BY <1>1, <1>3, <1>6, Refused, SetupDone
<1>7. CASE ClrFeature(req) /\ req.value # REMOTE_WAKEUP
  <2>1. ep0' = Parsed(req) /\ req.code = "CLEAR_FEATURE"
    BY <1>7 DEF ClrFeature, Is
  <2>2. Ignored(req)'
    BY <1>1, <1>7, <2>1 DEF Ignored
  <2> QED
    BY <1>1, <1>3, <2>1, <2>2, Dropped, SetupDone
<1> QED
  BY <1>5, <1>6, <1>7 DEF SetFeature, ClrFeature

\* An endpoint is halted, and released.
LEMMA EndpointFeaturePipe ==
    ASSUME PipeInv, NEW req \in Requests,
           SetEPFeature(req) \/ ClearEPFeature(req)
    PROVE  PipeInv'
<1>1. /\ Begin(req) /\ LineCoding' = LineCoding
      /\ req.type = "standard" /\ req.rcpt = "endpoint"
      /\ req.code \in {"SET_FEATURE", "CLEAR_FEATURE"}
      /\ UNCHANGED <<dev_vars, class_vars>>
  BY DEF SetEPFeature, ClearEPFeature, EndpointFeature, Is
<1>2. told' = told /\ RestOK /\ req.len = 0
  BY <1>1, Begun, TypeParts, HostAssumption DEF PipeInv, Setting
<1>3. RestOK'
  BY <1>1, <1>2, RestKept
<1>4. CASE ~Configured
  <2>1. CASE ep0' = CtlError(Parsed(req))
    BY <1>1, <1>3, <2>1, Refused, SetupDone
  <2>2. CASE ep0' = LL_StallEP(Parsed(req), Ep0In)
    BY <1>1, <1>2, <1>3, <2>2, RefusedOneSide, SetupDone DEF Ep0
  <2> QED
    BY <1>4, <2>1, <2>2 DEF SetEPFeature, ClearEPFeature, EarlyFeature
<1>5. CASE Configured /\ ep0' = CtlSendStatus(Parsed(req))
  <2>1. Effects(req)'
    <3>1. CASE SetEPFeature(req)
      BY <1>2, <1>5, <3>1
      DEF SetEPFeature, EndpointFeature, Is, Effects, HALT
    <3>2. CASE ClearEPFeature(req)
      BY <1>5, <3>2
      DEF ClearEPFeature, EndpointFeature, Is, Effects, HALT
    <3> QED
      BY <3>1, <3>2
  <2> QED
    BY <1>1, <1>2, <1>3, <1>5, <2>1, CarriedOut, SetupDone
<1>6. CASE ClearEPFeature(req) /\ Configured /\ req.value # HALT
  <2>1. ep0' = Parsed(req) /\ req.code = "CLEAR_FEATURE"
    BY <1>6 DEF ClearEPFeature, EndpointFeature, Is
  <2>2. Ignored(req)'
    BY <1>1, <1>6, <2>1
    DEF Ignored, dev_vars, Configured, state, Awake
  <2> QED
    BY <1>1, <1>3, <2>1, <2>2, Dropped, SetupDone
<1> QED
  BY <1>4, <1>5, <1>6 DEF SetEPFeature, ClearEPFeature

\* Without a handle the class fails, and nobody answers.
LEMMA NoHandlePipe ==
    ASSUME PipeInv, NEW req \in Requests, NoHandle(req)
    PROVE  PipeInv'
<1>1. Begin(req) /\ Reads /\ ep0' = Parsed(req)
  BY DEF NoHandle
<1>2. Ignored(req)'
  BY DEF NoHandle, Reads, class_vars, Ignored, ToClass
<1> QED
  BY <1>1, <1>2, Dropped, ReadsOK, SetupDone

\* The class answers with what CDC_Control_FS has filled in.
LEMMA ClassInPipe ==
    ASSUME PipeInv, NEW req \in Requests, ClassIn(req)
    PROVE  PipeInv'
<1> PICK item : item = IF req.code = "GET_LINE_CODING"
                       THEN <<"coding", LineCoding>> ELSE Junk
  OBVIOUS
<1>1. /\ Begin(req) /\ Reads /\ req.type = "class"
      /\ req.len > 0 /\ req.dir = "in"
      /\ ep0' = CtlSendData(Parsed(req), item, Least(7, req.len))
  BY DEF ClassIn, ClassRequest
<1>2. item \in Items
  BY ItemTypes, TypeParts DEF PipeInv, RestOK
<1>3. Least(7, req.len) \in Nat /\ Least(7, req.len) <= req.len
  BY LeastNat, RequestFields
<1>4. Right(req, item, Least(7, req.len))'
  <2>1. req.code \notin Getting
    BY <1>1, HostAssumption
  <2>2. LineCoding = told /\ told' = told
    BY <1>1, Begun DEF PipeInv
  <2> QED
    BY <2>1, <2>2 DEF Right, Known, Answer, Getting
<1>5. Ep0OK' /\ Stage'
  BY <1>1, <1>2, <1>3, <1>4, Answered
<1> QED
  BY <1>1, <1>5, ReadsOK, SetupDone

\* The class waits for the data of a command.
LEMMA ClassOutPipe ==
    ASSUME PipeInv, NEW req \in Requests, ClassOut(req)
    PROVE  PipeInv'
<1>1. /\ Begin(req) /\ req.len > 0 /\ req.dir = "out"
      /\ hcdc' = hcdc /\ hcdc /\ LineCoding' = LineCoding
      /\ CmdOpCode' = req.code /\ CmdLength' = Least(req.len, MaxPacket)
      /\ ep0' = CtlPrepareRx(Parsed(req), CmdLength')
  BY DEF ClassOut, ClassRequest
<1>2. CmdLength' = req.len /\ req.len \in 0..MaxPacket
  <2>1. req.len \in Nat /\ req.len <= MaxPacket /\ MaxPacket \in Nat
    BY <1>1, RequestFields, RequestAssumption, DeviceAssumption
  <2> QED
    BY <1>1, <2>1 DEF Least
<1>3. RestOK'
  <2>1. RestOK /\ told' = told
    BY <1>1, Begun, TypeParts DEF PipeInv
  <2> QED
    BY <1>1, <1>2, <2>1 DEF RestOK, ClassOut, dev_vars, bulk_vars
<1>4. ep0' = CtlPrepareRx(Parsed(req), req.len) /\ req.len \in Nat
  BY <1>1, <1>2, RequestFields
<1>5. Ep0OK' /\ Stage'
  BY <1>1, <1>2, <1>4, WaitsForData
<1> QED
  BY <1>1, <1>3, <1>5, SetupDone

\* The class carries out a request without data.
LEMMA ClassNoDataPipe ==
    ASSUME PipeInv, ClassInv, NEW req \in Requests, ClassNoData(req)
    PROVE  PipeInv'
<1>1. /\ Begin(req) /\ LineCoding' = LineCoding
      /\ req.len = 0 /\ req.type = "class" /\ ToClass(req) /\ hcdc
      /\ ep0' = Done(req)
  BY DEF ClassNoData, ClassRequest
<1>2. RestOK'
  <2>1. RestOK /\ told' = told
    BY <1>1, Begun, TypeParts DEF PipeInv
  <2>2. 0 \in Offers
    BY DEF Offers
  <2>3. TxState' \in {0, 1} /\ in1_total' \in Offers
        /\ in1' \in {NotArmed} \cup Offers
    <3>1. CASE \E next \in Offers : Kick(TxState, in1, next)
      BY <2>1, <2>2, <3>1 DEF Kick, RestOK
    <3>2. CASE UNCHANGED <<TxState, in1_total, in1>>
      BY <2>1, <3>2 DEF RestOK
    <3> QED
      BY <3>1, <3>2 DEF ClassNoData
  <2>4. cdc_port_open' \in BOOLEAN
    BY <2>1 DEF ClassNoData, RestOK
  <2> QED
    BY <1>1, <2>1, <2>3, <2>4
    DEF RestOK, ClassNoData, dev_vars, cmd_vars
<1>3. CASE req.rcpt = "interface"
  <2>1. ep0' = CtlSendStatus(Parsed(req))
    BY <1>1, <1>3 DEF Done
  <2>2. req.code \notin Setting
    BY <1>1, HostAssumption
  <2>3. Effects(req)'
    BY <2>2 DEF Effects, Setting, ClassNoData
  <2> QED
    BY <1>1, <1>2, <2>1, <2>3, CarriedOut, SetupDone
<1>4. CASE req.rcpt \in {"device", "endpoint"}
  <2>1. ep0' = Parsed(req)
    BY <1>1, <1>4 DEF Done
  <2>2. Ignored(req)'
    BY <1>1, <1>4 DEF Ignored
  <2> QED
    BY <1>1, <1>2, <2>1, <2>2, Dropped, SetupDone
<1> QED
  BY <1>1, <1>3, <1>4 DEF ToClass

\* Standard requests to the interface.
LEMMA ClassStandardPipe ==
    ASSUME PipeInv, NEW req \in Requests, ClassStandard(req)
    PROVE  PipeInv'
<1>1. /\ Begin(req) /\ Reads
      /\ req.type = "standard" /\ req.rcpt = "interface"
  BY DEF ClassStandard, ToClass
<1>2. CASE ep0' = CtlError(Parsed(req))
  BY <1>1, <1>2, Refused, ReadsOK, SetupDone
<1>3. ASSUME NEW n \in 1..2, req.code \in {"GET_STATUS", "GET_INTERFACE"},
             req.len >= n, ep0' = CtlSendData(Parsed(req), Junk, n)
      PROVE  PipeInv'
  <2>1. req.len > 0 /\ req.dir = "in"
    BY <1>3, RequestFields, HostAssumption DEF Getting
  <2>2. Right(req, Junk, n)'
    BY <1>1, <1>3 DEF Right, Known
  <2>3. n \in Nat /\ n <= req.len
    BY <1>3, RequestFields
  <2>4. Ep0OK' /\ Stage'
    BY <1>1, <1>3, <2>1, <2>2, <2>3, ItemTypes, Answered
  <2> QED
    BY <1>1, <2>4, ReadsOK, SetupDone
<1>4. CASE /\ req.code \in {"SET_INTERFACE", "CLEAR_FEATURE"}
           /\ ep0' = Done(req)
  <2>1. req.len = 0
    BY <1>4, HostAssumption DEF Setting
  <2>2. ep0' = CtlSendStatus(Parsed(req))
    BY <1>1, <1>4, <2>1 DEF Done
  <2>3. Effects(req)'
    BY <1>1, <1>4 DEF Effects
  <2> QED
    BY <1>1, <2>1, <2>2, <2>3, CarriedOut, ReadsOK, SetupDone
<1>5. CASE /\ req.code = "GET_STATUS"
           /\ ep0' = CtlSendData(Parsed(req), Junk, 2)
  BY <1>1, <1>3, <1>5, HostAssumption
<1>6. CASE /\ req.code = "GET_INTERFACE"
           /\ ep0' = CtlSendData(Parsed(req), Junk, 1)
  BY <1>1, <1>3, <1>6, HostAssumption
<1> QED
  BY <1>2, <1>4, <1>5, <1>6 DEF ClassStandard

\* Requests nobody knows.
LEMMA RefusePipe ==
    ASSUME PipeInv, NEW req \in Requests, Refuse(req) \/ RefuseOther(req)
    PROVE  PipeInv'
<1>1. Begin(req) /\ Reads
  BY DEF Refuse, RefuseOther
<1>2. CASE Refuse(req)
  BY <1>1, <1>2, Refused, ReadsOK, SetupDone DEF Refuse
<1>3. CASE RefuseOther(req)
  <2>1. PICK ep \in Ep0 : /\ ep = IF req.dir = "in" THEN Ep0In ELSE Ep0Out
                          /\ ep0' = LL_StallEP(Parsed(req), ep)
    BY <1>3 DEF RefuseOther, Ep0
  <2>2. req.dir = "out" /\ req.len = 0 => Ignored(req)'
    BY <1>3 DEF RefuseOther, Ignored
  <2>3. req.dir \in {"in", "out"}
    <3>1. req \in RequestType
      BY RequestAssumption
    <3> QED
      BY <3>1 DEF RequestType
  <2>4. \/ Ignored(req)'
        \/ ep = IF req.dir = "in" \/ req.len = 0 THEN Ep0In ELSE Ep0Out
    BY <2>1, <2>2, <2>3
  <2>5. Ep0OK' /\ Stage'
    BY <1>1, <2>1, <2>4, RefusedOneSide
  <2> QED
    BY <1>1, <2>5, ReadsOK, SetupDone
<1> QED
  BY <1>2, <1>3

\* Every SETUP packet keeps PipeInv.
LEMMA SetupPipe ==
    ASSUME PipeInv, ClassInv, NEW req \in Requests, SetupStage(req)
    PROVE  PipeInv'
BY GetDescriptorPipe, SetAddressPipe, SetConfigPipe, GetConfigPipe,
   GetStatusPipe, DeviceFeaturePipe, EndpointFeaturePipe, GetEPStatusPipe,
   NoHandlePipe, ClassInPipe, ClassOutPipe, ClassNoDataPipe,
   ClassStandardPipe, RefusePipe
DEF SetupStage

-----------------------------------------------------------------------------
(* The stages of a transfer *)

\* Which stage is one in which the host reads or writes?
LEMMA Directions ==
    ASSUME PipeInv
    PROVE  /\ Reading => Unanswered \/ Acknowledging \/ Answering
           /\ Writing => Unanswered \/ Receiving \/ Acknowledged
<1>1. xfer.phase # "none" => xfer.req \in Requests
  BY TransferFields, TypeParts DEF PipeInv
<1>2. xfer.phase # "none" => xfer.req.dir \in {"in", "out"}
  <2>1. ASSUME xfer.req \in RequestType PROVE xfer.req.dir \in {"in", "out"}
    BY <2>1 DEF RequestType
  <2> QED
    BY <1>1, <2>1, RequestAssumption
<1>3. xfer.phase # "none" => xfer.req.len \in Nat
  BY <1>1, RequestFields
<1> QED
  BY <1>2, <1>3
  DEF PipeInv, Stage, Receiving, Acknowledging, Answering, Acknowledged, Over,
      Reading, Writing

\* Only an unanswered request stalls: nothing of its answer has come.
LEMMA HostSeesStallPipe ==
    ASSUME PipeInv, HostSeesStall
    PROVE  PipeInv'
<1>1. Reading \/ Writing
  BY DEF HostSeesStall
<1>2. Unanswered
  BY <1>1, Directions
  DEF HostSeesStall, Receiving, Acknowledging, Answering, Acknowledged,
      Reading, Writing
<1>3. /\ xfer.phase # "none" /\ xfer \in TransferType
      /\ RestOK /\ Ep0OK /\ LineCoding = told
  BY <1>1, TypeParts DEF PipeInv, Reading, Writing
<1>4. xfer' = [xfer EXCEPT !.phase = "stalled"] /\ xfer' \in TransferType
  BY <1>3, TransferFields, TransferKept, ItemTypes DEF HostSeesStall
<1>5. xfer'.phase = "stalled" /\ xfer'.got = 0
  BY <1>2, <1>3, <1>4, TransferFields DEF Unanswered
<1>6. Over' /\ UNCHANGED <<ep0, LineCoding, told>>
  BY <1>5 DEF Over, HostSeesStall
<1>7. RestOK'
  BY <1>3, RestKept DEF HostSeesStall
<1> QED
  BY <1>3, <1>4, <1>6, <1>7
  DEF PipeInv, TypeOK, RestOK, Ep0OK, Stage

\* A step of a transfer changes no answer.
LEMMA RightKept ==
    ASSUME NEW req,
           UNCHANGED <<dev_config, dev_remote_wakeup, halted, told>>
    PROVE  \A item, n : Right(req, item, n) => Right(req, item, n)'
<1>1. Known(req) => Answer(req)' = Answer(req)
  BY DEF Answer, Known
<1> QED
  BY <1>1 DEF Right, Known

\* The answer goes on with its next packet.
LEMMA NextPacket ==
    ASSUME NEW e \in Ep0Type, e.state = "DATA_IN", e.rem > MaxPacket
    PROVE  LET f == DataInStage(e) IN
           /\ f \in Ep0Type /\ f.in <= MaxPacket
           /\ f.in = Least(f.rem, MaxPacket)
           /\ f.rem = e.rem - MaxPacket /\ f.rem >= 0
           /\ f.state = e.state /\ f.data_len = e.data_len
           /\ f.total = e.total /\ f.item = e.item /\ f.stall = e.stall
<1> DEFINE g == [e EXCEPT !.rem = @ - MaxPacket]
           h == LL_Transmit(g, e.rem - MaxPacket)
<1>1. e.rem - MaxPacket \in Nat
  BY DeviceAssumption DEF Ep0Type
<1>2. g \in Ep0Type
  BY <1>1 DEF Ep0Type
<1>3. /\ g.rem = e.rem - MaxPacket /\ g.state = e.state
      /\ g.data_len = e.data_len /\ g.total = e.total /\ g.item = e.item
      /\ g.stall = e.stall
  BY DEF Ep0Type
<1>4. DataInStage(e) = [h EXCEPT !.out = TRUE]
  BY DEF DataInStage, CtlContinueSendData, LL_PrepareReceive
<1> HIDE DEF g
<1>5. /\ h \in Ep0Type /\ h.in <= MaxPacket
      /\ h.in = Least(e.rem - MaxPacket, MaxPacket)
      /\ h.rem = g.rem /\ h.state = g.state
      /\ h.data_len = g.data_len /\ h.total = g.total /\ h.item = g.item
      /\ h.stall = g.stall
  BY <1>1, <1>2, TransmitIs
<1>6. /\ h.rem = e.rem - MaxPacket /\ h.state = e.state
      /\ h.data_len = e.data_len /\ h.total = e.total /\ h.item = e.item
      /\ h.stall = e.stall
  BY <1>3, <1>5
<1> HIDE DEF h
<1>7. LET f == [h EXCEPT !.out = TRUE] IN
      /\ f \in Ep0Type /\ f.in = h.in /\ f.rem = h.rem
      /\ f.state = h.state /\ f.data_len = h.data_len
      /\ f.total = h.total /\ f.item = h.item /\ f.stall = h.stall
  BY <1>5 DEF Ep0Type
<1> QED
  BY <1>1, <1>4, <1>5, <1>6, <1>7

\* An empty packet follows.
LEMMA EmptyPacket ==
    ASSUME NEW e \in Ep0Type,
           DataInStage(e) = CtlContinueSendData([e EXCEPT !.data_len = 0], 0)
    PROVE  LET f == DataInStage(e) IN
           /\ f \in Ep0Type /\ f.in = 0 /\ f.in <= MaxPacket
           /\ f.rem = e.rem /\ f.data_len = 0 /\ f.state = e.state
           /\ f.total = e.total /\ f.item = e.item /\ f.stall = e.stall
<1> DEFINE g == [e EXCEPT !.data_len = 0]
           h == LL_Transmit(g, 0)
<1>1. /\ g \in Ep0Type
      /\ g.rem = e.rem /\ g.state = e.state /\ g.data_len = 0
      /\ g.total = e.total /\ g.item = e.item /\ g.stall = e.stall
  BY DEF Ep0Type
<1>2. DataInStage(e) = [h EXCEPT !.out = TRUE]
  BY DEF CtlContinueSendData, LL_PrepareReceive
<1>3. Least(0, MaxPacket) = 0
  BY DeviceAssumption DEF Least
<1> HIDE DEF g
<1>4. /\ h \in Ep0Type /\ h.in <= MaxPacket /\ h.in = 0
      /\ h.rem = g.rem /\ h.state = g.state
      /\ h.data_len = g.data_len /\ h.total = g.total /\ h.item = g.item
      /\ h.stall = g.stall
  BY <1>1, <1>3, TransmitIs
<1> HIDE DEF h
<1> QED
  BY <1>1, <1>2, <1>4 DEF Ep0Type

\* The status stage follows.
LEMMA StatusFollows ==
    ASSUME NEW e \in Ep0Type, e.in = NotArmed, e.rem >= 0,
           DataInStage(e) = CtlReceiveStatus(LL_StallEP(e, Ep0In))
    PROVE  LET f == DataInStage(e) IN
           /\ f \in Ep0Type /\ f.in <= MaxPacket /\ f.rem >= 0
           /\ f.out /\ f.stall = e.stall \cup {Ep0In}
<1> DEFINE g == LL_StallEP(e, Ep0In)
           h == [g EXCEPT !.state = "STATUS_OUT"]
<1>1. /\ g \in Ep0Type /\ g.rem = e.rem /\ g.in = e.in
      /\ g.stall = e.stall \cup {Ep0In}
  BY StallIs DEF Ep0
<1>2. DataInStage(e) = [h EXCEPT !.out = TRUE]
  BY DEF CtlReceiveStatus, LL_PrepareReceive
<1> HIDE DEF g
<1>3. /\ h \in Ep0Type /\ h.rem = g.rem /\ h.in = g.in /\ h.stall = g.stall
  BY <1>1 DEF Ep0Type
<1> HIDE DEF h
<1>4. NotArmed <= MaxPacket
  BY DeviceAssumption DEF NotArmed
<1> QED
  BY <1>1, <1>2, <1>3, <1>4 DEF Ep0Type

\* The host takes a packet.
LEMMA InPacketPipe ==
    ASSUME PipeInv, InPacket
    PROVE  PipeInv'
<1> DEFINE e == [ep0 EXCEPT !.in = NotArmed]
           got == xfer.got + ep0.in
<1>1. /\ Reading /\ Ep0In \notin ep0.stall /\ ep0.in # NotArmed
      /\ ep0' = DataInStage(e)
      /\ UNCHANGED <<dev_vars, class_vars, halted, LineCoding, told>>
  BY DEF InPacket
<1>2. /\ RestOK /\ Ep0OK /\ xfer \in TransferType /\ LineCoding = told
      /\ xfer.phase # "none"
  BY <1>1, TypeParts DEF PipeInv, Reading
<1>3. /\ e \in Ep0Type /\ e.in = NotArmed
      /\ e.state = ep0.state /\ e.data_len = ep0.data_len
      /\ e.total = ep0.total /\ e.rem = ep0.rem /\ e.item = ep0.item
      /\ e.stall = ep0.stall
  BY <1>2 DEF Ep0OK, Ep0Type
<1>4. /\ xfer.req \in Requests /\ xfer.got \in Nat /\ xfer.req.len \in Nat
      /\ ep0.in \in Nat /\ ep0.rem \in Nat /\ ep0.total \in Nat
      /\ ep0.data_len \in Nat /\ ep0.item \in Items
      /\ MaxPacket \in Nat \ {0}
  BY <1>1, <1>2, TransferFields, DeviceAssumption DEF Ep0OK, Ep0Type
<1>5. RestOK'
  BY <1>1, <1>2, RestKept
<1>6. UNCHANGED <<dev_config, dev_remote_wakeup, halted, told>>
  BY <1>1 DEF dev_vars
<1> HIDE DEF e
<1>7. CASE Acknowledging
  <2>1. xfer.phase = "status" /\ ep0.state = "STATUS_IN"
    BY <1>7 DEF Acknowledging
  <2>2. xfer' = [xfer EXCEPT !.phase = "ok"]
    BY <2>1 DEF InPacket
  <2>3. /\ xfer' \in TransferType /\ xfer'.phase = "ok"
        /\ xfer'.req = xfer.req
    BY <1>2, <2>2, TransferFields, TransferKept, ItemTypes
  <2>4. ep0' = e
    BY <1>1, <1>3, <2>1 DEF DataInStage
  <2>5. Ep0OK'
    BY <1>2, <1>3, <1>4, <2>4 DEF Ep0OK, NotArmed
  <2>6. Effects(xfer.req)'
    BY <1>1, <1>7, <2>3
    DEF Acknowledging, Effects, dev_vars, class_vars
  <2>7. ~(xfer'.req.dir = "in" /\ xfer'.req.len > 0)
    <3>1. xfer.req \in RequestType
      BY <1>4, RequestAssumption
    <3> QED
      BY <1>4, <1>7, <2>3, <3>1 DEF Acknowledging, RequestType
  <2>8. Stage'
    BY <2>3, <2>6, <2>7 DEF Over, Stage
  <2> QED
    BY <1>1, <1>2, <1>5, <2>3, <2>5, <2>8
    DEF PipeInv, TypeOK, RestOK, Ep0OK
<1>8. CASE Answering
  <2> DEFINE last == ep0.in < MaxPacket \/ got = xfer.req.len
  <2>1. /\ xfer.phase = "data" /\ ep0.state = "DATA_IN"
        /\ xfer.req.dir = "in" /\ xfer.req.len > 0 /\ ep0.stall = {}
        /\ ep0.total <= xfer.req.len
        /\ Right(xfer.req, ep0.item, ep0.total)
    BY <1>8 DEF Answering
  <2>2. xfer' = [xfer EXCEPT !.got = got, !.item = ep0.item,
                             !.phase = IF last THEN "status" ELSE @]
    BY <2>1 DEF InPacket
  <2>3. /\ xfer' \in TransferType /\ xfer'.req = xfer.req
        /\ xfer'.got = got /\ xfer'.item = ep0.item
        /\ xfer'.phase = IF last THEN "status" ELSE "data"
    <3>1. PICK p \in {"data", "status"} :
             p = IF last THEN "status" ELSE "data"
      OBVIOUS
    <3>2. xfer' = [xfer EXCEPT !.got = got, !.item = ep0.item, !.phase = p]
      BY <2>1, <2>2, <3>1
    <3>3. got \in Nat
      BY <1>4
    <3> HIDE DEF got, last
    <3> QED
      BY <1>2, <1>4, <3>1, <3>2, <3>3, TransferFields, TransferKept
  <2>4. /\ e.state = "DATA_IN" /\ e.stall = {} /\ e.in = NotArmed
        /\ e.rem >= 0
    BY <1>3, <1>4, <2>1
  <2>5. ASSUME Ep0OK', Stage' PROVE PipeInv'
    BY <1>1, <1>2, <1>5, <2>3, <2>5 DEF PipeInv, TypeOK, RestOK, Ep0OK
  <2>6. CASE ep0.rem > MaxPacket
    <3>1. /\ ep0.data_len = xfer.req.len /\ ep0.in = MaxPacket
          /\ xfer.got + ep0.rem = ep0.total
      BY <1>4, <1>8, <2>6 DEF Answering, Least
    <3>2. ~last
      BY <1>4, <2>1, <2>6, <3>1
    <3>3. /\ ep0' \in Ep0Type /\ ep0'.in <= MaxPacket
          /\ ep0'.in = Least(ep0'.rem, MaxPacket)
          /\ ep0'.rem = ep0.rem - MaxPacket /\ ep0'.rem >= 0
          /\ ep0'.state = "DATA_IN" /\ ep0'.data_len = ep0.data_len
          /\ ep0'.total = ep0.total /\ ep0'.item = ep0.item
          /\ ep0'.stall = {}
      BY <1>1, <1>3, <2>4, <2>6, NextPacket
    <3>4. xfer'.phase = "data" /\ xfer'.got + ep0'.rem = ep0'.total
      BY <1>4, <2>3, <3>1, <3>2, <3>3
    <3>5. Right(xfer.req, ep0.item, ep0.total)'
      BY <1>6, <2>1, <2>3, <3>3, RightKept
    <3>6. Answering'
      BY <2>1, <2>3, <3>1, <3>3, <3>4, <3>5 DEF Answering
    <3> QED
      BY <2>5, <3>3, <3>6 DEF Ep0OK, Stage
  <2>7. CASE /\ e.rem = MaxPacket /\ e.total >= MaxPacket
             /\ e.total < e.data_len
    <3>1. /\ ep0.data_len = xfer.req.len /\ ep0.in = MaxPacket
          /\ xfer.got + ep0.rem = ep0.total
      BY <1>3, <1>4, <1>8, <2>7 DEF Answering, Least
    <3>2. ~last /\ got = ep0.total
      BY <1>3, <1>4, <2>7, <3>1
    <3>3. DataInStage(e) = CtlContinueSendData([e EXCEPT !.data_len = 0], 0)
      BY <1>4, <2>4, <2>7 DEF DataInStage
    <3>4. /\ ep0' \in Ep0Type /\ ep0'.in = 0 /\ ep0'.in <= MaxPacket
          /\ ep0'.rem = ep0.rem /\ ep0'.rem >= 0 /\ ep0'.data_len = 0
          /\ ep0'.state = "DATA_IN" /\ ep0'.stall = {}
          /\ ep0'.total = ep0.total /\ ep0'.item = ep0.item
      BY <1>1, <1>3, <2>4, <3>3, EmptyPacket
    <3>5. xfer'.phase = "data" /\ xfer'.got = ep0'.total
      BY <2>3, <3>2, <3>4
    <3>6. Right(xfer.req, ep0.item, ep0.total)'
      BY <1>6, <2>1, <2>3, <3>4, RightKept
    <3>7. ep0'.rem <= MaxPacket
      <4>1. ep0'.rem = MaxPacket
        BY <1>3, <2>7, <3>4
      <4> QED
        BY <4>1, <1>4
    <3>8. Answering'
      BY <2>1, <2>3, <3>4, <3>5, <3>6, <3>7 DEF Answering
    <3> QED
      BY <2>5, <3>4, <3>8 DEF Ep0OK, Stage
  <2>8. CASE /\ ~(ep0.rem > MaxPacket)
             /\ ~(/\ e.rem = MaxPacket /\ e.total >= MaxPacket
                  /\ e.total < e.data_len)
    <3>1. last /\ got = ep0.total
      <4>1. CASE /\ ep0.data_len = xfer.req.len
                 /\ ep0.in = Least(ep0.rem, MaxPacket)
                 /\ xfer.got + ep0.rem = ep0.total
        <5>1. ep0.in = ep0.rem
          BY <1>4, <2>8, <4>1 DEF Least
        <5>2. got = ep0.total
          BY <4>1, <5>1
        <5>3. CASE ep0.rem = MaxPacket
          <6>1. ep0.total >= MaxPacket
            BY <1>4, <4>1, <5>3
          <6>2. ~(ep0.total < xfer.req.len)
            BY <1>3, <2>8, <4>1, <5>3, <6>1
          <6> QED
            BY <1>4, <2>1, <5>2, <6>2
        <5>4. CASE ep0.rem < MaxPacket
          BY <5>1, <5>2, <5>4
        <5> QED
          BY <1>4, <2>8, <5>3, <5>4
      <4>2. CASE ep0.in = 0 /\ xfer.got = ep0.total
        BY <1>4, <4>2
      <4> QED
        BY <1>8, <4>1, <4>2 DEF Answering
    <3>2. DataInStage(e) = CtlReceiveStatus(LL_StallEP(e, Ep0In))
      BY <1>3, <2>4, <2>8 DEF DataInStage
    <3>3. /\ ep0' \in Ep0Type /\ ep0'.in <= MaxPacket /\ ep0'.rem >= 0
          /\ ep0'.out /\ ep0'.stall = {Ep0In}
      BY <1>1, <1>3, <2>4, <3>2, StatusFollows
    <3>4. Right(xfer.req, xfer.item, xfer.got)'
      BY <1>6, <2>1, <2>3, <3>1, RightKept
    <3>5. Acknowledged'
      BY <2>1, <2>3, <3>1, <3>3, <3>4 DEF Acknowledged, Ep0In, Ep0Out
    <3> QED
      BY <2>5, <3>3, <3>5 DEF Ep0OK, Stage
  <2> QED
    BY <2>6, <2>7, <2>8
<1> QED
  BY <1>1, <1>7, <1>8, Directions DEF Unanswered

\* The host sends the data of a command, and the class carries it out.
LEMMA OutPacketPipe ==
    ASSUME PipeInv, ClassInv, OutPacket
    PROVE  PipeInv'
<1>1. /\ Awake /\ Writing /\ xfer.phase = "data" /\ ep0.out
      /\ ep0' = CtlSendStatus([ep0 EXCEPT !.out = FALSE])
      /\ xfer' = [xfer EXCEPT !.got = xfer.req.len, !.phase = "status"]
      /\ UNCHANGED <<dev_vars, hcdc, bulk_vars, opened, cdc_port_open, halted>>
  BY DEF OutPacket
<1>2. /\ RestOK /\ Ep0OK /\ xfer \in TransferType /\ LineCoding = told
      /\ xfer.phase # "none"
  BY <1>1, TypeParts DEF PipeInv
<1>3. Receiving
  BY <1>1, Directions DEF Unanswered, Acknowledged
<1>4. /\ xfer.req \in Requests /\ xfer.req.len \in Nat /\ xfer.req.len > 0
      /\ xfer.req.dir = "out" /\ ep0.stall = {}
      /\ hcdc /\ CmdOpCode = xfer.req.code /\ CmdLength = xfer.req.len
  BY <1>2, <1>3, TransferFields DEF Receiving
<1>5. /\ xfer' \in TransferType /\ xfer'.phase = "status"
      /\ xfer'.req = xfer.req
  BY <1>1, <1>2, <1>4, TransferFields, TransferKept
<1>6. Ep0OK' /\ ep0'.state = "STATUS_IN" /\ ep0'.in = 0 /\ ep0'.stall = {}
  <2> DEFINE e == [ep0 EXCEPT !.out = FALSE]
  <2>1. e \in Ep0Type /\ e.rem >= 0 /\ e.stall = {}
    BY <1>2, <1>4 DEF Ep0OK, Ep0Type
  <2>2. ep0' = CtlSendStatus(e)
    BY <1>1
  <2> HIDE DEF e
  <2> QED
    BY <2>1, <2>2, SendStatusIs DEF Ep0OK
<1>7. Effects(xfer.req)'
  <2>1. xfer.req.code \notin Setting \cup {"SET_CONTROL_LINE_STATE"}
    BY <1>4, HostAssumption
  <2> QED
    BY <1>5, <2>1 DEF Effects, Setting
<1>8. Stage'
  BY <1>4, <1>5, <1>6, <1>7 DEF Acknowledging, Stage
<1>9. /\ LineCoding' = told' /\ told' \in Codings
      /\ CmdLength' \in 0..MaxPacket
  <2>1. Configured
    BY <1>1, <1>4 DEF ClassInv, ClassIffConfigured, Awake, state, Configured
  <2>2. PICK bytes \in Payload(xfer.req) :
           /\ told' = IF bytes = Junk THEN told ELSE bytes[2]
           /\ IF Configured /\ hcdc /\ CmdOpCode # "none"
              THEN /\ Command(CmdOpCode, CmdLength, bytes)
                   /\ CmdOpCode' = "none" /\ CmdLength' = 0
              ELSE UNCHANGED <<CmdOpCode, CmdLength, LineCoding>>
    BY DEF OutPacket
  <2>3. CmdLength' \in 0..MaxPacket
    BY <1>2, <2>2, DeviceAssumption DEF RestOK
  <2>4. CASE xfer.req.code = "SET_LINE_CODING" /\ xfer.req.len >= 7
    <3>1. PICK c \in Codings : bytes = <<"coding", c>>
      BY <2>2, <2>4 DEF Payload
    <3>2. bytes[2] = c /\ bytes # Junk
      BY <3>1 DEF Junk
    <3>3. told' = c
      BY <2>2, <3>2
    <3>4. LineCoding' = c
      BY <1>4, <2>1, <2>2, <2>4, <3>2 DEF Command
    <3> QED
      BY <2>3, <3>3, <3>4
  <2>5. CASE ~(xfer.req.code = "SET_LINE_CODING" /\ xfer.req.len >= 7)
    <3>1. bytes = Junk
      BY <2>2, <2>5 DEF Payload
    <3>2. told' = told
      BY <2>2, <3>1
    <3>3. LineCoding' = LineCoding
      BY <1>4, <2>2, <2>5 DEF Command
    <3> QED
      BY <1>2, <2>3, <3>2, <3>3 DEF RestOK
  <2> QED
    BY <2>4, <2>5
<1>10. RestOK'
  BY <1>1, <1>2, <1>9 DEF RestOK, dev_vars, bulk_vars
<1> QED
  BY <1>5, <1>6, <1>8, <1>9, <1>10 DEF PipeInv, TypeOK, RestOK, Ep0OK

\* The host acknowledges the answer.
LEMMA OutStatusPipe ==
    ASSUME PipeInv, OutStatus
    PROVE  PipeInv'
<1>1. /\ Writing /\ xfer.phase = "status" /\ ep0.out
      /\ xfer' = [xfer EXCEPT !.phase = "ok"]
      /\ ep0' = [ep0 EXCEPT !.out = FALSE]
      /\ UNCHANGED <<dev_vars, class_vars, halted, LineCoding, told>>
  BY DEF OutStatus
<1>2. /\ RestOK /\ Ep0OK /\ xfer \in TransferType /\ LineCoding = told
      /\ xfer.phase # "none"
  BY <1>1, TypeParts DEF PipeInv
<1>3. Acknowledged
  BY <1>1, Directions DEF Unanswered, Receiving
<1>4. /\ xfer.req \in Requests /\ xfer.req.len > 0
      /\ xfer.got <= xfer.req.len /\ Right(xfer.req, xfer.item, xfer.got)
  BY <1>2, <1>3, TransferFields DEF Acknowledged
<1>5. /\ xfer' \in TransferType /\ xfer'.phase = "ok"
      /\ xfer'.req = xfer.req /\ xfer'.got = xfer.got
      /\ xfer'.item = xfer.item
  BY <1>1, <1>2, TransferFields, TransferKept, ItemTypes
<1>6. Ep0OK'
  BY <1>1, <1>2 DEF Ep0OK, Ep0Type
<1>7. Right(xfer.req, xfer.item, xfer.got)'
  <2>1. UNCHANGED <<dev_config, dev_remote_wakeup, halted, told>>
    BY <1>1 DEF dev_vars
  <2> QED
    BY <1>4, <1>5, <2>1, RightKept
<1>8. Effects(xfer.req)'
  <2>1. xfer.req.code \notin Setting \cup {"SET_CONTROL_LINE_STATE"}
    BY <1>4, HostAssumption
  <2> QED
    BY <1>5, <2>1 DEF Effects, Setting
<1>9. Stage'
  BY <1>4, <1>5, <1>7, <1>8 DEF Over, Stage
<1>10. RestOK'
  BY <1>1, <1>2, RestKept
<1> QED
  BY <1>1, <1>2, <1>5, <1>6, <1>9, <1>10
  DEF PipeInv, TypeOK, RestOK, Ep0OK

\* The bulk endpoints have nothing to do with it.
LEMMA BulkPipe ==
    ASSUME PipeInv,
           DataIn \/ DataOut \/ \E len \in Transfers : TransmitPacket(len)
    PROVE  PipeInv'
<1>1. UNCHANGED <<dev_vars, ep0, hcdc, cmd_vars, opened, cdc_port_open,
                  halted, LineCoding, xfer, told>>
  BY DEF DataIn, DataOut, TransmitPacket
<1>2. /\ RestOK /\ Ep0OK /\ xfer \in TransferType /\ LineCoding = told
      /\ Stage
  BY TypeParts DEF PipeInv
<1>3. /\ TxState' \in {0, 1} /\ in1_total' \in Offers
      /\ in1' \in {NotArmed} \cup Offers /\ out1' \in BOOLEAN
  <2>1. 0 \in Offers
    BY DEF Offers
  <2>2. CASE DataOut
    BY <1>2, <2>2 DEF DataOut, RestOK
  <2>3. CASE \E len \in Transfers : TransmitPacket(len)
    BY <1>2, <2>3 DEF TransmitPacket, RestOK, Offers
  <2>4. CASE DataIn
    <3>1. CASE \E next \in Offers : Kick(0, NotArmed, next)
      BY <1>2, <2>1, <2>4, <3>1 DEF DataIn, RestOK, Kick
    <3>2. CASE ~\E next \in Offers : Kick(0, NotArmed, next)
      BY <1>2, <2>1, <2>4, <3>2 DEF DataIn, RestOK
    <3> QED
      BY <3>1, <3>2
  <2> QED
    BY <2>2, <2>3, <2>4
<1>4. RestOK'
  BY <1>1, <1>2, <1>3 DEF RestOK, dev_vars, cmd_vars
<1>5. Stage'
  BY <1>1, <1>2, StageKept DEF stage_vars, dev_vars, cmd_vars, state, Awake
<1> QED
  BY <1>1, <1>2, <1>4, <1>5 DEF PipeInv, TypeOK, RestOK, Ep0OK

\* Events of the bus end the transfer, or leave it as it is.
LEMMA EventPipe ==
    ASSUME PipeInv, ClassInv, Reset \/ Suspend \/ Resume
    PROVE  PipeInv'
<1>1. /\ RestOK /\ Ep0OK /\ xfer \in TransferType /\ LineCoding = told
      /\ Stage /\ LineCoding' = LineCoding /\ told' = told
  BY TypeParts DEF PipeInv, Reset, Suspend, Resume
<1>2. CASE Reset
  <2>1. BlankEp0 \in Ep0Type /\ BlankEp0.rem >= 0 /\ BlankEp0.in <= MaxPacket
    <3>1. NotArmed <= MaxPacket
      BY DeviceAssumption DEF NotArmed
    <3> QED
      BY <3>1, ItemTypes DEF BlankEp0, Ep0Type
  <2>2. Ep0OK'
    BY <1>2, <2>1 DEF Reset, Ep0OK
  <2>3. RestOK'
    <3>1. 0 \in Offers /\ 0 \in 0..MaxPacket /\ 0 \in 0..127
      BY DeviceAssumption DEF Offers
    <3>2. /\ TxState' = 0 /\ in1_total' = 0 /\ CmdLength' = 0
          /\ in1' = NotArmed
          /\ out1' \in BOOLEAN /\ hcdc' \in BOOLEAN
          /\ cdc_port_open' \in BOOLEAN
      BY <1>2 DEF Reset, ClassDeInit, BlankHandle
    <3>3. /\ dev_state' = "DEFAULT" /\ dev_old_state' = "none"
          /\ dev_config' = 0 /\ dev_remote_wakeup' \in BOOLEAN
          /\ address' = 0 /\ opened' = Ep0
      BY <1>2 DEF Reset
    <3>4. LineCoding' \in Codings /\ told' \in Codings
      BY <1>1 DEF RestOK
    <3> QED
      BY <3>1, <3>2, <3>3, <3>4 DEF RestOK
  <2>4. xfer' \in TransferType /\ Over'
    BY <1>2 DEF Reset, NoTransfer, TransferType, Over
  <2> QED
    BY <1>1, <2>2, <2>3, <2>4 DEF PipeInv, TypeOK, RestOK, Ep0OK, Stage
<1>3. CASE Suspend
  <2>1. UNCHANGED <<dev_config, dev_remote_wakeup, address, ep0, class_vars>>
    BY <1>3 DEF Suspend
  <2>2. RestOK'
    BY <1>1, <1>3, <2>1
    DEF Suspend, RestOK, class_vars, cmd_vars, bulk_vars, Awake
  <2>3. xfer' \in TransferType /\ Over'
    BY <1>3 DEF Suspend, NoTransfer, TransferType, Over
  <2> QED
    BY <1>1, <2>1, <2>2, <2>3 DEF PipeInv, TypeOK, RestOK, Ep0OK, Stage
<1>4. CASE Resume
  <2>1. UNCHANGED <<dev_config, dev_remote_wakeup, address, ep0, class_vars,
                    halted, xfer>>
    BY <1>4 DEF Resume
  <2>2. /\ dev_state' = dev_old_state /\ state' = state
        /\ dev_state' \in {"DEFAULT", "ADDRESSED", "CONFIGURED"}
        /\ dev_old_state' = "none"
    BY <1>4 DEF Resume, ClassInv, Remembers, Awake, state
  <2>3. RestOK'
    BY <1>1, <2>1, <2>2 DEF RestOK, class_vars, cmd_vars, bulk_vars
  <2>4. Stage'
    BY <1>1, <2>1, <2>2, StageKept DEF stage_vars, class_vars, cmd_vars
  <2> QED
    BY <1>1, <2>1, <2>3, <2>4 DEF PipeInv, TypeOK, RestOK, Ep0OK
<1> QED
  BY <1>2, <1>3, <1>4

\* Every step keeps PipeInv.
LEMMA PipeStep ==
    ASSUME PipeInv, ClassInv, [Next]_vars
    PROVE  PipeInv'
<1>1. CASE UNCHANGED vars
  <2>1. Stage'
    BY <1>1, StageKept
    DEF vars, dev_vars, class_vars, cmd_vars, stage_vars, PipeInv, state, Awake
  <2>2. RestOK'
    BY <1>1, RestKept, TypeParts DEF PipeInv, vars
  <2> QED
    BY <1>1, <2>1, <2>2 DEF PipeInv, TypeOK, RestOK, vars
<1> QED
  BY <1>1, SetupPipe, HostSeesStallPipe, InPacketPipe, OutPacketPipe,
     OutStatusPipe, BulkPipe, EventPipe
  DEF Next

\* serial_init establishes PipeInv.
LEMMA PipeFirst == Init => PipeInv
<1> SUFFICES ASSUME Init PROVE PipeInv
  OBVIOUS
<1>1. Ep0OK
  <2>1. NotArmed <= MaxPacket
    BY DeviceAssumption DEF NotArmed
  <2> QED
    BY <2>1, ItemTypes DEF Init, Started, Ep0OK, BlankEp0, Ep0Type
<1>2. RestOK
  <2>1. /\ 0 \in Offers /\ 0 \in 0..MaxPacket /\ DefaultCoding \in Codings
        /\ 0 \in 0..127
    BY DeviceAssumption DEF Offers
  <2> QED
    BY <2>1 DEF Init, Started, RestOK
<1>3. xfer \in TransferType /\ Over
  BY DEF Init, NoTransfer, TransferType, Over
<1> QED
  BY <1>1, <1>2, <1>3, TypeParts DEF PipeInv, Stage, Init

\* Both invariants hold throughout.
LEMMA PipeAlways == Spec => [](PipeInv /\ ClassInv)
<1>1. Init => PipeInv /\ ClassInv
  BY PipeFirst, ClassFirst
<1>2. PipeInv /\ ClassInv /\ [Next]_vars => PipeInv' /\ ClassInv'
  BY PipeStep, ClassStep
<1> QED
  BY <1>1, <1>2, PTL DEF Spec

\* The variables keep their types, and no answer is longer than what was
\* asked: rem_length never wraps below zero (usbd_core.c:681-762).
THEOREM TypeCorrect == Spec => []TypeOK
<1>1. PipeInv => TypeOK
  BY DEF PipeInv
<1> QED
  BY <1>1, PipeAlways, PTL

\* No control transfer dies half way, whatever requests, aborted transfers
\* and bus events came before (usbd_core.c:546-762, usbd_ctlreq.c:104-420).
THEOREM NeverDies == Spec => []Answerable
<1>1. PipeInv => Answerable
  <2> SUFFICES ASSUME PipeInv PROVE Answerable
    OBVIOUS
  <2>1. Reading /\ ~Ignored(xfer.req) =>
           Ep0In \in ep0.stall \/ ep0.in # NotArmed
    <3>1. ASSUME Answering PROVE ep0.in # NotArmed
      BY <3>1, TypeParts, DeviceAssumption
      DEF PipeInv, Ep0OK, Ep0Type, Answering, Least, NotArmed
    <3> QED
      BY <3>1, Directions DEF Unanswered, Acknowledging, NotArmed
  <2>2. Writing /\ ~Ignored(xfer.req) => Ep0Out \in ep0.stall \/ ep0.out
    BY Directions DEF Unanswered, Receiving, Acknowledged
  <2>3. xfer.phase = "stalled" => xfer.got = 0
    BY DEF PipeInv, Stage, Unanswered, Receiving, Acknowledging, Answering,
           Acknowledged, Over
  <2> QED
    BY <2>1, <2>2, <2>3 DEF Answerable
<1> QED
  BY <1>1, PipeAlways, PTL

\* What a completed control transfer made the host believe is so, for every
\* request, packet size and string (usbd_ctlreq.c:104-941,
\* usbd_cdc_if.c:142-189).
THEOREM NoDeceit == Spec => []HostNotDeceived
<1>1. PipeInv => HostNotDeceived
  <2> SUFFICES ASSUME PipeInv, xfer.phase = "ok" PROVE HostNotDeceived
    BY DEF HostNotDeceived
  <2>1. Over
    BY DEF PipeInv, Stage, Unanswered, Receiving, Acknowledging, Answering,
           Acknowledged
  <2>2. xfer.got \in Nat /\ xfer.req.len \in Nat
    BY TransferFields, TypeParts DEF PipeInv
  <2>3. xfer.req.dir = "in" /\ xfer.req.len > 0 =>
           /\ xfer.item = Answer(xfer.req)[1]
           /\ xfer.got = Least(Answer(xfer.req)[2], xfer.req.len)
    <3> SUFFICES ASSUME xfer.req.dir = "in", xfer.req.len > 0
                 PROVE  /\ xfer.item = Answer(xfer.req)[1]
                        /\ xfer.got = Least(Answer(xfer.req)[2], xfer.req.len)
      OBVIOUS
    <3>1. /\ xfer.got <= xfer.req.len
          /\ Right(xfer.req, xfer.item, xfer.got)
      BY <2>1 DEF Over
    <3>2. CASE Known(xfer.req)
      BY <3>1, <3>2 DEF Right
    <3>3. CASE ~Known(xfer.req)
      <4>1. \/ Answer(xfer.req) = <<xfer.item, xfer.got>>
            \/ xfer.req.code = "GET_STATUS" /\ xfer.req.rcpt = "device"
        BY <3>3 DEF Answer, Known
      <4>2. Least(xfer.got, xfer.req.len) = xfer.got
        BY <2>2, <3>1 DEF Least
      <4> QED
        BY <3>3, <4>1, <4>2 DEF Known
    <3> QED
      BY <3>2, <3>3
  <2>4. Effects(xfer.req) /\ LineCoding = told
    BY <2>1 DEF Over, PipeInv
  <2> QED
    BY <2>3, <2>4 DEF HostNotDeceived, Effects
<1> QED
  BY <1>1, PipeAlways, PTL
=============================================================================
