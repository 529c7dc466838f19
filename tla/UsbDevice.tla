----------------------------- MODULE UsbDevice -----------------------------
(***************************************************************************)
(* The USB device as its host sees it: the control pipe of the device      *)
(* library (usbd_core.c, usbd_ctlreq.c, usbd_ioreq.c), the CDC class       *)
(* (usbd_cdc.c), its callbacks (usbd_cdc_if.c) and the bridge to the       *)
(* hardware (usbd_conf.c), as this build compiles them: one class, full    *)
(* speed, one configuration, class memory that is always granted.          *)
(*                                                                         *)
(*  - An action is an event on the bus with the interrupt handler it       *)
(*    raises, or a call of the transmit path in a task.  The ring behind   *)
(*    that call is CdcTx's: here it is empty or offers a transfer.         *)
(*  - The host sends any SETUP at any time it is not suspended, so that it *)
(*    may give up a control transfer half way, and otherwise follows the   *)
(*    stages of the transfer it has begun.                                 *)
(*  - The hardware (the HAL is external) cuts a transfer of endpoint 0     *)
(*    into packets; a SETUP clears stalls and disarms endpoint 0; a reset  *)
(*    clears address, stalls and armed endpoints.                          *)
(*  - dev_test_mode has no effect in this build and is left out, and so    *)
(*    are the mirrors is_used (of the open endpoints) and dev_address.     *)
(*  - hcdc->data carries the bytes of a command within one step and is no  *)
(*    variable.                                                            *)
(*  - A value that is always written again before it is read is blank      *)
(*    meanwhile: the lengths of the last answer once a SETUP has come,     *)
(*    the fields of a freed class handle, dev_old_state while awake.       *)
(***************************************************************************)
EXTENDS Integers

CONSTANTS
    Requests,    \* the SETUP packets the host may send
    Chars,       \* characters of the strings: manufacturer, product, ...
    Codings,     \* line codings
    DefaultCoding,
    Transfers,   \* lengths of the transfers CDC_KickTransmit_FS starts
    MaxPacket    \* of endpoint 0 and of the bulk endpoints

Ep0Out == 0
Ep0In == 128       \* 0x80: the direction bit
BulkOut == 1       \* CDC_OUT_EP
BulkIn == 129      \* CDC_IN_EP
CommandIn == 130   \* CDC_CMD_EP

Ep0 == {Ep0Out, Ep0In}
ClassEps == {BulkOut, BulkIn, CommandIn}

MaxWord == 65535

RequestType ==
    [dir : {"in", "out"},
     type : {"standard", "class", "vendor"},
     rcpt : {"device", "interface", "endpoint", "other"},
     code : STRING, value : 0..MaxWord,
     index : 0..255,   \* only SET_ADDRESS looks at the high byte: it is 0
     len : 0..MaxWord]

ASSUME RequestAssumption ==
    /\ Requests \subseteq RequestType
    \* a host asks for a line coding, or sends a command, with data
    /\ \A r \in Requests : r.code = "GET_LINE_CODING" => r.len > 0
    \* ... of at most one packet
    /\ \A r \in Requests : r.dir = "out" => r.len <= MaxPacket

\* What a host may ask for as far as the standards go: the requests of
\* chapter 9 are no class requests, those that set something carry no data,
\* and those that read something ask for it.
Setting == {"SET_ADDRESS", "SET_CONFIGURATION", "SET_FEATURE",
            "CLEAR_FEATURE", "SET_INTERFACE"}
Getting == {"GET_DESCRIPTOR", "GET_CONFIGURATION", "GET_STATUS",
            "GET_INTERFACE"}

ASSUME HostAssumption ==
    \A r \in Requests :
       /\ r.code \in Setting \cup Getting => r.type # "class"
       /\ r.code \in Setting \cup {"SET_CONTROL_LINE_STATE"} => r.len = 0
       /\ r.code \in Getting /\ r.len > 0 => r.dir = "in"
       /\ r.code = "GET_STATUS" /\ r.rcpt # "device" => r.len >= 2
       /\ r.code = "GET_INTERFACE" => r.len >= 1
       /\ r.code = "SET_CONFIGURATION" => r.value < 256

ASSUME DeviceAssumption ==
    /\ MaxPacket \in Nat \ {0}
    /\ Chars \in [{1, 2, 4, 5} -> Nat]
    /\ Transfers \subseteq Nat \ {0}
    /\ DefaultCoding \in Codings

VARIABLES
    \* ---- USBD_HandleTypeDef
    dev_state, dev_old_state, dev_config, dev_remote_wakeup,
    ep0,             \* the control pipe, see Ep0Type
    in1_total,       \* ep_in[1].total_length
    \* ---- USBD_CDC_HandleTypeDef
    hcdc,            \* is there a class handle?
    CmdOpCode, CmdLength,
    TxState,
    \* ---- usbd_cdc_if.c
    LineCoding, cdc_port_open,
    \* ---- the hardware
    address,
    opened,          \* endpoints
    halted,          \* endpoints the host has halted
    in1, out1,       \* what the bulk endpoints are armed with
    \* ---- the host
    xfer,            \* the control transfer
    told             \* history: the last line coding it has sent

NotArmed == -1
Junk == <<"junk">>   \* bytes no property distinguishes

Items ==
    {Junk} \cup ({"descriptor"} \X Nat) \cup ({"config"} \X {0, 1})
    \cup ({"wakeup", "halt"} \X BOOLEAN) \cup ({"coding"} \X Codings)

Ep0Type ==
    [state : {"IDLE", "SETUP", "DATA_IN", "DATA_OUT", "STATUS_IN",
              "STATUS_OUT"},
     data_len : Nat,                 \* ep0_data_len
     total : Nat, rem : Int,         \* ep_in[0]
     out_rem : Nat,                  \* ep_out[0].rem_length
     in : {NotArmed} \cup Nat,       \* the packet the IN side is armed with
     item : Items,                   \* what it is a part of
     out : BOOLEAN,                  \* is the OUT side armed?
     stall : SUBSET Ep0]

BlankEp0 ==
    [state |-> "IDLE", data_len |-> 0, total |-> 0, rem |-> 0, out_rem |-> 0,
     in |-> NotArmed, item |-> Junk, out |-> FALSE, stall |-> {}]

NoTransfer == [phase |-> "none"]
TransferType ==
    {NoTransfer} \cup
    [phase : {"data", "status", "ok", "stalled"}, req : Requests,
     got : Nat, item : Items]

dev_vars == <<dev_state, dev_old_state, dev_config, dev_remote_wakeup,
              address>>
cmd_vars == <<CmdOpCode, CmdLength>>
bulk_vars == <<TxState, in1_total, in1, out1>>
class_vars == <<hcdc, cmd_vars, bulk_vars, opened, cdc_port_open>>
vars == <<dev_vars, ep0, class_vars, halted, LineCoding, xfer, told>>

Least(a, b) == IF a < b THEN a ELSE b

Awake == dev_state # "SUSPENDED"
Configured == dev_state = "CONFIGURED"

-----------------------------------------------------------------------------
(* usbd_conf.c: what the library has the hardware do with endpoint 0 *)

LL_Transmit(e, len) == [e EXCEPT !.in = Least(len, MaxPacket)]
LL_PrepareReceive(e) == [e EXCEPT !.out = TRUE]
LL_StallEP(e, ep) == [e EXCEPT !.stall = @ \cup {ep}]

-----------------------------------------------------------------------------
(* usbd_ioreq.c: the answers on endpoint 0 *)

CtlSendData(e, item, len) ==
    LL_Transmit([e EXCEPT !.state = "DATA_IN", !.total = len, !.rem = len,
                          !.item = item], len)

\* the next packet, with the OUT side armed in case the host ends early
CtlContinueSendData(e, len) == LL_PrepareReceive(LL_Transmit(e, len))

CtlPrepareRx(e, len) ==
    LL_PrepareReceive([e EXCEPT !.state = "DATA_OUT", !.out_rem = len])

CtlSendStatus(e) == LL_Transmit([e EXCEPT !.state = "STATUS_IN"], 0)

CtlReceiveStatus(e) == LL_PrepareReceive([e EXCEPT !.state = "STATUS_OUT"])

CtlError(e) == LL_StallEP(LL_StallEP(e, Ep0In), Ep0Out)

\* the control pipe when the handler of a SETUP packet begins
Parsed(req) ==
    [BlankEp0 EXCEPT !.state = "SETUP", !.data_len = req.len]

-----------------------------------------------------------------------------
(* usbd_cdc.c and usbd_cdc_if.c: the class is set up and torn down *)

BlankHandle ==
    /\ CmdOpCode' = "none" /\ CmdLength' = 0
    /\ TxState' = 0 /\ in1_total' = 0

\* USBD_CDC_Init, CDC_Init_FS: a zeroed handle, endpoints open, port closed,
\* the OUT endpoint armed
ClassInit ==
    /\ hcdc' = TRUE
    /\ BlankHandle
    /\ opened' = opened \cup ClassEps
    /\ in1' = NotArmed /\ out1' = TRUE
    /\ cdc_port_open' = FALSE

\* Mutant of ClassDeInit: the port stays open.
ClassDeInitOpen ==
    /\ hcdc' = FALSE
    /\ in1' = NotArmed /\ out1' = FALSE
    /\ BlankHandle
    /\ UNCHANGED cdc_port_open

\* USBD_CDC_DeInit, CDC_DeInit_FS: endpoints closed, port closed, no handle
ClassDeInit ==
    /\ hcdc' = FALSE
    /\ in1' = NotArmed /\ out1' = FALSE
    /\ cdc_port_open' = (cdc_port_open /\ ~hcdc)
    /\ BlankHandle

\* USBD_ClrClassConfig
ClrClassConfig == ClassDeInit /\ opened' = opened \ ClassEps

\* CDC_KickTransmit_FS, USBD_CDC_SetTxBuffer and USBD_CDC_TransmitPacket from
\* the given TxState and armed transfer on; next is what the ring holds, 0
\* for nothing
Kick(state, armed, next) ==
    IF Configured /\ state = 0 /\ next > 0
    THEN TxState' = 1 /\ in1_total' = next /\ in1' = next
    ELSE /\ TxState' = state /\ in1' = armed
         /\ in1_total' = IF state = 0 THEN 0 ELSE in1_total

Offers == {0} \cup Transfers

-----------------------------------------------------------------------------
(* The host begins a control transfer *)

Begin(req) ==
    /\ Awake
    /\ Ep0 \subseteq opened
    /\ xfer' = [phase |-> IF req.len > 0 THEN "data" ELSE "status",
                req |-> req, got |-> 0, item |-> Junk]
    /\ UNCHANGED told

Is(req, type, rcpt, code) ==
    req.type = type /\ req.rcpt = rcpt /\ req.code = code

\* a request that only reads the state of the device
Reads == UNCHANGED <<dev_vars, class_vars, halted, LineCoding>>

-----------------------------------------------------------------------------
(* usbd_ctlreq.c: standard requests to the device *)

\* USBD_GetString: two bytes a character and a header
StringLength(idx) == Least(512, 2 * Chars[idx] + 2)

\* the length of a descriptor, 0 for one that does not exist: the high byte
\* of wValue is its type, the low byte the index of a string
DescriptorLength(value) ==
    LET type == value \div 256
        idx == value % 256
    IN  CASE type = 1 -> 18
          [] type = 2 -> 67
          [] type = 3 /\ idx = 0 -> 4
          [] type = 3 /\ idx = 3 -> 26
          [] type = 3 /\ idx \in DOMAIN Chars -> StringLength(idx)
          [] OTHER -> 0

GetDescriptor(req) ==
    /\ Is(req, "standard", "device", "GET_DESCRIPTOR")
    /\ Begin(req)
    /\ LET len == DescriptorLength(req.value) IN
       ep0' = IF len = 0 THEN CtlError(Parsed(req))
              ELSE IF req.len = 0 THEN CtlSendStatus(Parsed(req))
              ELSE CtlSendData(Parsed(req), <<"descriptor", req.value>>,
                               Least(len, req.len))
    /\ Reads

\* Mutant of SetAddress: a configured device takes an address.
SetAddressAnytime(req) ==
    /\ Is(req, "standard", "device", "SET_ADDRESS")
    /\ Begin(req)
    /\ address' = req.value
    /\ dev_state' = IF req.value # 0 THEN "ADDRESSED" ELSE "DEFAULT"
    /\ ep0' = CtlSendStatus(Parsed(req))
    /\ UNCHANGED <<dev_old_state, dev_config, dev_remote_wakeup, class_vars,
                   halted, LineCoding>>

\* the hardware takes the new address once the status stage is over
SetAddress(req) ==
    /\ Is(req, "standard", "device", "SET_ADDRESS")
    /\ Begin(req)
    /\ IF req.index = 0 /\ req.len = 0 /\ req.value < 128 /\ ~Configured
       THEN /\ address' = req.value
            /\ dev_state' = IF req.value # 0 THEN "ADDRESSED" ELSE "DEFAULT"
            /\ ep0' = CtlSendStatus(Parsed(req))
       ELSE /\ ep0' = CtlError(Parsed(req))
            /\ UNCHANGED <<address, dev_state>>
    /\ UNCHANGED <<dev_old_state, dev_config, dev_remote_wakeup, class_vars,
                   halted, LineCoding>>

\* The host asks for the configuration the device has.
AsItIs(cfgidx) ==
    \/ dev_state = "ADDRESSED" /\ cfgidx = 0
    \/ dev_state = "CONFIGURED" /\ cfgidx = 1

CfgIdx(req) == req.value % 256

SetConfig(req) ==
    /\ Is(req, "standard", "device", "SET_CONFIGURATION")
    /\ Begin(req)
    /\ \/ /\ CfgIdx(req) > 1
          /\ ep0' = CtlError(Parsed(req))
          /\ UNCHANGED <<dev_vars, class_vars>>
       \/ /\ CfgIdx(req) <= 1 /\ dev_state = "DEFAULT"
          /\ ep0' = CtlError(Parsed(req))
          /\ ClrClassConfig
          /\ UNCHANGED dev_vars
       \/ /\ CfgIdx(req) = 1 /\ dev_state = "ADDRESSED"
          /\ dev_config' = 1 /\ dev_state' = "CONFIGURED"
          /\ ClassInit
          /\ ep0' = CtlSendStatus(Parsed(req))
          /\ UNCHANGED <<dev_old_state, dev_remote_wakeup, address>>
       \/ /\ CfgIdx(req) = 0 /\ dev_state = "CONFIGURED"
          /\ dev_config' = 0 /\ dev_state' = "ADDRESSED"
          /\ ClrClassConfig
          /\ ep0' = CtlSendStatus(Parsed(req))
          /\ UNCHANGED <<dev_old_state, dev_remote_wakeup, address>>
       \/ /\ AsItIs(CfgIdx(req))
          /\ ep0' = CtlSendStatus(Parsed(req))
          /\ UNCHANGED <<dev_vars, class_vars>>
    /\ UNCHANGED <<halted, LineCoding>>

GetConfig(req) ==
    /\ Is(req, "standard", "device", "GET_CONFIGURATION")
    /\ Begin(req)
    /\ ep0' = IF req.len # 1 THEN CtlError(Parsed(req))
              ELSE CtlSendData(Parsed(req),
                      <<"config", IF Configured THEN dev_config ELSE 0>>, 1)
    /\ Reads

GetStatus(req) ==
    /\ Is(req, "standard", "device", "GET_STATUS")
    /\ Begin(req)
    /\ ep0' = IF req.len # 2 THEN CtlError(Parsed(req))
              ELSE CtlSendData(Parsed(req), <<"wakeup", dev_remote_wakeup>>, 2)
    /\ Reads

HALT == 0
REMOTE_WAKEUP == 1
TEST_MODE == 2

SetFeature(req) ==
    /\ Is(req, "standard", "device", "SET_FEATURE")
    /\ Begin(req)
    /\ ep0' = IF req.value \in {REMOTE_WAKEUP, TEST_MODE}
              THEN CtlSendStatus(Parsed(req)) ELSE CtlError(Parsed(req))
    /\ dev_remote_wakeup' = (dev_remote_wakeup \/ req.value = REMOTE_WAKEUP)
    /\ UNCHANGED <<dev_state, dev_old_state, dev_config, address, class_vars,
                   halted, LineCoding>>

\* another feature is neither cleared nor refused
ClrFeature(req) ==
    /\ Is(req, "standard", "device", "CLEAR_FEATURE")
    /\ Begin(req)
    /\ ep0' = IF req.value = REMOTE_WAKEUP
              THEN CtlSendStatus(Parsed(req)) ELSE Parsed(req)
    /\ dev_remote_wakeup' = (dev_remote_wakeup /\ req.value # REMOTE_WAKEUP)
    /\ UNCHANGED <<dev_state, dev_old_state, dev_config, address, class_vars,
                   halted, LineCoding>>

-----------------------------------------------------------------------------
(* usbd_ctlreq.c: standard requests to an endpoint *)

EndpointFeature(req, code) ==
    Is(req, "standard", "endpoint", code) /\ Begin(req)

\* not before the device is configured: refused, and the endpoint halted
EarlyFeature(req) ==
    IF dev_state = "ADDRESSED" /\ req.index \notin Ep0
    THEN /\ halted' = halted \cup {req.index}
         /\ ep0' = LL_StallEP(Parsed(req), Ep0In)
    ELSE ep0' = CtlError(Parsed(req)) /\ UNCHANGED halted

SetEPFeature(req) ==
    /\ EndpointFeature(req, "SET_FEATURE")
    /\ IF Configured
       THEN /\ halted' = IF req.value = HALT /\ req.index \notin Ep0
                            /\ req.len = 0
                         THEN halted \cup {req.index} ELSE halted
            /\ ep0' = CtlSendStatus(Parsed(req))
       ELSE EarlyFeature(req)
    /\ UNCHANGED <<dev_vars, class_vars, LineCoding>>

\* another feature than the halt is neither cleared nor refused
ClearEPFeature(req) ==
    /\ EndpointFeature(req, "CLEAR_FEATURE")
    /\ IF Configured
       THEN /\ halted' = IF req.value = HALT THEN halted \ {req.index}
                         ELSE halted
            /\ ep0' = IF req.value = HALT THEN CtlSendStatus(Parsed(req))
                      ELSE Parsed(req)
       ELSE EarlyFeature(req)
    /\ UNCHANGED <<dev_vars, class_vars, LineCoding>>

GetEPStatus(req) ==
    /\ EndpointFeature(req, "GET_STATUS")
    /\ LET known == \/ dev_state = "ADDRESSED" /\ req.index \in Ep0
                    \/ Configured /\ req.index \in opened
       IN  ep0' = IF known
                  THEN CtlSendData(Parsed(req),
                                   <<"halt", req.index \in halted>>, 2)
                  ELSE CtlError(Parsed(req))
    /\ Reads

-----------------------------------------------------------------------------
(* USBD_CDC_Setup, reached through any recipient *)

ToClass(req) ==
    \/ req.rcpt = "interface" /\ req.index <= 2
    \/ req.rcpt \in {"device", "endpoint"} /\ req.type # "standard"

\* only USBD_StdItfReq answers a request without data that was carried out
Done(req) ==
    IF req.rcpt = "interface" /\ req.len = 0 THEN CtlSendStatus(Parsed(req))
    ELSE Parsed(req)

\* no handle: USBD_FAIL, and the host gets no answer
NoHandle(req) ==
    /\ ToClass(req) /\ ~hcdc
    /\ Begin(req)
    /\ ep0' = Parsed(req)
    /\ Reads

ClassRequest(req) ==
    ToClass(req) /\ hcdc /\ req.type = "class" /\ Begin(req)

\* Mutant of ClassIn: CDC_Control_FS is not asked, the buffer is sent as it is.
ClassInStale(req) ==
    /\ ClassRequest(req) /\ req.len > 0 /\ req.dir = "in"
    /\ ep0' = CtlSendData(Parsed(req), Junk, Least(7, req.len))
    /\ Reads

\* CDC_Control_FS fills hcdc->data, or leaves in it what was there; at most
\* seven bytes of it are sent
ClassIn(req) ==
    /\ ClassRequest(req) /\ req.len > 0 /\ req.dir = "in"
    /\ LET data == IF req.code = "GET_LINE_CODING"
                   THEN <<"coding", LineCoding>> ELSE Junk
       IN  ep0' = CtlSendData(Parsed(req), data, Least(7, req.len))
    /\ Reads

\* the request waits for its data
ClassOut(req) ==
    /\ ClassRequest(req) /\ req.len > 0 /\ req.dir = "out"
    /\ CmdOpCode' = req.code
    /\ CmdLength' = Least(req.len, MaxPacket)
    /\ ep0' = CtlPrepareRx(Parsed(req), CmdLength')
    /\ UNCHANGED <<dev_vars, hcdc, bulk_vars, opened, cdc_port_open,
                   halted, LineCoding>>

\* CDC_SET_CONTROL_LINE_STATE: DTR opens or closes the port; opened, it
\* sends what the ring holds
ClassNoData(req) ==
    /\ ClassRequest(req) /\ req.len = 0
    /\ ep0' = Done(req)
    /\ IF req.code = "SET_CONTROL_LINE_STATE"
       THEN /\ cdc_port_open' = (req.value % 2 = 1)
            /\ IF cdc_port_open'
               THEN \E next \in Offers : Kick(TxState, in1, next)
               ELSE UNCHANGED <<TxState, in1_total, in1>>
       ELSE UNCHANGED <<cdc_port_open, TxState, in1_total, in1>>
    /\ UNCHANGED <<dev_vars, hcdc, cmd_vars, out1, opened, halted, LineCoding>>

\* status and alternate setting are sent from locals of the handler, which
\* has returned when the hardware reads them
ClassStandard(req) ==
    /\ ToClass(req) /\ hcdc /\ req.type = "standard"
    /\ Begin(req)
    /\ ep0' = CASE ~Configured -> CtlError(Parsed(req))
                [] req.code = "GET_STATUS" -> CtlSendData(Parsed(req), Junk, 2)
                [] req.code = "GET_INTERFACE" ->
                      CtlSendData(Parsed(req), Junk, 1)
                [] req.code \in {"SET_INTERFACE", "CLEAR_FEATURE"} -> Done(req)
                [] OTHER -> CtlError(Parsed(req))
    /\ Reads

-----------------------------------------------------------------------------
(* Requests nobody knows: both sides of endpoint 0 stall *)

DeviceCodes == {"GET_DESCRIPTOR", "SET_ADDRESS", "SET_CONFIGURATION",
                "GET_CONFIGURATION", "GET_STATUS", "SET_FEATURE",
                "CLEAR_FEATURE"}

Unknown(req) ==
    \/ /\ req.type = "standard" /\ req.rcpt = "device"
       /\ req.code \notin DeviceCodes
    \/ /\ req.type = "standard" /\ req.rcpt = "endpoint"
       /\ req.code \notin {"SET_FEATURE", "CLEAR_FEATURE", "GET_STATUS"}
    \/ req.rcpt = "interface" /\ req.index > 2
    \/ ToClass(req) /\ hcdc /\ req.type = "vendor"

Refuse(req) ==
    /\ Unknown(req)
    /\ Begin(req)
    /\ ep0' = CtlError(Parsed(req))
    /\ Reads

\* ... and of an unknown recipient: the side of bmRequest's direction only
RefuseOther(req) ==
    /\ req.rcpt = "other"
    /\ Begin(req)
    /\ ep0' = LL_StallEP(Parsed(req),
                         IF req.dir = "in" THEN Ep0In ELSE Ep0Out)
    /\ Reads

SetupStage(req) ==
    \/ GetDescriptor(req) \/ SetAddress(req) \/ SetConfig(req)
    \/ GetConfig(req) \/ GetStatus(req) \/ SetFeature(req) \/ ClrFeature(req)
    \/ SetEPFeature(req) \/ ClearEPFeature(req) \/ GetEPStatus(req)
    \/ NoHandle(req) \/ ClassIn(req) \/ ClassOut(req) \/ ClassNoData(req)
    \/ ClassStandard(req) \/ Refuse(req) \/ RefuseOther(req)

-----------------------------------------------------------------------------
(* The stages of a control transfer *)

\* Which way does the host expect the next packet?
Reading ==
    \/ xfer.phase = "data" /\ xfer.req.dir = "in"
    \/ xfer.phase = "status" /\ (xfer.req.dir = "out" \/ xfer.req.len = 0)
Writing ==
    \/ xfer.phase = "data" /\ xfer.req.dir = "out"
    \/ xfer.phase = "status" /\ xfer.req.dir = "in" /\ xfer.req.len > 0

HostSeesStall ==
    /\ Awake
    /\ \/ Reading /\ Ep0In \in ep0.stall
       \/ Writing /\ Ep0Out \in ep0.stall
    /\ xfer' = [xfer EXCEPT !.phase = "stalled"]
    /\ UNCHANGED <<dev_vars, ep0, class_vars, halted, LineCoding, told>>

\* Mutant of DataInStage: an answer that fills its last packet, shorter than
\* the host asked for, is not ended by an empty packet.
DataInStageNoZlp(e) ==
    IF e.state # "DATA_IN" THEN e
    ELSE IF e.rem > MaxPacket
    THEN CtlContinueSendData([e EXCEPT !.rem = @ - MaxPacket],
                             e.rem - MaxPacket)
    ELSE CtlReceiveStatus(LL_StallEP(e, Ep0In))

\* USBD_LL_DataInStage: more of the answer, an empty packet after an answer
\* that fills its last one and is shorter than the host asked for, or the
\* status stage
DataInStage(e) ==
    IF e.state # "DATA_IN" THEN e
    ELSE IF e.rem > MaxPacket
    THEN CtlContinueSendData([e EXCEPT !.rem = @ - MaxPacket],
                             e.rem - MaxPacket)
    ELSE IF e.rem = MaxPacket /\ e.total >= MaxPacket /\ e.total < e.data_len
    THEN CtlContinueSendData([e EXCEPT !.data_len = 0], 0)
    ELSE CtlReceiveStatus(LL_StallEP(e, Ep0In))

\* The host takes a packet of the data stage, which a short one or the last
\* byte it asked for ends, or the empty one of the status stage.
InPacket ==
    /\ Awake
    /\ Reading /\ Ep0In \notin ep0.stall /\ ep0.in # NotArmed
    /\ LET got == xfer.got + ep0.in
           last == ep0.in < MaxPacket \/ got = xfer.req.len
       IN  xfer' = IF xfer.phase = "status" THEN [xfer EXCEPT !.phase = "ok"]
                   ELSE [xfer EXCEPT !.got = got,
                                     !.item = ep0.item,
                                     !.phase = IF last THEN "status" ELSE @]
    /\ ep0' = DataInStage([ep0 EXCEPT !.in = NotArmed])
    /\ UNCHANGED <<dev_vars, class_vars, halted, LineCoding, told>>

\* USBD_CDC_EP0_RxReady, CDC_Control_FS: the command whose data has come
Command(op, len, bytes) ==
    LineCoding' = IF op = "SET_LINE_CODING" /\ len >= 7 THEN bytes[2]
                  ELSE LineCoding

\* what the host may send as the data of its request
Payload(req) ==
    IF req.code = "SET_LINE_CODING" /\ req.len >= 7
    THEN {"coding"} \X Codings ELSE {Junk}

\* The host sends the data of a request, which is one packet here, and
\* USBD_LL_DataOutStage hands it to the class.
OutPacket ==
    /\ Awake
    /\ Writing /\ xfer.phase = "data" /\ ep0.out /\ Ep0Out \notin ep0.stall
    /\ xfer' = [xfer EXCEPT !.got = xfer.req.len, !.phase = "status"]
    /\ \E bytes \in Payload(xfer.req) :
         /\ told' = IF bytes = Junk THEN told ELSE bytes[2]
         /\ IF Configured /\ hcdc /\ CmdOpCode # "none"
            THEN /\ Command(CmdOpCode, CmdLength, bytes)
                 /\ CmdOpCode' = "none" /\ CmdLength' = 0
            ELSE UNCHANGED <<CmdOpCode, CmdLength, LineCoding>>
    /\ ep0' = CtlSendStatus([ep0 EXCEPT !.out = FALSE])
    /\ UNCHANGED <<dev_vars, hcdc, bulk_vars, opened, cdc_port_open, halted>>

\* The status stage of an answer: an empty packet, and nothing more to do.
OutStatus ==
    /\ Awake
    /\ Writing /\ xfer.phase = "status" /\ ep0.out
    /\ Ep0Out \notin ep0.stall
    /\ xfer' = [xfer EXCEPT !.phase = "ok"]
    /\ ep0' = [ep0 EXCEPT !.out = FALSE]
    /\ UNCHANGED <<dev_vars, class_vars, halted, LineCoding, told>>

-----------------------------------------------------------------------------
(* The bulk endpoints *)

\* CDC_KickTransmit_FS in a task: interrupted after its test of the state it
\* may call USBD_CDC_TransmitPacket in any state
TransmitPacket(len) ==
    /\ hcdc /\ TxState = 0
    /\ TxState' = 1 /\ in1_total' = len /\ in1' = len
    /\ UNCHANGED <<dev_vars, ep0, hcdc, cmd_vars, out1, opened, cdc_port_open,
                   halted, LineCoding, xfer, told>>

\* Mutant of DataIn: a transfer is complete when its bytes are sent.
DataInNoZlp ==
    /\ Awake
    /\ in1 # NotArmed /\ BulkIn \notin halted
    /\ IF Configured /\ hcdc
       THEN \E next \in Offers : Kick(0, NotArmed, next)
       ELSE in1' = NotArmed /\ UNCHANGED <<TxState, in1_total>>
    /\ UNCHANGED <<dev_vars, ep0, hcdc, cmd_vars, out1, opened, cdc_port_open,
                   halted, LineCoding, xfer, told>>

\* The host takes a transfer.  USBD_CDC_DataIn: an empty packet after full
\* ones, else CDC_TransmitCplt_FS and the next transfer.
DataIn ==
    /\ Awake
    /\ in1 # NotArmed /\ BulkIn \notin halted
    /\ IF Configured /\ hcdc
       THEN IF in1_total > 0 /\ in1_total % MaxPacket = 0
            THEN in1_total' = 0 /\ in1' = 0 /\ UNCHANGED TxState
            ELSE \E next \in Offers : Kick(0, NotArmed, next)
       ELSE in1' = NotArmed /\ UNCHANGED <<TxState, in1_total>>
    /\ UNCHANGED <<dev_vars, ep0, hcdc, cmd_vars, out1, opened, cdc_port_open,
                   halted, LineCoding, xfer, told>>

\* The host sends a packet.  USBD_CDC_DataOut, CDC_Receive_FS (whose ring is
\* RxLine's) and USBD_CDC_ReceivePacket, which arms the endpoint again.
DataOut ==
    /\ Awake
    /\ out1 /\ BulkOut \notin halted
    /\ out1' = (Configured /\ hcdc)
    /\ UNCHANGED <<dev_vars, ep0, hcdc, cmd_vars, TxState, in1_total, in1,
                   opened, cdc_port_open, halted, LineCoding, xfer, told>>

-----------------------------------------------------------------------------
(* Events of the bus *)

\* USBD_LL_Reset
Reset ==
    /\ dev_state' = "DEFAULT" /\ dev_config' = 0 /\ dev_remote_wakeup' = FALSE
    /\ address' = 0
    /\ ClassDeInit /\ opened' = Ep0
    /\ halted' = {}
    /\ ep0' = BlankEp0
    /\ xfer' = NoTransfer
    /\ dev_old_state' = "none"
    /\ UNCHANGED <<LineCoding, told>>

\* Mutant of Suspend: the state before is stored each time.
SuspendAgain ==
    /\ dev_old_state' = dev_state
    /\ dev_state' = "SUSPENDED"
    /\ xfer' = NoTransfer
    /\ UNCHANGED <<dev_config, dev_remote_wakeup, address, ep0, class_vars,
                   halted, LineCoding, told>>

\* USBD_LL_Suspend, an unplugged cable included, for VBUS is not sensed: the
\* host gives up what it has begun
Suspend ==
    /\ dev_old_state' = IF Awake THEN dev_state ELSE dev_old_state
    /\ dev_state' = "SUSPENDED"
    /\ xfer' = NoTransfer
    /\ UNCHANGED <<dev_config, dev_remote_wakeup, address, ep0, class_vars,
                   halted, LineCoding, told>>

\* USBD_LL_Resume
Resume ==
    /\ dev_state = "SUSPENDED"
    /\ dev_state' = dev_old_state
    /\ dev_old_state' = "none"
    /\ UNCHANGED <<dev_config, dev_remote_wakeup, address, ep0,
                   class_vars, halted, LineCoding, xfer, told>>

-----------------------------------------------------------------------------
(* The specification *)

\* USBD_Init, USBD_RegisterClass and USBD_Start: a device without a class
\* handle, whose endpoints nothing has opened
Started ==
    /\ dev_state = "DEFAULT" /\ dev_old_state = "none"
    /\ dev_config = 0 /\ dev_remote_wakeup = FALSE /\ address = 0
    /\ ep0 = BlankEp0
    /\ hcdc = FALSE /\ CmdOpCode = "none" /\ CmdLength = 0
    /\ TxState = 0 /\ in1_total = 0 /\ in1 = NotArmed /\ out1 = FALSE
    /\ opened = {} /\ halted = {}

\* serial_init has run; the host has yet to reset the bus.
Init ==
    /\ Started
    /\ cdc_port_open = FALSE
    /\ LineCoding = DefaultCoding /\ told = DefaultCoding
    /\ xfer = NoTransfer

Next ==
    \/ \E req \in Requests : SetupStage(req)
    \/ HostSeesStall \/ InPacket \/ OutPacket \/ OutStatus
    \/ \E len \in Transfers : TransmitPacket(len)
    \/ DataIn \/ DataOut
    \/ Reset \/ Suspend \/ Resume

Spec == Init /\ [][Next]_vars

-----------------------------------------------------------------------------
(* Properties *)

\* The variables keep their types: in particular an answer is never longer
\* than what was asked, so that rem_length does not wrap below zero.
TypeOK ==
    /\ dev_state \in {"DEFAULT", "ADDRESSED", "CONFIGURED", "SUSPENDED"}
    /\ dev_old_state \in {"none", "DEFAULT", "ADDRESSED", "CONFIGURED"}
    /\ dev_config \in {0, 1} /\ dev_remote_wakeup \in BOOLEAN
    /\ address \in 0..127
    /\ ep0 \in Ep0Type /\ ep0.rem >= 0 /\ ep0.in <= MaxPacket
    /\ hcdc \in BOOLEAN /\ cdc_port_open \in BOOLEAN
    /\ CmdLength \in 0..MaxPacket
    /\ TxState \in {0, 1} /\ in1_total \in Offers
    /\ in1 \in {NotArmed} \cup Offers /\ out1 \in BOOLEAN
    /\ LineCoding \in Codings /\ told \in Codings
    /\ opened \subseteq Ep0 \cup ClassEps
    /\ xfer \in TransferType

\* the state the host has brought the device to, suspended or not
state == IF Awake THEN dev_state ELSE dev_old_state

\* However the host interleaves requests, resets and suspensions, the class
\* handle exists exactly while the device is configured, and with it the
\* open bulk endpoints: the OUT endpoint armed, the IN endpoint armed exactly
\* while TxState is busy.  Neither direction can be left without a wake-up,
\* and an open port never outlives its configuration.
ClassIffConfigured ==
    /\ hcdc <=> state = "CONFIGURED"
    /\ hcdc <=> dev_config = 1
    /\ opened \cap ClassEps = (IF hcdc THEN ClassEps ELSE {})
    /\ out1 = hcdc
    /\ in1 # NotArmed <=> hcdc /\ TxState = 1
    /\ cdc_port_open => hcdc

\* The requests the library takes without a word: it neither answers nor
\* stalls, and the host has to give up.
Ignored(req) ==
    \/ ToClass(req) /\ ~hcdc
    \/ req.type = "class" /\ req.rcpt \in {"device", "endpoint"} /\ req.len = 0
    \/ /\ req.code = "CLEAR_FEATURE" /\ req.type = "standard"
       /\ \/ req.rcpt = "device" /\ req.value # REMOTE_WAKEUP
          \/ req.rcpt = "endpoint" /\ state = "CONFIGURED" /\ req.value # HALT
    \/ req.rcpt = "other" /\ req.dir = "out" /\ req.len = 0

\* A control transfer never dies half way: but for the ignored requests the
\* side of endpoint 0 the host turns to is armed or stalls, at every stage,
\* whatever transfer was given up before; and once an answer has begun it is
\* never cut off by a stall.
Answerable ==
    /\ Reading /\ ~Ignored(xfer.req) =>
          Ep0In \in ep0.stall \/ ep0.in # NotArmed
    /\ Writing /\ ~Ignored(xfer.req) => Ep0Out \in ep0.stall \/ ep0.out
    /\ xfer.phase = "stalled" => xfer.got = 0

\* what an answer has to be: its item and its length
Answer(req) ==
    CASE req.code = "GET_DESCRIPTOR" ->
           <<<<"descriptor", req.value>>, DescriptorLength(req.value)>>
      [] req.code = "GET_CONFIGURATION" -> <<<<"config", dev_config>>, 1>>
      [] req.code = "GET_STATUS" /\ req.rcpt = "device" ->
           <<<<"wakeup", dev_remote_wakeup>>, 2>>
      [] req.code = "GET_STATUS" /\ req.rcpt = "endpoint" ->
           <<<<"halt", req.index \in halted>>, 2>>
      [] req.code = "GET_LINE_CODING" -> <<<<"coding", told>>, 7>>
      [] OTHER -> <<xfer.item, xfer.got>>

\* What a completed control transfer made the host believe is so: it got the
\* item it asked for, whole or as much as it asked for, and what it set is
\* set.  The line coding it reads back is the last one it sent in full,
\* across resets, aborted transfers and codings cut short.
HostNotDeceived ==
    xfer.phase = "ok" =>
       LET req == xfer.req IN
       /\ req.dir = "in" /\ req.len > 0 =>
             /\ xfer.item = Answer(req)[1]
             /\ xfer.got = Least(Answer(req)[2], req.len)
       /\ req.code = "SET_ADDRESS" => address = req.value
       /\ req.code = "SET_CONFIGURATION" =>
             dev_config = req.value /\ (hcdc <=> req.value = 1)
       /\ req.code = "SET_CONTROL_LINE_STATE" =>
             cdc_port_open = (req.value % 2 = 1)
       /\ req.rcpt = "endpoint" /\ req.value = HALT /\ req.index \notin Ep0 =>
             /\ req.code = "SET_FEATURE" => req.index \in halted
             /\ req.code = "CLEAR_FEATURE" => req.index \notin halted
       /\ LineCoding = told

\* A bulk transfer that fills its last packet is followed by an empty one
\* before the next begins: the host is never left waiting for more of a
\* transfer that is over, and CdcTx may take a transfer for one step.
ShortPacketEnds ==
    [][in1' # in1 /\ in1 > 0 /\ in1 % MaxPacket = 0 /\ hcdc' => in1' = 0]_in1

\* The device goes through the states of chapter 9 and no others: no request
\* in any order, and no suspension, brings it to a state, an address or a
\* configuration the host has not led it to.
Chapter9 ==
    INSTANCE UsbStates WITH Addresses <- 0..127, suspended <- ~Awake
IsUsbStates == Chapter9!Spec
=============================================================================
