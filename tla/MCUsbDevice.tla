---------------------------- MODULE MCUsbDevice ----------------------------
(***************************************************************************)
(* UsbDevice for TLC: the requests of an enumeration and of a serial       *)
(* driver, and requests that each take one more branch of the library.     *)
(***************************************************************************)
EXTENDS UsbDevice, TLC

\* The strings of this build, but for a product name of 31 characters, whose
\* descriptor fills a packet, in place of one of 21.
MCChars == 1 :> 14 @@ 2 :> 31 @@ 4 :> 10 @@ 5 :> 13

Req(dir, type, rcpt, code, value, index, len) ==
    [dir |-> dir, type |-> type, rcpt |-> rcpt, code |-> code,
     value |-> value, index |-> index, len |-> len]

Device(dir, code, value, len) ==
    Req(dir, "standard", "device", code, value, 0, len)
Endpoint(dir, code, value, index, len) ==
    Req(dir, "standard", "endpoint", code, value, index, len)
Interface(dir, code, index, len) ==
    Req(dir, "standard", "interface", code, 0, index, len)
Class(dir, code, value, len) ==
    Req(dir, "class", "interface", code, value, 0, len)

\* device; configuration: its head, whole, and cut at a packet; a string that
\* fills a packet; one a full-speed device does not have; none of it
Descriptors ==
    {Device("in", "GET_DESCRIPTOR", d[1], d[2]) :
        d \in {<<256, 64>>, <<512, 9>>, <<512, 255>>, <<512, 64>>,
               <<770, 255>>, <<1536, 10>>, <<256, 0>>}}

DeviceRequests ==
    Descriptors
    \cup {Device("out", "SET_ADDRESS", a, 0) : a \in {0, 5, 200}}
    \cup {Device("out", "SET_CONFIGURATION", c, 0) : c \in 0..2}
    \cup {Device("in", "GET_CONFIGURATION", 0, n) : n \in 1..2}
    \cup {Device("in", "GET_STATUS", 0, n) : n \in 1..2}
    \cup {Device("out", "SET_FEATURE", f, 0) : f \in {0, 1}}
    \cup {Device("out", "CLEAR_FEATURE", f, 0) : f \in {0, 1}}
    \cup {Device("out", "SET_DESCRIPTOR", 0, 0)}

EndpointRequests ==
    {Endpoint("in", "GET_STATUS", 0, e, 2) : e \in {128, 129, 131}}
    \cup {Endpoint("out", c, 0, e, 0) :
            c \in {"SET_FEATURE", "CLEAR_FEATURE"}, e \in {0, 129}}
    \cup {Endpoint("out", "CLEAR_FEATURE", 1, 129, 0),
          Endpoint("in", "SYNCH_FRAME", 0, 129, 2)}

InterfaceRequests ==
    {Interface("in", "GET_STATUS", 0, 2),
     Interface("in", "GET_INTERFACE", 1, 1),
     Interface("out", "SET_INTERFACE", 1, 0),
     Interface("out", "SET_FEATURE", 0, 0),
     Interface("in", "GET_STATUS", 3, 2)}

ClassRequests ==
    {Class("out", "SET_LINE_CODING", 0, n) : n \in {2, 7}}
    \cup {Class("in", "GET_LINE_CODING", 0, n) : n \in {2, 7}}
    \cup {Class("out", "SET_CONTROL_LINE_STATE", v, 0) : v \in {0, 1}}
    \cup {Class("out", "SEND_ENCAPSULATED_COMMAND", 0, 7),
          Class("in", "GET_ENCAPSULATED_RESPONSE", 0, 64),
          Req("out", "class", "device", "SEND_BREAK", 0, 0, 0)}

OtherRequests ==
    {Req("in", "vendor", "device", "VENDOR", 0, 0, 2),
     Req("in", "standard", "other", "RESERVED", 0, 0, 2),
     Req("out", "standard", "other", "RESERVED", 0, 0, 0)}

MCRequests == DeviceRequests \cup EndpointRequests \cup InterfaceRequests
              \cup ClassRequests \cup OtherRequests
=============================================================================
