----------------------------- MODULE UsbStates -----------------------------
(***************************************************************************)
(* What chapter 9 of the USB specification makes of a device, as far as    *)
(* its host can tell: an address, a configuration, and a bus that may be   *)
(* suspended in any state and is then resumed in the same one.             *)
(***************************************************************************)
EXTENDS Naturals

CONSTANT Addresses   \* those the host gives, 0 among them

VARIABLES state, address, suspended

vars == <<state, address, suspended>>

Init == state = "DEFAULT" /\ address = 0 /\ suspended = FALSE

BusReset == state' = "DEFAULT" /\ address' = 0 /\ suspended' = FALSE

SetAddress(a) ==
    /\ ~suspended /\ state # "CONFIGURED"
    /\ address' = a
    /\ state' = IF a = 0 THEN "DEFAULT" ELSE "ADDRESSED"
    /\ UNCHANGED suspended

Configure ==
    /\ ~suspended /\ state = "ADDRESSED"
    /\ state' = "CONFIGURED"
    /\ UNCHANGED <<address, suspended>>

Unconfigure ==
    /\ ~suspended /\ state = "CONFIGURED"
    /\ state' = "ADDRESSED"
    /\ UNCHANGED <<address, suspended>>

Suspend == suspended' = TRUE /\ UNCHANGED <<state, address>>

Resume == suspended' = FALSE /\ UNCHANGED <<state, address>>

Next ==
    \/ Suspend \/ Resume \/ BusReset \/ Configure \/ Unconfigure
    \/ \E a \in Addresses : SetAddress(a)

Spec == Init /\ [][Next]_vars
=============================================================================
