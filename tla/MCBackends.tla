----------------------------- MODULE MCBackends -----------------------------
(***************************************************************************)
(* The backends between a device and the others: the byte stream of        *)
(* LinuxTCP, LinuxUART and MiosixUSART (Framing), and the TP-UART on Linux *)
(* and Miosix.  A behaviour is one of a single backend.                    *)
(***************************************************************************)
EXTENDS Framing, TPUART

VARIABLE user       \* "stream" or "tpuart"

BackendsInit == user \in {"stream", "tpuart"} /\ Init /\ TInit
BackendsNext ==
    \/ user = "stream" /\ Next  /\ UNCHANGED <<user, tpuartVars>>
    \/ user = "tpuart" /\ TNext /\ UNCHANGED <<user, vars>>
BackendsSpec == BackendsInit /\ [][BackendsNext]_<<user, vars, tpuartVars>> /\ TFairness
=============================================================================
