----------------------------- MODULE MCServices -----------------------------
(* The components that do not interact with one another, checked in one run: *)
(* `part`, chosen at the start, is the one that moves; the others stay in    *)
(* an initial state.                                                        *)
EXTENDS PublicGate, Downloads, SigningKeys, DpopReplay, AuditShip, LogRotate,
        Throttle, Passkeys, GatewayLogin, Policy

VARIABLE part

\* Requests for /a/b, /ab and /; a rule for /a/ and below, a port, or the minutes
\* 22:00..06:00 of a three-minute day on mondays.
MCRequestPath == {<<"a", "b">>, <<"ab">>, <<"">>}
MCPathLists == {{}, {{<<"a", "">>}}}
MCPortLists == {{}, {{443}}}
MCWindowSets == {{}, {[ok |-> TRUE, days |-> {{"mon"}}, start |-> 2, end |-> 0]}}

servicesVars == <<part, gateVars, downloadVars, keyVars, dpopVars, shipVars, logVars,
                  throttleVars, passkeyVars, gatewayVars, policies>>

\* A component that stays at rest starts in one of its initial states only.
ServicesInit ==
    /\ part \in {"gate", "downloads", "keys", "dpop", "ship", "log", "throttle", "passkeys",
                "gateway", "policy"}
    /\ GateInit /\ DownloadInit /\ KeyInit /\ DpopInit /\ ShipInit /\ LogInit
    /\ ThrottleInit /\ PasskeyInit /\ GatewayInit /\ PolicyInit
    /\ part # "dpop" => \A p \in Proof : iat[p] = 1
    /\ part # "passkeys" => ActiveAdmin(account)

GatePart == part = "gate" /\ GateNext
    /\ UNCHANGED <<downloadVars, keyVars, dpopVars, shipVars, logVars, throttleVars, passkeyVars, gatewayVars, policies>>
DownloadPart == part = "downloads" /\ DownloadNext
    /\ UNCHANGED <<gateVars, keyVars, dpopVars, shipVars, logVars, throttleVars, passkeyVars, gatewayVars, policies>>
KeyPart == part = "keys" /\ KeyNext
    /\ UNCHANGED <<gateVars, downloadVars, dpopVars, shipVars, logVars, throttleVars, passkeyVars, gatewayVars, policies>>
DpopPart == part = "dpop" /\ DpopNext
    /\ UNCHANGED <<gateVars, downloadVars, keyVars, shipVars, logVars, throttleVars, passkeyVars, gatewayVars, policies>>
ShipPart == part = "ship" /\ ShipNext
    /\ UNCHANGED <<gateVars, downloadVars, keyVars, dpopVars, logVars, throttleVars, passkeyVars, gatewayVars, policies>>
LogPart == part = "log" /\ LogNext
    /\ UNCHANGED <<gateVars, downloadVars, keyVars, dpopVars, shipVars, throttleVars, passkeyVars, gatewayVars, policies>>
ThrottlePart == part = "throttle" /\ ThrottleNext
    /\ UNCHANGED <<gateVars, downloadVars, keyVars, dpopVars, shipVars, logVars, passkeyVars, gatewayVars, policies>>
PasskeyPart == part = "passkeys" /\ PasskeyNext
    /\ UNCHANGED <<gateVars, downloadVars, keyVars, dpopVars, shipVars, logVars, throttleVars, gatewayVars, policies>>
GatewayPart == part = "gateway" /\ GatewayNext
    /\ UNCHANGED <<gateVars, downloadVars, keyVars, dpopVars, shipVars, logVars, throttleVars, passkeyVars, policies>>
PolicyPart == part = "policy" /\ PolicyNext
    /\ UNCHANGED <<gateVars, downloadVars, keyVars, dpopVars, shipVars, logVars, throttleVars, passkeyVars, gatewayVars>>

ServicesNext ==
    /\ \/ GatePart \/ DownloadPart \/ KeyPart \/ DpopPart \/ ShipPart \/ LogPart
       \/ ThrottlePart \/ PasskeyPart \/ GatewayPart \/ PolicyPart
    /\ UNCHANGED part

ServicesSpec == ServicesInit /\ [][ServicesNext]_servicesVars

\* Every component's state is of its type: in particular a key command's clock
\* reading, a delay and a shipping batch stay in their ranges.
ServicesTypeOK ==
    /\ GateTypeOK /\ DownloadTypeOK /\ KeyTypeOK /\ DpopTypeOK /\ ShipTypeOK /\ LogTypeOK
    /\ ThrottleTypeOK /\ PasskeyTypeOK /\ GatewayTypeOK /\ PolicyTypeOK
=============================================================================
