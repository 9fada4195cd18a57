--------------------------- MODULE Services_proof ---------------------------
(***************************************************************************)
(* The services of MCServices side by side: each one behaves as its own     *)
(* specification says, so what is proved of it alone holds in their         *)
(* composition.                                                             *)
(***************************************************************************)
EXTENDS MCServices, TokenServices_proof, AccessServices_proof, AdminServices_proof, TLAPS

(* A step of the composition is a step of one service and of no other. *)
LEMMA ServiceSteps ==
    ASSUME [ServicesNext]_servicesVars
    PROVE  /\ [GateNext]_gateVars /\ [DownloadNext]_downloadVars /\ [KeyNext]_keyVars
           /\ [DpopNext]_dpopVars /\ [ShipNext]_shipVars /\ [LogNext]_logVars
           /\ [ThrottleNext]_throttleVars /\ [PasskeyNext]_passkeyVars
           /\ [GatewayNext]_gatewayVars /\ [PolicyNext]_policies
<1>1. CASE GatePart \/ DownloadPart
  BY <1>1 DEF GatePart, DownloadPart
<1>2. CASE KeyPart \/ DpopPart
  BY <1>2 DEF KeyPart, DpopPart
<1>3. CASE ShipPart \/ LogPart
  BY <1>3 DEF ShipPart, LogPart
<1>4. CASE ThrottlePart \/ PasskeyPart
  BY <1>4 DEF ThrottlePart, PasskeyPart
<1>5. CASE GatewayPart \/ PolicyPart
  BY <1>5 DEF GatewayPart, PolicyPart
<1>6. CASE UNCHANGED servicesVars
  BY <1>6 DEF servicesVars
<1> QED
  BY <1>1, <1>2, <1>3, <1>4, <1>5, <1>6 DEF ServicesNext

(* The composition implements the specification of every service: their variables and *)
(* their steps are apart, so none can disturb another's invariants.                    *)
THEOREM ServicesImplementEach ==
    ServicesSpec =>
        /\ GateSpec /\ DownloadSpec /\ KeySpec /\ DpopSpec /\ ShipSpec
        /\ LogSpec /\ ThrottleSpec /\ PasskeySpec /\ GatewaySpec /\ PolicySpec
<1>1. ServicesInit =>
        /\ GateInit /\ DownloadInit /\ KeyInit /\ DpopInit /\ ShipInit
        /\ LogInit /\ ThrottleInit /\ PasskeyInit /\ GatewayInit /\ PolicyInit
  BY DEF ServicesInit
<1>2. [ServicesNext]_servicesVars =>
        /\ [GateNext]_gateVars /\ [DownloadNext]_downloadVars /\ [KeyNext]_keyVars
        /\ [DpopNext]_dpopVars /\ [ShipNext]_shipVars /\ [LogNext]_logVars
        /\ [ThrottleNext]_throttleVars /\ [PasskeyNext]_passkeyVars
        /\ [GatewayNext]_gatewayVars /\ [PolicyNext]_policies
  BY ServiceSteps
<1> QED
  BY <1>1, <1>2, PTL
     DEF ServicesSpec, GateSpec, DownloadSpec, KeySpec, DpopSpec, ShipSpec, LogSpec,
         ThrottleSpec, PasskeySpec, GatewaySpec, PolicySpec

(* All the services' state is of its type in every behaviour of the composition. *)
THEOREM ServicesTypesHold == ServicesSpec => []ServicesTypeOK
<1>1. GateInv /\ DownloadInv /\ KeyInv /\ DpopInv /\ ShipInv /\ PasskeyInv /\ GatewayInv
      /\ LogTypeOK /\ ThrottleTypeOK /\ PolicyTypeOK => ServicesTypeOK
  BY DEF ServicesTypeOK, GateInv, DownloadInv, KeyInv, DpopInv, ShipInv, PasskeyInv, GatewayInv
<1> QED
  BY <1>1, ServicesImplementEach, GateCorrect, DownloadInvariant, KeysCorrect, DpopCorrect,
     ShippingCorrect, PasskeysCorrect, GatewayCorrect, LogTypes, ThrottleTypes, PolicyTypes, PTL

(* What the services promise holds of them together: the invariants of the run that  *)
(* checks this composition, for every value of the constants.                         *)
THEOREM ServicesSafe ==
    ServicesSpec =>
        [](/\ SessionGrantCurrent /\ SubmittedOnce
           /\ OneActiveKey /\ TokensVerify /\ ReplayOnlyPastWindow
           /\ ShippedBelowCursor /\ NewestLinesKept
           /\ FailuresCounted /\ GuessesBounded
           /\ AuthenticatorFloor /\ SpentChallengeGone
           /\ LoginStateOnce /\ HostStableSound)
BY ServicesImplementEach, SessionsGrantTheCurrentLink, SubmittedOnceAlways, ExactlyOneActiveKey,
   TokensOutlivedByKeys, NoReplayInWindow, CursorPassesOnlyShipped, NewestLinesAlwaysKept,
   NoFailureLost, BurstsAreBounded, FloorUndercutBounded, AnsweredChallengesGone,
   LoginStatesUsedOnce, HostStableAlways, PTL
=============================================================================
