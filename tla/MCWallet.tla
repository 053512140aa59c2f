------------------------------ MODULE MCWallet ------------------------------
(* Small instances of Wallet.  Amounts stand for multiples of the minimum  *)
(* charge, scaled so that one or two credits fit under the balance limit   *)
(* and the next one passes it, or the width of the column.                 *)
EXTENDS Wallet, TLC

MCKinds == {"GATEWAY", "ADMIN", "REFUND", "suggest"}
MCFeatures == {"suggest"}
MCRefs == Authorities \cup Requests

(* One fee, or fees off; a gateway that is set up, or not yet.             *)
Fee(enabled, merchant, sandbox) ==
    [enabled |-> enabled, sandbox |-> sandbox, merchant |-> merchant,
     price |-> [f \in MCFeatures |-> 1]]
FeesOn == {Fee(TRUE, TRUE, FALSE)}
HostSwitch == {Fee(TRUE, TRUE, FALSE), Fee(FALSE, TRUE, TRUE)}
FirstSetup == {Fee(FALSE, FALSE, FALSE), Fee(TRUE, TRUE, FALSE)}

RequestSymmetry == Permutations(Requests)
AccountSymmetry == Permutations(Requests) \cup Permutations(Users)
=============================================================================
