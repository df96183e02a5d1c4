----------------------------- MODULE MCGateway ------------------------------
(***************************************************************************)
(* Instances of Gateway for TLC.  Requests r1, r2; the workspace has the   *)
(* states c0 (at first), c1 (written by r1) and c2 (by r2 or its owner).   *)
(***************************************************************************)
EXTENDS Gateway

CONSTANTS r1, r2, c0, c1, c2

MCNone == {}
MCOne == {r1}
MCTwo == {r1, r2}
MCBodies == {c0, c1, c2, NoCapture}

MCWrite == [id \in Ids |-> "write"]
MCWriteCargo == [id \in Ids |-> IF id = r1 THEN "write" ELSE "cargo"]
MCCargoPost == [id \in Ids |-> IF id = r1 THEN "cargo" ELSE "post"]
MCWriteRead == [id \in Ids |-> IF id = r1 THEN "write" ELSE "read"]
MCPayload == [id \in Ids |-> IF id = r1 THEN c1 ELSE c2]

(* The default configuration, one that blocks everything it can, and one   *)
(* that has dropped the host of the POST.                                  *)
MCDefault ==
    [policy |-> [k \in Kinds |-> IF k = "read" THEN "allow" ELSE "review"],
     postHost |-> TRUE]
MCBlocking == [policy |-> [k \in Kinds |-> "block"], postHost |-> TRUE]
MCNoHost == [MCDefault EXCEPT !.postHost = FALSE]

MCDefaultOnly == {MCDefault}
MCPolicyChange == {MCDefault, MCBlocking}
MCAllConfigs == {MCDefault, MCBlocking, MCNoHost}
=============================================================================
