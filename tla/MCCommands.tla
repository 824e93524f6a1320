----------------------------- MODULE MCCommands -----------------------------
(* One client controls the Core and makes an external call, the other joins *)
(* the conversation of a role.                                              *)
EXTENDS Commands, TLC

CONSTANTS c1, c2, write, input, call

MCClient   == {c1, c2}
MCGateway  == {c1}
MCOp       == {write, input, call}
MCAuthorOf == [o \in MCOp |-> IF o = input THEN c2 ELSE c1]
MCKindOf   == [o \in MCOp |-> IF o = write THEN "write"
                              ELSE IF o = input THEN "input" ELSE "call"]
MCMaxSend  == (c1 :> 4 @@ c2 :> 2)
=============================================================================
