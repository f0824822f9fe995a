---------------------------- MODULE MCImageSettings ----------------------------
(* The saves of the image section on their own, for the pruning of the key jar *)
(* while that section cannot be used.                                          *)
EXTENDS ImageSettings, TLC

MCProviderKeys == <<"k1", "k2">>
MCEndpoints == "a" :> [inputs |-> <<0, 20>>, outputs |-> <<1, 4>>]
               @@ "b" :> [inputs |-> <<1, 4>>, outputs |-> <<1, 4>>]

================================================================================
