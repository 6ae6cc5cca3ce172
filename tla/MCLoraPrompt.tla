---------------------------- MODULE MCLoraPrompt ----------------------------
(* Instances of LoraPrompt for TLC: three LoRAs, two of which share a word. *)
EXTENDS LoraPrompt

MCOrder == <<"acid", "vapor", "dup">>
MCWord  == [l \in Loras |-> IF l = "vapor" THEN "vaporwave" ELSE "acidcore"]
MCTexts == { <<"acidcore", "vaporwave", "pad">>, <<"acidcore", "acidcore">> }
=============================================================================
