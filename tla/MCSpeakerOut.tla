---------------------------- MODULE MCSpeakerOut ----------------------------
(* Instances of SpeakerOut for TLC: device 1 takes the loop's rate, the     *)
(* default one only 16-bit samples at its own rate, blocks of its own.      *)
EXTENDS SpeakerOut

MCDefault == -1

MCNative == [d \in Outputs |-> IF d = Default THEN 44 ELSE 48]

MCTakes ==
  [d \in Outputs |->
     IF d = Default
     THEN {w \in Ways : w.api = "params" /\ w.format = "int16" /\ w.rate = 44 /\ w.block = AnySize}
     ELSE {w \in Ways : w.api = "params" /\ w.rate = 48}]
=============================================================================
