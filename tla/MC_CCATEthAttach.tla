--------------------------- MODULE MC_CCATEthAttach --------------------------
EXTENDS CCATEthAttach

(* Two distinct channels for rx and tx and two more in the machine.       *)
MC_Chans == {1, 2, 3, 4}
=============================================================================
