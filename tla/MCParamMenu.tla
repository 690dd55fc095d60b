---------------------------- MODULE MCParamMenu ----------------------------
(* A flash never written, and one with a parameter at the top of its range *)
(* and others that the gains divide.                                       *)
EXTENDS ParamMenu
MCErased == -1
MCInt16 == -32768..32767
MCOldCar == {[ErasedRecord EXCEPT ![1] = 32767, ![3] = -15, ![7] = 25, ![5] = 0]}
MCChords == {{}, {"ENTRY"}, {"SWITCH"}, {"ADD"}, {"SUB"}, {"ENTRY", "ADD"}}
=============================================================================
