----------------------------- MODULE MCDirectWrites -----------------------------
(***************************************************************************)
(* Two outputs, one valve in use on one of them, the other or both, or out *)
(* of use with or without an output to its name, and writes of a level and *)
(* of a pulse width below what the outputs accept.                         *)
(***************************************************************************)
EXTENDS DirectWrites

MCWriteStates == {Digital(TRUE), [mode |-> "pwm", val |-> 400]}
MCDriveStates == {Pwm(1000)}
MCMappings ==
  {[mapped |-> TRUE, outputs |-> {0}], [mapped |-> TRUE, outputs |-> {0, 1}],
   [mapped |-> FALSE, outputs |-> {}], [mapped |-> FALSE, outputs |-> {0}]}
=============================================================================
