----------------------------- MODULE MCPersistence -----------------------------
(***************************************************************************)
(* Two sane configurations and one that fails the sanity check, on boards  *)
(* that load at boot and boards that do not.                               *)
(***************************************************************************)
EXTENDS Persistence

MCSane == {"factory", "tuned"}
MCConfigValue == MCSane \cup {"crossed"}
MCLoadModes == {TRUE, FALSE}
=============================================================================
