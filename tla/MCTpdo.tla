--------------------------------- MODULE MCTpdo ---------------------------------
(***************************************************************************)
(* One kind, first disabled, whose period a master sets, shortens and       *)
(* disables.  A round may start late by as much as frames of other kinds    *)
(* held the one before up.                                                  *)
(***************************************************************************)
EXTENDS Tpdo

MCIntervals == {0, 1, 3}
MCBootInterval == [k \in Kind |-> 0]
MCSpans == {1, 2, 4}
=============================================================================
