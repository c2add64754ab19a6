--------------------------- MODULE MCFieldLayout ---------------------------
(* A field on which the keys of two links coincide: (3,30) to (3,3) and (3,3) *)
(* to (0,33) are both written 3300330 in the lookup table.                    *)
EXTENDS FieldLayout

MCXs == {0, 1, 3}
MCYs == {3, 30, 33}
MCSinkLocation == <<2, 0>>
MCShadowing == {-1, 1}
MCSensitivity == -10

=============================================================================
