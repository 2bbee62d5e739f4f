------------------------- MODULE MCBoardCoordinator -------------------------
(* A small instance of BoardCoordinator.                                   *)
EXTENDS BoardCoordinator

CONSTANTS x, y, a, b

\* A blank board and one made from a template.
TemplateOrBlank == {Empty, [Empty EXCEPT ![y] = b]}
=============================================================================
