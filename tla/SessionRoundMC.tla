--------------------------- MODULE SessionRoundMC ---------------------------
(* Shapes of round for model checking SessionRound: each of the choices in *)
(* finalize and in the room is taken both ways by some shape.              *)
EXTENDS SessionRound

Shape(oneShot, runs, timed, talk, surface, sample, memorable, topics) ==
  [oneShot |-> oneShot, runs |-> runs, timed |-> timed, talk |-> talk, surface |-> surface,
   sample |-> sample, memorable |-> memorable, topics |-> topics]

MCRounds ==
  { Shape(FALSE, TRUE,  TRUE,  TRUE,  "panes", FALSE, TRUE,  TRUE),
    Shape(TRUE,  TRUE,  TRUE,  TRUE,  "ide",   FALSE, TRUE,  FALSE),
    Shape(FALSE, FALSE, FALSE, TRUE,  "ide",   FALSE, FALSE, TRUE),
    Shape(TRUE,  TRUE,  FALSE, FALSE, "panes", TRUE,  TRUE,  TRUE) }
=============================================================================
