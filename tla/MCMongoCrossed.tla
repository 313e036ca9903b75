--------------------------- MODULE MCMongoCrossed ---------------------------
(* One check and one client are enough to lose the client.  Of all          *)
(* behaviours only those in which the driver answers after the jobs that    *)
(* are due (a reset that waits for nothing goes on before an import or a    *)
(* connection settles), and in which the owner does not call close() any    *)
(* more once it has called dispose().                                       *)
EXTENDS MongoReset

JobOfReset == reset # "none" /\ resetOn = None

JobsFirst ==
  JobOfReset =>
    \A k \in Call :
      attempt[k].phase \in {"importing", "connecting"} => attempt'[k] = attempt[k]

ClosesBeforeDisposal == closing # "open" => ~CloseAdapter
=============================================================================
