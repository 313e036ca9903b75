---------------------------- MODULE MCScheduler ----------------------------
(* One scheduled check is enough for the races of one check's timer, its     *)
(* on-demand callers and the restarts: checks do not interact below the      *)
(* requests.  Three identities: the cached run, the one in flight, and one   *)
(* whose jobs are still queued.                                              *)
EXTENDS Scheduler, TLC

MCCheck   == {"db"}
MCOp      == MCCheck \X {1, 2, 3}
MCCheckOf == [o \in MCOp |-> o[1]]
MCTreatAs == [c \in MCCheck |-> "degraded"]
=============================================================================
