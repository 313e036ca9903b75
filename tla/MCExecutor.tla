----------------------------- MODULE MCExecutor -----------------------------
(* Two checks, two identities each: one call may be outstanding while the   *)
(* caller of an earlier one still holds its promise.  One has any adapter,  *)
(* the other an httpAdapter.                                                *)
EXTENDS HttpAdapter, TLC

MCCheck   == {"db", "api"}
MCHttp    == {"api"}
MCOp      == MCCheck \X {1, 2}
MCCheckOf == [o \in MCOp |-> o[1]]
=============================================================================
