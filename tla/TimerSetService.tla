-------------------------- MODULE TimerSetService --------------------------
(***************************************************************************)
(* The timer set as an implementation of TimerService: a timer is due at   *)
(* its expiry while it is in the heap or in the run chunk, and fires when  *)
(* its hook is called.                                                     *)
(***************************************************************************)
EXTENDS TimerSet

\* A timer set implements the promise to its timers: none fires before its
\* expiry, even from the run chunk after a hook has put it off, and none is
\* lost when others are run, chunked or killed.
Service == INSTANCE TimerService WITH
  due <- [t \in Timer |-> IF ts.pos[t] # 0 THEN ts.expiry_s[t] ELSE None],
  fired <- current

ServiceSpec == Service!Spec
=============================================================================
