---------------------------- MODULE MCSupervisor ----------------------------
(***************************************************************************)
(* Supervisor for TLC: a shell, which init does not supervise, and three   *)
(* services that it restarts after one or two units of time.               *)
(***************************************************************************)
EXTENDS Supervisor

MCFirstDelay == <<0, 1, 2, 1>>
=============================================================================
