------------------------- MODULE TransactionOutcome -------------------------
(***************************************************************************)
(* What makeStandardTransaction promises, with no connection in sight: it  *)
(* learns ticks that never fall and that the node has reached, schedules   *)
(* the transaction Offset after a learned tick (or after 0, when it learned *)
(* none), ends its wait on a tick past the schedule, and then either looks *)
(* the transaction up or reports that it was not answered.                 *)
(***************************************************************************)
EXTENDS Naturals

CONSTANTS MaxTick, Offset

VARIABLES nodeTick, phase, txTick, seen

ovars == <<nodeTick, phase, txTick, seen>>

OInit == nodeTick \in 0..MaxTick /\ phase = "schedule" /\ txTick = 0 /\ seen = 0

Advance ==
  /\ nodeTick < MaxTick
  /\ nodeTick' = nodeTick + 1
  /\ UNCHANGED <<phase, txTick, seen>>

Learn ==
  /\ phase \in {"schedule", "wait", "verify"}
  /\ seen' \in seen..nodeTick
  /\ UNCHANGED <<nodeTick, phase, txTick>>

Plan ==
  /\ phase = "schedule" /\ phase' \in {"wait", "aborted"}
  /\ txTick' \in {Offset, seen + Offset}
  /\ UNCHANGED <<nodeTick, seen>>

Send == phase = "wait" /\ phase' = "sent" /\ UNCHANGED <<nodeTick, txTick, seen>>

EndWait ==
  /\ phase = "wait" /\ seen > txTick
  /\ phase' \in {"verify", "aborted"}
  /\ UNCHANGED <<nodeTick, txTick, seen>>

Verdict ==
  /\ phase = "verify" /\ seen > txTick
  /\ phase' \in {"looked", "refused"}
  /\ UNCHANGED <<nodeTick, txTick, seen>>

GiveUp ==
  /\ phase \in {"schedule", "wait", "verify"}
  /\ phase' = "aborted"
  /\ UNCHANGED <<nodeTick, txTick, seen>>

ONext == Advance \/ Learn \/ Plan \/ Send \/ EndWait \/ Verdict \/ GiveUp

OSpec == OInit /\ [][ONext]_ovars
=============================================================================
