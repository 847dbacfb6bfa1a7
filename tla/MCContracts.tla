---------------------------- MODULE MCContracts ----------------------------
(* Inputs for ContractSession.  Deals have contract shares, other assets and *)
(* malformed ones at every place, one more than fits; owners are doubled,    *)
(* invalid, missing or too many; lists end within and at a batch; rings end  *)
(* within and at a page, with one epoch or two, and are full.                *)
EXTENDS ContractSession, SequencesExt

CONSTANTS a, b, c

MCPrice == 1 :> [qu |-> 5, shares |-> 0] @@ 2 :> [qu |-> 0, shares |-> 2]
MCFees == {[many |-> 1, create |-> 2, vote |-> 3], [many |-> 4, create |-> 5, vote |-> 6]}

Asset(share, amount, whole) == [share |-> share, amount |-> amount, whole |-> whole]
Assets == {Asset(FALSE, 1, TRUE), Asset(TRUE, 1, TRUE), Asset(TRUE, 2, TRUE), Asset(TRUE, 1, FALSE)}
Sides == {[qu |-> 3, assets |-> s] : s \in BoundedSeq(Assets, MaxAssets + 1)}

MCCommands ==
  {[op |-> o, deal |-> d] : o \in {"accept", "operate"}, d \in Deals}
  \cup {[op |-> "create", offered |-> x, requested |-> y] : x, y \in Sides}
  \cup {[op |-> "register", owners |-> w, approvals |-> n] : w \in BoundedSeq(0..4, 3), n \in 1..3}
  \cup {[op |-> "balances", list |-> l] : l \in {<<>>, <<b, Odd>>, <<b>>, <<a, b>>, <<a, b, c>>, <<c, b, c>>, <<a, b, c, a>>}}
  \cup {[op |-> "payouts", pool |-> p, epoch |-> e] : p \in 1..Pools, e \in {-1, 1, 2}}
  \cup {[op |-> "payoutsOf", pool |-> 0, to |-> i, epoch |-> e] : i \in {a, c}, e \in {-1, 1, 2}}
  \cup {[op |-> o, rows |-> r] : o \in {"sendMany", "shares"}, r \in BoundedSeq({Odd, 1, 2}, 3)}
  \cup {[op |-> "poll", do |-> d, kind |-> "asset", assets |-> s] :
          d \in {"create", "vote", "cancel"}, s \in BoundedSeq(BOOLEAN, PollAssets + 1)}
  \cup {[op |-> "poll", do |-> "create", kind |-> k, assets |-> <<>>] : k \in {"qubic", "other"}}
  \cup {[op |-> "benchmark", dst |-> x, each |-> y] : x, y \in 0..5}

(* Payouts by epoch, newest first; recipients take turns.                    *)
Ring(epochs, n) ==
  [i \in DOMAIN epochs |-> [to |-> IF i % 3 = 0 THEN b ELSE a, epoch |-> epochs[i], id |-> 10 * n + i]]
Epochs == {<<>>, <<2>>, <<2, 1>>, <<2, 2, 1>>, <<2, 1, 1, 1>>, <<1, 1, 1, 1, 1>>, <<2, 2, 2, 2, 1>>}
MCRings == {<<Ring(x, 1), Ring(y, 2)>> : x, y \in Epochs}
=============================================================================
