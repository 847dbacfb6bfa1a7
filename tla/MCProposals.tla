---------------------------- MODULE MCProposals ----------------------------
(* Inputs for ProposalSession.  Proposal strings go through every class with *)
(* numbers of options at and beyond its limits and values that are sorted,   *)
(* equal, unsorted, negative, extreme or no numbers; vote strings are alone, *)
(* in pairs, incomplete or too many; rings have been written around.         *)
EXTENDS ProposalSession

MCMinValue == -2

Text(class, options, values, url, identity, subscription) ==
  [class |-> class, options |-> options, values |-> values, url |-> url,
   identity |-> identity, subscription |-> subscription]

Values == {<<>>, <<1>>, <<Bad>>, <<-1, 0>>, <<0, 1>>, <<1, 1>>, <<1, 0>>, <<1, -1>>, <<0, -1, 1>>,
           <<0, MinValue, 1>>, <<2, 0, 1>>, <<-2, 0, 1>>, <<0, 1, 0>>, <<0, 1, Bad>>,
           <<-1, 0, 1, 2>>, <<0, 1, 2, 3>>, <<0, 1, 2, 2>>}

MCTexts ==
  {Text(k, n, v, TRUE, "right", <<>>) :
     k \in {"general", "transfer", "in_epoch", "variable"}, n \in {0, 1, 2, 3, 5, 6, 8, 9, 255, 256}, v \in Values}
  \cup {Text("transfer", 2, <<1>>, url, identity, s) : url \in BOOLEAN,
          identity \in {"right", "wrong", "zero"}, s \in {<<>>, <<1, 1>>, <<1, 2, 3>>, <<1, Bad, 3>>}}
  \cup {Text("other", 2, <<>>, TRUE, "right", <<>>), Text("in_epoch", 2, <<1, 0>>, TRUE, "zero", <<>>)}

MCBallots ==
  {<<w>> : w \in {-1, 0, 2, 3, NoneWord, Bad}}
  \cup {<<>>, <<1, 1>>, <<0, 3>>, <<1, 3>>, <<1, 0, 2, NoneWord>>, <<1, Bad>>, <<1, 1, 1>>,
        [i \in 1..18 |-> 1]}

MCStored == {Proposal("variable", 3, <<0, 2, 0, 0>>, 1, 0), Proposal("variable", 3, <<1, 2, 0, 0>>, 1, 0),
             Proposal("variable", 0, <<-1, 1, 0, 0>>, 1, 0)}

MCFees == {[set |-> 1, vote |-> 2], [set |-> 3, vote |-> 4]}

MCTallies ==
  {t \in [authorized : {0, 4, 6, 7}, casted : 0..7, votes : {<<>>} \cup ((0..7) \X (0..7)), scalar : BOOLEAN] :
     /\ t.casted <= t.authorized /\ t.scalar = (t.votes = <<>>)
     /\ ~t.scalar => t.votes[1] + t.votes[2] <= t.casted}

(* Rings whose oldest entry is at any place; in some the payments of the     *)
(* newest tick are at both ends of the array.                                *)
Turned(r, k) == [i \in DOMAIN r |-> r[((i + k) % Len(r)) + 1]]
MCRings ==
  {Turned(r, k) : k \in 0..3,
     r \in {<<0, 0, 0, 1>>, <<0, 0, 1, 1>>, <<0, 1, 1, 2>>, <<1, 1, 2, 3>>, <<1, 2, 3, 4>>, <<1, 2, 2, 3>>,
           <<0, 1, 2, 2>>, <<1, 2, 2, 2>>, <<1, 1, 2, 2>>}}
=============================================================================
