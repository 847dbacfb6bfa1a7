--------------------------- MODULE MCQuorumVotes ---------------------------
(* Ballots for QuorumVotes: two previous states s1 and s2, one set of       *)
(* transactions tx, two transaction bodies b1 and b2.  A wrong state and a  *)
(* wrong body are not combined in one vote.                                 *)
EXTENDS QuorumVotes

CONSTANTS s1, s2, tx, b1, b2

Ballot(prev, digest, body, expected, salted, saltedBody) ==
  [prev |-> prev, transactionDigest |-> digest, body |-> body,
   expected |-> expected, salted |-> salted, saltedBody |-> saltedBody]

MCBallots ==
  {Ballot(s1, tx, b1, expected, salts[1], salts[2]) :
     expected \in {Zero, tx}, salts \in {<<s1, b1>>, <<s1, b2>>, <<s2, b1>>}}

MCNexts ==
  {Ballot(s1, tx, b1, Zero, s1, b1), Ballot(s2, tx, b1, Zero, s1, b1),
   Ballot(s1, Zero, b2, Zero, s1, b1)}
=============================================================================
