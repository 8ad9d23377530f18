----------------------------- MODULE MCAppQueue -----------------------------
(***************************************************************************)
(* Small instances of AppQueue for TLC.                                    *)
(***************************************************************************)
EXTENDS AppQueueProps

Target(h, a, b, p) == [host |-> h, ats |-> a, board |-> b, posting |-> p]

\* Two postings of one Workday employer, and a board of another host.
AcmeOne  == Target("acme", "workday", "R1", "R1")
AcmeTwo  == Target("acme", "workday", "R2", "R2")
BoardOne == Target("boards", "greenhouse", "one", "17")

MCOnePosting == {AcmeOne}
MCOneEmployer == {AcmeOne, AcmeTwo}
MCTwoEmployers == {AcmeOne, BoardOne}
=============================================================================
