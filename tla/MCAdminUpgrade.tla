---------------------------- MODULE MCAdminUpgrade ----------------------------
(***************************************************************************)
(* Two Admin Agents for model checking AdminUpgrade.                       *)
(***************************************************************************)
EXTENDS AdminUpgrade

\* Each has its member id; both run on the first node.
AdminMember == [a \in Admins |-> IF a = BuiltIn THEN "member1" ELSE "member2"]
AdminHome == [a \in Admins |-> "n1"]
===============================================================================
