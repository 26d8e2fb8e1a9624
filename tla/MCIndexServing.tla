--------------------------- MODULE MCIndexServing ---------------------------
(* IndexServing over the volume of MCIndexLifecycle, in a sound            *)
(* environment and in one for each check that has to refuse (missing       *)
(* claims are refused with a blank JWT_SECRET, which stands for them).     *)
EXTENDS MCIndexLifecycle, IndexServing

CONSTANTS o1, o2

MCOperators == {o1, o2}

(* Commands are alike: a new one is called o1 if no other runs. *)
FirstFree == job[o2].pc = "idle" /\ job'[o2].pc # "idle" => job[o1].pc # "idle"

Sound == [auth |-> TRUE, jwt |-> "set", claims |-> TRUE, secret |-> "own", direct |-> TRUE]

MCSettings ==
  {Sound,
   [Sound EXCEPT !.jwt = "placeholder"],
   [Sound EXCEPT !.jwt = "blank"],
   [Sound EXCEPT !.secret = "shared"],
   [Sound EXCEPT !.auth = FALSE, !.secret = "missing"],
   [Sound EXCEPT !.direct = FALSE]}
=============================================================================
