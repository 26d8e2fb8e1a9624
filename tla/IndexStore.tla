----------------------------- MODULE IndexStore -----------------------------
(***************************************************************************)
(* What the index lifecycle promises, without directories, manifests or    *)
(* commands: there is at most one current index, and an index that stops   *)
(* being current is retained.  A retained index leaves the shelf only to   *)
(* become current again, or because something outside damaged it.          *)
(***************************************************************************)
CONSTANTS Contents, Corrupt, None

VARIABLES current, retained

storeVars == <<current, retained>>

Init == current \in Contents \cup {None} /\ retained = {}

(* The current index is moved to the shelf. *)
Retire ==
  /\ current # None
  /\ current' = None
  /\ retained' = retained \cup {current}

(* An index becomes current when there is none; it may come off the shelf, *)
(* which may hold a second copy of it.                                     *)
Install(c) ==
  /\ current = None
  /\ current' = c
  /\ retained' \in {retained, retained \ {c}}

(* One copy of c on the shelf turns into x. *)
Spoil(c, x) ==
  /\ c \in retained
  /\ current' = current
  /\ retained' \in {retained \cup {x}, (retained \ {c}) \cup {x}}

Next ==
  \/ Retire
  \/ \E c \in Contents : Install(c)
  \/ \E c \in retained, x \in Corrupt : Spoil(c, x)

Spec == Init /\ [][Next]_storeVars
=============================================================================
