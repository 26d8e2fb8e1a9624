------------------------- MODULE MCIndexLifecycle --------------------------
(* IndexLifecycle on a volume that starts with the legacy index or none,   *)
(* two PUBLIC-only candidates, and candidates a promotion has to refuse.   *)
EXTENDS IndexLifecycle, TLC

CONSTANTS old, b1, b2, mix, bad

MCContents == {old, b1, b2, mix, bad}
MCKind == [c \in MCContents |->
              CASE c = mix -> "mixed"
                [] c \in {old, bad} -> "legacy"
                [] OTHER -> "public"]

Built(c, public) ==
  [content |-> c,
   man |-> [build |-> c, clean |-> TRUE, publicOnly |-> public, hash |-> c,
            label |-> "CANDIDATE", prev |-> None, prevHash |-> None,
            check |-> None],
   rejected |-> FALSE, displaced |-> None]

LegacyDir == [content |-> old, man |-> None, rejected |-> FALSE, displaced |-> None]

(* b2 as rebuilt with other content than its manifest records. *)
Tampered == [Built(b2, TRUE) EXCEPT !.content = bad]

MCMountNames  == {"b1", "tampered"}
MCShelf ==
  (Mount("b1") :> Built(b1, TRUE)) @@ (Mount("tampered") :> Tampered) @@
  (Candidate(b2) :> Built(b2, TRUE)) @@ (Candidate(mix) :> Built(mix, FALSE))

MCInitial        == {LegacyDir, None}

(* An index from before the PUBLIC-only policy that was rolled back to. *)
RolledBackTo == [Built(mix, FALSE) EXCEPT !.man.label = "ROLLED_BACK"]

MCInitialServing == {LegacyDir, RolledBackTo, None}
MCCorrupt   == {bad}
=============================================================================
