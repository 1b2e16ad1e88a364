------------------------------- MODULE MCSite -------------------------------
(* Site on a small instance.                                               *)
EXTENDS Site, TLC

CONSTANTS e1, e2, g1, g2, b1

Alike == Permutations(Procs)

(* Two Google accounts report the same address; one has a picture.         *)
MCGmail == [s \in Subjects |-> e1]
MCPictures ==
    [s \in Subjects |-> IF s = g1 THEN [path |-> <<"a">>, file |-> 0] ELSE None]

(* An organiser with a badge and its logo; verified and with a photo, or    *)
(* neither.                                                                 *)
Organiser(verified, photo) ==
    [u \in Ids |-> IF u = 1 THEN [email |-> e1, password |-> TRUE, verified |-> verified,
                                  photo |-> photo] ELSE None]
MCEarly == {Organiser(TRUE, AssetUrl(1)), Organiser(FALSE, None)}
MCEarlyLogos == {[b \in Logos |-> [owner |-> 1, live |-> TRUE, logo |-> Asset(2)]]}
=============================================================================
