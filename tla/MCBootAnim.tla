----------------------------- MODULE MCBootAnim -----------------------------
(* BootAnim with frame numbers of base 2, so that the fifth frame is the
   first one with a three-digit number: files of up to four frames, whole,
   counting a frame too many, cut inside the last one, or not animations. *)
EXTENDS BootAnim

Gz(i, n) == <<Word(n)>> \o [k \in 1 .. n |-> Piece(i, k)]
Frames[c \in Nat] ==
    IF c = 0 THEN <<>> ELSE Frames[c - 1] \o Gz(c - 1, 1 + (c % 2))
Body(flags, c) == (IF "logo" \in flags THEN Gz(Logo, 2) ELSE <<>>) \o Frames[c]

File(flags, c) == [flags |-> flags, count |-> c, known |-> TRUE, sized |-> TRUE,
                   intact |-> TRUE, body |-> Body(flags, c)]
Cut(f) == [f EXCEPT !.intact = FALSE, !.body = SubSeq(@, 1, Len(@) - 1)]
Miscounted(f) == [f EXCEPT !.intact = FALSE, !.count = @ + 1]

MCFiles ==
    LET whole == {File(fl, c) : fl \in SUBSET Flag, c \in {0, 1, 2, 4}}
        some  == {File(fl, 2) : fl \in SUBSET Flag}
    IN whole \cup {Cut(f) : f \in some} \cup {Miscounted(f) : f \in some}
         \cup {[File({}, 1) EXCEPT !.known = FALSE], [File({}, 1) EXCEPT !.sized = FALSE]}

MCLong == {File({"loop"}, 5)}
=============================================================================
