------------------------------ MODULE MCListing ------------------------------
(* Names of one to four letters, and buffers that end anywhere in or after *)
(* the text.                                                               *)
EXTENDS Listing

MCChars == {"a", "b", "c", "w", "x", "y", "z", ",", " ", "\n", "-", ">", "(", "n", "o", "e", ")"}

Word(letter, n) == [i \in 1 .. n |-> letter]

MCGroupNames == {Word("a", 1), Word("b", 2), Word("c", 4)}

MCUsers ==
  {[name |-> Word("x", 1), groups |-> << >>],
   [name |-> Word("y", 2), groups |-> <<Word("a", 1)>>],
   [name |-> Word("z", 1), groups |-> <<Word("b", 2), Word("a", 1), Word("c", 4)>>],
   [name |-> Word("w", 7), groups |-> <<Word("a", 1)>>]}

=============================================================================
