------------------------------ MODULE RowStore ------------------------------
(***************************************************************************)
(* What a dynamic array promises: a sequence of rows that grows at its     *)
(* end, loses any one row or all of them, has rows replaced in place and,  *)
(* when it is a window, forgets its oldest rows and never its newest.      *)
(***************************************************************************)
EXTENDS Naturals, Sequences

CONSTANTS Rows,     \* what a row may hold
          Windows   \* the sizes at which an array forgets; 0 for never

VARIABLE rows, window

Init == rows = <<>> /\ window \in Windows

Newest(s, n) == SubSeq(s, Len(s) - n + 1, Len(s))

\* Once a window is full exactly half of it is forgotten.
Add(new) ==
  LET all == rows \o new
  IN  rows' = IF window > 0 /\ Len(all) % window = 0
              THEN Newest(all, Len(all) - window \div 2) ELSE all

Replace(i, v) == i \in DOMAIN rows /\ rows' = [rows EXCEPT ![i] = v]

Remove(i) ==
  /\ i \in DOMAIN rows
  /\ rows' = SubSeq(rows, 1, i - 1) \o SubSeq(rows, i + 1, Len(rows))

Clear == rows' = <<>>

\* The number of rows added at once is the implementation's to bound.
Next ==
  /\ UNCHANGED window
  /\ \/ \E v \in Rows : Add(<<v>>)
     \/ \E v, w \in Rows : Add(<<v, w>>) \/ Add(<<v, w, v>>)
     \/ \E i \in DOMAIN rows : Remove(i) \/ (\E v \in Rows : Replace(i, v))
     \/ Clear

Spec == Init /\ [][Next]_<<rows, window>>
=============================================================================
