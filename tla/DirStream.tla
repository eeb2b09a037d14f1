----------------------------- MODULE DirStream -----------------------------
(***************************************************************************)
(* What a directory connection through the EchoLink proxy promises to the  *)
(* code that reads it (el_dir_connect, el_dir_read, el_dir_close): the     *)
(* chunks the directory server sent on this very connection, in order and  *)
(* without a gap, and an end of file only after the last of them.  A       *)
(* connection may be abandoned at any time.                                *)
(*                                                                         *)
(* Chunk i of connection n is the pair <<n, i>>.                           *)
(***************************************************************************)
EXTENDS Naturals, Sequences

VARIABLES
  sess,    \* number of the connection in use, or of the last one
  open,    \* the reader is using it
  sent,    \* chunks the directory has sent on connection sess
  closed,  \* the directory has closed its end
  got,     \* chunks handed to the reader
  eof      \* the reader was told that this was all

vars == <<sess, open, sent, closed, got, eof>>

Init ==
  /\ sess = 0
  /\ open = FALSE
  /\ sent = 0
  /\ closed = FALSE
  /\ got = <<>>
  /\ eof = FALSE

Begin ==
  /\ ~open
  /\ sess' = sess + 1
  /\ open' = TRUE
  /\ sent' = 0
  /\ closed' = FALSE
  /\ got' = <<>>
  /\ eof' = FALSE

Reply ==
  /\ ~closed
  /\ sent' = sent + 1
  /\ UNCHANGED <<sess, open, closed, got, eof>>

Close ==
  /\ ~closed
  /\ closed' = TRUE
  /\ UNCHANGED <<sess, open, sent, got, eof>>

Deliver ==
  /\ open
  /\ \E n \in 1..(sent - Len(got)) :
       got' = got \o [i \in 1..n |-> <<sess, Len(got) + i>>]
  /\ UNCHANGED <<sess, open, sent, closed, eof>>

Eof ==
  /\ open
  /\ closed
  /\ Len(got) = sent
  /\ eof' = TRUE
  /\ UNCHANGED <<sess, open, sent, closed, got>>

End ==
  /\ open
  /\ open' = FALSE
  /\ UNCHANGED <<sess, sent, closed, got, eof>>

Next == Begin \/ Reply \/ Close \/ Deliver \/ Eof \/ End

Spec == Init /\ [][Next]_vars
=============================================================================
