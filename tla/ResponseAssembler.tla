------------------------- MODULE ResponseAssembler --------------------------
(***************************************************************************)
(* What src/rader.c is for: one command at a time goes to the radar, the    *)
(* bytes heard from it are collected until there are as many as that        *)
(* command answers with, and exactly those go out as its reply.             *)
(***************************************************************************)
EXTENDS Integers, Sequences

CONSTANTS
  Answers,    \* the commands that are answered
  Need,       \* Need[c], the bytes of the answer to c
  Chunks,     \* what one read from the radar may hold
  Nobody      \* no command

VARIABLES
  pending,    \* the command being answered, or Nobody
  heard,      \* what has been heard of its answer
  reply       \* the reply the last step sent, << >> if it sent none

vars == <<pending, heard, reply>>

Init == pending = Nobody /\ heard = << >> /\ reply = << >>

(* a new command is taken only when none is pending *)
Command(c) ==
  /\ pending = Nobody
  /\ pending' = c
  /\ heard' = << >> /\ reply' = << >>

(* part of the answer, or the rest of it; bytes beyond it are forgotten     *)
Hear(chunk) ==
  /\ pending # Nobody
  /\ LET all == heard \o chunk
     IN IF Len(all) < Need[pending]
        THEN /\ heard' = all /\ reply' = << >>
             /\ UNCHANGED pending
        ELSE /\ reply' = <<pending, SubSeq(all, 1, Need[pending])>>
             /\ pending' = Nobody /\ heard' = << >>

(* "cls" on the console, or a new TCP connection *)
Cancel == pending' = Nobody /\ heard' = << >> /\ reply' = << >>

Quiet == reply' = << >> /\ UNCHANGED <<pending, heard>>

Next ==
  \/ \E c \in Answers : Command(c)
  \/ \E chunk \in Chunks : Hear(chunk)
  \/ Cancel \/ Quiet

Spec == Init /\ [][Next]_vars
=============================================================================
