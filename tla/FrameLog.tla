----------------------------- MODULE FrameLog -------------------------------
(* What glgrab_take_frame() promises of the frames of one context: the     *)
(* frame of a swap is caught or not, and at the next swap it is published, *)
(* whole and under its own size, or never.                                 *)
EXTENDS Naturals

CONSTANTS
  Sizes,   (* of windows                                                  *)
  NoSize   (* of no window                                                *)

Turns   == 3   (* swaps are numbered modulo Turns: enough to tell this    *)
               (* one, the last one and an older one apart                *)
Images  == [size : Sizes, no : 0..(Turns - 1)]
Nothing == [size |-> NoSize, no |-> 0]
NoMessage == [head |-> Nothing, pixels |-> Nothing]

VARIABLES
  swap,    (* what is shown by the swap in progress, or the latest one    *)
  caught,  (* what has been caught and not been published yet             *)
  out,     (* the message of this swap: what it says and what it holds    *)
  spoilt   (* its pixels got lost on the way                              *)

logVars == <<swap, caught, out, spoilt>>

LogInit ==
  /\ swap = Nothing
  /\ caught = Nothing
  /\ out = NoMessage
  /\ spoilt = FALSE

NextSwap(size) ==
  /\ swap' = [size |-> size, no |-> (swap.no + 1) % Turns]
  /\ out' = NoMessage
  /\ spoilt' = FALSE
  /\ UNCHANGED caught

Publish ==
  /\ caught # Nothing
  /\ swap.no = (caught.no + 1) % Turns
  /\ spoilt' \in BOOLEAN
  /\ out' = [head |-> caught, pixels |-> IF spoilt' THEN Nothing ELSE caught]
  /\ caught' = Nothing
  /\ UNCHANGED swap

Catch ==
  /\ caught = Nothing
  /\ swap # Nothing
  /\ caught' = swap
  /\ UNCHANGED <<swap, out, spoilt>>

Drop ==
  /\ caught' = Nothing
  /\ UNCHANGED <<swap, out, spoilt>>

LogNext ==
  \/ \E size \in Sizes : NextSwap(size)
  \/ Publish \/ Catch \/ Drop

LogSpec == LogInit /\ [][LogNext]_logVars

=============================================================================
