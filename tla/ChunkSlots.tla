----------------------------- MODULE ChunkSlots -----------------------------
(***************************************************************************)
(* What a chunk promises its manager: a fixed set of slots, each given to  *)
(* one buffer at a time, null only when every slot is taken, and after     *)
(* each free the truth about the edges "was full" and "is now empty", by   *)
(* which alone the manager decides whether to list, move or count a chunk. *)
(***************************************************************************)
VARIABLES
  room,     \* the chunk's slots
  taken,    \* those that hold a buffer
  answer    \* what the last call returned

slotVars == <<room, taken, answer>>

SlotsInit == room # {} /\ taken = {} /\ answer = "new"

Take ==
  \E slot \in room \ taken :
    /\ taken' = taken \cup {slot}
    /\ answer' = "buffer"
    /\ UNCHANGED room

Refuse ==
  /\ taken = room
  /\ answer' = "null"
  /\ UNCHANGED <<room, taken>>

Give ==
  \E slot \in taken :
    /\ taken' = taken \ {slot}
    /\ answer' = CASE taken = room /\ taken = {slot} -> "WAS_FULL_IS_EMPTY"
                   [] taken # room /\ taken = {slot} -> "NOW_IS_EMPTY_CHUNK"
                   [] taken = room /\ taken # {slot} -> "WAS_FULL_CHUNK"
                   [] taken # room /\ taken # {slot} -> "OK"
    /\ UNCHANGED room

SlotsNext == Take \/ Refuse \/ Give

SlotsSpec == SlotsInit /\ [][SlotsNext]_slotVars
=============================================================================
