---------------------------- MODULE MCSinglePool ----------------------------
(***************************************************************************)
(* Pools of one or two trees for TLC, each asked for sizes of every kind   *)
(* of node its type has.                                                   *)
(***************************************************************************)
EXTENDS SinglePool
CONSTANTS T30, T32, T72, T84, T100
MCCopies == [type \in Types |-> CASE type = 30 -> T30 [] type = 32 -> T32
                                  [] type = 72 -> T72 [] type = 84 -> T84 [] type = 100 -> T100]
MCSizes == [type \in Types |->
  CASE type = 30 -> {2, 10, 15, 29}
    [] type = 32 -> {3, 8, 16, 32}
    [] type = 72 -> {9, 17, 23}
    [] type = 84 -> {7, 13, 21, 27}
    [] type = 100 -> {4, 8, 19, 25}]
=============================================================================
