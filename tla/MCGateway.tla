----------------------------- MODULE MCGateway -----------------------------
(***************************************************************************)
(* Instances of Gateway for TLC: a group chat of two users and a private   *)
(* chat.                                                                   *)
(***************************************************************************)
EXTENDS Gateway

CONSTANTS group, private, u1, u2

TwoRooms == [k \in {group, private} |-> k]
GroupAndPrivate == [k \in {group, private} |-> IF k = group THEN {u1, u2} ELSE {u2}]
OneUserEach == [k \in {group, private} |-> IF k = group THEN {u1} ELSE {u2}]
=============================================================================
