------------------------------ MODULE MCRetention ------------------------------
(* Retention.tla for TLC: blobs, and a tree below two others.              *)
EXTENDS Retention, TLC

CONSTANTS b, b2, s, t1, t2, n1

Lists == [o \in Object |-> Object \cap
  CASE o = s -> {b} [] o = t1 -> {s, b, b2} [] o = t2 -> {s} [] OTHER -> {}]
===============================================================================
