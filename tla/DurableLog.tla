------------------------------ MODULE DurableLog ------------------------------
(***************************************************************************)
(* What the checkpoint journal promises to everything that stands on it    *)
(* (log, restore, publish, garbage collection), whatever the processes     *)
(* that append to it do and whenever they die:                             *)
(*                                                                         *)
(*   - a checkpoint that has become durable is never changed nor lost;     *)
(*   - the parent of a durable checkpoint is durable as well, and was      *)
(*     numbered before its child: walking parents always ends at a root.   *)
(*                                                                         *)
(* Journal.tla describes how crates/journal/src/journal.rs does it and is  *)
(* shown to implement this module.                                         *)
(***************************************************************************)
EXTENDS Naturals

CONSTANT
  Root          \* the root trees a checkpoint can name

VARIABLE
  log           \* the durable checkpoints, by sequence number

NoParent == 0   \* the parent of a first checkpoint

ParentsDurable(l) ==
  \A s \in DOMAIN l :
    /\ l[s].parent < s
    /\ l[s].parent # NoParent => l[s].parent \in DOMAIN l

(* The log may be found holding any well-formed history.                   *)
LogInit == ParentsDurable(log)

Grow ==
  /\ \A s \in DOMAIN log : s \in DOMAIN log' /\ log'[s] = log[s]
  /\ ParentsDurable(log')

LogSpec == LogInit /\ [][Grow]_log
===============================================================================
