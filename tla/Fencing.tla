------------------------------- MODULE Fencing -------------------------------
(***************************************************************************)
(* What the claim on a store promises, without clocks, threads or crashes. *)
(* Claims are numbered by epochs; an epoch is granted once, to one          *)
(* coordinator process, and a closure that goes through with_inner is       *)
(* admitted only for the process that was granted the latest one.           *)
(***************************************************************************)
EXTENDS Naturals

CONSTANT Coords      \* coordinator processes

VARIABLES
  term,      \* the latest epoch granted, 0 before the first claim
  grant,     \* the epoch each process was granted, 0 if none
  admitted   \* the epoch of the last closure admitted

fencingVars == <<term, grant, admitted>>

FencingTypeOK ==
  /\ term \in Nat
  /\ grant \in [Coords -> Nat]
  /\ admitted \in Nat

FencingInit ==
  /\ term = 0
  /\ grant = [c \in Coords |-> 0]
  /\ admitted = 0

Grant(c) ==
  /\ grant[c] = 0
  /\ term' = term + 1
  /\ grant' = [grant EXCEPT ![c] = term + 1]
  /\ UNCHANGED admitted

Current(c) == term > 0 /\ grant[c] = term

Admit(c) ==
  /\ Current(c)
  /\ admitted' = term
  /\ UNCHANGED <<term, grant>>

FencingNext == \E c \in Coords : Grant(c) \/ Admit(c)

FencingSpec == FencingInit /\ [][FencingNext]_fencingVars
==============================================================================
