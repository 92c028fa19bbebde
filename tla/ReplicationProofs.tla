--------------------------- MODULE ReplicationProofs ---------------------------
(***************************************************************************)
(* Proofs about module Replication, for any clients and addresses: what    *)
(* whatever implements it can be relied upon for.                          *)
(***************************************************************************)
EXTENDS Replication, SequenceTheorems, TLAPS

\* The types, with what a hosts file shows.
RepInv ==
  /\ log \in Seq(IPs)
  /\ replica \in [Clients -> [ip : IPs \cup {NoIp}, ver : Nat]]
  /\ Consistent

\* Every step keeps them, and goes forward.
LEMMA RepStep ==
  ASSUME RepInv, [RepNext]_repVars
  PROVE  /\ RepInv'
         /\ Len(log') >= Len(log) /\ \A v \in DOMAIN log : log'[v] = log[v]
         /\ \A c \in Clients : replica'[c].ver >= replica[c].ver
<1>0. /\ log \in Seq(IPs) /\ Len(log) \in Nat /\ DOMAIN log = 1..Len(log)
      /\ \A c \in Clients : replica[c].ver \in Nat
  BY DEF RepInv
<1>1. ASSUME NEW ip \in IPs, Publish(ip)
      PROVE  /\ RepInv'
             /\ Len(log') >= Len(log) /\ \A v \in DOMAIN log : log'[v] = log[v]
             /\ \A c \in Clients : replica'[c].ver >= replica[c].ver
  <2>1. /\ log' \in Seq(IPs) /\ Len(log') = Len(log) + 1 /\ replica' = replica
        /\ \A v \in 1..Len(log) : log'[v] = log[v]
    BY <1>0, <1>1, AppendProperties DEF Publish
  <2>2. Consistent'
    BY <1>0, <2>1 DEF RepInv, Consistent
  <2> QED BY <1>0, <2>1, <2>2 DEF RepInv
<1>2. ASSUME NEW c \in Clients, NEW v \in DOMAIN log, Deliver(c, v)
      PROVE  RepInv' /\ log' = log /\ \A d \in Clients : replica'[d].ver >= replica[d].ver
  <2>1. v \in 1..Len(log) /\ log[v] \in IPs
    BY <1>0, ElementOfSeq
  <2>2. /\ log' = log /\ v > replica[c].ver
        /\ replica' = [replica EXCEPT ![c] = [ip |-> log[v], ver |-> v]]
    BY <1>2 DEF Deliver
  <2>3. \A d \in Clients : replica'[d] = IF d = c THEN [ip |-> log[v], ver |-> v] ELSE replica[d]
    BY <2>2 DEF RepInv
  <2>4. Consistent'
    BY <1>0, <2>1, <2>2, <2>3 DEF RepInv, Consistent
  <2>5. replica' \in [Clients -> [ip : IPs \cup {NoIp}, ver : Nat]]
    BY <1>0, <2>1, <2>2 DEF RepInv
  <2> QED BY <1>0, <2>1, <2>2, <2>3, <2>4, <2>5 DEF RepInv
<1>3. CASE UNCHANGED repVars
  BY <1>0, <1>3 DEF repVars, RepInv, Consistent
<1> QED BY <1>0, <1>1, <1>2, <1>3 DEF RepNext

\* The types hold, and a hosts file shows only what was announced.
THEOREM ShowsTheLog == RepSpec => []RepInv
<1>1. RepInit => RepInv
  BY EmptySeq DEF RepInit, RepInv, Consistent
<1>2. RepInv /\ [RepNext]_repVars => RepInv'
  BY RepStep
<1> QED BY <1>1, <1>2, PTL DEF RepSpec

\* Nothing is ever taken back.
THEOREM GoesForward == RepSpec => Forward
<1>1. RepInv /\ [RepNext]_repVars =>
        [/\ Len(log') >= Len(log) /\ \A v \in DOMAIN log : log'[v] = log[v]
         /\ \A c \in Clients : replica'[c].ver >= replica[c].ver]_repVars
  BY RepStep
<1> QED BY <1>1, ShowsTheLog, PTL DEF RepSpec, Forward
=============================================================================
