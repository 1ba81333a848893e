-------------------------- MODULE HoursLedgerProofs --------------------------
(* The abstract record adds up, for any sessions and credits. *)
EXTENDS HoursLedger, HoursTheorems

\* In the ledger, each counter is always the sum over the submissions entered
\* in it: no entry is lost and none is made twice.
THEOREM LedgerAddsUp == Spec => []AddsUp
<1>1. Init => AddsUp
  BY AmountEmpty DEF Init, AddsUp
<1>2. AddsUp /\ [Next]_<<rec, counted>> => AddsUp'
  <2> SUFFICES ASSUME AddsUp, [Next]_<<rec, counted>>
               PROVE  AddsUp'
    OBVIOUS
  <2>1. ASSUME NEW p \in Paths, NEW S \in (SUBSET Sessions) \ {{}}, Enter(p, S)
        PROVE  AddsUp'
    <3>1. counted' \in [Paths -> SUBSET Sessions]
      BY <2>1 DEF AddsUp, Enter
    <3>2. Amount(p, counted[p] \cup S) = rec[p] + Amount(p, S)
      <4>1. counted[p] \cap S = {}
        BY <2>1 DEF Enter
      <4>2. rec[p] = Amount(p, counted[p])
        BY DEF AddsUp
      <4>3. counted[p] \in SUBSET Sessions
        BY DEF AddsUp
      <4>4. QED
        BY <4>1, <4>2, <4>3, AmountUnion
    <3>3. rec' = [q \in Paths |-> Amount(q, counted'[q])]
      BY <2>1, <3>2 DEF AddsUp, Enter
    <3>4. QED
      BY <3>1, <3>3 DEF AddsUp
  <2>2. CASE UNCHANGED <<rec, counted>>
    BY <2>2 DEF AddsUp
  <2>3. QED
    BY <2>1, <2>2 DEF Next
<1>3. QED
  BY <1>1, <1>2, PTL DEF Spec

=============================================================================
