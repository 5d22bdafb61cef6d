---------------------------- MODULE StoreHistory ----------------------------
(***************************************************************************)
(* What following a store promises, without tables, workers or failures:   *)
(* the technologies in use are {} or those of a page that was the store's  *)
(* newest when they changed; the log has an event for each change and no   *)
(* other; and subscribers are told of events that are in the log.          *)
(***************************************************************************)
EXTENDS Naturals, Sequences

CONSTANTS Store, Tech

VARIABLES
  pages,   \* what was found on the usable pages of each store
  inUse,   \* the technologies each store uses
  log,     \* the changes of each technology, oldest first
  told     \* the changes that subscribers were told of

vars == <<pages, inUse, log, told>>

Init ==
  /\ pages = [s \in Store |-> <<>>]
  /\ inUse = [s \in Store |-> {}]
  /\ log = [s \in Store |-> [n \in Tech |-> <<>>]]
  /\ told = {}

Visit(s, found) ==
  /\ pages' = [pages EXCEPT ![s] = Append(@, found)]
  /\ UNCHANGED <<inUse, log, told>>

\* The newest page becomes what the store uses, in one step.
Reconcile(s) ==
  /\ pages[s] # <<>>
  /\ inUse' = [inUse EXCEPT ![s] = pages[s][Len(pages[s])]]
  /\ log' = [log EXCEPT ![s] = [n \in Tech |->
       IF n \in inUse'[s] \ inUse[s] THEN Append(log[s][n], "added")
       ELSE IF n \in inUse[s] \ inUse'[s] THEN Append(log[s][n], "removed")
       ELSE log[s][n]]]
  /\ UNCHANGED <<pages, told>>

Changes == {c \in Store \X Tech \X Nat : c[3] \in DOMAIN log[c[1]][c[2]]}

Tell ==
  /\ told' \in SUBSET Changes /\ told \subseteq told'
  /\ UNCHANGED <<pages, inUse, log>>

Next ==
  \/ \E s \in Store : Reconcile(s) \/ \E found \in SUBSET Tech : Visit(s, found)
  \/ Tell

Spec == Init /\ [][Next]_vars
=============================================================================
