-------------------------- MODULE DiscoveryProofs ---------------------------
(***************************************************************************)
(* Service discovery overwrites no other manager's route, for any shapes,    *)
(* any hand-written routes and any number of edits, failures and failovers.  *)
(***************************************************************************)
EXTENDS Discovery, TLAPS

\* The route informer's watch is complete: what it has yet to deliver ends with what
\* the server has.
WatchComplete ==
    /\ \E S : rfeed \in Seq(S)
    /\ rfeed # <<>> => rfeed[Len(rfeed)] = route
    /\ rfeed = <<>> => croute = route

\* A worker about to update has judged what it read, and what it read is the server's
\* version as long as its resourceVersion is.
Judged ==
    /\ wpc = "update" => Adoptable(seen)
    /\ current => seen = route

Informed == WatchComplete /\ Judged

-----------------------------------------------------------------------------
(* The watch.                                                                *)

\* A write is the last version the watch delivers.
LEMMA WriteKeepsWatch ==
    ASSUME WatchComplete, NEW r, WriteRoute(r), UNCHANGED croute
    PROVE  WatchComplete'
<1>1. PICK S : rfeed \in Seq(S)
  BY DEF WatchComplete
<1>2. rfeed \in Seq(S \cup {r})
  BY <1>1
<1>3. /\ Append(rfeed, r) \in Seq(S \cup {r})
      /\ Append(rfeed, r) # <<>>
      /\ Append(rfeed, r)[Len(Append(rfeed, r))] = r
  BY <1>2
<1>4. rfeed' \in Seq(S \cup {r})
  BY <1>3 DEF WriteRoute
<1> QED
  BY <1>3, <1>4 DEF WatchComplete, WriteRoute

\* Delivering a version leaves the last one last, or makes it the copy.
LEMMA DeliveryKeepsWatch ==
    ASSUME WatchComplete, rfeed # <<>>, rfeed' = Tail(rfeed), croute' = Head(rfeed),
           UNCHANGED route
    PROVE  WatchComplete'
<1>1. PICK S : rfeed \in Seq(S)
  BY DEF WatchComplete
<1>2. Tail(rfeed) \in Seq(S)
  BY <1>1
<1>3. Tail(rfeed) # <<>> => Tail(rfeed)[Len(Tail(rfeed))] = rfeed[Len(rfeed)]
  BY <1>1
<1>4. Tail(rfeed) = <<>> => Head(rfeed) = rfeed[Len(rfeed)]
  <2>1. Len(Tail(rfeed)) = Len(rfeed) - 1 /\ Len(rfeed) \in Nat
    BY <1>1
  <2>2. Tail(rfeed) = <<>> => Len(rfeed) = 1
    BY <2>1
  <2> QED
    BY <1>1, <2>2
<1> QED
  BY <1>2, <1>3, <1>4 DEF WatchComplete

\* Nothing else disturbs it.
LEMMA IdleKeepsWatch ==
    ASSUME WatchComplete, UNCHANGED <<route, rfeed, croute>>
    PROVE  WatchComplete'
  BY DEF WatchComplete

\* A write makes every version read before it stale.
LEMMA WriteKeepsJudged ==
    ASSUME Judged, NEW r, WriteRoute(r), UNCHANGED seen, wpc' = wpc \/ wpc' = "idle"
    PROVE  Judged'
  BY DEF Judged, WriteRoute, Adoptable

\* A step of the worker that writes nothing, and is not about to, keeps what was judged.
LEMMA MoveKeepsJudged ==
    ASSUME Judged, UNCHANGED <<route, seen, current>>, wpc' = wpc \/ wpc' # "update"
    PROVE  Judged'
  BY DEF Judged, Adoptable

-----------------------------------------------------------------------------
(* The steps.                                                                *)

\* Every step keeps the watch complete and the worker's judgement sound.
LEMMA InformedStep ==
    ASSUME Informed, Next
    PROVE  Informed'
<1> USE DEF Informed
<1>1. CASE EditService
  BY <1>1, IdleKeepsWatch, MoveKeepsJudged DEF EditService, copies, worker
<1>2. CASE EditRoute
  <2>1. PICK r : WriteRoute(r)
    BY <1>2 DEF EditRoute
  <2> QED
    BY <1>2, <2>1, WriteKeepsWatch, WriteKeepsJudged DEF EditRoute, copies
<1>3. CASE CollectGarbage
  BY <1>3, WriteKeepsWatch, WriteKeepsJudged DEF CollectGarbage, copies
<1>4. CASE SyncService
  BY <1>4, IdleKeepsWatch, MoveKeepsJudged DEF SyncService, worker
<1>5. CASE SyncRoute
  BY <1>5, DeliveryKeepsWatch, MoveKeepsJudged DEF SyncRoute, worker
<1>6. CASE Failover
  <2>1. WatchComplete'
    <3>1. <<>> \in Seq({})
      OBVIOUS
    <3> QED
      BY <1>6, <3>1 DEF Failover, WatchComplete
  <2> QED
    BY <1>6, <2>1 DEF Failover, Judged
<1>7. CASE Get
  BY <1>7, IdleKeepsWatch, MoveKeepsJudged DEF Get, Goto, objects, copies
<1>8. CASE Read
  <2>1. WatchComplete'
    BY <1>8, IdleKeepsWatch DEF Read, objects, copies
  <2>2. wpc' = "update" => Adoptable(seen')
    BY <1>8 DEF Read, Goto
  <2>3. current' => seen' = route'
    BY <1>8 DEF Read, objects, WatchComplete
  <2> QED
    BY <2>1, <2>2, <2>3 DEF Judged, Adoptable
<1>9. CASE Create
  BY <1>9, WriteKeepsWatch, WriteKeepsJudged DEF Create, Goto, copies
<1>10. CASE Update
  BY <1>10, WriteKeepsWatch, WriteKeepsJudged DEF Update, Goto, copies
<1>11. CASE Refused
  BY <1>11, IdleKeepsWatch, MoveKeepsJudged DEF Refused, Goto, objects, copies
<1>12. CASE CallFails
  BY <1>12, IdleKeepsWatch, MoveKeepsJudged DEF CallFails, Goto, objects, copies
<1>13. CASE Cleanup
  BY <1>13, IdleKeepsWatch, MoveKeepsJudged DEF Cleanup, Goto, objects, copies
<1>14. CASE Delete
  <2>1. CASE route = None
    BY <1>14, <2>1, IdleKeepsWatch, MoveKeepsJudged DEF Delete, Goto, copies
  <2>2. CASE route # None
    BY <1>14, <2>2, WriteKeepsWatch, WriteKeepsJudged DEF Delete, Goto, copies
  <2> QED
    BY <2>1, <2>2
<1> QED
  BY <1>1, <1>2, <1>3, <1>4, <1>5, <1>6, <1>7, <1>8, <1>9, <1>10, <1>11, <1>12, <1>13,
     <1>14 DEF Next, Reconcile

\* In every reachable state the watch is complete and what the worker judged is what its
\* resourceVersion stands for.
THEOREM DiscoveryIsInformed == Spec => []Informed
<1>1. Init => Informed
  <2>1. <<>> \in Seq({})
    OBVIOUS
  <2> QED
    BY <2>1 DEF Init, Informed, WatchComplete, Judged
<1>2. Informed /\ [Next]_vars => Informed'
  <2>1. ASSUME Informed, UNCHANGED vars PROVE Informed'
    BY <2>1, IdleKeepsWatch, MoveKeepsJudged DEF Informed, vars, objects, copies, worker
  <2> QED
    BY <2>1, InformedStep
<1> QED
  BY <1>1, <1>2, PTL DEF Spec

\* CreateOrUpdate overwrites no route under another manager's label or controller: the
\* check of the mutate function is made on a copy, and the resourceVersion carries it to
\* the moment of the write, whoever wrote in between.
THEOREM DiscoveryOverwritesNoOtherManager == Spec => OverwritesNoOtherManager
<1>1. Informed /\ [Next]_vars => [Update => Adoptable(route)]_vars
  BY DEF Informed, Judged, Update, Goto
<1> QED
  BY <1>1, DiscoveryIsInformed, PTL DEF Spec, OverwritesNoOtherManager
=============================================================================
