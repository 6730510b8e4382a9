---------------------------- MODULE RegistryProofs ----------------------------
(***************************************************************************)
(* That the registry and the ledger agree on what was sold (SoldAsBooked), *)
(* that a property leaves no price behind (GoneWithItsPrice) and that a    *)
(* sale takes out what the item's account holds (RemovedExactly), for any  *)
(* items, prices and number of sessions.                                   *)
(*                                                                         *)
(* The invariant adds what a session has read and still holds when it      *)
(* writes: a property has been bought at its cost, a valuation's property  *)
(* is there until it commits, and a vehicle's row lock keeps every other   *)
(* sale of it from being posted.                                           *)
(***************************************************************************)
EXTENDS Registry, TLAPS

\* What the purchase of an item left in its account.
Bought(i) == IF purchase[i] = "posted" THEN Cost ELSE 0

OfProperties == {"valuing", "valued", "selling", "keyed", "deleting"}

SessionSound(s) ==
    /\ session[s].pc \in OfProperties =>
          /\ session[s].item \in Properties
          /\ row[session[s].item].status \in {"active", "deleted"}
          /\ session[s].carried = Cost
    /\ session[s].pc = "valued" => row[session[s].item].status = "active"
    /\ session[s].pc \in {"judged", "written"} =>
          /\ session[s].item \in Vehicles
          /\ row[session[s].item].status \in {"active", "sold"}
    /\ session[s].pc = "written" =>
          /\ rowLock[session[s].item] = s
          /\ sale[session[s].item].status = "none" /\ purchase[session[s].item] # "void" =>
                session[s].carried = Bought(session[s].item)

SessionsSound == \A s \in Sessions : SessionSound(s)

ItemSound(i) ==
    /\ row[i].status = "none" => sale[i].status = "none"
    /\ i \in Properties /\ row[i].status # "none" => purchase[i] # "none"
    /\ sale[i].status = "posted" /\ purchase[i] # "void" => sale[i].carried = Bought(i)

ItemsSound == \A i \in Items : ItemSound(i)

RegistryInv == TypeOK /\ SessionsSound /\ ItemsSound /\ SoldAsBooked /\ GoneWithItsPrice

-----------------------------------------------------------------------------
LEMMA InitInv == Init => RegistryInv
  BY RegistryAssumption
  DEF Init, RegistryInv, TypeOK, SessionsSound, SessionSound, ItemsSound, ItemSound, SoldAsBooked, GoneWithItsPrice,
      OfProperties, At, Idle, Items, Rows, Statuses, Sales, SessionStates

\* A session that ends leaves the locks and the sessions well typed.
LEMMA EndedType ==
  ASSUME TypeOK, NEW s \in Sessions, Ended(s)
  PROVE  rowLock' \in [Vehicles -> Sessions \cup {None}] /\ session' \in [Sessions -> SessionStates]
  BY RegistryAssumption DEF Ended, TypeOK, SessionStates, At, Idle

\* The session that ends is idle, and keeps no lock; the others are as they were.
LEMMA EndedOthers ==
  ASSUME TypeOK, NEW s \in Sessions, Ended(s)
  PROVE  /\ session'[s].pc = "idle"
         /\ \A t \in Sessions \ {s} : session'[t] = session[t]
         /\ \A t \in Sessions \ {s}, v \in Vehicles : rowLock[v] = t => rowLock'[v] = t
  BY DEF Ended, TypeOK, At, Idle

\* A session that goes on is well typed.
LEMMA PcType ==
  ASSUME TypeOK, NEW s \in Sessions, NEW pc \in {"valued", "keyed", "deleting"},
         session' = [session EXCEPT ![s].pc = pc]
  PROVE  session' \in [Sessions -> SessionStates]
<1>1. session[s] \in SessionStates
  BY DEF TypeOK
<1>2. [session[s] EXCEPT !.pc = pc] \in SessionStates
  BY <1>1 DEF SessionStates
<1> QED
  BY <1>2 DEF TypeOK

\* The entry of a sale is one.
LEMMA SoldType ==
  ASSUME TypeOK, NEW s \in Sessions
  PROVE  Sold(s) \in Sales
<1>1. session[s] \in SessionStates
  BY DEF TypeOK
<1> QED
  BY <1>1 DEF Sold, Sales, Statuses, SessionStates

\* A session that gives up changes nothing that the others know.
LEMMA AbortKeeps ==
  ASSUME RegistryInv, NEW s \in Sessions, Abort(s)
  PROVE  TypeOK' /\ SessionsSound'
<1>1. TypeOK'
  BY EndedType DEF Abort, RegistryInv, TypeOK
<1>2. ASSUME NEW t \in Sessions PROVE SessionSound(t)'
  <2>1. CASE t = s
    BY <2>1, EndedOthers DEF Abort, RegistryInv, SessionSound, OfProperties
  <2>2. CASE t # s
    <3>1. session'[t] = session[t] /\ \A v \in Vehicles : rowLock[v] = t => rowLock'[v] = t
      BY <2>2, EndedOthers DEF Abort, RegistryInv
    <3> QED
      BY <3>1 DEF Abort, RegistryInv, SessionsSound, SessionSound, Bought
  <2> QED
    BY <2>1, <2>2
<1> QED
  BY <1>1, <1>2 DEF SessionsSound

\* Every step keeps the types.
LEMMA TypeStep == RegistryInv /\ [Next]_vars => TypeOK'
<1> SUFFICES ASSUME RegistryInv, [Next]_vars PROVE TypeOK'
  OBVIOUS
<1> USE RegistryAssumption
<1>1. ASSUME NEW p \in Properties, RegisterProperty(p)
      PROVE  TypeOK'
  BY <1>1 DEF RegisterProperty, RegistryInv, TypeOK, Rows, Statuses, Items
<1>2. ASSUME NEW v \in Vehicles, NEW bought \in BOOLEAN, RegisterVehicle(v, bought)
      PROVE  TypeOK'
  <2>1. [row[v] EXCEPT !.status = "active"] \in Rows
    BY DEF RegistryInv, TypeOK, Rows, Items
  <2>2. row' \in [Items -> Rows] /\ purchase' \in [Items -> Statuses]
    BY <1>2, <2>1 DEF RegisterVehicle, RegistryInv, TypeOK, Statuses
  <2> QED
    BY <1>2, <2>2 DEF RegisterVehicle, RegistryInv, TypeOK
<1>3. ASSUME NEW s \in Sessions, NEW p \in Properties, NEW price \in Prices \cup {None},
             NEW pc \in {"valuing", "deleting", "selling"}, ReadProperty(s, p, pc, price)
      PROVE  TypeOK'
  BY <1>3 DEF ReadProperty, At, Idle, RegistryInv, TypeOK, SessionStates, Items
<1>4. ASSUME NEW s \in Sessions, NEW v \in Vehicles, NEW price \in Prices, NEW byForm \in BOOLEAN,
             JudgeVehicle(s, v, price, byForm)
      PROVE  TypeOK'
  BY <1>4 DEF JudgeVehicle, At, Idle, RegistryInv, TypeOK, SessionStates, Items
<1>5. ASSUME NEW v \in Aside, NEW price \in Prices, SellAside(v, price)
      PROVE  TypeOK'
  BY <1>5 DEF SellAside, RegistryInv, TypeOK, Rows
<1>6. ASSUME NEW s \in Sessions, InsertSnapshot(s)
      PROVE  TypeOK'
  <2>1. CASE session' = [session EXCEPT ![s].pc = "valued"] /\ UNCHANGED <<row, quoted, purchase, sale, rowLock>>
    BY <2>1, PcType DEF RegistryInv, TypeOK
  <2>2. CASE Abort(s)
    BY <2>2, AbortKeeps
  <2> QED
    BY <1>6, <2>1, <2>2 DEF InsertSnapshot
<1>7. ASSUME NEW s \in Sessions, CommitValuation(s)
      PROVE  TypeOK'
  BY <1>7, EndedType DEF CommitValuation, RegistryInv, TypeOK
<1>8. ASSUME NEW s \in Sessions, LookUpKey(s)
      PROVE  TypeOK'
  <2>1. ASSUME NEW pc \in {"keyed", "deleting"}, session' = [session EXCEPT ![s].pc = pc],
               UNCHANGED <<row, quoted, purchase, sale, rowLock>>
        PROVE  TypeOK'
    BY <2>1, PcType DEF RegistryInv, TypeOK
  <2>2. CASE Abort(s)
    BY <2>2, AbortKeeps
  <2> QED
    BY <1>8, <2>1, <2>2 DEF LookUpKey
<1>9. ASSUME NEW s \in Sessions, CommitSale(s)
      PROVE  TypeOK'
  <2>1. ASSUME NEW p \in Properties, sale' = [sale EXCEPT ![p] = Sold(s)], Removed(p), Ended(s), UNCHANGED purchase
        PROVE  TypeOK'
    <3>1. sale' \in [Items -> Sales]
      BY <2>1, SoldType DEF RegistryInv, TypeOK
    <3>2. [row[p] EXCEPT !.status = "deleted"] \in Rows
      BY DEF RegistryInv, TypeOK, Rows, Items
    <3>3. row' \in [Items -> Rows] /\ quoted' \in [Items -> BOOLEAN]
      BY <2>1, <3>2 DEF Removed, RegistryInv, TypeOK
    <3> QED
      BY <2>1, <3>1, <3>3, EndedType DEF RegistryInv, TypeOK
  <2>2. CASE Abort(s)
    BY <2>2, AbortKeeps
  <2> QED
    BY <1>9, <2>1, <2>2 DEF CommitSale, RegistryInv, SessionsSound, SessionSound, OfProperties
<1>10. ASSUME NEW s \in Sessions, CommitDeletion(s)
      PROVE  TypeOK'
  <2>1. session[s].item \in Properties
    BY <1>10, Zenon DEF CommitDeletion, RegistryInv, SessionsSound, SessionSound, OfProperties
  <2>2. [row[session[s].item] EXCEPT !.status = "deleted"] \in Rows
    BY <2>1 DEF RegistryInv, TypeOK, Rows, Items
  <2>3. row' \in [Items -> Rows]
    BY <1>10, <2>2 DEF CommitDeletion, Removed, RegistryInv, TypeOK
  <2>4. quoted' \in [Items -> BOOLEAN]
    BY <1>10 DEF CommitDeletion, Removed, RegistryInv, TypeOK
  <2> QED
    BY <1>10, <2>3, <2>4, EndedType DEF CommitDeletion, RegistryInv, TypeOK
<1>11. ASSUME NEW s \in Sessions, WriteVehicle(s)
      PROVE  TypeOK'
  <2>1. ASSUME NEW i \in Items PROVE Balance(i) \in Int
    <3>1. sale[i] \in Sales
      BY DEF RegistryInv, TypeOK
    <3> QED
      BY <3>1 DEF Balance, Sales
  <2>2. session[s].item \in Items /\ session[s].item \in Vehicles
    BY <1>11 DEF WriteVehicle, RegistryInv, SessionsSound, SessionSound, Items
  <2> DEFINE written == [session[s] EXCEPT !.pc = "written", !.carried = Balance(session[s].item)]
  <2>3. session[s] \in SessionStates /\ Balance(session[s].item) \in Int
    BY <2>1, <2>2 DEF RegistryInv, TypeOK
  <2>4. written \in SessionStates
    BY <2>3, Zenon DEF SessionStates
  <2>5. session' = [session EXCEPT ![s] = written]
    BY <1>11 DEF WriteVehicle
  <2> HIDE DEF written
  <2>6. session' \in [Sessions -> SessionStates]
    BY <2>4, <2>5 DEF RegistryInv, TypeOK
  <2> QED
    BY <1>11, <2>6 DEF WriteVehicle, RegistryInv, TypeOK
<1>12. ASSUME NEW s \in Sessions, CommitVehicle(s)
      PROVE  TypeOK'
  <2>1. CASE Abort(s)
    BY <2>1, AbortKeeps
  <2>2. ASSUME NEW v \in Vehicles, row' = [row EXCEPT ![v] = [status |-> "sold", price |-> session[s].price]],
               sale' = [sale EXCEPT ![v] = Sold(s)] \/ sale' = sale, Ended(s), UNCHANGED <<quoted, purchase>>
        PROVE  TypeOK'
    <3>1. session[s].price \in Prices \cup {None}
      BY DEF RegistryInv, TypeOK, SessionStates
    <3>2. row' \in [Items -> Rows]
      BY <2>2, <3>1 DEF RegistryInv, TypeOK, Rows
    <3>3. sale' \in [Items -> Sales]
      BY <2>2, SoldType DEF RegistryInv, TypeOK
    <3> QED
      BY <2>2, <3>2, <3>3, EndedType DEF RegistryInv, TypeOK
  <2>3. session[s].item \in Vehicles
    BY <1>12 DEF CommitVehicle, RegistryInv, SessionsSound, SessionSound
  <2>4. CASE ~Abort(s)
    BY <1>12, <2>2, <2>3, <2>4 DEF CommitVehicle
  <2> QED
    BY <2>1, <2>4
<1>13. ASSUME NEW i \in Items, ReversePurchase(i)
      PROVE  TypeOK'
  BY <1>13 DEF ReversePurchase, RegistryInv, TypeOK, Statuses
<1>14. ASSUME NEW i \in Items, ReverseSale(i)
      PROVE  TypeOK'
  <2>1. [sale[i] EXCEPT !.status = "void"] \in Sales
    BY DEF RegistryInv, TypeOK, Sales, Statuses
  <2> QED
    BY <1>14, <2>1 DEF ReverseSale, RegistryInv, TypeOK
<1>15. ASSUME NEW s \in Sessions, Rollback(s)
      PROVE  TypeOK'
  BY <1>15, EndedType DEF Rollback, Abort, RegistryInv, TypeOK
<1>16. CASE UNCHANGED vars
  BY <1>16 DEF vars, RegistryInv, TypeOK
<1> QED
  BY <1>1, <1>2, <1>3, <1>4, <1>5, <1>6, <1>7, <1>8, <1>9, <1>10, <1>11, <1>12, <1>13, <1>14, <1>15, <1>16
  DEF Next, OfProperty, Continue

\* What a session has read stays true while it needs it.
LEMMA SessionsStep == RegistryInv /\ [Next]_vars => SessionsSound'
<1> SUFFICES ASSUME RegistryInv, [Next]_vars PROVE SessionsSound'
  OBVIOUS
<1> USE RegistryAssumption
<1>1. ASSUME NEW p \in Properties, RegisterProperty(p)
      PROVE  SessionsSound'
  BY <1>1 DEF RegisterProperty, RegistryInv, SessionsSound, SessionSound, Bought
<1>2. ASSUME NEW v \in Vehicles, NEW bought \in BOOLEAN, RegisterVehicle(v, bought)
      PROVE  SessionsSound'
  BY <1>2 DEF RegisterVehicle, RegistryInv, SessionsSound, SessionSound, Bought
<1>3. ASSUME NEW s \in Sessions, NEW p \in Properties, NEW price \in Prices \cup {None},
             NEW pc \in {"valuing", "deleting", "selling"}, ReadProperty(s, p, pc, price)
      PROVE  SessionsSound'
  BY <1>3 DEF ReadProperty, At, Idle, RegistryInv, SessionsSound, SessionSound, Bought
<1>4. ASSUME NEW s \in Sessions, NEW v \in Vehicles, NEW price \in Prices, NEW byForm \in BOOLEAN,
             JudgeVehicle(s, v, price, byForm)
      PROVE  SessionsSound'
  BY <1>4 DEF JudgeVehicle, At, Idle, RegistryInv, SessionsSound, SessionSound, OfProperties, Bought
<1>5. ASSUME NEW v \in Aside, NEW price \in Prices, SellAside(v, price)
      PROVE  SessionsSound'
  BY <1>5 DEF SellAside, RegistryInv, SessionsSound, SessionSound, OfProperties, Bought
<1>6. ASSUME NEW s \in Sessions, InsertSnapshot(s)
      PROVE  SessionsSound'
  <2>1. CASE Abort(s)
    BY <2>1, AbortKeeps
  <2>2. CASE ~Abort(s)
    <3>1. /\ session' = [session EXCEPT ![s].pc = "valued"]
          /\ row[session[s].item].status = "active"
          /\ UNCHANGED <<row, quoted, purchase, sale, rowLock>>
      BY <1>6, <2>2 DEF InsertSnapshot
    <3> QED
      BY <1>6, <3>1 DEF InsertSnapshot, RegistryInv, SessionsSound, SessionSound, OfProperties, Bought
  <2> QED
    BY <2>1, <2>2
<1>7. ASSUME NEW s \in Sessions, CommitValuation(s)
      PROVE  SessionsSound'
  BY <1>7, EndedOthers DEF CommitValuation, RegistryInv, SessionsSound, SessionSound, OfProperties, Bought
<1>8. ASSUME NEW s \in Sessions, LookUpKey(s)
      PROVE  SessionsSound'
  <2>1. CASE Abort(s)
    BY <2>1, AbortKeeps
  <2>2. ASSUME NEW pc \in {"keyed", "deleting"}, session' = [session EXCEPT ![s].pc = pc],
               UNCHANGED <<row, quoted, purchase, sale, rowLock>>
        PROVE  SessionsSound'
    BY <1>8, <2>2 DEF LookUpKey, RegistryInv, SessionsSound, SessionSound, OfProperties, Bought
  <2> QED
    BY <1>8, <2>1, <2>2 DEF LookUpKey
<1>9. ASSUME NEW s \in Sessions, CommitSale(s)
      PROVE  SessionsSound'
  <2>1. CASE Abort(s)
    BY <2>1, AbortKeeps
  <2>2. ASSUME NEW p \in Properties, sale' = [sale EXCEPT ![p] = Sold(s)], Removed(p), Ended(s), UNCHANGED purchase
        PROVE  SessionsSound'
    <3> SUFFICES ASSUME NEW t \in Sessions PROVE SessionSound(t)'
      BY DEF SessionsSound
    <3>1. CASE t = s
      BY <2>2, <3>1, EndedOthers DEF RegistryInv, SessionSound, OfProperties
    <3>2. CASE t # s
      <4>1. /\ session'[t] = session[t] /\ SessionSound(t)
            /\ \A v \in Vehicles : rowLock[v] = t => rowLock'[v] = t
        BY <2>2, <3>2, EndedOthers DEF RegistryInv, SessionsSound
      <4>2. ASSUME NEW i \in Items, i # p PROVE row'[i] = row[i] /\ sale'[i] = sale[i] /\ purchase'[i] = purchase[i]
        BY <2>2, <4>2 DEF Removed, RegistryInv, TypeOK
      <4>3. row'[p].status = "deleted" /\ p \notin Vehicles /\ ~(session[t].pc = "valued" /\ session[t].item = p)
        BY <2>2 DEF Removed, Snapshotted, RegistryInv, TypeOK, Items
      <4> QED
        BY <2>2, <4>1, <4>2, <4>3 DEF Removed, SessionSound, Bought
    <3> QED
      BY <3>1, <3>2
  <2> QED
    BY <1>9, <2>1, <2>2 DEF CommitSale, RegistryInv, SessionsSound, SessionSound, OfProperties
<1>10. ASSUME NEW s \in Sessions, CommitDeletion(s)
      PROVE  SessionsSound'
  <2>1. ASSUME NEW p \in Properties, Removed(p), Ended(s), UNCHANGED <<purchase, sale>>
        PROVE  SessionsSound'
    <3> SUFFICES ASSUME NEW t \in Sessions PROVE SessionSound(t)'
      BY DEF SessionsSound
    <3>1. CASE t = s
      BY <2>1, <3>1, EndedOthers DEF RegistryInv, SessionSound, OfProperties
    <3>2. CASE t # s
      <4>1. /\ session'[t] = session[t] /\ SessionSound(t)
            /\ \A v \in Vehicles : rowLock[v] = t => rowLock'[v] = t
        BY <2>1, <3>2, EndedOthers DEF RegistryInv, SessionsSound
      <4>2. ASSUME NEW i \in Items, i # p PROVE row'[i] = row[i] /\ sale'[i] = sale[i] /\ purchase'[i] = purchase[i]
        BY <2>1, <4>2 DEF Removed, RegistryInv, TypeOK
      <4>3. row'[p].status = "deleted" /\ p \notin Vehicles /\ ~(session[t].pc = "valued" /\ session[t].item = p)
        BY <2>1 DEF Removed, Snapshotted, RegistryInv, TypeOK, Items
      <4> QED
        BY <2>1, <4>1, <4>2, <4>3 DEF Removed, SessionSound, Bought
    <3> QED
      BY <3>1, <3>2
  <2> QED
    BY <1>10, <2>1 DEF CommitDeletion, RegistryInv, SessionsSound, SessionSound, OfProperties
<1>11. ASSUME NEW s \in Sessions, WriteVehicle(s)
      PROVE  SessionsSound'
  BY <1>11 DEF WriteVehicle, Balance, RegistryInv, TypeOK, SessionsSound, SessionSound, OfProperties, Bought
<1>12. ASSUME NEW s \in Sessions, CommitVehicle(s)
      PROVE  SessionsSound'
  <2>1. CASE Abort(s)
    BY <2>1, AbortKeeps
  <2>2. ASSUME NEW v \in Vehicles, row' = [row EXCEPT ![v] = [status |-> "sold", price |-> session[s].price]],
               sale' = [sale EXCEPT ![v] = Sold(s)] \/ sale' = sale, Ended(s), UNCHANGED <<quoted, purchase>>,
               rowLock[v] = s, row[v].status \in {"active", "sold"}
        PROVE  SessionsSound'
    <3> SUFFICES ASSUME NEW t \in Sessions PROVE SessionSound(t)'
      BY DEF SessionsSound
    <3>1. CASE t = s
      BY <2>2, <3>1, EndedOthers DEF RegistryInv, SessionSound, OfProperties
    <3>2. CASE t # s
      <4>1. /\ session'[t] = session[t] /\ SessionSound(t)
            /\ \A w \in Vehicles : rowLock[w] = t => rowLock'[w] = t
        BY <2>2, <3>2, EndedOthers DEF RegistryInv, SessionsSound
      <4>2. ASSUME NEW i \in Items, i # v PROVE row'[i] = row[i] /\ sale'[i] = sale[i] /\ purchase'[i] = purchase[i]
        BY <2>2, <4>2 DEF RegistryInv, TypeOK
      <4>3. /\ row'[v].status = "sold" /\ v \notin Properties /\ row[v].status \in {"active", "sold"}
            /\ ~(session[t].pc = "written" /\ session[t].item = v)
        BY <2>2, <3>2, <4>1 DEF SessionSound, RegistryInv, TypeOK, Items
      <4> QED
        BY <2>2, <4>1, <4>2, <4>3 DEF SessionSound, OfProperties, Items, Bought
    <3> QED
      BY <3>1, <3>2
  <2>3. /\ session[s].item \in Vehicles /\ rowLock[session[s].item] = s
        /\ row[session[s].item].status \in {"active", "sold"}
    BY <1>12 DEF CommitVehicle, RegistryInv, SessionsSound, SessionSound
  <2>4. CASE ~Abort(s)
    BY <1>12, <2>2, <2>3, <2>4 DEF CommitVehicle
  <2> QED
    BY <2>1, <2>4
<1>13. ASSUME NEW i \in Items, ReversePurchase(i)
      PROVE  SessionsSound'
  BY <1>13 DEF ReversePurchase, RegistryInv, SessionsSound, SessionSound, Bought
<1>14. ASSUME NEW i \in Items, ReverseSale(i)
      PROVE  SessionsSound'
  BY <1>14 DEF ReverseSale, RegistryInv, SessionsSound, SessionSound, Bought
<1>15. ASSUME NEW s \in Sessions, Rollback(s)
      PROVE  SessionsSound'
  BY <1>15, EndedOthers DEF Rollback, Abort, RegistryInv, SessionsSound, SessionSound, OfProperties, Bought
<1>16. CASE UNCHANGED vars
  BY <1>16 DEF vars, RegistryInv, SessionsSound, SessionSound, Bought
<1> QED
  BY <1>1, <1>2, <1>3, <1>4, <1>5, <1>6, <1>7, <1>8, <1>9, <1>10, <1>11, <1>12, <1>13, <1>14, <1>15, <1>16
  DEF Next, OfProperty, Continue

\* Purchases and sales keep to the rows.
LEMMA ItemsStep == RegistryInv /\ [Next]_vars => ItemsSound'
<1> SUFFICES ASSUME RegistryInv, [Next]_vars PROVE ItemsSound'
  OBVIOUS
<1> USE RegistryAssumption
<1>1. ASSUME NEW p \in Properties, RegisterProperty(p)
      PROVE  ItemsSound'
  BY <1>1 DEF RegisterProperty, RegistryInv, TypeOK, Bought, ItemsSound, ItemSound
<1>2. ASSUME NEW v \in Vehicles, NEW bought \in BOOLEAN, RegisterVehicle(v, bought)
      PROVE  ItemsSound'
  BY <1>2 DEF RegisterVehicle, RegistryInv, Bought, ItemsSound, ItemSound
<1>3. ASSUME NEW s \in Sessions, NEW p \in Properties, NEW price \in Prices \cup {None},
             NEW pc \in {"valuing", "deleting", "selling"}, ReadProperty(s, p, pc, price)
      PROVE  ItemsSound'
  BY <1>3 DEF ReadProperty, At, Idle, RegistryInv, Bought, ItemsSound, ItemSound
<1>4. ASSUME NEW s \in Sessions, NEW v \in Vehicles, NEW price \in Prices, NEW byForm \in BOOLEAN,
             JudgeVehicle(s, v, price, byForm)
      PROVE  ItemsSound'
  BY <1>4 DEF JudgeVehicle, At, Idle, RegistryInv, Bought, ItemsSound, ItemSound
<1>5. ASSUME NEW v \in Aside, NEW price \in Prices, SellAside(v, price)
      PROVE  ItemsSound'
  BY <1>5 DEF SellAside, RegistryInv, Bought, ItemsSound, ItemSound
<1>6. ASSUME NEW s \in Sessions, InsertSnapshot(s)
      PROVE  ItemsSound'
  BY <1>6, EndedOthers DEF InsertSnapshot, Abort, RegistryInv, Bought, ItemsSound, ItemSound
<1>7. ASSUME NEW s \in Sessions, CommitValuation(s)
      PROVE  ItemsSound'
  BY <1>7, EndedOthers DEF CommitValuation, RegistryInv, Bought, ItemsSound, ItemSound
<1>8. ASSUME NEW s \in Sessions, LookUpKey(s)
      PROVE  ItemsSound'
  BY <1>8, EndedOthers DEF LookUpKey, Abort, RegistryInv, Bought, ItemsSound, ItemSound
<1>9. ASSUME NEW s \in Sessions, CommitSale(s)
      PROVE  ItemsSound'
  BY <1>9, EndedOthers
  DEF CommitSale, Sold, Removed, Snapshotted, Abort, RegistryInv, TypeOK, SessionsSound, SessionSound,
      OfProperties, Bought, Rows, ItemsSound, ItemSound, Statuses
<1>10. ASSUME NEW s \in Sessions, CommitDeletion(s)
      PROVE  ItemsSound'
  BY <1>10, EndedOthers
  DEF CommitDeletion, Removed, Snapshotted, RegistryInv, SessionsSound, SessionSound, OfProperties, Bought,
      ItemsSound, ItemSound
<1>11. ASSUME NEW s \in Sessions, WriteVehicle(s)
      PROVE  ItemsSound'
  BY <1>11 DEF WriteVehicle, Balance, RegistryInv, Bought, ItemsSound, ItemSound
<1>12. ASSUME NEW s \in Sessions, CommitVehicle(s)
      PROVE  ItemsSound'
  <2>1. CASE Abort(s)
    BY <2>1 DEF Abort, RegistryInv, ItemsSound, ItemSound, Bought
  <2>2. CASE ~Abort(s)
    <3>1. PICK v \in Vehicles :
          /\ v = session[s].item /\ v \in Items /\ v \notin Properties
          /\ sale[v].status = "none" /\ purchase[v] # "void" => session[s].carried = Bought(v)
      BY <1>12 DEF CommitVehicle, RegistryInv, SessionsSound, SessionSound, Items
    <3>2. /\ row' = [row EXCEPT ![v] = [status |-> "sold", price |-> session[s].price]]
          /\ sale' = IF sale[v].status = "none" THEN [sale EXCEPT ![v] = Sold(s)] ELSE sale
          /\ UNCHANGED purchase
      BY <1>12, <2>2, <3>1 DEF CommitVehicle
    <3>3. ASSUME NEW i \in Items, i # v PROVE row'[i] = row[i] /\ sale'[i] = sale[i] /\ purchase'[i] = purchase[i]
      BY <3>2, <3>3 DEF RegistryInv, TypeOK
    <3>4. /\ row'[v].status = "sold"
          /\ sale[v].status = "none" => sale'[v].carried = session[s].carried
          /\ sale[v].status # "none" => sale'[v] = sale[v]
      BY <3>1, <3>2 DEF Sold, RegistryInv, TypeOK
    <3>5. ItemSound(v)'
      BY <3>1, <3>2, <3>4 DEF ItemSound, Bought, RegistryInv, ItemsSound
    <3>6. ASSUME NEW i \in Items, i # v PROVE ItemSound(i)'
      BY <3>3, <3>6 DEF ItemSound, Bought, RegistryInv, ItemsSound
    <3> QED
      BY <3>5, <3>6 DEF ItemsSound
  <2> QED
    BY <2>1, <2>2
<1>13. ASSUME NEW i \in Items, ReversePurchase(i)
      PROVE  ItemsSound'
  BY <1>13 DEF ReversePurchase, RegistryInv, Bought, ItemsSound, ItemSound
<1>14. ASSUME NEW i \in Items, ReverseSale(i)
      PROVE  ItemsSound'
  BY <1>14 DEF ReverseSale, RegistryInv, Bought, ItemsSound, ItemSound
<1>15. ASSUME NEW s \in Sessions, Rollback(s)
      PROVE  ItemsSound'
  BY <1>15, EndedOthers DEF Rollback, Abort, RegistryInv, Bought, ItemsSound, ItemSound
<1>16. CASE UNCHANGED vars
  BY <1>16 DEF vars, RegistryInv, Bought, ItemsSound, ItemSound
<1> QED
  BY <1>1, <1>2, <1>3, <1>4, <1>5, <1>6, <1>7, <1>8, <1>9, <1>10, <1>11, <1>12, <1>13, <1>14, <1>15, <1>16
  DEF Next, OfProperty, Continue

\* Rows and sales change together.
LEMMA SoldStep == RegistryInv /\ [Next]_vars => SoldAsBooked'
<1> SUFFICES ASSUME RegistryInv, [Next]_vars PROVE SoldAsBooked'
  OBVIOUS
<1> USE RegistryAssumption
<1>1. ASSUME NEW p \in Properties, RegisterProperty(p)
      PROVE  SoldAsBooked'
  BY <1>1 DEF RegisterProperty, RegistryInv, SoldAsBooked
<1>2. ASSUME NEW v \in Vehicles, NEW bought \in BOOLEAN, RegisterVehicle(v, bought)
      PROVE  SoldAsBooked'
  BY <1>2 DEF RegisterVehicle, RegistryInv, SoldAsBooked
<1>3. ASSUME NEW s \in Sessions, NEW p \in Properties, NEW price \in Prices \cup {None},
             NEW pc \in {"valuing", "deleting", "selling"}, ReadProperty(s, p, pc, price)
      PROVE  SoldAsBooked'
  BY <1>3 DEF ReadProperty, At, Idle, RegistryInv, SoldAsBooked
<1>4. ASSUME NEW s \in Sessions, NEW v \in Vehicles, NEW price \in Prices, NEW byForm \in BOOLEAN,
             JudgeVehicle(s, v, price, byForm)
      PROVE  SoldAsBooked'
  BY <1>4 DEF JudgeVehicle, At, Idle, RegistryInv, SoldAsBooked
<1>5. ASSUME NEW v \in Aside, NEW price \in Prices, SellAside(v, price)
      PROVE  SoldAsBooked'
  BY <1>5 DEF SellAside, RegistryInv, SoldAsBooked
<1>6. ASSUME NEW s \in Sessions, InsertSnapshot(s)
      PROVE  SoldAsBooked'
  BY <1>6, EndedOthers DEF InsertSnapshot, Abort, RegistryInv, SoldAsBooked
<1>7. ASSUME NEW s \in Sessions, CommitValuation(s)
      PROVE  SoldAsBooked'
  BY <1>7, EndedOthers DEF CommitValuation, RegistryInv, SoldAsBooked
<1>8. ASSUME NEW s \in Sessions, LookUpKey(s)
      PROVE  SoldAsBooked'
  BY <1>8, EndedOthers DEF LookUpKey, Abort, RegistryInv, SoldAsBooked
<1>9. ASSUME NEW s \in Sessions, CommitSale(s)
      PROVE  SoldAsBooked'
  <2>1. ASSUME NEW p \in Properties, sale' = [sale EXCEPT ![p] = Sold(s)], Removed(p)
        PROVE  SoldAsBooked'
    <3>1. row'[p].status = "deleted" /\ p \notin Vehicles
      BY <2>1 DEF Removed, RegistryInv, TypeOK, Rows, Items
    <3>2. ASSUME NEW i \in Items, i # p PROVE row'[i] = row[i] /\ sale'[i] = sale[i]
      BY <2>1, <3>2 DEF Removed, RegistryInv, TypeOK
    <3> QED
      BY <3>1, <3>2 DEF RegistryInv, SoldAsBooked, Items
  <2>2. CASE Abort(s)
    BY <2>2 DEF Abort, RegistryInv, SoldAsBooked
  <2> QED
    BY <1>9, <2>1, <2>2 DEF CommitSale, RegistryInv, SessionsSound, SessionSound, OfProperties
<1>10. ASSUME NEW s \in Sessions, CommitDeletion(s)
      PROVE  SoldAsBooked'
  BY <1>10, EndedOthers
  DEF CommitDeletion, Removed, Snapshotted, RegistryInv, SessionsSound, SessionSound, OfProperties, SoldAsBooked
<1>11. ASSUME NEW s \in Sessions, WriteVehicle(s)
      PROVE  SoldAsBooked'
  BY <1>11 DEF WriteVehicle, Balance, RegistryInv, SoldAsBooked
<1>12. ASSUME NEW s \in Sessions, CommitVehicle(s)
      PROVE  SoldAsBooked'
  BY <1>12, EndedOthers
  DEF CommitVehicle, Sold, Abort, RegistryInv, TypeOK, SessionsSound, SessionSound, Items, SoldAsBooked
<1>13. ASSUME NEW i \in Items, ReversePurchase(i)
      PROVE  SoldAsBooked'
  BY <1>13 DEF ReversePurchase, RegistryInv, SoldAsBooked
<1>14. ASSUME NEW i \in Items, ReverseSale(i)
      PROVE  SoldAsBooked'
  BY <1>14 DEF ReverseSale, RegistryInv, SoldAsBooked
<1>15. ASSUME NEW s \in Sessions, Rollback(s)
      PROVE  SoldAsBooked'
  BY <1>15, EndedOthers DEF Rollback, Abort, RegistryInv, SoldAsBooked
<1>16. CASE UNCHANGED vars
  BY <1>16 DEF vars, RegistryInv, SoldAsBooked
<1> QED
  BY <1>1, <1>2, <1>3, <1>4, <1>5, <1>6, <1>7, <1>8, <1>9, <1>10, <1>11, <1>12, <1>13, <1>14, <1>15, <1>16
  DEF Next, OfProperty, Continue

\* A price is written only while its property is there.
LEMMA GoneStep == RegistryInv /\ [Next]_vars => GoneWithItsPrice'
<1> SUFFICES ASSUME RegistryInv, [Next]_vars PROVE GoneWithItsPrice'
  OBVIOUS
<1> USE RegistryAssumption
<1>1. ASSUME NEW p \in Properties, RegisterProperty(p)
      PROVE  GoneWithItsPrice'
  BY <1>1 DEF RegisterProperty, RegistryInv, GoneWithItsPrice
<1>2. ASSUME NEW v \in Vehicles, NEW bought \in BOOLEAN, RegisterVehicle(v, bought)
      PROVE  GoneWithItsPrice'
  BY <1>2 DEF RegisterVehicle, RegistryInv, GoneWithItsPrice
<1>3. ASSUME NEW s \in Sessions, NEW p \in Properties, NEW price \in Prices \cup {None},
             NEW pc \in {"valuing", "deleting", "selling"}, ReadProperty(s, p, pc, price)
      PROVE  GoneWithItsPrice'
  BY <1>3 DEF ReadProperty, At, Idle, RegistryInv, GoneWithItsPrice
<1>4. ASSUME NEW s \in Sessions, NEW v \in Vehicles, NEW price \in Prices, NEW byForm \in BOOLEAN,
             JudgeVehicle(s, v, price, byForm)
      PROVE  GoneWithItsPrice'
  BY <1>4 DEF JudgeVehicle, At, Idle, RegistryInv, GoneWithItsPrice
<1>5. ASSUME NEW v \in Aside, NEW price \in Prices, SellAside(v, price)
      PROVE  GoneWithItsPrice'
  BY <1>5 DEF SellAside, RegistryInv, GoneWithItsPrice
<1>6. ASSUME NEW s \in Sessions, InsertSnapshot(s)
      PROVE  GoneWithItsPrice'
  BY <1>6, EndedOthers DEF InsertSnapshot, Abort, RegistryInv, GoneWithItsPrice
<1>7. ASSUME NEW s \in Sessions, CommitValuation(s)
      PROVE  GoneWithItsPrice'
  BY <1>7, EndedOthers DEF CommitValuation, RegistryInv, SessionsSound, SessionSound, GoneWithItsPrice
<1>8. ASSUME NEW s \in Sessions, LookUpKey(s)
      PROVE  GoneWithItsPrice'
  BY <1>8, EndedOthers DEF LookUpKey, Abort, RegistryInv, GoneWithItsPrice
<1>9. ASSUME NEW s \in Sessions, CommitSale(s)
      PROVE  GoneWithItsPrice'
  BY <1>9, EndedOthers
  DEF CommitSale, Sold, Removed, Snapshotted, Abort, RegistryInv, TypeOK, Items, GoneWithItsPrice
<1>10. ASSUME NEW s \in Sessions, CommitDeletion(s)
      PROVE  GoneWithItsPrice'
  BY <1>10, EndedOthers DEF CommitDeletion, Removed, Snapshotted, RegistryInv, TypeOK, GoneWithItsPrice
<1>11. ASSUME NEW s \in Sessions, WriteVehicle(s)
      PROVE  GoneWithItsPrice'
  BY <1>11 DEF WriteVehicle, Balance, RegistryInv, GoneWithItsPrice
<1>12. ASSUME NEW s \in Sessions, CommitVehicle(s)
      PROVE  GoneWithItsPrice'
  BY <1>12, EndedOthers DEF CommitVehicle, Sold, Abort, RegistryInv, TypeOK, Items, GoneWithItsPrice
<1>13. ASSUME NEW i \in Items, ReversePurchase(i)
      PROVE  GoneWithItsPrice'
  BY <1>13 DEF ReversePurchase, RegistryInv, GoneWithItsPrice
<1>14. ASSUME NEW i \in Items, ReverseSale(i)
      PROVE  GoneWithItsPrice'
  BY <1>14 DEF ReverseSale, RegistryInv, GoneWithItsPrice
<1>15. ASSUME NEW s \in Sessions, Rollback(s)
      PROVE  GoneWithItsPrice'
  BY <1>15, EndedOthers DEF Rollback, Abort, RegistryInv, GoneWithItsPrice
<1>16. CASE UNCHANGED vars
  BY <1>16 DEF vars, RegistryInv, GoneWithItsPrice
<1> QED
  BY <1>1, <1>2, <1>3, <1>4, <1>5, <1>6, <1>7, <1>8, <1>9, <1>10, <1>11, <1>12, <1>13, <1>14, <1>15, <1>16
  DEF Next, OfProperty, Continue

LEMMA NextInv == RegistryInv /\ [Next]_vars => RegistryInv'
<1> SUFFICES ASSUME RegistryInv, [Next]_vars PROVE RegistryInv'
  OBVIOUS
<1>1. TypeOK'
  BY TypeStep
<1>2. SessionsSound'
  BY SessionsStep
<1>3. ItemsSound'
  BY ItemsStep
<1>4. SoldAsBooked'
  BY SoldStep
<1>5. GoneWithItsPrice'
  BY GoneStep
<1> QED
  BY <1>1, <1>2, <1>3, <1>4, <1>5 DEF RegistryInv

-----------------------------------------------------------------------------
\* Every reachable state of the registry is well typed.
THEOREM RegistryTypeCorrect == Spec => []TypeOK
<1>1. RegistryInv => TypeOK
  BY DEF RegistryInv
<1> QED
  BY <1>1, InitInv, NextInv, PTL DEF Spec

\* For any items, prices and number of sessions, registry and ledger agree on what
\* was sold and for how much, however sales overlap, fail and are sent again.
THEOREM RegistrySoldAsBooked == Spec => []SoldAsBooked
<1>1. RegistryInv => SoldAsBooked
  BY DEF RegistryInv
<1> QED
  BY <1>1, InitInv, NextInv, PTL DEF Spec

\* A valuation that races a sale or a deletion leaves no price of a property that
\* is out of the registry.
THEOREM RegistryGoneWithItsPrice == Spec => []GoneWithItsPrice
<1>1. RegistryInv => GoneWithItsPrice
  BY DEF RegistryInv
<1> QED
  BY <1>1, InitInv, NextInv, PTL DEF Spec

\* What was sold leaves nothing in its account unless its purchase was reversed,
\* although a sale reads the carrying value before the entry locks the account.
THEOREM RegistryRemovedExactly == Spec => []RemovedExactly
<1>1. RegistryInv => RemovedExactly
  <2> SUFFICES ASSUME RegistryInv, NEW i \in Items, sale[i].status = "posted", purchase[i] # "void"
               PROVE  Balance(i) = 0
    BY DEF RemovedExactly
  <2>1. sale[i].carried = Bought(i)
    BY DEF RegistryInv, ItemsSound, ItemSound
  <2> QED
    BY <2>1, RegistryAssumption DEF Balance, Bought
<1> QED
  BY <1>1, InitInv, NextInv, PTL DEF Spec
=============================================================================
