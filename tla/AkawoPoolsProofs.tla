-------------------------- MODULE AkawoPoolsProofs --------------------------
(***************************************************************************)
(* Proofs about AkawoPools for any users, references and intents; then     *)
(* about Notices (Devices, Notifications and AdminFeed) for any users,     *)
(* phones, emails, calls, subjects and sweeps.                             *)
(***************************************************************************)
EXTENDS AkawoPools, Notices, FiniteSetTheorems, TLAPS

MemberRow == [status: {"none", "ACTIVE", "REMOVED"}, reference: References \cup {None}]
IntentRow == [status: {"none", "resolved", "REQUIRES_CONFIRMATION", "SUCCEEDED"},
              user: Users \cup {None}]

\* A pool starts without members, intents and postings.
LEMMA InitInv == Init => IInv
<1> SUFFICES ASSUME Init PROVE IInv
  OBVIOUS
<1>1. TypeOK
  BY PoolAssumption DEF Init, TypeOK, PoolStatus, DueStatus
<1>2. IntentsOwned
  BY DEF Init, IntentsOwned
<1>3. PaidOnce
  BY DEF Init, PaidOnce
<1>4. MembersNamed /\ MembersOwe
  BY DEF Init, MembersNamed, MembersOwe
<1> QED
  BY <1>1, <1>2, <1>3, <1>4 DEF IInv

\* A step that leaves members, dues, intents, postings and money alone.
LEMMA FrameInv ==
    ASSUME IInv, UNCHANGED <<people, intent, money>>,
           status' \in PoolStatus, verified' \in BOOLEAN,
           joiner' \in [Users -> References \cup {None}]
    PROVE  IInv'
<1>1. TypeOK'
  BY DEF IInv, TypeOK, people, money
<1>2. IntentsOwned'
  BY DEF IInv, IntentsOwned, people, money
<1>3. PaidOnce'
  BY DEF IInv, PaidOnce, people, money
<1>4. MembersNamed' /\ MembersOwe'
  BY DEF IInv, MembersNamed, MembersOwe, people, money
<1> QED
  BY <1>1, <1>2, <1>3, <1>4 DEF IInv

\* removeMember keeps the reference and the due.
LEMMA RemoveInv ==
    ASSUME IInv, NEW u \in Users, RemoveMember(u)
    PROVE  IInv'
<1> DEFINE new == [member[u] EXCEPT !.status = "REMOVED"]
<1>1. member \in [Users -> MemberRow] /\ member' = [member EXCEPT ![u] = new]
  BY DEF IInv, TypeOK, MemberRow, RemoveMember
<1>2. new \in MemberRow /\ new.status = "REMOVED" /\ new.reference = member[u].reference
  BY <1>1 DEF MemberRow
<1>3. member[u].status # "none"
  BY DEF IInv, MembersOwe, RemoveMember
<1> HIDE DEF new
<1>4. member' \in [Users -> MemberRow] /\ \A w \in Users :
        member'[w].reference = member[w].reference /\ (member'[w].status = "none" <=> member[w].status = "none")
  BY <1>1, <1>2, <1>3
<1>5. TypeOK'
  BY <1>4 DEF IInv, TypeOK, MemberRow, RemoveMember, money
<1>6. IntentsOwned' /\ PaidOnce'
  BY DEF IInv, IntentsOwned, PaidOnce, RemoveMember, money
<1>7. MembersNamed' /\ MembersOwe'
  BY <1>4 DEF IInv, MembersNamed, MembersOwe, RemoveMember
<1> QED
  BY <1>5, <1>6, <1>7 DEF IInv

\* waiveDue touches a due nobody has paid.
LEMMA WaiveInv ==
    ASSUME IInv, NEW u \in Users, WaiveDue(u)
    PROVE  IInv'
<1>1. due[u] = "PENDING" /\ due' = [due EXCEPT ![u] = "WAIVED"] /\ due \in [Users -> DueStatus]
  BY DEF IInv, TypeOK, WaiveDue
<1>2. TypeOK'
  BY <1>1 DEF IInv, TypeOK, WaiveDue, money, DueStatus
<1>3. IntentsOwned'
  BY <1>1 DEF IInv, IntentsOwned, WaiveDue, money
<1>4. PaidOnce'
  BY <1>1 DEF IInv, PaidOnce, WaiveDue, money
<1>5. MembersNamed' /\ MembersOwe'
  BY <1>1 DEF IInv, MembersNamed, MembersOwe, WaiveDue
<1> QED
  BY <1>2, <1>3, <1>4, <1>5 DEF IInv

\* join writes the membership and its due together, under a reference nobody
\* ever used, or nothing.
LEMMA JoinInv ==
    ASSUME IInv, NEW u \in Users, Join(u)
    PROVE  IInv'
<1>1. joiner' \in [Users -> References \cup {None}]
  BY DEF IInv, TypeOK, Join
<1>2. CASE UNCHANGED people
  BY <1>1, <1>2, FrameInv DEF IInv, TypeOK, Join
<1>3. CASE ~UNCHANGED people
  <2> DEFINE new == [status |-> "ACTIVE", reference |-> joiner[u]]
  <2>1. /\ member[u].status = "none" /\ IsReferenceFree(joiner[u])
        /\ member' = [member EXCEPT ![u] = new]
        /\ due' = [due EXCEPT ![u] = "PENDING"]
    BY <1>3 DEF Join
  <2>2. member \in [Users -> MemberRow] /\ due \in [Users -> DueStatus]
    BY DEF IInv, TypeOK, MemberRow
  <2>3. joiner[u] \in References /\ joiner[u] # None
    BY PoolAssumption DEF IInv, TypeOK, Join
  <2>4. new \in MemberRow /\ new.status = "ACTIVE" /\ new.reference = joiner[u]
    BY <2>3 DEF MemberRow
  <2> HIDE DEF new
  <2>5. member' \in [Users -> MemberRow] /\ member'[u] = new
        /\ \A w \in Users \ {u} : member'[w] = member[w]
    BY <2>1, <2>2, <2>4
  <2>6. due' \in [Users -> DueStatus] /\ due'[u] = "PENDING"
        /\ \A w \in Users \ {u} : due'[w] = due[w]
    BY <2>1, <2>2 DEF DueStatus
  <2>7. due[u] = "none"
    BY <2>1 DEF IInv, MembersOwe
  <2>8. TypeOK'
    BY <1>1, <2>5, <2>6 DEF IInv, TypeOK, MemberRow, Join, money
  <2>9. IntentsOwned'
    BY <2>6, <2>7 DEF IInv, IntentsOwned, Join, money
  <2>10. PaidOnce'
    BY <2>6, <2>7 DEF IInv, PaidOnce, Join, money
  <2>11. MembersNamed'
    BY <2>3, <2>4, <2>5 DEF IInv, MembersNamed
  <2>12. MembersOwe'
    BY <2>1, <2>3, <2>4, <2>5, <2>6 DEF IInv, MembersOwe, IsReferenceFree
  <2> QED
    BY <2>8, <2>9, <2>10, <2>11, <2>12 DEF IInv
<1> QED
  BY <1>2, <1>3

\* create only adds an intent that nothing has paid yet, for a due that exists.
LEMMA CreateInv ==
    ASSUME IInv, NEW i \in Intents,
           CreateIntent(i) \/ \E u \in Users : ResolveTarget(i, u)
    PROVE  IInv'
<1>1. /\ intent[i].status \in {"none", "resolved"} /\ intent \in [Intents -> IntentRow]
      /\ UNCHANGED <<status, people, joiner, money, verified>>
  BY DEF CreateIntent, ResolveTarget, IInv, TypeOK, IntentRow
<1>2. PICK row \in IntentRow :
        /\ intent' = [intent EXCEPT ![i] = row]
        /\ row.status \in {"resolved", "REQUIRES_CONFIRMATION"}
        /\ row.user \in Users /\ due[row.user] # "none"
  <2>1. CASE \E u \in Users : ResolveTarget(i, u)
    <3>1. PICK u \in Users : ResolveTarget(i, u)
      BY <2>1
    <3> DEFINE new == [status |-> "resolved", user |-> u]
    <3>2. new \in IntentRow /\ new.status = "resolved" /\ new.user = u
      BY DEF IntentRow
    <3>3. intent' = [intent EXCEPT ![i] = new] /\ due[u] # "none"
      BY <3>1 DEF ResolveTarget, Resolves
    <3> QED
      BY <3>2, <3>3
  <2>2. CASE CreateIntent(i)
    <3> DEFINE new == [intent[i] EXCEPT !.status = "REQUIRES_CONFIRMATION"]
    <3>1. new \in IntentRow /\ new.status = "REQUIRES_CONFIRMATION" /\ new.user = intent[i].user
      BY <1>1 DEF IntentRow
    <3>2. intent' = [intent EXCEPT ![i] = new] /\ intent[i].status = "resolved"
      BY <2>2 DEF CreateIntent
    <3>3. intent[i].user \in Users /\ due[intent[i].user] # "none"
      BY <3>2 DEF IInv, IntentsOwned
    <3> QED
      BY <3>1, <3>2, <3>3
  <2> QED
    BY <2>1, <2>2
<1>3. intent' \in [Intents -> IntentRow] /\ intent'[i] = row /\ \A j \in Intents \ {i} : intent'[j] = intent[j]
  BY <1>1, <1>2
<1>4. i \notin postings /\ postings \subseteq Intents
  BY <1>1 DEF IInv, TypeOK, IntentsOwned
<1>5. TypeOK'
  BY <1>1, <1>3 DEF IInv, TypeOK, IntentRow, people, money
<1>6. IntentsOwned'
  BY <1>1, <1>2, <1>3, <1>4 DEF IInv, IntentsOwned, people, money
<1>7. \A j \in postings : intent'[j] = intent[j]
  BY <1>3, <1>4
<1>8. PaidOnce'
  BY <1>1, <1>7 DEF IInv, PaidOnce, people, money
<1>9. MembersNamed' /\ MembersOwe'
  BY <1>1 DEF IInv, MembersNamed, MembersOwe, people
<1> QED
  BY <1>5, <1>6, <1>8, <1>9 DEF IInv

\* A confirmation resolves the due again, so it pays a due nothing has paid.
LEMMA ConfirmInv ==
    ASSUME IInv, NEW i \in Intents, ConfirmIntent(i)
    PROVE  IInv'
<1> DEFINE u == intent[i].user
           new == [intent[i] EXCEPT !.status = "SUCCEEDED"]
<1>1. u \in Users /\ due[u] = "PENDING" /\ i \notin postings /\ postings \subseteq Intents
  BY DEF IInv, TypeOK, IntentsOwned, ConfirmIntent, Resolves
<1>2. intent \in [Intents -> IntentRow] /\ due \in [Users -> DueStatus]
  BY DEF IInv, TypeOK, IntentRow
<1>3. new \in IntentRow /\ new.status = "SUCCEEDED" /\ new.user = u
  BY <1>2 DEF IntentRow
<1>4. /\ intent' = [intent EXCEPT ![i] = new] /\ due' = [due EXCEPT ![u] = "PAID"]
      /\ postings' = postings \cup {i}
      /\ UNCHANGED <<status, member, joiner, verified>>
  BY DEF ConfirmIntent
<1>5. wallet' \in [Users -> Nat] /\ payable' \in Nat
  BY <1>1, PoolAssumption DEF IInv, TypeOK, ConfirmIntent
<1> HIDE DEF new
<1>6. intent' \in [Intents -> IntentRow] /\ intent'[i] = new /\ \A j \in Intents \ {i} : intent'[j] = intent[j]
  BY <1>2, <1>3, <1>4
<1>7. due' \in [Users -> DueStatus] /\ due'[u] = "PAID" /\ \A w \in Users \ {u} : due'[w] = due[w]
  BY <1>1, <1>2, <1>4 DEF DueStatus
<1>8. \A j \in Intents : intent'[j].user = intent[j].user
  BY <1>3, <1>6
<1> HIDE DEF u
<1>9. TypeOK'
  BY <1>1, <1>4, <1>5, <1>6, <1>7 DEF IInv, TypeOK, IntentRow
<1>10. IntentsOwned'
  <2>1. ASSUME NEW j \in Intents, intent'[j].status # "none"
        PROVE  intent'[j].user \in Users /\ due'[intent'[j].user] # "none"
    <3>1. intent[j].status # "none"
      BY <2>1, <1>6 DEF ConfirmIntent
    <3>2. intent[j].user \in Users /\ due[intent[j].user] # "none"
      BY <3>1 DEF IInv, IntentsOwned
    <3> QED
      BY <3>2, <1>7, <1>8
  <2>2. ASSUME NEW j \in Intents PROVE j \in postings' <=> intent'[j].status = "SUCCEEDED"
    BY <1>3, <1>4, <1>6 DEF IInv, IntentsOwned
  <2> QED
    BY <2>1, <2>2 DEF IntentsOwned
<1>11. \A j \in postings : intent[j].user # u
  BY <1>1 DEF IInv, PaidOnce
<1>12. intent[i].user = u
  BY DEF u
<1>13. PaidOnce'
  <2>1. ASSUME NEW w \in Users
        PROVE  due'[w] = "PAID" <=> \E j \in postings' : intent'[j].user = w
    <3>1. CASE w = u
      BY <3>1, <1>4, <1>7, <1>8, <1>12
    <3>2. CASE w # u
      BY <3>2, <1>1, <1>4, <1>7, <1>8, <1>12 DEF IInv, PaidOnce
    <3> QED
      BY <3>1, <3>2
  <2>2. ASSUME NEW j \in postings', NEW k \in postings', intent'[j].user = intent'[k].user
        PROVE  j = k
    BY <2>2, <1>1, <1>4, <1>8, <1>11, <1>12 DEF IInv, PaidOnce
  <2> QED
    BY <2>1, <2>2 DEF PaidOnce
<1>14. MembersNamed' /\ MembersOwe'
  BY <1>1, <1>4, <1>7 DEF IInv, MembersNamed, MembersOwe
<1> QED
  BY <1>9, <1>10, <1>13, <1>14 DEF IInv

\* Every step of AkawoPools keeps the invariant, and leaves settled dues.
LEMMA NextInv ==
    ASSUME IInv, [Next]_vars
    PROVE  /\ IInv'
           /\ \A u \in Users : due[u] \in {"PAID", "WAIVED"} => due'[u] = due[u]
<1>1. ASSUME NEW to \in {"OPEN", "CLOSED"}, Transition(to) PROVE IInv' /\ due' = due
  BY <1>1, FrameInv DEF Transition, IInv, TypeOK, PoolStatus, people
<1>2. CASE Cancel
  BY <1>2, FrameInv DEF Cancel, IInv, TypeOK, PoolStatus, people
<1>3. CASE Verification
  BY <1>3, FrameInv DEF Verification, IInv, TypeOK, people
<1>4. ASSUME NEW u \in Users, RemoveMember(u) PROVE IInv' /\ due' = due
  BY <1>4, RemoveInv DEF RemoveMember
<1>5. ASSUME NEW u \in Users, WaiveDue(u)
      PROVE  IInv' /\ \A w \in Users : due[w] \in {"PAID", "WAIVED"} => due'[w] = due[w]
  BY <1>5, WaiveInv DEF WaiveDue, IInv, TypeOK
<1>6. ASSUME NEW u \in Users, Join(u)
      PROVE  IInv' /\ \A w \in Users : due[w] \in {"PAID", "WAIVED"} => due'[w] = due[w]
  <2>1. member[u].status = "none" => due[u] = "none"
    BY DEF IInv, MembersOwe
  <2> QED
    BY <1>6, <2>1, JoinInv DEF Join, IInv, TypeOK, people
<1>7. ASSUME NEW u \in Users, NEW ref \in References, FindPool(u, ref) PROVE IInv' /\ due' = due
  <2>1. joiner' \in [Users -> References \cup {None}]
    BY <1>7 DEF FindPool, IInv, TypeOK
  <2> QED
    BY <1>7, <2>1, FrameInv DEF FindPool, IInv, TypeOK, people
<1>8. ASSUME NEW i \in Intents, CreateIntent(i) \/ \E u \in Users : ResolveTarget(i, u)
      PROVE  IInv' /\ due' = due
  BY <1>8, CreateInv DEF CreateIntent, ResolveTarget, people
<1>9. ASSUME NEW i \in Intents, ConfirmIntent(i)
      PROVE  IInv' /\ \A w \in Users : due[w] \in {"PAID", "WAIVED"} => due'[w] = due[w]
  BY <1>9, ConfirmInv DEF ConfirmIntent, Resolves, IInv, TypeOK
<1>10. CASE UNCHANGED vars
  BY <1>10, FrameInv DEF vars, people, money, IInv, TypeOK
<1> QED
  BY <1>1, <1>2, <1>3, <1>4, <1>5, <1>6, <1>7, <1>8, <1>9, <1>10 DEF Next, Cancel, Verification, vars, people

\* The inductive invariant of AkawoPools.
THEOREM InvariantHolds == Spec => []IInv
<1>1. Init => IInv
  BY InitInv
<1>2. IInv /\ [Next]_vars => IInv'
  BY NextInv
<1> QED
  BY <1>1, <1>2, PTL DEF Spec

\* TypeOK always holds: no wallet is overdrawn by a due.
THEOREM TypeCorrect == Spec => []TypeOK
<1>1. IInv => TypeOK
  BY DEF IInv
<1> QED
  BY <1>1, InvariantHolds, PTL

\* join and removeMember: there is a due for every membership ever made and no
\* other, and no two memberships share a reference.
THEOREM MembershipsOwe == Spec => []MembersOwe
<1>1. IInv => MembersOwe
  BY DEF IInv
<1> QED
  BY <1>1, InvariantHolds, PTL

\* settle: a due is PAID exactly when one ledger transaction paid it.
THEOREM PaidDuesAreBacked == Spec => []PaidIsBacked
<1>1. ASSUME IInv PROVE PaidIsBacked
  <2> SUFFICES ASSUME NEW u \in Users
               PROVE  Cardinality({i \in postings : intent[i].user = u})
                        = IF due[u] = "PAID" THEN 1 ELSE 0
    BY DEF PaidIsBacked
  <2> DEFINE paying == {i \in postings : intent[i].user = u}
  <2>1. CASE due[u] = "PAID"
    <3>1. PICK i \in postings : intent[i].user = u
      BY <1>1, <2>1 DEF IInv, PaidOnce
    <3>2. paying = {i}
      BY <1>1, <3>1 DEF IInv, PaidOnce
    <3>3. Cardinality({i}) = 1
      BY FS_Singleton
    <3> QED
      BY <2>1, <3>2, <3>3
  <2>2. CASE due[u] # "PAID"
    <3>1. paying = {}
      BY <1>1, <2>2 DEF IInv, PaidOnce
    <3> QED
      BY <2>2, <3>1, FS_EmptySet
  <2> QED
    BY <2>1, <2>2
<1> QED
  BY <1>1, InvariantHolds, PTL

\* waiveDue and settle: a paid or waived due never changes again.
THEOREM DuesStaySettled == Spec => SettledDuesStay
<1>1. ASSUME IInv, [Next]_vars
      PROVE  [\A u \in Users : due[u] \in {"PAID", "WAIVED"} => due'[u] = due[u]]_vars
  BY <1>1, NextInv
<1> QED
  BY <1>1, InvariantHolds, PTL DEF Spec, SettledDuesStay

-----------------------------------------------------------------------------
(* Money.                                                                  *)

PaidUsers == {u \in Users : due[u] = "PAID"}

\* The members with a paid due, and those of them still listed, are finitely many.
LEMMA PaidAreFinite ==
    /\ IsFiniteSet(PaidUsers) /\ PaidCount = Cardinality(PaidUsers) /\ PaidCount \in Nat
    /\ Cardinality({u \in Users : member[u].status = "ACTIVE" /\ due[u] = "PAID"}) \in Nat
    /\ Cardinality({u \in Users : member[u].status = "ACTIVE" /\ due[u] = "PAID"}) <= PaidCount
<1> DEFINE listed == {u \in Users : member[u].status = "ACTIVE" /\ due[u] = "PAID"}
<1>1. PaidUsers \in SUBSET Users /\ listed \in SUBSET PaidUsers /\ IsFiniteSet(Users)
  BY PoolAssumption DEF PaidUsers
<1>2. IsFiniteSet(PaidUsers) /\ PaidCount = Cardinality(PaidUsers)
  BY <1>1, FS_Subset DEF PaidUsers, PaidCount
<1> HIDE DEF listed
<1>3. IsFiniteSet(listed) /\ Cardinality(listed) <= Cardinality(PaidUsers)
  BY <1>1, <1>2, FS_Subset
<1>4. Cardinality(listed) \in Nat /\ Cardinality(PaidUsers) \in Nat
  BY <1>2, <1>3, FS_CardinalityType
<1> QED
  BY <1>2, <1>3, <1>4 DEF listed

\* What the pool holds and what has left the wallets; the organiser's view
\* follows from it.
Received ==
    /\ payable = CollectedTotal
    /\ \A u \in Users : wallet[u] = Opening[u] - IF due[u] = "PAID" THEN Amount ELSE 0

\* A due is paid once: the count, the ledger account and one wallet move together.
LEMMA ConfirmReceived ==
    ASSUME IInv, Received, NEW i \in Intents, ConfirmIntent(i)
    PROVE  Received'
<1> DEFINE u == intent[i].user
<1>1. u \in Users /\ due[u] = "PENDING"
  BY DEF IInv, IntentsOwned, ConfirmIntent, Resolves
<1>2. /\ due' = [due EXCEPT ![u] = "PAID"] /\ due \in [Users -> DueStatus]
      /\ wallet' = [wallet EXCEPT ![u] = @ - Amount] /\ wallet \in [Users -> Nat]
      /\ payable' = payable + Amount
  BY DEF ConfirmIntent, IInv, TypeOK
<1> HIDE DEF u
<1>3. PaidUsers' = PaidUsers \cup {u} /\ u \notin PaidUsers
  BY <1>1, <1>2 DEF PaidUsers
<1>4. PaidCount' = Cardinality(PaidUsers')
  BY DEF PaidCount, PaidUsers
<1>5. PaidCount' = PaidCount + 1
  BY <1>3, <1>4, PaidAreFinite, FS_AddElement
<1>6. payable' = CollectedTotal'
  <2>1. Amount * (PaidCount + 1) = Amount * PaidCount + Amount
    BY PaidAreFinite, PoolAssumption
  <2> QED
    BY <1>2, <1>5, <2>1 DEF Received, CollectedTotal
<1>7. ASSUME NEW w \in Users
      PROVE  wallet'[w] = Opening[w] - IF due'[w] = "PAID" THEN Amount ELSE 0
  <2>1. wallet[w] = Opening[w] - IF due[w] = "PAID" THEN Amount ELSE 0
    BY DEF Received
  <2>2. Opening[w] \in Nat /\ Amount \in Nat
    BY PoolAssumption
  <2>3. CASE w = u
    BY <1>1, <1>2, <2>1, <2>2, <2>3
  <2>4. CASE w # u
    BY <1>2, <2>1, <2>4
  <2> QED
    BY <2>3, <2>4
<1> QED
  BY <1>6, <1>7 DEF Received

\* Any step that moves no money and pays no due.
LEMMA FrameReceived ==
    ASSUME Received, UNCHANGED <<wallet, payable>>,
           \A u \in Users : due'[u] = "PAID" <=> due[u] = "PAID"
    PROVE  Received'
<1>1. PaidCount' = PaidCount
  BY DEF PaidCount
<1> QED
  BY <1>1 DEF Received, CollectedTotal

\* Only settle pays a due.
LEMMA NextReceived ==
    ASSUME IInv, Received, [Next]_vars
    PROVE  Received'
<1>1. ASSUME NEW i \in Intents, ConfirmIntent(i) PROVE Received'
  BY <1>1, ConfirmReceived
<1>2. ASSUME NEW u \in Users, WaiveDue(u) PROVE Received'
  BY <1>2, FrameReceived DEF WaiveDue, money, IInv, TypeOK
<1>3. ASSUME NEW u \in Users, Join(u) PROVE Received'
  <2>1. member[u].status = "none" => due[u] = "none"
    BY DEF IInv, MembersOwe
  <2>2. \A w \in Users : due'[w] = "PAID" <=> due[w] = "PAID"
    BY <1>3, <2>1 DEF Join, people, IInv, TypeOK
  <2> QED
    BY <1>3, <2>2, FrameReceived DEF Join, money
<1>4. CASE UNCHANGED <<due, money>>
  BY <1>4, FrameReceived DEF money
<1>5. ASSUME NEW to, Transition(to) PROVE Received'
  BY <1>4, <1>5 DEF Transition, people
<1>6. CASE Cancel \/ Verification
  BY <1>4, <1>6 DEF Cancel, Verification, people
<1>7. ASSUME NEW u \in Users, RemoveMember(u) \/ \E ref \in References : FindPool(u, ref)
      PROVE  Received'
  BY <1>4, <1>7 DEF RemoveMember, FindPool, people
<1>8. ASSUME NEW i \in Intents, CreateIntent(i) \/ \E u \in Users : ResolveTarget(i, u)
      PROVE  Received'
  BY <1>4, <1>8 DEF CreateIntent, ResolveTarget, people
<1>9. CASE UNCHANGED vars
  BY <1>4, <1>9 DEF vars, money
<1> QED
  BY <1>1, <1>2, <1>3, <1>5, <1>6, <1>7, <1>8, <1>9 DEF Next

\* totals and getOrganiserView: what is reported as collected is what the
\* ledger holds, the organiser's list never shows more, and a member has
\* paid one due or none.
THEOREM CollectionsAreReceived == Spec => []CollectedIsReceived
<1>1. Init => Received
  <2> SUFFICES ASSUME Init PROVE Received
    OBVIOUS
  <2>1. PaidUsers = {} /\ PaidCount = Cardinality(PaidUsers)
    BY DEF Init, PaidUsers, PaidCount
  <2>2. PaidCount = 0
    BY <2>1, FS_EmptySet
  <2>3. payable = CollectedTotal
    BY <2>2, PoolAssumption DEF Init, CollectedTotal
  <2> QED
    BY <2>3, PoolAssumption DEF Init, Received
<1>2. IInv /\ Received /\ [Next]_vars => Received'
  BY NextReceived
<1>3. Received => CollectedIsReceived
  <2> DEFINE listed == Cardinality({u \in Users : member[u].status = "ACTIVE" /\ due[u] = "PAID"})
  <2>1. listed \in Nat /\ PaidCount \in Nat /\ listed <= PaidCount /\ Amount \in Nat
    BY PaidAreFinite, PoolAssumption
  <2> HIDE DEF listed
  <2>2. Amount * listed <= Amount * PaidCount
    BY <2>1
  <2> QED
    BY <2>2 DEF Received, CollectedIsReceived, CollectedTotal, OrganiserTotal, listed
<1> QED
  BY <1>1, <1>2, <1>3, InvariantHolds, PTL DEF Spec

-----------------------------------------------------------------------------
(* Devices.                                                                *)

\* Registering, deregistering and releasing leave one claim on each token.
LEMMA DevicesStepInv ==
    ASSUME DevicesOK, OneClaim,
           \/ \E u \in PhoneUsers, f \in Fingerprints :
                  Deregister(u, f) \/ \E t \in Tokens : Register(u, f, t)
           \/ \E t \in Tokens : ReleaseUnregisteredToken(t)
           \/ UNCHANGED device
    PROVE  DevicesOK' /\ OneClaim'
<1>1. ASSUME NEW u \in PhoneUsers, NEW f \in Fingerprints, Deregister(u, f)
      PROVE  DevicesOK' /\ OneClaim'
  BY <1>1 DEF Deregister, DevicesOK, OneClaim, Rows
<1>2. ASSUME NEW u \in PhoneUsers, NEW f \in Fingerprints, NEW t \in Tokens, Register(u, f, t)
      PROVE  DevicesOK' /\ OneClaim'
  <2>1. DevicesOK'
    BY <1>2 DEF Register, DevicesOK
  <2>2. <<u, f>> \in Rows
    BY DEF Rows
  <2>3. \A q \in Rows : /\ q = <<u, f>> => device'[q] = t
                        /\ q # <<u, f>> => device'[q] = IF device[q] = t THEN Unset ELSE device[q]
    BY <1>2 DEF Register, OlderClaims
  <2>4. OneClaim'
    BY <2>2, <2>3 DEF OneClaim
  <2> QED
    BY <2>1, <2>4
<1>3. ASSUME NEW t \in Tokens, ReleaseUnregisteredToken(t) PROVE DevicesOK' /\ OneClaim'
  BY <1>3 DEF ReleaseUnregisteredToken, DevicesOK, OneClaim
<1>4. CASE UNCHANGED device
  BY <1>4 DEF DevicesOK, OneClaim
<1> QED
  BY <1>1, <1>2, <1>3, <1>4

-----------------------------------------------------------------------------
(* Notifications.                                                          *)

CallRow == [at: Places, key: Emails \cup Events \cup {Unset}, tokens: SUBSET Tokens]
MailPlaces == {"look", "create", "send", "sent", "refused"}

\* A call that delivers an email has its key.
CallsKeyed == \A c \in Calls : call[c].at \in MailPlaces => call[c].key \in Emails

\* Whoever stands before the provider inserted the row, nobody else stands
\* there with the same key, and the provider has not been called for it.
SenderIsAlone ==
    \A c \in Calls : call[c].at = "send" =>
        /\ email[call[c].key] # "none" /\ sends[call[c].key] = 0
        /\ \A d \in Calls : call[d].at = "send" /\ call[d].key = call[c].key => d = c

\* The provider is called for rows that exist, and an answer that says it took
\* the email is true.
SendsAreTrue ==
    /\ \A k \in Emails : email[k] = "none" => sends[k] = 0
    /\ \A c \in Calls : call[c].at = "sent" => call[c].key \in accepted

NoticesInv == NoticesOK /\ OneClaim /\ CallsKeyed /\ SenderIsAlone /\ SendsAreTrue /\ EmailedOnce

\* A step that neither sends nor records an email, and brings no call to the
\* provider, keeps what is known of the emails.
LEMMA QuietNoticesInv ==
    ASSUME NoticesInv, DevicesOK' /\ OneClaim',
           preference' \in [Channels -> Preferences], minute' \in 0 .. DayLength - 1,
           inbox' \in [Events -> {"none", "unread", "read"}],
           UNCHANGED <<email, sends, accepted>>,
           call' \in [Calls -> CallRow],
           \A c \in Calls : call'[c].at \in {"send", "sent"} => call'[c] = call[c],
           \A c \in Calls : call'[c].at \in MailPlaces => call'[c].key \in Emails
    PROVE  NoticesInv'
<1>1. NoticesOK'
  BY DEF NoticesInv, NoticesOK, CallRow
<1>2. CallsKeyed'
  BY DEF CallsKeyed
<1>3. SenderIsAlone'
  BY DEF NoticesInv, SenderIsAlone
<1>4. SendsAreTrue' /\ EmailedOnce'
  BY DEF NoticesInv, SendsAreTrue, EmailedOnce
<1> QED
  BY <1>1, <1>2, <1>3, <1>4 DEF NoticesInv

\* The row of a call that moves on, keeping its key, or ends.
LEMMA CallMoves ==
    ASSUME NoticesOK, NEW c \in Calls, NEW place \in Places, Go(c, place)
    PROVE  /\ call' \in [Calls -> CallRow]
           /\ call'[c].at = place /\ call'[c].key = call[c].key
           /\ \A d \in Calls \ {c} : call'[d] = call[d]
<1>1. call \in [Calls -> CallRow]
  BY DEF NoticesOK, CallRow
<1> QED
  BY <1>1 DEF Go, CallRow

LEMMA CallEnds ==
    ASSUME NoticesOK, NEW c \in Calls, Finish(c)
    PROVE  /\ call' \in [Calls -> CallRow]
           /\ call'[c].at = "idle"
           /\ \A d \in Calls \ {c} : call'[d] = call[d]
<1>1. call \in [Calls -> CallRow]
  BY DEF NoticesOK, CallRow
<1>2. Idle \in CallRow /\ Idle.at = "idle"
  BY DEF Idle, CallRow, Places
<1> QED
  BY <1>1, <1>2 DEF Finish

\* The insert: the unique key lets one call through to the provider.
LEMMA CreateKeepsNotices ==
    ASSUME NoticesInv, NEW c \in Calls, Create(c)
    PROVE  NoticesInv'
<1>0. NoticesOK /\ call[c].key \in Emails /\ call[c].at = "create"
  BY DEF NoticesInv, CallsKeyed, MailPlaces, Create, At
<1>1. PICK k \in Emails : k = call[c].key
  BY <1>0
<1>2. UNCHANGED <<device, preference, minute, inbox, sends, accepted>>
  BY DEF Create
<1>3. DevicesOK' /\ OneClaim'
  BY <1>2, DevicesStepInv DEF NoticesInv, NoticesOK
<1>4. CASE email[k] = "none"
  <2>1. email' = [email EXCEPT ![k] = "PENDING"] /\ Go(c, "send")
    BY <1>1, <1>4 DEF Create
  <2>2. /\ call' \in [Calls -> CallRow]
        /\ call'[c].at = "send" /\ call'[c].key = k
        /\ \A d \in Calls \ {c} : call'[d] = call[d]
    BY <1>0, <1>1, <2>1, CallMoves DEF Places
  <2>3. /\ email' \in [Emails -> {"none", "PENDING", "SENT", "FAILED"}]
        /\ email'[k] = "PENDING"
        /\ \A j \in Emails \ {k} : email'[j] = email[j]
    BY <1>0, <2>1 DEF NoticesOK
  <2>4. NoticesOK'
    BY <1>0, <1>2, <1>3, <2>2, <2>3 DEF NoticesOK, CallRow
  <2>5. CallsKeyed'
    BY <2>2 DEF NoticesInv, CallsKeyed
  <2>6. \A d \in Calls : call[d].at = "send" => call[d].key \in Emails /\ call[d].key # k
    BY <1>4 DEF NoticesInv, CallsKeyed, MailPlaces, SenderIsAlone
  <2>7. sends[k] = 0
    BY <1>4 DEF NoticesInv, SendsAreTrue
  <2>8. SenderIsAlone'
    <3> SUFFICES ASSUME NEW d \in Calls, call'[d].at = "send"
                 PROVE  /\ email'[call'[d].key] # "none" /\ sends'[call'[d].key] = 0
                        /\ \A e \in Calls :
                               call'[e].at = "send" /\ call'[e].key = call'[d].key => e = d
      BY DEF SenderIsAlone
    <3>1. CASE d = c
      BY <1>2, <2>2, <2>3, <2>6, <2>7, <3>1
    <3>2. CASE d # c
      BY <1>2, <2>2, <2>3, <2>6, <3>2 DEF NoticesInv, SenderIsAlone
    <3> QED
      BY <3>1, <3>2
  <2>9. SendsAreTrue' /\ EmailedOnce'
    BY <1>2, <2>2, <2>3 DEF NoticesInv, SendsAreTrue, EmailedOnce
  <2> QED
    BY <1>3, <2>4, <2>5, <2>8, <2>9 DEF NoticesInv
<1>5. CASE email[k] # "none"
  <2>1. UNCHANGED email /\ Finish(c)
    BY <1>1, <1>5 DEF Create
  <2>2. /\ call' \in [Calls -> CallRow] /\ call'[c].at = "idle"
        /\ \A d \in Calls \ {c} : call'[d] = call[d]
    BY <1>0, <2>1, CallEnds
  <2>3. \A d \in Calls : call'[d].at \in MailPlaces => d # c
    BY <2>2 DEF MailPlaces
  <2> QED
    BY <1>2, <1>3, <2>1, <2>2, <2>3, QuietNoticesInv
    DEF NoticesInv, NoticesOK, CallsKeyed, MailPlaces
<1> QED
  BY <1>4, <1>5

\* The provider is called by the one call that stands before it.
LEMMA SendKeepsNotices ==
    ASSUME NoticesInv, NEW c \in Calls, NEW takes \in BOOLEAN, NEW answered \in BOOLEAN,
           Send(c, takes, answered)
    PROVE  NoticesInv'
<1>0. NoticesOK /\ call[c].key \in Emails /\ call[c].at = "send"
  BY DEF NoticesInv, CallsKeyed, MailPlaces, Send, At
<1>1. PICK k \in Emails : k = call[c].key
  BY <1>0
<1>2. UNCHANGED <<device, preference, minute, email, inbox>>
  BY DEF Send
<1>3. DevicesOK' /\ OneClaim'
  BY <1>2, DevicesStepInv DEF NoticesInv, NoticesOK
<1>4. PICK place \in {"sent", "refused"} : Go(c, place) /\ (place = "sent" => takes)
  BY DEF Send
<1>5. /\ call' \in [Calls -> CallRow]
      /\ call'[c].at = place /\ call'[c].key = k
      /\ \A d \in Calls \ {c} : call'[d] = call[d]
  BY <1>0, <1>1, <1>4, CallMoves DEF Places
<1>6. /\ accepted \subseteq accepted' /\ accepted' \subseteq Emails
      /\ takes => k \in accepted'
  BY <1>0, <1>1 DEF Send, NoticesOK
<1>7. sends[k] = 0 /\ email[k] # "none"
  BY <1>0, <1>1 DEF NoticesInv, SenderIsAlone
<1>8. /\ sends' \in [Emails -> Nat] /\ sends'[k] = 1
      /\ \A j \in Emails \ {k} : sends'[j] = sends[j]
  BY <1>0, <1>1, <1>7 DEF Send, NoticesOK
<1>9. NoticesOK'
  BY <1>0, <1>2, <1>3, <1>5, <1>6, <1>8 DEF NoticesOK, CallRow
<1>10. CallsKeyed'
  BY <1>5 DEF NoticesInv, CallsKeyed
<1>11. \A d \in Calls \ {c} : call[d].at = "send" => call[d].key \in Emails \ {k}
  BY <1>0, <1>1 DEF NoticesInv, CallsKeyed, MailPlaces, SenderIsAlone
<1>12. SenderIsAlone'
  <2> SUFFICES ASSUME NEW d \in Calls, call'[d].at = "send"
               PROVE  /\ email'[call'[d].key] # "none" /\ sends'[call'[d].key] = 0
                      /\ \A e \in Calls :
                             call'[e].at = "send" /\ call'[e].key = call'[d].key => e = d
    BY DEF SenderIsAlone
  <2>1. d # c /\ call'[d] = call[d]
    BY <1>5
  <2> QED
    BY <1>2, <1>5, <1>8, <1>11, <2>1 DEF NoticesInv, SenderIsAlone
<1>13. SendsAreTrue'
  BY <1>2, <1>4, <1>5, <1>6, <1>7, <1>8 DEF NoticesInv, SendsAreTrue
<1>14. EmailedOnce'
  BY <1>2, <1>6, <1>8 DEF NoticesInv, EmailedOnce
<1> QED
  BY <1>3, <1>9, <1>10, <1>12, <1>13, <1>14 DEF NoticesInv

\* The record of what the provider answered.
LEMMA RecordKeepsNotices ==
    ASSUME NoticesInv, NEW c \in Calls, NEW written \in BOOLEAN, Record(c, written)
    PROVE  NoticesInv'
<1>0. NoticesOK /\ call[c].key \in Emails /\ call[c].at \in {"sent", "refused"}
  BY DEF NoticesInv, CallsKeyed, MailPlaces, Record
<1>1. PICK k \in Emails : k = call[c].key
  BY <1>0
<1>2. UNCHANGED <<device, preference, minute, inbox, sends, accepted>>
  BY DEF Record
<1>3. DevicesOK' /\ OneClaim'
  BY <1>2, DevicesStepInv DEF NoticesInv, NoticesOK
<1>4. CASE UNCHANGED email /\ Go(c, "refused")
  <2>1. /\ call' \in [Calls -> CallRow]
        /\ call'[c].at = "refused" /\ call'[c].key = k
        /\ \A d \in Calls \ {c} : call'[d] = call[d]
    BY <1>0, <1>1, <1>4, CallMoves DEF Places
  <2> QED
    BY <1>2, <1>3, <1>4, <2>1, QuietNoticesInv DEF NoticesInv, NoticesOK, CallsKeyed
<1>5. CASE /\ email' = [email EXCEPT ![k] = IF At(c, "sent") THEN "SENT" ELSE "FAILED"]
           /\ Finish(c)
  <2>1. /\ call' \in [Calls -> CallRow] /\ call'[c].at = "idle"
        /\ \A d \in Calls \ {c} : call'[d] = call[d]
    BY <1>0, <1>5, CallEnds
  <2>2. /\ email' \in [Emails -> {"none", "PENDING", "SENT", "FAILED"}]
        /\ email'[k] = "FAILED" \/ (email'[k] = "SENT" /\ k \in accepted)
        /\ \A j \in Emails \ {k} : email'[j] = email[j]
    <3>1. At(c, "sent") => k \in accepted
      BY <1>1 DEF At, NoticesInv, SendsAreTrue
    <3> QED
      BY <1>0, <1>5, <3>1 DEF NoticesOK
  <2>3. NoticesOK'
    BY <1>0, <1>2, <1>3, <2>1, <2>2 DEF NoticesOK, CallRow
  <2>4. CallsKeyed'
    BY <2>1 DEF NoticesInv, CallsKeyed, MailPlaces
  <2>5. \A d \in Calls : call'[d].at \in {"send", "sent"} => call'[d] = call[d]
    BY <2>1
  <2>6. \A d \in Calls : call[d].at = "send" => call[d].key \in Emails
    BY DEF NoticesInv, CallsKeyed, MailPlaces
  <2>7. SenderIsAlone'
    BY <1>2, <2>2, <2>5, <2>6 DEF NoticesInv, SenderIsAlone
  <2>8. SendsAreTrue' /\ EmailedOnce'
    BY <1>2, <2>2, <2>5 DEF NoticesInv, SendsAreTrue, EmailedOnce
  <2> QED
    BY <1>3, <2>3, <2>4, <2>7, <2>8 DEF NoticesInv
<1> QED
  BY <1>1, <1>4, <1>5 DEF Record
\* Every step of the members' side keeps the invariant.
LEMMA NoticesStepInv == ASSUME NoticesInv, NoticesNext PROVE NoticesInv'
<1>0. /\ NoticesOK /\ OneClaim /\ DevicesOK
      /\ call \in [Calls -> CallRow]
      /\ \A c \in Calls : call[c].at \in MailPlaces => call[c].key \in Emails
  BY DEF NoticesInv, NoticesOK, CallRow, CallsKeyed
<1>a. ASSUME UNCHANGED device PROVE DevicesOK' /\ OneClaim'
  BY <1>0, <1>a, DevicesStepInv
<1>1. ASSUME NEW u \in PhoneUsers, NEW f \in Fingerprints,
             Deregister(u, f) \/ \E t \in Tokens : Register(u, f, t), UNCHANGED noticeVars
      PROVE  NoticesInv'
  <2>1. DevicesOK' /\ OneClaim'
    BY <1>0, <1>1, DevicesStepInv
  <2> QED
    BY <1>0, <1>1, <2>1, QuietNoticesInv DEF noticeVars, NoticesOK
<1>2. ASSUME NEW ch \in Channels, NEW p \in Preferences, UpdatePreference(ch, p)
      PROVE  NoticesInv'
  <2>1. preference' \in [Channels -> Preferences]
    BY <1>0, <1>2 DEF UpdatePreference, NoticesOK
  <2> QED
    BY <1>0, <1>a, <1>2, <2>1, QuietNoticesInv DEF UpdatePreference, NoticesOK
<1>3. ASSUME TimePasses PROVE NoticesInv'
  <2>1. minute' \in 0 .. DayLength - 1
    BY <1>0, <1>3, NotificationsAssumption DEF TimePasses, NoticesOK
  <2> QED
    BY <1>0, <1>a, <1>3, <2>1, QuietNoticesInv DEF TimePasses, NoticesOK
<1>4. ASSUME NEW S \in SUBSET Events, MarkRead(S) PROVE NoticesInv'
  <2>1. inbox' \in [Events -> {"none", "unread", "read"}]
    BY <1>0, <1>4 DEF MarkRead, NoticesOK
  <2> QED
    BY <1>0, <1>a, <1>4, <2>1, QuietNoticesInv DEF MarkRead, NoticesOK
\* A call that moves without touching the emails.
<1>5. ASSUME NEW c \in Calls,
             /\ call' \in [Calls -> CallRow]
             /\ call'[c].at \notin {"send", "sent"}
             /\ call'[c].at \in MailPlaces => call'[c].key \in Emails
             /\ \A d \in Calls \ {c} : call'[d] = call[d],
             DevicesOK' /\ OneClaim',
             inbox' \in [Events -> {"none", "unread", "read"}],
             UNCHANGED <<preference, minute, email, sends, accepted>>
      PROVE  NoticesInv'
  <2>1. /\ \A d \in Calls : call'[d].at \in {"send", "sent"} => call'[d] = call[d]
        /\ \A d \in Calls : call'[d].at \in MailPlaces => call'[d].key \in Emails
    BY <1>0, <1>5
  <2> QED
    BY <1>0, <1>5, <2>1, QuietNoticesInv DEF NoticesOK
<1>6. ASSUME NEW c \in Calls, NEW place \in Places \ MailPlaces, Go(c, place) \/ Finish(c)
      PROVE  /\ call' \in [Calls -> CallRow]
             /\ call'[c].at \notin {"send", "sent"}
             /\ call'[c].at \in MailPlaces => call'[c].key \in Emails
             /\ \A d \in Calls \ {c} : call'[d] = call[d]
  BY <1>0, <1>6, CallMoves, CallEnds DEF MailPlaces
<1>7. ASSUME NEW c \in Calls,
             \/ \E k \in Emails : SendEmail(c, k)
             \/ \E k \in Events : Notify(c, k)
      PROVE  NoticesInv'
  <2>1. PICK place \in {"look", "in-app"}, k \in Emails \cup Events :
            Start(c, place, k) /\ (place = "look" => k \in Emails)
    BY <1>7 DEF SendEmail, Notify
  <2>2. [at |-> place, key |-> k, tokens |-> {}] \in CallRow
    BY DEF CallRow, Places
  <2>3. /\ call' = [call EXCEPT ![c] = [at |-> place, key |-> k, tokens |-> {}]]
        /\ UNCHANGED <<device, preference, minute, email, inbox, sends, accepted>>
    BY <2>1 DEF Start
  <2>4. /\ call' \in [Calls -> CallRow]
        /\ call'[c].at = place /\ call'[c].key = k
        /\ \A d \in Calls \ {c} : call'[d] = call[d]
    BY <1>0, <2>2, <2>3
  <2> QED
    BY <1>0, <1>a, <1>5, <2>1, <2>3, <2>4 DEF NoticesOK, MailPlaces
<1>8. ASSUME NEW c \in Calls, Look(c) PROVE NoticesInv'
  <2>1. call[c].at = "look" /\ call[c].key \in Emails
    BY <1>0, <1>8 DEF Look, At, MailPlaces
  <2>2. UNCHANGED <<device, preference, minute, email, inbox, sends, accepted>>
    BY <1>8 DEF Look
  <2>3. CASE Go(c, "create")
    <3>1. /\ call' \in [Calls -> CallRow]
          /\ call'[c].at = "create" /\ call'[c].key = call[c].key
          /\ \A d \in Calls \ {c} : call'[d] = call[d]
      BY <1>0, <2>3, CallMoves DEF Places
    <3> QED
      BY <1>0, <1>a, <1>5, <2>1, <2>2, <3>1 DEF NoticesOK
  <2>4. CASE Finish(c)
    <3>1. "idle" \in Places \ MailPlaces
      BY DEF Places, MailPlaces
    <3> QED
      BY <1>0, <1>a, <1>5, <1>6, <2>2, <2>4, <3>1 DEF NoticesOK
  <2> QED
    BY <1>8, <2>3, <2>4 DEF Look
<1>9. ASSUME NEW c \in Calls, DecideInApp(c) \/ DecidePush(c) \/ Crash(c) PROVE NoticesInv'
  <2>1. UNCHANGED <<device, preference, minute, email, inbox, sends, accepted>>
    BY <1>9 DEF DecideInApp, DecidePush, Crash
  <2>2. {"idle", "push", "insert", "tokens"} \subseteq Places \ MailPlaces
    BY DEF Places, MailPlaces
  <2>3. PICK place \in {"idle", "push", "insert", "tokens"} : Go(c, place) \/ Finish(c)
    BY <1>9 DEF DecideInApp, DecidePush, Crash
  <2> QED
    BY <1>0, <1>a, <1>5, <1>6, <2>1, <2>2, <2>3 DEF NoticesOK
<1>10. ASSUME NEW c \in Calls, InsertInApp(c) PROVE NoticesInv'
  <2>1. UNCHANGED <<device, preference, minute, email, sends, accepted>> /\ Go(c, "push")
    BY <1>10 DEF InsertInApp
  <2>2. "push" \in Places \ MailPlaces
    BY DEF Places, MailPlaces
  <2>3. inbox' \in [Events -> {"none", "unread", "read"}]
    BY <1>0, <1>10 DEF InsertInApp, Insert, NoticesOK
  <2> QED
    BY <1>a, <1>5, <1>6, <2>1, <2>2, <2>3
<1>11. ASSUME NEW c \in Calls,
              ReadTokens(c) \/ (\E dead \in SUBSET Tokens : Push(c, dead))
                  \/ (\E t \in Tokens : Release(c, t))
       PROVE  NoticesInv'
  <2>1. UNCHANGED <<preference, minute, email, inbox, sends, accepted>>
    BY <1>11 DEF ReadTokens, Push, Release
  <2>2. DevicesOK' /\ OneClaim'
    <3>1. CASE UNCHANGED device
      BY <1>a, <3>1
    <3>2. CASE \E t \in Tokens : ReleaseUnregisteredToken(t)
      BY <1>0, <3>2, DevicesStepInv
    <3> QED
      BY <1>11, <3>1, <3>2 DEF ReadTokens, Push, Release
  <2>3. CASE Finish(c)
    <3>1. "idle" \in Places \ MailPlaces
      BY DEF Places, MailPlaces
    <3> QED
      BY <1>0, <1>5, <1>6, <2>1, <2>2, <2>3, <3>1 DEF NoticesOK
  <2>4. ASSUME NEW place \in {"provider", "release"}, NEW T \in SUBSET Tokens,
               call' = [call EXCEPT ![c].at = place, ![c].tokens = T]
        PROVE  NoticesInv'
    <3>1. place \in Places \ MailPlaces
      BY DEF Places, MailPlaces
    <3>2. /\ call' \in [Calls -> CallRow] /\ call'[c].at = place
          /\ \A d \in Calls \ {c} : call'[d] = call[d]
      BY <1>0, <2>4, <3>1 DEF CallRow
    <3> QED
      BY <1>0, <1>5, <2>1, <2>2, <3>1, <3>2 DEF NoticesOK, MailPlaces
  <2>5. CASE ReadTokens(c)
    <3>1. PushTokensFor(Owner) \in SUBSET Tokens
      BY <1>0 DEF DevicesOK, PushTokensFor
    <3> QED
      BY <2>3, <2>4, <2>5, <3>1 DEF ReadTokens
  <2>6. ASSUME NEW dead \in SUBSET Tokens, Push(c, dead) PROVE NoticesInv'
    BY <2>3, <2>4, <2>6 DEF Push
  <2>7. ASSUME NEW t \in Tokens, Release(c, t) PROVE NoticesInv'
    <3>1. CASE call' = [call EXCEPT ![c].tokens = @ \ {t}]
      <4>1. /\ call' \in [Calls -> CallRow] /\ call'[c].at = "release"
            /\ \A d \in Calls \ {c} : call'[d] = call[d]
        BY <1>0, <2>7, <3>1 DEF CallRow, Release, At
      <4> QED
        BY <1>0, <1>5, <2>1, <2>2, <4>1 DEF NoticesOK, MailPlaces
    <3> QED
      BY <2>3, <2>7, <3>1 DEF Release
  <2> QED
    BY <1>11, <2>5, <2>6, <2>7
<1> QED
  BY <1>1, <1>2, <1>3, <1>4, <1>7, <1>8, <1>9, <1>10, <1>11, CreateKeepsNotices,
     SendKeepsNotices, RecordKeepsNotices DEF NoticesNext

-----------------------------------------------------------------------------
(* AdminFeed.                                                              *)

Open == {s \in Subjects : bell[s] = "open"}

\* A sweep that is under way and alone found all there is, as far as it reads,
\* and has opened what it has not left.
LoneSweepKnows ==
    \A w \in alone : sweep[w].at = "raise" =>
        /\ \A v \in Sweeps \ {w} : sweep[v].at = "idle"
        /\ Cardinality(outstanding) <= Take => sweep[w].found = outstanding
        /\ sweep[w].left \subseteq sweep[w].found
        /\ sweep[w].found \ sweep[w].left \subseteq Open

\* Between sweeps nothing is left to raise, and after a settling one no sweep
\* is under way.
SweepsRest ==
    \A w \in Sweeps : /\ sweep[w].at = "idle" => sweep[w].left = {}
                      /\ settled => sweep[w].at = "idle"

FeedInv == FeedOK /\ LoneSweepKnows /\ SweepsRest /\ BellIsCurrent

LEMMA FeedStepInv == ASSUME FeedInv, FeedNext PROVE FeedInv'
<1>0. FeedOK /\ alone \subseteq Sweeps
  BY DEF FeedInv, FeedOK
<1>1. ASSUME NEW p \in Staff,
             (\E s \in Subjects : MarkOneRead(p, s)) \/ FindUnread(p) \/ MarkFound(p)
      PROVE  FeedInv'
  <2>1. FeedUnchanged
    BY <1>1 DEF MarkOneRead, FindUnread, MarkFound
  <2>2. /\ seen' \in [Staff -> SUBSET Subjects]
        /\ reading' \in [Staff -> SUBSET Subjects]
    BY <1>0, <1>1 DEF FeedOK, MarkOneRead, FindUnread, MarkFound, Visible
  <2> QED
    BY <2>1, <2>2 DEF FeedInv, FeedOK, FeedUnchanged, LoneSweepKnows, SweepsRest,
       BellIsCurrent, Open
<1>2. ASSUME NEW s \in Subjects, Change(s) PROVE FeedInv'
  <2>1. FeedOK'
    BY <1>0, <1>2 DEF FeedOK, Change
  <2> QED
    BY <1>2, <2>1 DEF FeedInv, Change, LoneSweepKnows, SweepsRest, BellIsCurrent
<1>3. ASSUME NEW w \in Sweeps, NEW S \in SUBSET Subjects, SyncRead(w, S) PROVE FeedInv'
  <2>1. /\ sweep' \in [Sweeps -> [at: {"idle", "raise"}, found: SUBSET Subjects,
                                  left: SUBSET Subjects]]
        /\ sweep'[w] = [at |-> "raise", found |-> S, left |-> S]
        /\ \A v \in Sweeps \ {w} : sweep'[v] = sweep[v]
    BY <1>0, <1>3 DEF FeedOK, SyncRead
  <2>2. /\ UNCHANGED <<outstanding, bell, seen, reading>> /\ settled' = FALSE
        /\ alone' = IF \E v \in Sweeps : sweep[v].at # "idle" THEN {} ELSE {w}
    BY <1>3 DEF SyncRead
  <2>3. FeedOK'
    BY <1>0, <2>1, <2>2 DEF FeedOK
  <2>4. Cardinality(outstanding) <= Take => S = outstanding
    <3>1. IsFiniteSet(outstanding) /\ Cardinality(outstanding) \in Nat
      BY <1>0, FS_Subset, FS_CardinalityType, AdminFeedAssumption DEF FeedOK
    <3>2. S \subseteq outstanding
          /\ (Cardinality(outstanding) <= Take => Cardinality(S) = Cardinality(outstanding))
      BY <1>3, <3>1, AdminFeedAssumption DEF SyncRead, Least
    <3> QED
      BY <3>1, <3>2, FS_Subset
  <2>5. LoneSweepKnows'
    BY <2>1, <2>2, <2>4 DEF LoneSweepKnows
  <2>6. SweepsRest' /\ BellIsCurrent'
    BY <2>1, <2>2 DEF FeedInv, SweepsRest, BellIsCurrent
  <2> QED
    BY <2>3, <2>5, <2>6 DEF FeedInv
<1>4. ASSUME NEW w \in Sweeps, NEW s \in Subjects, Raise(w, s) PROVE FeedInv'
  <2>1. /\ sweep' \in [Sweeps -> [at: {"idle", "raise"}, found: SUBSET Subjects,
                                  left: SUBSET Subjects]]
        /\ sweep'[w].at = sweep[w].at /\ sweep'[w].found = sweep[w].found
        /\ sweep'[w].left = sweep[w].left \ {s}
        /\ \A v \in Sweeps \ {w} : sweep'[v] = sweep[v]
    BY <1>0, <1>4 DEF FeedOK, Raise
  <2>2. /\ bell' \in [Subjects -> {"none", "open", "resolved"}]
        /\ Open' = Open \cup {s}
    BY <1>0, <1>4 DEF FeedOK, Raise, Raised, Open
  <2>3. UNCHANGED <<outstanding, seen, reading, alone, settled>> /\ s \in sweep[w].left
    BY <1>4 DEF Raise
  <2>4. FeedOK'
    BY <1>0, <2>1, <2>2, <2>3 DEF FeedOK
  <2>5. sweep[w].at = "raise" /\ ~settled
    BY <1>0, <2>3 DEF FeedInv, FeedOK, SweepsRest
  <2>6. LoneSweepKnows'
    <3> SUFFICES ASSUME NEW v \in alone, sweep'[v].at = "raise"
                 PROVE  /\ \A x \in Sweeps \ {v} : sweep'[x].at = "idle"
                        /\ Cardinality(outstanding) <= Take => sweep'[v].found = outstanding
                        /\ sweep'[v].left \subseteq sweep'[v].found
                        /\ sweep'[v].found \ sweep'[v].left \subseteq Open'
      BY <2>3 DEF LoneSweepKnows
    <3>1. v = w
      BY <1>0, <2>1, <2>5 DEF FeedInv, LoneSweepKnows
    <3> QED
      BY <2>1, <2>2, <2>5, <3>1 DEF FeedInv, LoneSweepKnows
  <2>7. SweepsRest' /\ BellIsCurrent'
    BY <2>1, <2>3, <2>5 DEF FeedInv, SweepsRest, BellIsCurrent
  <2> QED
    BY <2>4, <2>6, <2>7 DEF FeedInv
<1>5. ASSUME NEW w \in Sweeps, ResolveHandled(w) PROVE FeedInv'
  <2>1. /\ sweep' \in [Sweeps -> [at: {"idle", "raise"}, found: SUBSET Subjects,
                                  left: SUBSET Subjects]]
        /\ sweep'[w].at = "idle" /\ sweep'[w].left = {}
        /\ \A v \in Sweeps \ {w} : sweep'[v] = sweep[v]
    BY <1>0, <1>5 DEF FeedOK, ResolveHandled, Asleep
  <2>2. /\ bell' \in [Subjects -> {"none", "open", "resolved"}]
        /\ Open' = Open \cap sweep[w].found
    BY <1>0, <1>5 DEF FeedOK, ResolveHandled, Open
  <2>3. /\ UNCHANGED <<outstanding, seen, reading, alone>> /\ settled' = (w \in alone)
        /\ sweep[w].at = "raise" /\ sweep[w].left = {}
    BY <1>5 DEF ResolveHandled
  <2>4. FeedOK'
    BY <1>0, <2>1, <2>2, <2>3 DEF FeedOK
  <2>5. \A v \in alone : sweep'[v].at # "raise"
    BY <1>0, <2>1, <2>3 DEF FeedInv, LoneSweepKnows
  <2>6. LoneSweepKnows'
    BY <2>3, <2>5 DEF LoneSweepKnows
  <2>7. SweepsRest'
    BY <1>0, <2>1, <2>3 DEF FeedInv, SweepsRest, LoneSweepKnows
  <2>8. BellIsCurrent'
    <3> SUFFICES ASSUME w \in alone, Cardinality(outstanding) <= Take PROVE Open' = outstanding
      BY <2>3 DEF BellIsCurrent, Open
    <3>1. sweep[w].found = outstanding /\ sweep[w].found \subseteq Open
      BY <2>3 DEF FeedInv, LoneSweepKnows
    <3> QED
      BY <2>2, <3>1
  <2> QED
    BY <2>4, <2>6, <2>7, <2>8 DEF FeedInv
<1> QED
  BY <1>1, <1>2, <1>3, <1>4, <1>5 DEF FeedNext

-----------------------------------------------------------------------------
(* Notices.                                                                *)

LEMMA MessagesInitInv == MessagesInit => NoticesInv /\ FeedInv
<1> SUFFICES ASSUME MessagesInit PROVE NoticesInv /\ FeedInv
  OBVIOUS
<1> USE DEF MessagesInit
<1>1. DevicesOK /\ OneClaim
  BY DEF NoticesInit, DevicesInit, DevicesOK, OneClaim
<1>2. call \in [Calls -> CallRow] /\ \A c \in Calls : call[c].at = "idle"
  <2>1. Idle \in CallRow /\ Idle.at = "idle"
    BY DEF Idle, CallRow, Places
  <2> QED
    BY <2>1 DEF NoticesInit
<1>3. NoticesOK
  BY <1>1, <1>2, NotificationsAssumption DEF NoticesInit, NoticesOK, CallRow, Channels, Preferences
<1>4. CallsKeyed /\ SenderIsAlone /\ SendsAreTrue /\ EmailedOnce
  BY <1>2 DEF NoticesInit, CallsKeyed, MailPlaces, SenderIsAlone, SendsAreTrue, EmailedOnce
<1>5. FeedOK
  BY DEF FeedInit, FeedOK, Asleep
<1>6. LoneSweepKnows /\ SweepsRest /\ BellIsCurrent
  BY DEF FeedInit, Asleep, LoneSweepKnows, SweepsRest, BellIsCurrent
<1> QED
  BY <1>1, <1>3, <1>4, <1>5, <1>6 DEF NoticesInv, FeedInv

\* The invariants of both sides, which share no variable.
THEOREM MessagesInvariantHolds == MessagesSpec => [](NoticesInv /\ FeedInv)
<1>1. ASSUME NoticesInv, UNCHANGED <<device, noticeVars>> PROVE NoticesInv'
  <2>1. DevicesOK' /\ OneClaim'
    BY <1>1, DevicesStepInv DEF NoticesInv, NoticesOK
  <2> QED
    BY <1>1, <2>1, QuietNoticesInv DEF noticeVars, NoticesInv, NoticesOK, CallRow, CallsKeyed
<1>2. ASSUME FeedInv, UNCHANGED feedVars PROVE FeedInv'
  BY <1>2 DEF feedVars, FeedInv, FeedOK, LoneSweepKnows, SweepsRest, BellIsCurrent, Open
<1>3. ASSUME NoticesInv, FeedInv, [MessagesNext]_messageVars PROVE NoticesInv' /\ FeedInv'
  BY <1>1, <1>2, <1>3, NoticesStepInv, FeedStepInv DEF MessagesNext, messageVars
<1> QED
  BY <1>3, MessagesInitInv, PTL DEF MessagesSpec

\* A push token is claimed by one installation of one user, whatever phones,
\* registrations and releases of dead tokens come by.
THEOREM TokensAreClaimedOnce == MessagesSpec => []OneClaim
<1>1. NoticesInv => OneClaim
  BY DEF NoticesInv
<1> QED
  BY <1>1, MessagesInvariantHolds, PTL

\* An email reaches the provider at most once under its key, and SENT is true,
\* for any number of repeated, overlapping and dying calls.
THEOREM EmailsGoOutOnce == MessagesSpec => []EmailedOnce
<1>1. NoticesInv => EmailedOnce
  BY DEF NoticesInv
<1> QED
  BY <1>1, MessagesInvariantHolds, PTL

\* After a sync that nothing ran beside, the bell shows what is outstanding.
THEOREM BellsAreCurrent == MessagesSpec => []BellIsCurrent
<1>1. FeedInv => BellIsCurrent
  BY DEF FeedInv
<1> QED
  BY <1>1, MessagesInvariantHolds, PTL

\* Type correctness of both sides.
THEOREM MessagesAreTyped == MessagesSpec => []MessagesOK
<1>1. NoticesInv /\ FeedInv => MessagesOK
  BY DEF NoticesInv, FeedInv, MessagesOK
<1> QED
  BY <1>1, MessagesInvariantHolds, PTL

\* A time less than two days on is at most one day past midnight.
LEMMA RoundTheClock ==
    ASSUME NEW day \in Nat \ {0}, NEW t \in 0 .. 2 * day - 1
    PROVE  t % day = IF t < day THEN t ELSE t - day
OBVIOUS

\* isWithinQuietHours, over midnight or not, holds of the minutes that are fewer
\* after the start than the end is, for a day of any length.
THEOREM QuietHoursWrap ==
    ASSUME NEW m \in 0 .. DayLength - 1, NEW start \in 0 .. DayLength - 1,
           NEW end \in 0 .. DayLength - 1, start # end
    PROVE  IsWithinQuietHours(m, start, end)
             <=> (m - start + DayLength) % DayLength < (end - start + DayLength) % DayLength
<1> DEFINE passed == m - start + DayLength
           length == end - start + DayLength
<1>0. DayLength \in Nat \ {0}
  BY NotificationsAssumption
<1>1. passed \in 0 .. 2 * DayLength - 1 /\ length \in 0 .. 2 * DayLength - 1
  BY <1>0
<1>2. passed % DayLength = IF passed < DayLength THEN passed ELSE passed - DayLength
  BY <1>0, <1>1, RoundTheClock
<1>3. length % DayLength = IF length < DayLength THEN length ELSE length - DayLength
  BY <1>0, <1>1, RoundTheClock
<1>4. passed < DayLength <=> m < start
  BY <1>0
<1>5. length < DayLength <=> end < start
  BY <1>0
<1>6. passed % DayLength = IF m < start THEN m - start + DayLength ELSE m - start
  BY <1>0, <1>2, <1>4
<1>7. length % DayLength = IF end < start THEN end - start + DayLength ELSE end - start
  BY <1>0, <1>3, <1>5
<1> DEFINE p == passed % DayLength
           l == length % DayLength
<1> HIDE DEF p, l
<1>8. IsWithinQuietHours(m, start, end) <=> p < l
  BY <1>0, <1>6, <1>7 DEF IsWithinQuietHours, p, l
<1> QED
  BY <1>8 DEF p, l
=============================================================================
